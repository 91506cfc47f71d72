------------------------------- MODULE PupHost -------------------------------
(* The host program around the upload: options (parse_opts), the search for *)
(* the serial port and the reset of the board (host_linux.c, host_macos.c), *)
(* the inspection of the file that is to be sent (main), the chunks the     *)
(* device asks for (platform_marshal), and what happens after the upload.   *)
(* fsm_upload itself is PupProtocol; here it is the device asking for       *)
(* chunks 0, 1, ... and an answer at the end.                               *)
EXTENDS Integers, Sequences, FiniteSets

CONSTANTS
    Tokens,     \* the arguments that may be given
    MaxArgs,    \* how many
    Numbers,    \* tokens that strtoull accepts, with their value
    Files,      \* paths that open, with what is behind them
    Ttys,       \* the serial ports: path, serial (or None), state, pty
    None,
    Chunk,      \* sizeof staging, 0xffff
    SizeMod,    \* 2^32: sizes in meta_t are 32 bits wide
    MaxBaud, MaxRetries, DefaultAddr

VARIABLES
    os,       \* which of the two host_*.c files is compiled
    nargs,    \* arguments parsed so far
    curr,     \* the option that waits for its value
    opts,     \* opts_t
    wants,    \* what the last -d asked for, or None (history)
    held,     \* the ports this process has open, exclusively
    reset,    \* the ports that were reset
    pos,      \* the offset of inp_fd
    meta,     \* meta_t, None before it is filled
    sent,     \* the byte ranges platform_marshal has returned
    pc

vars == <<os, nargs, curr, opts, wants, held, reset, pos, meta, sent, pc>>
filevars == <<pos, meta, sent>>
envvars == <<os, wants, held, reset>>

Min2(a, b) == IF a < b THEN a ELSE b
Unset == -1                                  \* ~0ULL, the load address nobody gave
File == Files[opts.inp]

------------------------------------------------------------------------------
(* Serial ports.                                                            *)

\* open_serial_dev of host_linux.c: open, lock, take O_NONBLOCK back, read the
\* attributes and set them raw; any failure closes the port again.
OpensLinux(t) == t.state = "ok" /\ t \notin held

\* open_serial_dev of host_macos.c also sets the speed, unless the port is
\* said to be a pty; a pty refuses that.
OpensMacos(t) == t.state = "ok" /\ t \notin held /\ (t.pty => opts.pty)

Opens(t) == IF os = "linux" THEN OpensLinux(t) ELSE OpensMacos(t)

\* The first port, in the order the system lists them, that has a USB serial
\* number, and the right one if a number is asked for.
FindEnumerative(needle) == {t \in Ttys : t.serial # None /\ needle \in {None, t.serial}}
FindAuto == {t \in Ttys : t.serial # None}
FindFuzzy(string) == {t \in Ttys : t.serial = string}

Enumerated(needle) == IF os = "linux" THEN FindEnumerative(needle)
                      ELSE IF needle = None THEN FindAuto ELSE FindFuzzy(needle)

WithPath(path) == {t \in Ttys : t.path = path /\ t.state # "notchr"}

\* A plausible bug: a serial number finds any port that has one.
FoundAny(dev) == IF dev = None \/ dev.by = "serial" THEN Enumerated(None) ELSE WithPath(dev.what)

\* find_serial_device: a path, a serial number, or nothing.
Found(dev) == IF dev = None THEN Enumerated(None)
              ELSE IF dev.by = "serial" THEN Enumerated(dev.what) ELSE WithPath(dev.what)

\* It succeeds with one of the ports found, or the program ends.
FindSerialDevice(dev, next) ==
    \/ \E t \in Found(dev) :
         /\ Opens(t)
         /\ held' = held \cup {t}
         /\ opts' = [opts EXCEPT !.fd = t, !.devPath = t.path]
         /\ pc' = next
    \/ /\ (Found(dev) = {} \/ \E t \in Found(dev) : ~Opens(t))
       /\ pc' = "exit" /\ UNCHANGED <<held, opts>>

------------------------------------------------------------------------------
(* parse_opts.                                                              *)

Usage(o) == [o EXCEPT !.usage = TRUE]

\* The value of -a, -B or -R.
SetNumber(o, v) ==
    CASE curr = "LOAD" -> [o EXCEPT !.addr = v]
      [] curr = "CON_BAUD" -> IF v > MaxBaud THEN Usage(o) ELSE [o EXCEPT !.baud = v]
      [] curr = "RETRIES" -> IF v > MaxRetries THEN Usage(o) ELSE [o EXCEPT !.retries = v]

OptionValue(a) ==
    /\ curr \in {"LOAD", "CON_BAUD", "RETRIES"}
    /\ opts' = IF a \in DOMAIN Numbers THEN SetNumber(opts, Numbers[a]) ELSE Usage(opts)
    /\ curr' = "NONE"
    /\ UNCHANGED <<envvars, pc>>

DeviceValue(a) ==
    /\ curr = "DEV"
    /\ LET dev == IF a \in {t.serial : t \in Ttys} THEN [by |-> "serial", what |-> a]
                  ELSE [by |-> "path", what |-> a]
       IN  wants' = dev /\ FindSerialDevice(dev, "parse")
    /\ curr' = "NONE"
    /\ UNCHANGED <<os, reset>>

\* A flag, an option that takes a value, or the file.  -R stores the option's
\* number in opts.debug and does not wait for a value.
Positional(a) == IF opts.inp # None \/ a \notin DOMAIN Files THEN Usage(opts)
                 ELSE [opts EXCEPT !.inp = a]

OptionName(a) ==
    /\ curr = "NONE"
    /\ curr' = CASE a = "-B" -> "CON_BAUD" [] a = "-a" -> "LOAD" [] a = "-d" -> "DEV"
                 [] OTHER -> "NONE"
    /\ opts' = CASE a = "-h" -> Usage(opts)
                 [] a = "-H" -> [opts EXCEPT !.headless = TRUE]
                 [] a = "-p" -> [opts EXCEPT !.pty = TRUE]
                 [] a = "-D" -> [opts EXCEPT !.debug = 2]
                 [] a = "-q" -> [opts EXCEPT !.debug = 0]
                 [] a = "-R" -> [opts EXCEPT !.debug = 4]
                 [] a = "-r" -> [opts EXCEPT !.reset = TRUE]
                 [] a \in {"-B", "-a", "-d"} -> opts
                 [] OTHER -> Positional(a)
    /\ UNCHANGED <<envvars, pc>>

ParseArg == /\ pc = "parse" /\ nargs < MaxArgs
            /\ nargs' = nargs + 1
            /\ \E a \in Tokens : OptionValue(a) \/ DeviceValue(a) \/ OptionName(a)
            /\ UNCHANGED filevars

ParseDone == /\ pc = "parse"
             /\ opts' = IF nargs = 0 \/ curr # "NONE" THEN Usage(opts) ELSE opts
             /\ pc' = IF opts'.usage THEN "exit" ELSE "device"
             /\ UNCHANGED <<envvars, nargs, curr, filevars>>

------------------------------------------------------------------------------
(* main.                                                                    *)

\* Without -d, any port that enumeration finds.
PickDevice == /\ pc = "device"
              /\ IF opts.fd = None THEN FindSerialDevice(None, "reset")
                 ELSE pc' = "reset" /\ UNCHANGED <<opts, held>>
              /\ UNCHANGED <<os, wants, reset, nargs, curr, filevars>>

\* reset_tianleboard of host_linux.c looks up the port behind an uninitialised
\* descriptor: nothing usable, or any port this process has open.
ResetLinux == IF os = "linux" THEN held ELSE {}

\* reset_tianleboard of host_macos.c asks for the path behind its argument.
ResetMacos == IF os = "macos" /\ opts.fd.serial # None THEN {opts.fd} ELSE {}

Reset == /\ pc = "reset"
         /\ IF opts.reset
              THEN \/ \E t \in ResetLinux \cup ResetMacos :
                        t.serial # None /\ reset' = reset \cup {t} /\ pc' = "stat"
                   \/ pc' = "exit" /\ UNCHANGED reset
              ELSE pc' = "stat" /\ UNCHANGED reset
         /\ UNCHANGED <<os, wants, held, nargs, curr, opts, filevars>>

\* crc32 of the bytes of the file in a range: an ideal checksum, which names
\* what it was computed over.
crc32(from, to) == <<from, to>>

\* input_crc reads from the offset to the end.
InputCrc == crc32(pos, File.size)

\* fstat fails without a file.
StatAndCrc ==
    /\ pc = "stat"
    /\ IF opts.inp = None THEN pc' = "exit" /\ UNCHANGED <<pos, meta>>
       ELSE /\ meta' = [wire |-> File.size % SizeMod, crc |-> InputCrc]
            /\ pos' = File.size
            /\ pc' = "inspect"
    /\ UNCHANGED <<envvars, nargs, curr, opts, sent>>

\* is_xz_file looks at the first six bytes, is_elf_file at the first four of
\* what they hold; a damaged .xz file ends the program.
IsXz == File.xz
IsElf == File.elf /\ File.mem >= 4

\* A plausible bug: the size in memory is taken to be the size on the wire.
MemSizeOnWire == File.size

MemSize == IF IsXz THEN File.mem ELSE File.size

Inspect ==
    /\ pc = "inspect"
    /\ \/ /\ IsXz /\ ~File.sound
          /\ pc' = "exit" /\ UNCHANGED <<opts, meta>>
       \/ /\ ~IsXz \/ File.sound
          /\ IsElf /\ opts.addr # Unset
          /\ pc' = "exit" /\ UNCHANGED <<opts, meta>>
       \/ /\ ~IsXz \/ File.sound
          /\ ~IsElf \/ opts.addr = Unset
          /\ opts' = IF ~IsElf /\ opts.addr = Unset THEN [opts EXCEPT !.addr = DefaultAddr] ELSE opts
          /\ meta' = [wire |-> meta.wire, crc |-> meta.crc, mem |-> MemSize % SizeMod,
                      xz |-> IsXz, elf |-> IsElf,
                      addr |-> IF IsElf THEN Unset ELSE opts'.addr]
          /\ pc' = "upload"
    /\ pos' = IF IsXz THEN 0 ELSE pos
    /\ UNCHANGED <<envvars, nargs, curr, sent>>

\* platform_marshal: what pread gives at the chunk's offset.  Nothing there
\* would end the program; ChunksCoverFile says that no chunk is empty.

\* A plausible bug: the last, partial chunk is not counted.
ChunkCountFloor == meta.wire \div Chunk

ChunkCount == (meta.wire + Chunk - 1) \div Chunk
ChunkRange(k) == <<k * Chunk, Min2((k + 1) * Chunk, File.size)>>

PlatformMarshal ==
    /\ pc = "upload"
    /\ Len(sent) < ChunkCount
    /\ sent' = Append(sent, ChunkRange(Len(sent)))
    /\ UNCHANGED <<envvars, nargs, curr, opts, pos, meta, pc>>

\* fsm_upload answers; UPLOAD_OK needs every chunk.
UploadEnds ==
    /\ pc = "upload"
    /\ \/ Len(sent) = ChunkCount /\ pc' = "booted"
       \/ pc' = "exit"                        \* UPLOAD_TIMEOUT, UPLOAD_FAILED
    /\ UNCHANGED <<envvars, nargs, curr, opts, filevars>>

\* Unless headless, the port is closed and picocom replaces the program.
Console == /\ pc = "booted"
           /\ IF opts.headless THEN pc' = "success" /\ UNCHANGED held
              ELSE held' = held \ {opts.fd} /\ pc' = "console"
           /\ UNCHANGED <<os, wants, reset, nargs, curr, opts, filevars>>

------------------------------------------------------------------------------
Init == /\ os \in {"linux", "macos"}
        /\ nargs = 0 /\ curr = "NONE" /\ pc = "parse"
        /\ opts = [inp |-> None, fd |-> None, devPath |-> None, addr |-> Unset, pty |-> FALSE,
                   headless |-> FALSE, baud |-> 115200, debug |-> 1, retries |-> 10,
                   usage |-> FALSE, reset |-> FALSE]
        /\ wants = None /\ held = {} /\ reset = {}
        /\ pos = 0 /\ meta = None /\ sent = <<>>

Next == \/ ParseArg \/ ParseDone \/ PickDevice \/ Reset \/ StatAndCrc \/ Inspect
        \/ PlatformMarshal \/ UploadEnds \/ Console

Spec == Init /\ [][Next]_vars /\ WF_vars(Next)

------------------------------------------------------------------------------
\* The program's control state, and the ports it has touched are ports it has
\* opened.
TypeOK == /\ pc \in {"parse", "device", "reset", "stat", "inspect", "upload", "booted",
                     "exit", "success", "console"}
          /\ held \subseteq Ttys /\ reset \subseteq held \cup {opts.fd}
          /\ curr \in {"NONE", "DEV", "LOAD", "CON_BAUD", "RETRIES"}

\* What is announced to the device describes the file, whatever the options
\* and wherever the inspection left the file offset: its size on the wire and
\* in memory, its format, a load address exactly when it is flat, and for a file
\* that is not packed a checksum of all of it (main; files of less than 2^32
\* bytes).  Of a packed file the checksum is CrcOfImage's subject.
MetaDescribesFile ==
    pc \in {"upload", "booted"} =>
        /\ meta.wire = File.size /\ meta.mem = File.mem
        /\ ~File.xz => meta.crc = crc32(0, File.size)
        /\ meta.xz = File.xz
        /\ (meta.addr = Unset) = meta.elf

\* What the header announces mem_crc32 to be (common.h:46, "CRC32 of
\* (uncompressed) image").  input_crc reads the file as it is, so for a packed
\* file this does not hold.
ImageCrc == IF File.xz THEN <<"unpacked", 0, File.mem>> ELSE crc32(0, File.size)
CrcOfImage == pc \in {"upload", "booted"} => meta.crc = ImageCrc

\* The chunks the device asks for cover the announced bytes exactly once, in
\* order, and none of them is empty or longer than a frame can carry
\* (platform_marshal against fsm_download's chunk count).
ChunksCoverFile ==
    pc \in {"upload", "booted", "success", "console"} =>
        /\ \A k \in 1 .. Len(sent) :
             /\ sent[k][1] = IF k = 1 THEN 0 ELSE sent[k - 1][2]
             /\ sent[k][2] - sent[k][1] \in 1 .. Chunk
        /\ pc # "upload" => File.size = IF sent = <<>> THEN 0 ELSE sent[Len(sent)][2]

\* The port that gets the upload and the console afterwards is the one that
\* was asked for last, or one with a USB serial number if none was asked for
\* (parse_opts, find_serial_device, main).
RightDevice ==
    pc \in {"upload", "booted", "success", "console"} =>
        /\ opts.fd.path = opts.devPath
        /\ IF wants = None THEN opts.fd.serial # None
           ELSE wants.what = IF wants.by = "serial" THEN opts.fd.serial ELSE opts.fd.path
        /\ pc = "console" => opts.fd \notin held
==============================================================================
