------------------------------ MODULE PartsProofs ------------------------------
(***************************************************************************)
(* The programs around the upload, for all values of their constants: what *)
(* the mailbox and the DMA channels report is theirs.                      *)
(***************************************************************************)
EXTENDS Parts, NumberFacts, SequenceTheorems, FiniteSetTheorems

\* A step of one program is no step of another.
LEMMA OneProgram ==
    ASSUME [Next]_vars
    PROVE  /\ part' = part
           /\ part = "host" => H!Next \/ UNCHANGED hostvars
           /\ part = "check" => I!IntegNext \/ UNCHANGED checkvars
           /\ part = "box" => M!MailNext \/ UNCHANGED boxvars
           /\ part = "dma" => D!ChanNext \/ UNCHANGED dmavars
           /\ part = "clock" => C!TimerNext \/ UNCHANGED clockvars
           /\ part = "scratch" => A!ArenaNext \/ UNCHANGED scratchvars
           /\ part = "pages" => P!PpaNext \/ UNCHANGED pagevars
  <1>1. CASE UNCHANGED vars
    BY <1>1 DEF vars
  <1>2. CASE Next
    BY <1>2 DEF Next, HostStep, PageStep, CheckStep, ClockStep, BoxStep, DmaStep, ScratchStep
  <1>3. QED
    BY <1>1, <1>2

-----------------------------------------------------------------------------
(* Mailbox *)

\* The line of the buffer that holds the tag's code and its value: in memory,
\* and in the cache if it is there.
TagLine == M!LineOf("value")
InMemory(word) == mem[TagLine][word]
InCache(word) == cache[TagLine].words[word]
Cached == cache[TagLine].state # "absent"

\* Code and value of the line belong together, wherever it is; there is no
\* answer before VideoCore answers; a clean line is not ahead of memory; and
\* once the code was found good it stays so.
BoxInv ==
    /\ DOMAIN mem = M!Lines /\ DOMAIN cache = M!Lines
    /\ \A l \in M!Lines : cache[l].state \in {"absent", "clean", "dirty"}
    /\ vc # "idle" => mailPc = "wait"
    /\ mailPc \in M!Waiting =>
         /\ InMemory("tagcode") = "response" => InMemory("value") = Right[tag]
         /\ Cached /\ InCache("tagcode") = "response" => InCache("value") = Right[tag]
         /\ cache[TagLine].state = "clean" /\ InCache("tagcode") = "response" =>
              InMemory("tagcode") = "response"
    /\ mailPc = "write" \/ vc = "asked" =>
         /\ InMemory("tagcode") # "response"
         /\ Cached => InCache("tagcode") # "response"
    /\ mailPc = "value" => M!Seen("tagcode") = "response"
    /\ M!ReplyFresh

LEMMA BoxInit == M!MailInit => BoxInv
  BY DEF M!MailInit, BoxInv, M!Waiting, M!ReplyFresh, Cached, InMemory, InCache, TagLine,
         M!Flushed, M!Absent, M!Lines, M!LineOf, M!Request

LEMMA BoxStepKeeps ==
    ASSUME BoxInv, M!MailNext \/ UNCHANGED boxvars
    PROVE  BoxInv'
  <1> USE DEF M!Lines, M!Words, M!LineOf, TagLine, InMemory, InCache, Cached, M!Seen
  <1>1. CASE M!FillAndFlush
    BY <1>1 DEF BoxInv, M!FillAndFlush, M!Flushed, M!Absent, M!Request, M!Waiting, M!ReplyFresh
  <1>2. CASE M!MboxWrite
    BY <1>2 DEF BoxInv, M!MboxWrite, M!Waiting, M!ReplyFresh
  <1>3. CASE M!VcAnswer
    <2>1. mailPc = "wait" /\ mailPc' = "wait" /\ cache' = cache /\ tag' = tag
          /\ aligned' = aligned /\ vc = "asked" /\ vc' = "answered"
      BY <1>3 DEF BoxInv, M!VcAnswer
    <2>2. PICK a \in {[bufcode |-> "REQUEST_OK", tagcode |-> "response", value |-> Right[tag]],
                      [bufcode |-> "REQUEST_OK", tagcode |-> "request", value |-> "none"],
                      [bufcode |-> "REQUEST_ERR", tagcode |-> "request", value |-> "none"]} :
            mem' = [l \in M!Lines |-> [w \in M!Words |->
                      IF M!LineOf(w) = l THEN a[w] ELSE mem[l][w]]]
      BY <1>3 DEF M!VcAnswer
    <2>3. InMemory("tagcode")' = a["tagcode"] /\ InMemory("value")' = a["value"]
      BY <2>1, <2>2
    <2>4. a["tagcode"] = "response" => a["value"] = Right[tag]
      BY <2>2
    <2>5. DOMAIN mem' = M!Lines
      BY <2>2
    <2>6. QED
      BY <2>1, <2>3, <2>4, <2>5 DEF BoxInv, M!Waiting, M!ReplyFresh
  <1>4. CASE M!MboxRead
    BY <1>4 DEF BoxInv, M!MboxRead, M!Waiting, M!ReplyFresh
  <1>5. CASE M!ReadCode
    BY <1>5 DEF BoxInv, M!ReadCode, M!Waiting, M!ReplyFresh
  <1>6. CASE M!CopyTag
    BY <1>6 DEF BoxInv, M!CopyTag, M!Waiting, M!ReplyFresh, M!TagAnswered
  <1>7. CASE M!CopyValue
    BY <1>7 DEF BoxInv, M!CopyValue, M!Waiting, M!ReplyFresh
  <1>8. CASE M!Return
    BY <1>8 DEF BoxInv, M!Return, M!Waiting, M!ReplyFresh
  <1>9. CASE M!Refill
    <2>1. PICK l \in M!Lines, d \in {"clean", "dirty"} :
            /\ cache[l].state = "absent"
            /\ cache' = [cache EXCEPT ![l] = [state |-> d, words |-> mem[l]]]
      BY <1>9 DEF M!Refill
    <2>2. /\ mailPc \in M!Waiting /\ mailPc' = mailPc /\ mem' = mem /\ tag' = tag
          /\ aligned' = aligned /\ vc' = vc /\ got' = got
      BY <1>9 DEF M!Refill
    <2>3. QED
      BY <2>1, <2>2 DEF BoxInv, M!Waiting, M!ReplyFresh
  <1>10. CASE M!Evict
    <2>1. PICK l \in M!Lines :
            /\ cache[l].state # "absent"
            /\ cache' = [cache EXCEPT ![l] = M!Absent]
            /\ mem' = IF cache[l].state = "dirty" THEN [mem EXCEPT ![l] = cache[l].words] ELSE mem
      BY <1>10 DEF M!Evict
    <2>2. /\ mailPc \in M!Waiting /\ mailPc' = mailPc /\ tag' = tag
          /\ aligned' = aligned /\ vc' = vc /\ got' = got
      BY <1>10 DEF M!Evict
    <2>3. /\ DOMAIN mem' = M!Lines /\ DOMAIN cache' = M!Lines
          /\ \A x \in M!Lines : cache'[x].state \in {"absent", "clean", "dirty"}
      BY <2>1 DEF BoxInv, M!Absent
    <2>4. CASE l = TagLine
      <3>1. cache'[TagLine].state = "absent"
        BY <2>1, <2>4 DEF BoxInv, M!Absent
      <3>2. CASE cache[l].state = "dirty"
        <4>1. mem'[TagLine] = cache[TagLine].words
          BY <2>1, <2>4, <3>2 DEF BoxInv
        <4>2. QED
          BY <2>1, <2>2, <2>3, <2>4, <3>1, <4>1 DEF BoxInv, M!Waiting, M!ReplyFresh
      <3>3. CASE cache[l].state # "dirty"
        <4>1. mem' = mem
          BY <2>1, <3>3
        <4>2. mailPc = "value" => InMemory("tagcode") = "response"
          BY <2>1, <2>4, <3>3 DEF BoxInv, M!Waiting
        <4>3. QED
          BY <2>1, <2>2, <2>3, <2>4, <3>1, <4>1, <4>2 DEF BoxInv, M!Waiting, M!ReplyFresh
      <3>4. QED
        BY <3>2, <3>3
    <2>5. CASE l # TagLine
      <3>1. cache'[TagLine] = cache[TagLine] /\ mem'[TagLine] = mem[TagLine]
        BY <2>1, <2>5 DEF BoxInv
      <3>2. QED
        BY <2>2, <2>3, <3>1 DEF BoxInv, M!Waiting, M!ReplyFresh
    <2>6. QED
      BY <2>4, <2>5
  <1>11. CASE UNCHANGED boxvars
    BY <1>11 DEF BoxInv, boxvars, M!Waiting, M!ReplyFresh
  <1>12. QED
    BY <1>1, <1>2, <1>3, <1>4, <1>5, <1>6, <1>7, <1>8, <1>9, <1>10, <1>11 DEF M!MailNext

-----------------------------------------------------------------------------
(* DMA channels *)

\* Reservations are of channels their client was given, every run is of one of
\* them, and a run starts with an empty debug register.
DmaInv ==
    /\ res \in [D!Chans -> {None, "VideoCore"} \cup Clients]
    /\ debug \in [D!Chans -> SUBSET D!Errors]
    /\ rsvs \subseteq [chan : D!Chans, who : Clients, lite : BOOLEAN]
    /\ run \in [chan : D!Chans, met : SUBSET D!Errors,
                status : SUBSET (D!Errors \cup {"ANY", "OUTSTANDING_WRITES", "PAUSED_FOR_DREQ"})]
    /\ chanPc \in {"idle", "active", "stopped", "panic"}
    /\ ~didInit => rsvs = {}
    /\ chanPc = "active" => debug[run.chan] = {} /\ run.met = {}
    /\ chanPc = "stopped" => debug[run.chan] = run.met
    /\ D!ReservationsApart
    /\ D!StatusFresh

LEMMA DmaInit == D!ChanInit => DmaInv
  BY DmaAssumption DEF D!ChanInit, DmaInv, D!ReservationsApart, D!StatusFresh, D!Chans, D!Errors

LEMMA DmaStepKeeps ==
    ASSUME DmaInv, D!ChanNext \/ UNCHANGED dmavars
    PROVE  DmaInv'
  <1>1. CASE D!InitChannels
    <2>1. rsvs = {} /\ rsvs' = {} /\ debug' = debug /\ run' = run /\ chanPc' = chanPc
          /\ chanPc = "idle" /\ didInit'
      BY <1>1 DEF DmaInv, D!InitChannels
    <2>2. res' \in [D!Chans -> {None, "VideoCore"} \cup Clients]
      BY <1>1 DEF D!InitChannels
    <2>3. QED
      BY <2>1, <2>2 DEF DmaInv, D!ReservationsApart, D!StatusFresh
  <1>2. ASSUME NEW who \in Clients, NEW lite \in BOOLEAN, D!Acquire(who, lite) PROVE DmaInv'
    <2> DEFINE usable == D!Usable(lite)
               c == D!Min(usable)
               rsv == [chan |-> c, who |-> who, lite |-> lite]
    <2>1. /\ usable # {} /\ didInit /\ didInit' = didInit /\ debug' = debug /\ run' = run
          /\ chanPc' = chanPc /\ chanPc = "idle"
          /\ res' = [res EXCEPT ![c] = who] /\ rsvs' = rsvs \cup {rsv}
      BY <1>2 DEF D!Acquire
    <2>2. c \in usable
      <3>1. usable \subseteq Nat
        BY DmaAssumption DEF D!Usable, D!Chans
      <3> HIDE DEF usable
      <3>2. \E x \in usable : \A y \in usable : x <= y
        BY <2>1, <3>1, LeastNumber
      <3>3. QED
        BY <3>2, Zenon DEF D!Min
    <2>3. c \in D!Chans /\ res[c] = None /\ (D!IsLite(c) => lite)
      BY <2>2 DEF D!Usable
    <2> HIDE DEF c, usable
    <2>4. \A r \in rsvs : r.chan # c /\ r.who \in Clients /\ r.chan \in D!Chans
      BY <2>3, DmaAssumption DEF DmaInv, D!ReservationsApart
    <2>5. rsv.chan = c /\ rsv.who = who /\ rsv.lite = lite
      OBVIOUS
    <2>6. D!ReservationsApart'
      <3> HIDE DEF rsv
      <3>1. \A r, q \in rsvs' : r # q => r.chan # q.chan
        BY <2>1, <2>4, <2>5 DEF DmaInv, D!ReservationsApart
      <3>2. \A r \in rsvs' : res'[r.chan] = r.who /\ (D!IsLite(r.chan) => r.lite)
        BY <2>1, <2>3, <2>4, <2>5 DEF DmaInv, D!ReservationsApart
      <3>3. QED
        BY <2>1, <3>1, <3>2 DEF D!ReservationsApart, D!IsLite
    <2>7. rsvs' \subseteq [chan : D!Chans, who : Clients, lite : BOOLEAN]
      BY <2>1, <2>3 DEF DmaInv
    <2>8. res' \in [D!Chans -> {None, "VideoCore"} \cup Clients]
      BY <2>1, <2>3 DEF DmaInv
    <2>9. QED
      BY <2>1, <2>6, <2>7, <2>8 DEF DmaInv, D!StatusFresh
  <1>3. ASSUME NEW rsv \in rsvs, D!Release(rsv) PROVE DmaInv'
    <2>1. /\ didInit' = didInit /\ debug' = debug /\ run' = run
          /\ chanPc' = chanPc /\ chanPc = "idle"
          /\ res' = [res EXCEPT ![rsv.chan] = None] /\ rsvs' = rsvs \ {rsv}
      BY <1>3 DEF D!Release
    <2>2. \A r \in rsvs : r.chan \in D!Chans
      BY DEF DmaInv
    <2>3. D!ReservationsApart'
      BY <2>1, <2>2 DEF DmaInv, D!ReservationsApart, D!IsLite
    <2>4. res' \in [D!Chans -> {None, "VideoCore"} \cup Clients]
      BY <2>1, <2>2 DEF DmaInv
    <2>5. QED
      BY <2>1, <2>3, <2>4 DEF DmaInv, D!StatusFresh
  <1>4. ASSUME NEW rsv \in rsvs, D!TimedRunStart(rsv) PROVE DmaInv'
    <2> DEFINE c == rsv.chan
               left == debug[c] \ D!ClearedErrors
    <2>1. /\ didInit' = didInit /\ res' = res /\ rsvs' = rsvs /\ chanPc = "idle"
          /\ debug' = [debug EXCEPT ![c] = left]
          /\ \/ /\ left = {} /\ chanPc' = "active"
                /\ run' = [chan |-> c, met |-> {}, status |-> {}]
             \/ chanPc' = "panic" /\ run' = run
      BY <1>4 DEF D!TimedRunStart, D!MayStart, D!IsError
    <2>2. c \in D!Chans /\ left \subseteq D!Errors
      BY DEF DmaInv
    <2> HIDE DEF left
    <2>3. debug' \in [D!Chans -> SUBSET D!Errors] /\ debug'[c] = left
      BY <2>1, <2>2 DEF DmaInv
    <2>4. CASE left = {} /\ chanPc' = "active" /\ run' = [chan |-> c, met |-> {}, status |-> {}]
      <3>1. D!ReservationsApart'
        BY <2>1, <2>4 DEF DmaInv, D!ReservationsApart
      <3>2. QED
        BY <2>1, <2>2, <2>3, <2>4, <3>1 DEF DmaInv, D!StatusFresh
    <2>5. CASE chanPc' = "panic" /\ run' = run
      BY <2>1, <2>3, <2>5 DEF DmaInv, D!ReservationsApart, D!StatusFresh
    <2>6. QED
      BY <2>1, <2>4, <2>5
  <1>5. CASE D!ControllerStops
    <2>1. /\ didInit' = didInit /\ res' = res /\ rsvs' = rsvs
          /\ chanPc = "active" /\ chanPc' = "stopped"
      BY <1>5 DEF D!ControllerStops
    <2>2. PICK errs \in SUBSET D!Errors :
            /\ debug' = [debug EXCEPT ![run.chan] = @ \cup errs]
            /\ run' = [run EXCEPT !.met = errs]
      BY <1>5 DEF D!ControllerStops
    <2>3. run'.chan = run.chan /\ run'.met = errs /\ run.chan \in D!Chans
      BY <2>2 DEF DmaInv
    <2>4. /\ debug' \in [D!Chans -> SUBSET D!Errors]
          /\ debug'[run'.chan] = errs
      BY <2>1, <2>2, <2>3 DEF DmaInv
    <2>5. QED
      BY <2>1, <2>2, <2>3, <2>4 DEF DmaInv, D!ReservationsApart, D!StatusFresh
  <1>6. CASE D!TimedRunEnd
    <2>1. /\ didInit' = didInit /\ res' = res /\ rsvs' = rsvs /\ debug' = debug
          /\ chanPc = "stopped"
      BY <1>6 DEF D!TimedRunEnd
    <2>2. CASE chanPc' = "panic" /\ run' = run
      BY <2>1, <2>2 DEF DmaInv, D!ReservationsApart, D!StatusFresh
    <2>3. ASSUME NEW extra \in SUBSET {"OUTSTANDING_WRITES", "PAUSED_FOR_DREQ"},
                 run' = [run EXCEPT !.status = D!StatusOf(debug[run.chan]) \cup extra],
                 chanPc' = "idle"
          PROVE  DmaInv'
      <3> DEFINE bits == debug[run.chan]
      <3>1. bits = run.met /\ bits \subseteq D!Errors
        BY <2>1 DEF DmaInv
      <3>2. /\ run'.met = run.met /\ run'.chan = run.chan
            /\ run'.status = (bits \cup (IF bits # {} THEN {"ANY"} ELSE {})) \cup extra
        BY <2>3 DEF DmaInv, D!StatusOf, D!IsError
      <3> HIDE DEF bits
      <3>3. run'.status \cap D!Errors = bits /\ ("ANY" \in run'.status <=> bits # {})
        BY <3>1, <3>2 DEF D!Errors
      <3>4. run'.status \subseteq D!Errors \cup {"ANY", "OUTSTANDING_WRITES", "PAUSED_FOR_DREQ"}
        BY <3>1, <3>2
      <3>5. QED
        BY <2>1, <2>3, <3>1, <3>2, <3>3, <3>4 DEF DmaInv, D!ReservationsApart, D!StatusFresh
    <2>4. QED
      BY <1>6, <2>2, <2>3 DEF D!TimedRunEnd
  <1>7. CASE UNCHANGED dmavars
    BY <1>7 DEF DmaInv, dmavars, D!ReservationsApart, D!StatusFresh
  <1>8. QED
    BY <1>1, <1>2, <1>3, <1>4, <1>5, <1>6, <1>7 DEF D!ChanNext, D!ClientStep

-----------------------------------------------------------------------------
(* PupHost: arithmetic of the chunks *)

\* A chunk before the last one rounded up to starts before the end.
LEMMA ChunkStarts ==
    ASSUME NEW k \in Nat, NEW q \in Nat, NEW c \in Nat \ {0}, NEW n \in Nat,
           k < q, q * c <= n + c - 1
    PROVE  k * c < n /\ (k + 1) * c = k * c + c /\ k * c \in Nat
  <1>1. (k + 1) * c = k * c + c
    OBVIOUS
  <1>2. q = (k + 1) + (q - k - 1) /\ q - k - 1 \in Nat
    OBVIOUS
  <1>3. q * c = (k + 1) * c + (q - k - 1) * c
    BY <1>2
  <1>4. (q - k - 1) * c \in Nat /\ k * c \in Nat
    BY <1>2
  <1>5. QED
    BY <1>1, <1>3, <1>4

-----------------------------------------------------------------------------
(* PupHost *)

OptsType ==
    [inp : {None} \cup DOMAIN Files, fd : {None} \cup Ttys,
     devPath : {None} \cup {t.path : t \in Ttys}, addr : Int, pty : BOOLEAN,
     headless : BOOLEAN, baud : Nat, debug : Nat, retries : Nat, usage : BOOLEAN,
     reset : BOOLEAN]

Early == {"parse", "device", "reset", "stat"}
Late == {"upload", "booted", "success", "console"}

\* The port that is open is the one wanted, and one is open once it is needed.
PortWanted == /\ opts.fd.path = opts.devPath
              /\ IF wants = None THEN opts.fd.serial # None
                 ELSE wants.what = IF wants.by = "serial" THEN opts.fd.serial ELSE opts.fd.path
PortInv == /\ pc # "exit" => /\ wants # None => opts.fd # None
                             /\ opts.fd # None => PortWanted
           /\ pc \in {"reset", "stat", "inspect"} \cup Late => opts.fd # None
           /\ pc = "console" => opts.fd \notin held

\* Nothing has moved the file's offset before the checksum is computed, and
\* what is in meta_t describes the file from then on.
MetaInv == /\ pc \in Early => pos = 0 /\ sent = <<>>
           /\ pc \in {"inspect"} \cup Late =>
                /\ opts.inp # None
                /\ meta.wire = H!File.size /\ meta.crc = H!crc32(0, H!File.size)
           /\ pc = "inspect" => sent = <<>>
           /\ pc \in Late => /\ meta.mem = H!File.mem /\ meta.xz = H!File.xz
                             /\ (meta.addr = H!Unset) = meta.elf

\* Chunk k starts at k times the chunk size, and there are no more of them than
\* the size announced asks for.
SentInv == /\ sent \in Seq(Nat \X Nat)
           /\ pc \in Late =>
                /\ Len(sent) <= H!ChunkCount
                /\ \A k \in 1 .. Len(sent) : sent[k] = H!ChunkRange(k - 1)
                /\ pc # "upload" => Len(sent) = H!ChunkCount

HostInv == opts \in OptsType /\ PortInv /\ MetaInv /\ SentInv

LEMMA HostInit == H!Init => HostInv
  <1> SUFFICES ASSUME H!Init PROVE HostInv
    OBVIOUS
  <1>1. opts \in OptsType
    BY DEF H!Init, OptsType, H!Unset
  <1>2. PortInv /\ MetaInv
    BY DEF H!Init, PortInv, MetaInv, Late, Early
  <1>3. SentInv
    BY DEF H!Init, SentInv, Late
  <1>4. QED
    BY <1>1, <1>2, <1>3 DEF HostInv

\* find_serial_device leaves the port that was asked for, or ends the program.
LEMMA FindKeeps ==
    ASSUME opts \in OptsType, NEW dev, NEW next, H!FindSerialDevice(dev, next),
           wants' = dev,
           dev # None => /\ dev.what # None /\ dev.by \in {"serial", "path"}
    PROVE  /\ opts' \in OptsType
           /\ \/ pc' = next /\ opts'.fd # None /\ PortWanted'
              \/ pc' = "exit"
           /\ opts'.inp = opts.inp
  <1>1. CASE pc' = "exit" /\ UNCHANGED <<held, opts>>
    BY <1>1
  <1>2. ASSUME NEW t \in H!Found(dev),
               opts' = [opts EXCEPT !.fd = t, !.devPath = t.path], pc' = next
        PROVE  /\ opts' \in OptsType
               /\ pc' = next /\ opts'.fd # None /\ PortWanted'
               /\ opts'.inp = opts.inp
    <2>1. t \in Ttys /\ t # None
      BY HostAssumption DEF H!Found, H!Enumerated, H!FindEnumerative, H!FindAuto, H!FindFuzzy, H!WithPath
    <2>2. /\ opts'.fd = t /\ opts'.devPath = t.path /\ opts'.inp = opts.inp
      BY <1>2 DEF OptsType
    <2>3. opts' \in OptsType
      BY <1>2, <2>1 DEF OptsType
    <2>4. IF dev = None THEN t.serial # None
          ELSE dev.what = IF dev.by = "serial" THEN t.serial ELSE t.path
      BY DEF H!Found, H!Enumerated, H!FindEnumerative, H!FindAuto, H!FindFuzzy, H!WithPath
    <2>5. QED
      BY <1>2, <2>1, <2>2, <2>3, <2>4 DEF PortWanted
  <1>3. QED
    BY <1>1, <1>2 DEF H!FindSerialDevice

LEMMA HostStepKeeps ==
    ASSUME HostInv, H!Next \/ UNCHANGED hostvars
    PROVE  HostInv'
  <1> USE DEF Early, Late
  <1>1. CASE H!ParseArg
    <2>1. PICK a \in Tokens : H!OptionValue(a) \/ H!DeviceValue(a) \/ H!OptionName(a)
      BY <1>1 DEF H!ParseArg
    <2>2. pc = "parse" /\ pos' = pos /\ meta' = meta /\ sent' = sent
      BY <1>1 DEF H!ParseArg, H!filevars
    <2>3. pos = 0 /\ sent = <<>>
      BY <2>2 DEF HostInv, MetaInv
    <2>4. pc' \in {"parse", "exit"} => MetaInv' /\ SentInv'
      BY <2>2, <2>3 DEF MetaInv, SentInv
    <2>5. CASE opts' \in OptsType /\ opts'.fd = opts.fd /\ opts'.devPath = opts.devPath
               /\ wants' = wants /\ pc' = pc
      BY <2>2, <2>4, <2>5 DEF HostInv, PortInv, PortWanted
    <2>6. CASE H!OptionValue(a)
      <3>1. wants' = wants /\ pc' = pc
        BY <2>6 DEF H!OptionValue, H!envvars
      <3>2. /\ opts' \in OptsType /\ opts'.fd = opts.fd /\ opts'.devPath = opts.devPath
        <4>1. opts \in OptsType
          BY DEF HostInv
        <4>2. CASE opts' = H!Usage(opts)
          BY <4>1, <4>2 DEF H!Usage, OptsType
        <4>3. CASE a \in DOMAIN Numbers /\ opts' = H!SetNumber(opts, Numbers[a])
          <5>1. Numbers[a] \in Nat
            BY <4>3, HostAssumption
          <5>2. \/ opts' = H!Usage(opts)
                \/ opts' = [opts EXCEPT !.addr = Numbers[a]]
                \/ opts' = [opts EXCEPT !.baud = Numbers[a]]
                \/ opts' = [opts EXCEPT !.retries = Numbers[a]]
            BY <2>6, <4>3 DEF H!SetNumber, H!OptionValue
          <5>3. QED
            BY <4>1, <4>2, <5>1, <5>2 DEF OptsType
        <4>4. QED
          BY <2>6, <4>2, <4>3 DEF H!OptionValue
      <3>3. QED
        BY <3>1, <3>2, <2>5
    <2>7. CASE H!DeviceValue(a)
      <3> DEFINE dev == IF a \in {t.serial : t \in Ttys} THEN [by |-> "serial", what |-> a]
                        ELSE [by |-> "path", what |-> a]
      <3>1. wants' = dev /\ H!FindSerialDevice(dev, "parse")
        BY <2>7 DEF H!DeviceValue
      <3>2. dev.what # None /\ dev.by \in {"serial", "path"}
        BY HostAssumption
      <3> HIDE DEF dev
      <3>3. /\ opts' \in OptsType
            /\ \/ pc' = "parse" /\ opts'.fd # None /\ PortWanted'
               \/ pc' = "exit"
        BY <3>1, <3>2, FindKeeps DEF HostInv
      <3>4. QED
        BY <2>4, <3>3 DEF HostInv, PortInv
    <2>8. CASE H!OptionName(a)
      <3>1. wants' = wants /\ pc' = pc
        BY <2>8 DEF H!OptionName, H!envvars
      <3>2. /\ opts' \in OptsType /\ opts'.fd = opts.fd /\ opts'.devPath = opts.devPath
        <4>1. opts \in OptsType
          BY DEF HostInv
        <4>2. \/ opts' = opts \/ opts' = H!Usage(opts)
              \/ opts' = [opts EXCEPT !.headless = TRUE]
              \/ opts' = [opts EXCEPT !.pty = TRUE]
              \/ opts' = [opts EXCEPT !.reset = TRUE]
              \/ \E n \in {0, 2, 4} : opts' = [opts EXCEPT !.debug = n]
              \/ a \in DOMAIN Files /\ opts' = [opts EXCEPT !.inp = a]
          BY <2>8 DEF H!OptionName, H!Positional
        <4>3. CASE opts' = opts \/ opts' = H!Usage(opts)
          BY <4>1, <4>3 DEF OptsType, H!Usage
        <4>4. CASE \/ opts' = [opts EXCEPT !.headless = TRUE]
                   \/ opts' = [opts EXCEPT !.pty = TRUE]
                   \/ opts' = [opts EXCEPT !.reset = TRUE]
          BY <4>1, <4>4 DEF OptsType
        <4>5. ASSUME NEW n \in {0, 2, 4}, opts' = [opts EXCEPT !.debug = n]
              PROVE  opts' \in OptsType /\ opts'.fd = opts.fd /\ opts'.devPath = opts.devPath
          BY <4>1, <4>5 DEF OptsType
        <4>6. CASE a \in DOMAIN Files /\ opts' = [opts EXCEPT !.inp = a]
          BY <4>1, <4>6 DEF OptsType
        <4>7. QED
          BY <4>2, <4>3, <4>4, <4>5, <4>6
      <3>3. QED
        BY <3>1, <3>2, <2>5
    <2>9. QED
      BY <2>1, <2>6, <2>7, <2>8
  <1>2. CASE H!ParseDone
    <2>1. /\ pc = "parse" /\ pc' \in {"exit", "device"} /\ wants' = wants /\ held' = held
          /\ pos' = pos /\ meta' = meta /\ sent' = sent
          /\ opts' = opts \/ opts' = [opts EXCEPT !.usage = TRUE]
      BY <1>2 DEF H!ParseDone, H!envvars, H!filevars, H!Usage
    <2>2. opts' \in OptsType /\ opts'.fd = opts.fd /\ opts'.devPath = opts.devPath
      BY <2>1 DEF HostInv, OptsType
    <2>3. QED
      BY <2>1, <2>2 DEF HostInv, PortInv, PortWanted, MetaInv, SentInv
  <1>3. CASE H!PickDevice
    <2>1. /\ pc = "device" /\ wants' = wants /\ pos' = pos /\ meta' = meta /\ sent' = sent
      BY <1>3 DEF H!PickDevice, H!filevars
    <2>2. CASE opts.fd # None
      BY <1>3, <2>1, <2>2 DEF H!PickDevice, HostInv, PortInv, PortWanted, MetaInv, SentInv
    <2>3. CASE opts.fd = None
      <3>1. wants' = None /\ H!FindSerialDevice(None, "reset")
        BY <1>3, <2>1, <2>3 DEF H!PickDevice, HostInv, PortInv
      <3>2. /\ opts' \in OptsType
            /\ \/ pc' = "reset" /\ opts'.fd # None /\ PortWanted'
               \/ pc' = "exit"
        BY <3>1, FindKeeps DEF HostInv
      <3>3. QED
        BY <2>1, <3>2 DEF HostInv, PortInv, MetaInv, SentInv
    <2>4. QED
      BY <2>2, <2>3
  <1>4. CASE H!Reset
    <2>1. /\ pc = "reset" /\ pc' \in {"stat", "exit"} /\ wants' = wants /\ held' = held
          /\ pos' = pos /\ meta' = meta /\ sent' = sent /\ opts' = opts
      BY <1>4 DEF H!Reset, H!filevars
    <2>2. QED
      BY <2>1 DEF HostInv, PortInv, PortWanted, MetaInv, SentInv
  <1>5. CASE H!StatAndCrc
    <2>1. /\ pc = "stat" /\ wants' = wants /\ held' = held /\ sent' = sent /\ opts' = opts
          /\ pos = 0 /\ sent = <<>>
      BY <1>5 DEF H!StatAndCrc, H!envvars, HostInv, MetaInv
    <2>2. CASE pc' = "exit"
      BY <2>1, <2>2 DEF HostInv, PortInv, MetaInv, SentInv
    <2>3. CASE opts.inp # None /\ pc' = "inspect"
               /\ meta' = [wire |-> H!File.size % SizeMod, crc |-> H!InputCrc]
      <3>1. H!File.size \in 0 .. SizeMod - 1
        BY <2>3, HostAssumption DEF HostInv, OptsType, H!File
      <3>2. H!File.size % SizeMod = H!File.size
        BY <3>1, HostAssumption
      <3>3. H!File' = H!File
        BY <2>1 DEF H!File
      <3>4. meta'.wire = H!File.size /\ meta'.crc = H!crc32(0, H!File.size)
        BY <2>1, <2>3, <3>2 DEF H!InputCrc
      <3>5. MetaInv'
        BY <2>1, <2>3, <3>3, <3>4 DEF MetaInv
      <3>6. QED
        BY <2>1, <2>3, <3>5 DEF HostInv, PortInv, PortWanted, SentInv
    <2>4. QED
      BY <1>5, <2>2, <2>3 DEF H!StatAndCrc
  <1>6. CASE H!Inspect
    <2>1. /\ pc = "inspect" /\ wants' = wants /\ held' = held /\ sent' = sent /\ sent = <<>>
          /\ opts.inp # None
          /\ meta.wire = H!File.size /\ meta.crc = H!crc32(0, H!File.size)
      BY <1>6 DEF H!Inspect, H!envvars, HostInv, MetaInv
    <2>2. CASE pc' = "exit" /\ UNCHANGED <<opts, meta>>
      BY <2>1, <2>2 DEF HostInv, PortInv, MetaInv, SentInv
    <2>3. CASE /\ ~H!IsElf \/ opts.addr = H!Unset
               /\ opts' = IF ~H!IsElf /\ opts.addr = H!Unset THEN [opts EXCEPT !.addr = DefaultAddr]
                          ELSE opts
               /\ meta' = [wire |-> meta.wire, crc |-> meta.crc, mem |-> H!MemSize % SizeMod,
                           xz |-> H!IsXz, elf |-> H!IsElf,
                           addr |-> IF H!IsElf THEN H!Unset ELSE opts'.addr]
               /\ pc' = "upload"
      <3>1. /\ opts' \in OptsType /\ opts'.fd = opts.fd /\ opts'.devPath = opts.devPath
            /\ opts'.inp = opts.inp
            /\ ~H!IsElf => opts'.addr # H!Unset
        BY <2>3, HostAssumption DEF HostInv, OptsType, H!Unset
      <3>2. H!File' = H!File
        BY <3>1 DEF H!File
      <3>3. /\ H!File.size \in 0 .. SizeMod - 1 /\ H!File.mem \in 0 .. SizeMod - 1
            /\ H!File.elf \in BOOLEAN /\ H!File.xz \in BOOLEAN
            /\ ~H!File.xz => H!File.mem = H!File.size
        BY <2>1, HostAssumption DEF HostInv, OptsType, H!File
      <3>4. H!MemSize % SizeMod = H!File.mem
        BY <3>3, HostAssumption DEF H!MemSize, H!IsXz
      <3>5. /\ meta'.wire = H!File.size /\ meta'.crc = H!crc32(0, H!File.size)
            /\ meta'.mem = H!File.mem /\ meta'.xz = H!File.xz
            /\ meta'.elf = H!IsElf
            /\ meta'.addr = IF H!IsElf THEN H!Unset ELSE opts'.addr
        BY <2>1, <2>3, <3>4 DEF H!IsXz
      <3>6. (meta'.addr = H!Unset) = meta'.elf
        BY <3>1, <3>3, <3>5 DEF H!IsElf
      <3>7. MetaInv'
        BY <2>1, <2>3, <3>1, <3>2, <3>5, <3>6 DEF MetaInv
      <3>8. H!ChunkCount' \in Nat
        BY <3>2, <3>3, <3>5, RoundUp, HostAssumption DEF H!ChunkCount
      <3>9. SentInv'
        BY <2>1, <2>3, <3>8 DEF SentInv, HostInv
      <3>10. QED
        BY <2>1, <2>3, <3>1, <3>7, <3>9 DEF HostInv, PortInv, PortWanted
    <2>4. QED
      BY <1>6, <2>2, <2>3 DEF H!Inspect
  <1>7. CASE H!PlatformMarshal
    <2>1. /\ pc = "upload" /\ pc' = pc /\ wants' = wants /\ held' = held /\ opts' = opts
          /\ pos' = pos /\ meta' = meta
          /\ Len(sent) < H!ChunkCount
          /\ sent' = Append(sent, H!ChunkRange(Len(sent)))
      BY <1>7 DEF H!PlatformMarshal, H!envvars
    <2>2. H!File.size \in Nat
      BY <2>1, HostAssumption DEF HostInv, MetaInv, OptsType, H!File
    <2>3. H!ChunkRange(Len(sent)) \in Nat \X Nat
      BY <2>2, HostAssumption DEF H!ChunkRange, H!Min2, HostInv, SentInv
    <2>4. H!ChunkCount \in Nat
      BY <2>1, <2>2, RoundUp, HostAssumption DEF H!ChunkCount, HostInv, MetaInv
    <2>5. H!ChunkCount' = H!ChunkCount /\ \A k : H!ChunkRange(k)' = H!ChunkRange(k)
      BY <2>1 DEF H!ChunkCount, H!ChunkRange, H!File
    <2>6. /\ sent' \in Seq(Nat \X Nat) /\ Len(sent') = Len(sent) + 1
          /\ \A k \in 1 .. Len(sent) : sent'[k] = sent[k]
          /\ sent'[Len(sent) + 1] = H!ChunkRange(Len(sent))
      BY <2>1, <2>3 DEF HostInv, SentInv
    <2>7. \A k \in 1 .. Len(sent') : sent'[k] = H!ChunkRange(k - 1)
      BY <2>1, <2>6 DEF HostInv, SentInv
    <2>8. SentInv'
      BY <2>1, <2>4, <2>5, <2>6, <2>7 DEF SentInv, HostInv
    <2>9. QED
      BY <2>1, <2>8 DEF HostInv, PortInv, PortWanted, MetaInv, H!File
  <1>8. CASE H!UploadEnds
    <2>1. /\ pc = "upload" /\ wants' = wants /\ held' = held /\ opts' = opts
          /\ pos' = pos /\ meta' = meta /\ sent' = sent
          /\ \/ Len(sent) = H!ChunkCount /\ pc' = "booted"
             \/ pc' = "exit"
      BY <1>8 DEF H!UploadEnds, H!envvars, H!filevars
    <2>2. QED
      BY <2>1 DEF HostInv, PortInv, PortWanted, MetaInv, SentInv, H!File, H!ChunkCount, H!ChunkRange
  <1>9. CASE H!Console
    <2>1. /\ pc = "booted" /\ wants' = wants /\ opts' = opts
          /\ pos' = pos /\ meta' = meta /\ sent' = sent
          /\ \/ pc' = "success"
             \/ pc' = "console" /\ held' = held \ {opts.fd}
      BY <1>9 DEF H!Console, H!filevars
    <2>2. QED
      BY <2>1 DEF HostInv, PortInv, PortWanted, MetaInv, SentInv, H!File, H!ChunkCount, H!ChunkRange
  <1>10. CASE UNCHANGED hostvars
    BY <1>10 DEF hostvars, HostInv, PortInv, PortWanted, MetaInv, SentInv, H!File,
                 H!ChunkCount, H!ChunkRange
  <1>11. QED
    BY <1>1, <1>2, <1>3, <1>4, <1>5, <1>6, <1>7, <1>8, <1>9, <1>10 DEF H!Next

\* The chunks that SentInv describes cover the file.
LEMMA HostCovers == HostInv => H!ChunksCoverFile
  <1> SUFFICES ASSUME HostInv, pc \in Late PROVE H!ChunksCoverFile
    BY DEF H!ChunksCoverFile, Late
  <1> DEFINE n == H!File.size
             q == H!ChunkCount
  <1>1. n \in Nat /\ q = (n + Chunk - 1) \div Chunk
    BY HostAssumption DEF HostInv, MetaInv, OptsType, H!File, H!ChunkCount
  <1>2. q \in Nat /\ q * Chunk >= n /\ q * Chunk <= n + Chunk - 1
    BY <1>1, RoundUp, HostAssumption
  <1>3. /\ Len(sent) \in Nat /\ Len(sent) <= q
        /\ \A k \in 1 .. Len(sent) :
             sent[k] = <<(k - 1) * Chunk, H!Min2((k - 1 + 1) * Chunk, n)>>
        /\ pc # "upload" => Len(sent) = q
    BY DEF HostInv, SentInv, H!ChunkRange
  <1>4. sent = <<>> <=> Len(sent) = 0
    BY DEF HostInv, SentInv
  <1> HIDE DEF n, q
  <1>5. ASSUME NEW k \in 1 .. Len(sent)
        PROVE  /\ sent[k][1] = (k - 1) * Chunk
               /\ (k - 1) * Chunk \in Nat /\ (k - 1) * Chunk < n
               /\ sent[k][2] = H!Min2((k - 1) * Chunk + Chunk, n)
    <2>1. k - 1 \in Nat /\ k - 1 < q
      BY <1>2, <1>3
    <2>2. /\ (k - 1) * Chunk < n /\ (k - 1 + 1) * Chunk = (k - 1) * Chunk + Chunk
          /\ (k - 1) * Chunk \in Nat
      BY <1>1, <1>2, <2>1, ChunkStarts, HostAssumption
    <2>3. sent[k] = <<(k - 1) * Chunk, H!Min2((k - 1) * Chunk + Chunk, n)>>
      BY <1>3, <2>2
    <2>4. QED
      BY <2>2, <2>3
  <1>6. ASSUME NEW k \in 1 .. Len(sent)
        PROVE  /\ sent[k][1] = IF k = 1 THEN 0 ELSE sent[k - 1][2]
               /\ sent[k][2] - sent[k][1] \in 1 .. Chunk
    <2>1. sent[k][2] - sent[k][1] \in 1 .. Chunk
      BY <1>1, <1>5, HostAssumption DEF H!Min2
    <2>2. CASE k = 1
      BY <1>5, <2>1, <2>2, HostAssumption
    <2>3. CASE k # 1
      <3>1. k - 1 \in 1 .. Len(sent) /\ k - 1 - 1 \in Nat
        BY <1>3, <2>3
      <3>2. (k - 1 - 1) * Chunk + Chunk = (k - 1) * Chunk
        BY <3>1, HostAssumption
      <3>3. sent[k - 1][2] = H!Min2((k - 1 - 1) * Chunk + Chunk, n)
        BY <1>5, <3>1
      <3>4. QED
        BY <1>1, <1>5, <2>1, <2>3, <3>2, <3>3 DEF H!Min2
    <2>4. QED
      BY <2>2, <2>3
  <1>7. pc # "upload" => n = IF sent = <<>> THEN 0 ELSE sent[Len(sent)][2]
    <2> SUFFICES ASSUME pc # "upload" PROVE n = IF sent = <<>> THEN 0 ELSE sent[Len(sent)][2]
      OBVIOUS
    <2>1. CASE sent = <<>>
      BY <1>1, <1>2, <1>3, <1>4, <2>1, HostAssumption
    <2>2. CASE sent # <<>>
      <3>1. Len(sent) \in 1 .. Len(sent) /\ Len(sent) = q
        BY <1>2, <1>3, <1>4, <2>2
      <3>2. (q - 1) * Chunk + Chunk = q * Chunk
        BY <1>2, HostAssumption
      <3>3. sent[Len(sent)][2] = H!Min2((q - 1) * Chunk + Chunk, n)
        BY <1>5, <3>1
      <3>4. QED
        BY <1>1, <1>2, <2>2, <3>2, <3>3, HostAssumption DEF H!Min2
    <2>3. QED
      BY <2>1, <2>2
  <1>8. QED
    BY <1>6, <1>7 DEF H!ChunksCoverFile, n

LEMMA HostMeans == HostInv => H!MetaDescribesFile /\ H!RightDevice
  BY DEF HostInv, PortInv, PortWanted, MetaInv, Late, H!MetaDescribesFile, H!RightDevice

-----------------------------------------------------------------------------
(* IntegrityCheck *)

AllFlags == {"Purgable", "Critical", "Stack", "Mutable", "Corrupted", "CorruptedSomewhere"}

\* The flags are the ones main set up, and beside them only the marks of the
\* last check; a region that is purged holds zeros and every other one that is
\* looked at has its checksum.
IntegTypes ==
    /\ header \in [flags : [I!Regions -> SUBSET AllFlags], cksum : [I!Regions -> Values],
                   pointer : {"right", "wild"}]
    /\ content \in [I!Regions -> Values] /\ before \in [I!Regions -> Values]
    /\ meddled \in BOOLEAN

FlagsInv ==
    /\ integPc \in {"coverage", "main", "stop"} => ~meddled
    /\ ~meddled /\ integPc # "checked" => header.flags = RegionFlags
    /\ ~meddled => \A i \in I!Regions : header.flags[i] \ I!Marks = RegionFlags[i]

HashInv ==
    integPc = "payload" => \A i \in I!Regions :
        "Mutable" \notin RegionFlags[i] =>
            IF "Purgable" \in RegionFlags[i] THEN before[i] = 0 ELSE header.cksum[i] = before[i]

CheckInv == IntegTypes /\ FlagsInv /\ HashInv /\ I!CorruptionReported

LEMMA FlagsFacts ==
    /\ RegionFlags \in [I!Regions -> SUBSET AllFlags]
    /\ I!Regions \subseteq Nat /\ Len(RegionFlags) \in Nat
    /\ \A i \in I!Regions : /\ RegionFlags[i] \cap I!Marks = {}
                            /\ ~("Purgable" \in RegionFlags[i] /\ "Stack" \in RegionFlags[i])
  <1>1. Len(RegionFlags) \in Nat /\ DOMAIN RegionFlags = I!Regions
    BY IntegAssumption DEF I!Regions
  <1>2. \A i \in I!Regions :
          /\ RegionFlags[i] \subseteq {"Purgable", "Critical", "Stack", "Mutable"}
          /\ ~("Purgable" \in RegionFlags[i] /\ "Stack" \in RegionFlags[i])
    BY <1>1, IntegAssumption
  <1>3. RegionFlags \in [I!Regions -> SUBSET AllFlags]
    BY <1>1, <1>2, IntegAssumption DEF AllFlags
  <1>4. QED
    BY <1>1, <1>2, <1>3 DEF I!Regions, I!Marks

LEMMA CheckInit == I!IntegInit => CheckInv
  <1> SUFFICES ASSUME I!IntegInit PROVE CheckInv
    OBVIOUS
  <1>1. 0 \in Values /\ 1 \in Values
    BY IntegAssumption
  <1>2. IntegTypes
    BY <1>1, FlagsFacts DEF I!IntegInit, IntegTypes
  <1>3. FlagsInv
    BY FlagsFacts DEF I!IntegInit, FlagsInv
  <1>4. HashInv /\ I!CorruptionReported
    BY DEF I!IntegInit, HashInv, I!CorruptionReported
  <1>5. QED
    BY <1>2, <1>3, <1>4 DEF CheckInv

\* A set of numbers up to n that is not empty has a greatest one.
LEMMA GreatestOf ==
    ASSUME NEW n \in Nat, NEW S, \A x \in S : x \in 1 .. n, S # {}
    PROVE  I!Max(S) \in S
  <1> DEFINE T == {n - x : x \in S}
  <1>1. \A x \in S : x \in Nat /\ n - x \in Nat
    OBVIOUS
  <1>2. T \subseteq Nat /\ T # {}
    BY <1>1
  <1>3. PICK t \in T : \A u \in T : t <= u
    <2> HIDE DEF T
    <2>1. QED
      BY <1>2, LeastNumber
  <1>4. PICK x \in S : t = n - x
    BY <1>3
  <1>5. \A y \in S : x >= y
    <2> SUFFICES ASSUME NEW y \in S PROVE x >= y
      OBVIOUS
    <2>1. t <= n - y
      BY <1>3
    <2>2. QED
      BY <1>1, <1>4, <2>1
  <1>6. QED
    BY <1>4, <1>5, Zenon DEF I!Max

\* integ_chk marks exactly the regions that hold something else than before.
LEMMA MarksRight ==
    ASSUME CheckInv, integPc = "payload", ~meddled, NEW i \in I!Regions, NEW l
    PROVE  /\ I!MarksOf(i, l) \subseteq I!Marks
           /\ I!MarksOf(i, l) # {} <=>
                /\ "Mutable" \notin RegionFlags[i]
                /\ \/ content[i] # before[i]
                   \/ "Stack" \in RegionFlags[i] /\ cleanup /\ l # 0
  <1>1. header.flags[i] = RegionFlags[i]
    BY DEF CheckInv, FlagsInv
  <1>2. CASE "Mutable" \in RegionFlags[i]
    BY <1>1, <1>2 DEF I!MarksOf, I!Has
  <1>3. CASE "Mutable" \notin RegionFlags[i] /\ "Purgable" \in RegionFlags[i]
    <2>1. before[i] = 0 /\ "Stack" \notin RegionFlags[i]
      BY <1>3, FlagsFacts DEF CheckInv, HashInv
    <2>2. I!MarksOf(i, l) = IF content[i] # 0 THEN {"Corrupted"} ELSE {}
      BY <1>1, <1>3 DEF I!MarksOf, I!Has
    <2>3. QED
      BY <1>3, <2>1, <2>2 DEF I!Marks
  <1>4. CASE "Mutable" \notin RegionFlags[i] /\ "Purgable" \notin RegionFlags[i]
    <2>1. before[i] = header.cksum[i]
      BY <1>4 DEF CheckInv, HashInv
    <2>2. I!MarksOf(i, l) = (IF content[i] # header.cksum[i] THEN {"CorruptedSomewhere"} ELSE {})
            \cup (IF "Stack" \in RegionFlags[i] /\ cleanup /\ l # 0 THEN {"Corrupted"} ELSE {})
      BY <1>1, <1>4 DEF I!MarksOf, I!Has
    <2>3. QED
      BY <1>4, <2>1, <2>2 DEF I!Marks
  <1>5. QED
    BY <1>2, <1>3, <1>4

LEMMA CheckStepKeeps ==
    ASSUME CheckInv, I!IntegNext \/ UNCHANGED checkvars
    PROVE  CheckInv'
  <1>1. CASE I!CheckCoverage
    <2>1. /\ integPc = "coverage" /\ integPc' \in {"main", "stop"} /\ header' = header
          /\ content' = content /\ before' = before /\ meddled' = meddled
      BY <1>1 DEF I!CheckCoverage, I!machine
    <2>2. QED
      BY <2>1 DEF CheckInv, IntegTypes, FlagsInv, HashInv, I!CorruptionReported, I!Regions, I!Marks
  <1>2. CASE I!IntegRun
    <2>1. /\ integPc = "main" /\ integPc' = "payload" /\ meddled' = FALSE
          /\ content' = I!Prepared /\ before' = I!Prepared
          /\ header' = [header EXCEPT !.cksum = I!Checksums]
      BY <1>2 DEF I!IntegRun
    <2>2. ~meddled /\ header.flags = RegionFlags
      BY <2>1 DEF CheckInv, FlagsInv
    <2>3. I!Prepared \in [I!Regions -> Values] /\ I!Checksums \in [I!Regions -> Values]
      BY IntegAssumption DEF CheckInv, IntegTypes, I!Prepared, I!Checksums
    <2>4. header'.cksum = I!Checksums /\ header'.flags = RegionFlags
      BY <2>1, <2>2 DEF CheckInv, IntegTypes
    <2>5. IntegTypes'
      BY <2>1, <2>3 DEF CheckInv, IntegTypes, I!Regions
    <2>6. FlagsInv'
      BY <2>1, <2>4, FlagsFacts DEF FlagsInv, I!Regions, I!Marks
    <2>7. \A i \in I!Regions : "Mutable" \notin RegionFlags[i] =>
            IF "Purgable" \in RegionFlags[i] THEN I!Prepared[i] = 0
            ELSE I!Checksums[i] = I!Prepared[i]
      BY <2>2 DEF I!Prepared, I!Checksums, I!Has
    <2>8. HashInv'
      BY <2>1, <2>4, <2>7 DEF HashInv, I!Regions
    <2>9. QED
      BY <2>1, <2>5, <2>6, <2>8 DEF CheckInv, I!CorruptionReported
  <1>3. CASE I!PayloadWrites
    <2>1. integPc = "payload" /\ integPc' = "payload" /\ before' = before
      BY <1>3 DEF I!PayloadWrites
    <2>2. CASE header' = header /\ meddled' = meddled /\ content' \in [I!Regions -> Values]
      BY <2>1, <2>2 DEF CheckInv, IntegTypes, FlagsInv, HashInv, I!CorruptionReported,
                        I!Regions, I!Marks
    <2>3. CASE \E i \in I!Regions, v \in Values :
                 content' = [content EXCEPT ![i] = v] /\ UNCHANGED <<low, microstack, header, meddled>>
      BY <2>2, <2>3 DEF CheckInv, IntegTypes
    <2>4. CASE /\ header' = [header EXCEPT !.pointer = "wild"]
               /\ UNCHANGED <<content, low, microstack, meddled>>
      <3>1. IntegTypes' /\ header'.flags = header.flags /\ header'.cksum = header.cksum
        BY <2>1, <2>4 DEF CheckInv, IntegTypes, I!Regions
      <3>2. QED
        BY <2>1, <2>4, <3>1 DEF CheckInv, FlagsInv, HashInv, I!CorruptionReported,
                                I!Regions, I!Marks
    <2>5. CASE /\ \E i \in I!Regions : header' = [header EXCEPT !.flags[i] = @ \cup {"Mutable"}]
               /\ meddled' = TRUE /\ UNCHANGED <<content, low, microstack>>
      <3>1. PICK i \in I!Regions : header' = [header EXCEPT !.flags[i] = @ \cup {"Mutable"}]
        BY <2>5
      <3>2. /\ header' = [flags |-> [header.flags EXCEPT ![i] = @ \cup {"Mutable"}],
                          cksum |-> header.cksum, pointer |-> header.pointer]
        BY <3>1 DEF CheckInv, IntegTypes
      <3>3. [header.flags EXCEPT ![i] = @ \cup {"Mutable"}] \in [I!Regions -> SUBSET AllFlags]
        BY DEF CheckInv, IntegTypes, AllFlags
      <3>4. IntegTypes' /\ header'.cksum = header.cksum
        BY <2>1, <2>5, <3>2, <3>3 DEF CheckInv, IntegTypes, I!Regions
      <3>5. QED
        BY <2>1, <2>5, <3>4 DEF CheckInv, FlagsInv, HashInv, I!CorruptionReported, I!Regions
    <2>6. QED
      BY <1>3, <2>2, <2>3, <2>4, <2>5 DEF I!PayloadWrites, CheckInv, IntegTypes
  <1>4. CASE I!IntegChk
    <2>1. integPc = "payload" /\ content' = content /\ before' = before /\ meddled' = meddled
          /\ cleanup' = cleanup /\ leftover' = low
      BY <1>4 DEF I!IntegChk
    <2>2. CASE integPc' = "reset" /\ UNCHANGED <<header, low, verdict>>
      BY <2>1, <2>2 DEF CheckInv, IntegTypes, FlagsInv, HashInv, I!CorruptionReported,
                        I!Regions, I!Marks
    <2>3. CASE ~I!PrecheckFails
      <3> DEFINE Bad(l) == {i \in I!Regions : I!MarksOf(i, l) # {}}
                 Flags(l) == [header EXCEPT !.flags = [i \in I!Regions |-> @[i] \cup I!MarksOf(i, l)]]
      <3>0. \E l : /\ low # 0 => l # 0
                   /\ verdict' = I!StateOf(Bad(l)) /\ header' = Flags(l) /\ integPc' = "checked"
        <4>1. PICK regs \in {0, 1} :
                LET l == IF regs = 0 THEN low ELSE regs
                IN  verdict' = I!StateOf(Bad(l)) /\ header' = Flags(l) /\ integPc' = "checked"
          BY <1>4, <2>3 DEF I!IntegChk
        <4> DEFINE l == IF regs = 0 THEN low ELSE regs
        <4>2. low # 0 => l # 0
          OBVIOUS
        <4>3. verdict' = I!StateOf(Bad(l)) /\ header' = Flags(l) /\ integPc' = "checked"
          BY <4>1
        <4> HIDE DEF l, Bad, Flags
        <4>4. QED
          BY <4>2, <4>3
      <3> PICK l : /\ low # 0 => l # 0
                   /\ verdict' = I!StateOf(Bad(l)) /\ header' = Flags(l) /\ integPc' = "checked"
        BY <3>0
      <3> DEFINE bad == {i \in I!Regions : I!MarksOf(i, l) # {}}
      <3>1. \A i \in I!Regions : I!MarksOf(i, l) \subseteq AllFlags
        BY DEF I!MarksOf, AllFlags
      <3>2. /\ header'.flags = [i \in I!Regions |-> header.flags[i] \cup I!MarksOf(i, l)]
            /\ header' = [flags |-> header'.flags, cksum |-> header.cksum,
                          pointer |-> header.pointer]
        BY <2>3 DEF CheckInv, IntegTypes
      <3>3. header'.flags \in [I!Regions -> SUBSET AllFlags]
        BY <3>1, <3>2 DEF CheckInv, IntegTypes
      <3>4. IntegTypes'
        BY <2>1, <3>2, <3>3 DEF CheckInv, IntegTypes, I!Regions
      <3>5. CASE meddled
        BY <2>1, <2>3, <3>4, <3>5 DEF CheckInv, FlagsInv, HashInv, I!CorruptionReported
      <3>6. CASE ~meddled
        <4>1. header.flags = RegionFlags
          BY <2>1, <3>6 DEF CheckInv, FlagsInv
        <4>2. \A i \in I!Regions :
                /\ I!MarksOf(i, l) \subseteq I!Marks
                /\ I!MarksOf(i, l) # {} <=>
                     /\ "Mutable" \notin RegionFlags[i]
                     /\ \/ content[i] # before[i]
                        \/ "Stack" \in RegionFlags[i] /\ cleanup /\ l # 0
          BY <2>1, <3>6, MarksRight
        <4>3. \A i \in I!Regions : header'.flags[i] = RegionFlags[i] \cup I!MarksOf(i, l)
          BY <3>2, <4>1
        <4>4. \A i \in I!Regions : header'.flags[i] \ I!Marks = RegionFlags[i]
          BY <4>2, <4>3, FlagsFacts
        <4>5. \A i \in I!Regions : header'.flags[i] \cap I!Marks # {} <=> I!MarksOf(i, l) # {}
          BY <4>2, <4>3, FlagsFacts
        <4>6. FlagsInv'
          BY <2>1, <2>3, <3>6, <4>4 DEF FlagsInv, I!Regions, I!Marks
        <4>7. I!Changed' \subseteq bad
          BY <2>1, <2>3, <4>2 DEF I!Changed, I!Regions
        <4>8. bad \subseteq I!Changed' \cup I!Pushed'
          BY <2>1, <2>3, <4>2 DEF I!Changed, I!Pushed, I!Regions
        <4>9. bad = I!Marked'
          BY <2>3, <4>5 DEF I!Marked, I!Regions, I!Marks
        <4>10. (verdict' = "Clean") <=> (bad = {})
          BY <2>3 DEF I!StateOf
        <4>11. I!CorruptionReported'
          BY <4>7, <4>8, <4>9, <4>10 DEF I!CorruptionReported
        <4>12. QED
          BY <2>3, <3>4, <4>6, <4>11 DEF CheckInv, HashInv
      <3>7. QED
        BY <3>5, <3>6 DEF CheckInv, IntegTypes
    <2>4. QED
      BY <1>4, <2>2, <2>3 DEF I!IntegChk
  <1>5. CASE I!ClearMarks
    <2>1. /\ integPc = "checked" /\ integPc' = "main" /\ ~meddled /\ meddled' = meddled
          /\ content' = content /\ before' = before
          /\ header' = [header EXCEPT !.flags = [i \in I!Regions |-> @[i] \ I!Marks]]
      BY <1>5 DEF I!ClearMarks, I!machine
    <2>2. /\ header'.flags = [i \in I!Regions |-> header.flags[i] \ I!Marks]
          /\ header' = [flags |-> header'.flags, cksum |-> header.cksum,
                        pointer |-> header.pointer]
      BY <2>1 DEF CheckInv, IntegTypes
    <2>3. header'.flags = [i \in I!Regions |-> RegionFlags[i]]
      BY <2>1, <2>2 DEF CheckInv, FlagsInv
    <2>4. header'.flags = RegionFlags
      BY <2>3, FlagsFacts
    <2>5. IntegTypes'
      BY <2>1, <2>2, <2>4, FlagsFacts DEF CheckInv, IntegTypes, I!Regions
    <2>6. QED
      BY <2>1, <2>4, <2>5, FlagsFacts DEF CheckInv, FlagsInv, HashInv, I!CorruptionReported,
                                          I!Regions, I!Marks
  <1>6. CASE UNCHANGED checkvars
    BY <1>6 DEF checkvars, CheckInv, IntegTypes, FlagsInv, HashInv, I!CorruptionReported,
                I!Changed, I!Marked, I!Pushed, I!Regions, I!Marks
  <1>7. QED
    BY <1>1, <1>2, <1>3, <1>4, <1>5, <1>6 DEF I!IntegNext

-----------------------------------------------------------------------------
(* DmaArena *)

\* The buffers lie in front of ARENA.p.  Once an entry has been made the word
\* at address 0 is an address of the arena, so that MonoGet finds nothing and
\* every buffer is a new one.
ScratchInv ==
    /\ arena \in [p : Nat, util : Nat] /\ arena.p >= ArenaStart
    /\ \A d \in DOMAIN monos : monos[d] \in Nat
    /\ (\E d \in DOMAIN monos : monos[d] > 0) => word0 \in Nat /\ word0 >= ArenaStart
    /\ buffers # {} => arena.p < ArenaEnd
    /\ \A b \in buffers : /\ b.start \in Nat /\ b.size \in Nat
                          /\ b.start >= ArenaStart /\ b.start + b.size <= arena.p
    /\ \A b, d \in buffers : b # d => b.start + b.size <= d.start \/ d.start + d.size <= b.start

LEMMA ScratchInit == A!ArenaInit => ScratchInv
  BY ArenaAssumption DEF A!ArenaInit, ScratchInv

LEMMA ScratchApart == ScratchInv => A!BuffersApart
  <1> SUFFICES ASSUME ScratchInv PROVE A!BuffersApart
    OBVIOUS
  <1>1. \A b \in buffers : b.start >= ArenaStart /\ b.start + b.size < ArenaEnd
    <2> SUFFICES ASSUME NEW b \in buffers
                 PROVE  b.start >= ArenaStart /\ b.start + b.size < ArenaEnd
      OBVIOUS
    <2>1. /\ b.start \in Nat /\ b.size \in Nat /\ arena.p \in Nat /\ arena.p < ArenaEnd
          /\ b.start >= ArenaStart /\ b.start + b.size <= arena.p
      BY DEF ScratchInv
    <2>2. QED
      BY <2>1, ArenaAssumption
  <1>2. QED
    BY <1>1 DEF ScratchInv, A!BuffersApart

LEMMA ScratchStepKeeps ==
    ASSUME ScratchInv, A!ArenaNext \/ UNCHANGED scratchvars
    PROVE  ScratchInv'
  <1>1. CASE UNCHANGED <<arena, word0, monos, buffers>>
    BY <1>1 DEF ScratchInv
  <1>2. ASSUME NEW c \in DOMAIN Needs, NEW width \in DOMAIN Needs[c],
               A!MonomorphizeOn(c, width)
        PROVE  ScratchInv'
    <2> DEFINE req == Needs[c][width]
               start == A!AlignUp(arena.p, req.align)
               new == [start |-> start, size |-> req.size, for |-> <<c, width>>]
    <2>1. /\ width \in Nat /\ width < ArenaStart
          /\ req.size \in Nat /\ req.align \in Nat \ {0}
      BY ArenaAssumption
    <2> HIDE DEF req
    <2>2. ~A!MonoGet(c, width)
      <3>1. A!WithContext(c)[c] > 0 => c \in DOMAIN monos /\ monos[c] > 0
        BY DEF A!WithContext
      <3>2. (c \in DOMAIN monos /\ monos[c] > 0) => word0 \in Nat /\ word0 >= ArenaStart
        BY DEF ScratchInv
      <3>3. QED
        BY <2>1, <3>1, <3>2, ArenaAssumption DEF A!MonoGet
    <2>3. /\ buffers' = buffers \cup {new}
          /\ arena' = [p |-> start + req.size, util |-> arena.util + req.size]
          /\ word0' = start
          /\ monos' = [A!WithContext(c) EXCEPT ![c] = @ + 1]
          /\ start + req.size < ArenaEnd
      BY <1>2, <2>2 DEF A!MonomorphizeOn, A!Panics, A!ArenaFits, A!ArenaAlloc, A!MonoSet, req
    <2>4. start \in Nat /\ start >= arena.p /\ arena.p \in Nat /\ arena.util \in Nat
          /\ arena.p >= ArenaStart
      <3>1. arena.p \in Nat /\ arena.util \in Nat /\ arena.p >= ArenaStart
        BY DEF ScratchInv
      <3> DEFINE q == (arena.p + req.align - 1) \div req.align
      <3>2. q \in Nat /\ q * req.align >= arena.p
        BY <2>1, <3>1, RoundUp
      <3>3. start = q * req.align
        BY DEF A!AlignUp
      <3> HIDE DEF q
      <3>4. QED
        BY <2>1, <3>1, <3>2, <3>3
    <2> HIDE DEF start
    <2>5. new.start = start /\ new.size = req.size
      OBVIOUS
    <2> HIDE DEF new
    <2>6. arena' \in [p : Nat, util : Nat] /\ arena'.p = start + req.size
      BY <2>1, <2>3, <2>4
    <2>7. \A d \in DOMAIN monos' : monos'[d] \in Nat
      BY <2>3 DEF ScratchInv, A!WithContext
    <2>8. \A b \in buffers : /\ b.start \in Nat /\ b.size \in Nat
                             /\ b.start >= ArenaStart /\ b.start + b.size <= arena.p
      BY DEF ScratchInv
    <2>9. \A b \in buffers : b.start + b.size <= start /\ b.start + b.size <= arena'.p
      BY <2>1, <2>4, <2>6, <2>8
    <2>10. \A b \in buffers' : /\ b.start \in Nat /\ b.size \in Nat
                               /\ b.start >= ArenaStart /\ b.start + b.size <= arena'.p
      <3>1. /\ new.start \in Nat /\ new.size \in Nat
            /\ new.start >= ArenaStart /\ new.start + new.size <= arena'.p
        BY <2>1, <2>4, <2>5, <2>6, ArenaAssumption
      <3>2. QED
        BY <2>3, <2>8, <2>9, <3>1
    <2>11. \A b, d \in buffers' : b # d => b.start + b.size <= d.start \/ d.start + d.size <= b.start
      BY <2>3, <2>5, <2>9 DEF ScratchInv
    <2>12. word0' \in Nat /\ word0' >= ArenaStart /\ arena'.p >= ArenaStart /\ arena'.p < ArenaEnd
      BY <2>1, <2>3, <2>4, <2>6, ArenaAssumption
    <2>13. QED
      BY <2>6, <2>7, <2>10, <2>11, <2>12 DEF ScratchInv
  <1>3. QED
    BY <1>1, <1>2 DEF A!ArenaNext, A!RunInitializers, A!Emitting, A!MonomorphizePanics,
                      A!Probe, A!ClearProbes, A!Contexts, A!Widths, scratchvars

-----------------------------------------------------------------------------
(* SystemTimer: the length of a run *)

\* The cycle counter wrapped as often as the two clocks say.
LEMMA TimeRight ==
    ASSUME NEW cycles \in 0 .. MaxCycles, NEW phase \in 0 .. Hz \div Mega - 1,
           NEW lag1 \in 0 .. MaxLag, NEW lag2 \in 0 .. MaxLag,
           cycles * Giga < C!Word
    PROVE  LET dm == (phase + lag1 + cycles + lag2) \div (Hz \div Mega)
           IN  C!TimeNs(dm, cycles % Half) = (cycles * Giga) \div Hz
  <1> DEFINE F == Hz \div Mega
             G == Half \div 2
             W == Half * Half
             S == phase + lag1 + cycles + lag2
             dm == S \div F
             rem == S % F
             q == cycles \div Half
             dc == cycles % Half
             e == phase + lag1 + lag2 - rem
  <1>1. F \in Nat \ {0} /\ Hz = Mega * F
    <2>1. F \in Nat /\ Hz = Mega * F + (Hz % Mega)
      BY ClockAssumption, DivMod
    <2>2. Mega * F = Hz
      BY <2>1, ClockAssumption
    <2>3. F # 0
      BY <2>2, ClockAssumption
    <2>4. QED
      BY <2>1, <2>2, <2>3
  <1>2. G \in Nat \ {0} /\ Half = 2 * G /\ G < Half /\ W \in Nat \ {0} /\ Half <= W
    BY ClockAssumption
  <1>3. S \in Nat /\ cycles \in Nat
    BY <1>1, ClockAssumption
  <1>4. dm \in Nat /\ rem \in Nat /\ rem < F /\ S = F * dm + rem
    <2> HIDE DEF F, S
    <2>1. QED
      BY <1>1, <1>3, DivMod
  <1>5. q \in Nat /\ dc \in Nat /\ dc < Half /\ cycles = Half * q + dc
    BY <1>3, DivMod, ClockAssumption
  <1>6. /\ S * Mega < W /\ S < W
    <2>1. S < MaxCycles + 2 * MaxLag + F
      BY <1>1, ClockAssumption
    <2>2. S * Mega <= (MaxCycles + 2 * MaxLag + F) * Mega
      <3>1. MaxCycles + 2 * MaxLag + F \in Nat
        BY <1>1, ClockAssumption
      <3> HIDE DEF F, S
      <3>2. Mega * S + Mega <= Mega * (MaxCycles + 2 * MaxLag + F)
        BY <1>3, <2>1, <3>1, MulStep, ClockAssumption
      <3>3. Mega * S = S * Mega /\ Mega * (MaxCycles + 2 * MaxLag + F) = (MaxCycles + 2 * MaxLag + F) * Mega
        BY <1>3, <3>1, ClockAssumption
      <3>4. QED
        BY <1>3, <3>1, <3>2, <3>3, ClockAssumption
    <2>3. S <= S * Mega
      BY <1>3, ClockAssumption
    <2>4. S * Mega \in Nat /\ (MaxCycles + 2 * MaxLag + F) * Mega < W
      BY <1>3, ClockAssumption
    <2>5. (MaxCycles + 2 * MaxLag + F) * Mega \in Nat
      BY <1>1, ClockAssumption
    <2> HIDE DEF S, F, W
    <2>6. QED
      BY <1>2, <1>3, <2>2, <2>3, <2>4, <2>5
  <1>7. e \in Int /\ -G <= e /\ e < G /\ F <= G /\ phase <= F - 1
    BY <1>1, <1>4, ClockAssumption
  <1>8. F * dm - dc = Half * q + e
    <2>1. S = cycles + e + rem
      BY <1>3, <1>4
    <2> HIDE DEF F, S, dm, rem, q, dc, e
    <2>2. F * dm \in Int /\ Half * q \in Int
      BY <1>1, <1>4, <1>5, ClockAssumption
    <2> DEFINE fd == F * dm
               hq == Half * q
    <2>3. /\ fd \in Int /\ hq \in Int /\ S = fd + rem /\ cycles = hq + dc
          /\ S = cycles + e + rem /\ rem \in Nat /\ dc \in Nat /\ e \in Int
      BY <1>4, <1>5, <1>7, <2>1, <2>2
    <2> HIDE DEF fd, hq
    <2>4. fd - dc = hq + e
      BY <2>3
    <2>5. QED
      BY <2>4 DEF fd, hq
  <1>9. cycles < W
    <2>1. cycles <= cycles * Giga
      BY <1>3, ClockAssumption
    <2>2. cycles * Giga \in Nat
      BY <1>3, ClockAssumption
    <2> HIDE DEF W
    <2>3. QED
      BY <1>2, <1>3, <2>1, <2>2 DEF C!Word, W
  <1> HIDE DEF F, G, W, S, dm, rem, q, dc, e
  <1>10. ((dm * Hz) % W) \div Mega = F * dm
    <2>1. dm * Hz = Mega * (F * dm) /\ F * dm \in Nat
      BY <1>1, <1>4, ClockAssumption
    <2>2. Mega * (F * dm) <= S * Mega
      <3>1. S * Mega = Mega * (F * dm) + Mega * rem
        BY <1>4, <2>1, ClockAssumption
      <3>2. Mega * rem \in Nat
        BY <1>4, ClockAssumption
      <3>3. QED
        BY <2>1, <3>1, <3>2, ClockAssumption
    <2>3. dm * Hz \in Nat /\ dm * Hz < W
      BY <1>2, <1>3, <1>4, <1>6, <2>1, <2>2, ClockAssumption
    <2>4. (dm * Hz) % W = dm * Hz
      BY <1>2, <2>3
    <2>5. (Mega * (F * dm) + 0) \div Mega = F * dm
      BY <2>1, DivUnique, ClockAssumption
    <2>6. Mega * (F * dm) + 0 = Mega * (F * dm)
      BY <2>1, ClockAssumption
    <2>7. QED
      BY <2>1, <2>4, <2>5, <2>6
  <1>11. C!Cycles(dm, dc) = cycles
    <2>1. ASSUME NEW wraps \in {q, IF q = 0 THEN Half ELSE q}
          PROVE  (dc + wraps * Half) % W = cycles
      <3>1. CASE wraps = q
        <4>1. dc + wraps * Half = cycles
          BY <1>5, <3>1, ClockAssumption
        <4>2. QED
          BY <1>2, <1>3, <1>9, <4>1
      <3>2. CASE q = 0 /\ wraps = Half
        <4>1. dc = cycles
          BY <1>5, <3>2, ClockAssumption
        <4>2. dc + wraps * Half = W * 1 + cycles
          BY <1>3, <3>2, <4>1, ClockAssumption DEF W
        <4>3. (W * 1 + cycles) % W = cycles
          BY <1>2, <1>3, <1>9, DivUnique
        <4>4. QED
          BY <4>2, <4>3
      <3>3. QED
        BY <2>1, <3>1, <3>2
    <2>2. CASE dm = 0
      <3>1. S < F /\ cycles <= S
        BY <1>1, <1>3, <1>4, <2>2, ClockAssumption DEF S
      <3>2. cycles < Half
        BY <1>1, <1>2, <1>3, <1>7, <3>1
      <3>3. q = 0
        <4>1. CASE 0 < q
          <5>1. Half * 0 + Half <= Half * q /\ Half * q \in Nat
            BY <1>5, <4>1, MulStep, ClockAssumption
          <5>2. QED
            BY <1>3, <1>5, <3>2, <5>1, ClockAssumption
        <4>2. QED
          BY <1>5, <4>1
      <3>4. C!Wraps(dm, dc) = q
        BY <2>2, <3>3 DEF C!Wraps
      <3>5. QED
        BY <2>1, <3>4 DEF C!Cycles, C!Word, W
    <2>3. CASE dm # 0
      <3> DEFINE k == (F * dm - dc) % W
                 h == k \div G
      <3>1. C!Wraps(dm, dc) = (h \div 2) + (h % 2)
        BY <1>10, <2>3 DEF C!Wraps, C!Word, W, G
      <3>2. q * (2 * G) = Half * q /\ Half * q \in Nat
        BY <1>2, <1>5
      <3>3. CASE F * dm - dc >= 0
        <4>1. F * dm - dc < W
          <5>1. F * dm <= S
            BY <1>1, <1>4
          <5>2. F * dm \in Nat
            BY <1>1, <1>4
          <5>3. QED
            BY <1>2, <1>3, <1>5, <1>6, <5>1, <5>2
        <4>2. F * dm - dc \in Nat
          BY <1>1, <1>4, <1>5, <3>3
        <4>3. k = q * (2 * G) + e
          BY <1>2, <1>7, <1>8, <3>2, <4>1, <4>2
        <4>4. q * (2 * G) + e >= 0
          BY <1>8, <3>2, <3>3
        <4>5. (h \div 2) + (h % 2) = q
          BY <1>2, <1>5, <1>7, <4>3, <4>4, RoundToNearest
        <4>6. QED
          BY <2>1, <3>1, <4>5 DEF C!Cycles, C!Word, W
      <3>4. CASE F * dm - dc < 0
        <4>1. q = 0
          <5>1. CASE 0 < q
            <6>1. Half * 0 + Half <= Half * q
              BY <1>5, <5>1, MulStep, ClockAssumption
            <6>2. QED
              BY <1>2, <1>5, <1>7, <1>8, <3>2, <3>4, <6>1, ClockAssumption
          <5>2. QED
            BY <1>5, <5>1
        <4>2. F * dm - dc = e /\ e < 0
          BY <1>7, <1>8, <3>4, <4>1, ClockAssumption
        <4>3. k = W + e
          <5>1. e + W \in 0 .. W - 1
            BY <1>2, <1>7, <4>2
          <5>2. e % W = e + W
            BY <1>2, <1>7, <5>1
          <5>3. QED
            BY <1>2, <1>7, <4>2, <5>2
        <4>4. W = Half * (2 * G)
          BY <1>2 DEF W
        <4>5. Half * (2 * G) + e >= 0
          BY <1>2, <1>7, <4>4
        <4>6. (h \div 2) + (h % 2) = Half
          BY <1>2, <1>7, <4>3, <4>4, <4>5, RoundToNearest, ClockAssumption
        <4>7. QED
          BY <2>1, <3>1, <4>1, <4>6 DEF C!Cycles, C!Word, W
      <3>5. QED
        BY <1>1, <1>4, <1>5, <3>3, <3>4
    <2>4. QED
      BY <2>2, <2>3
  <1>12. (cycles * Giga) % C!Word = cycles * Giga
    BY <1>2, <1>3, ClockAssumption DEF C!Word, W
  <1>13. QED
    BY <1>11, <1>12 DEF C!TimeNs, dm, dc, S, F

-----------------------------------------------------------------------------
(* SystemTimer: reading and waiting *)

W64 == Half * Half
HiAt(t) == (t % W64) \div Half
LoAt(t) == (t % W64) % Half

\* All that happens, happens in the time that one start allows.
TimeInv == \E s \in Starts : /\ now \in s .. s + MaxTicks
                             /\ began \in s .. now /\ called \in s .. now

\* The registers read so far, with the times they were read at.
ReaderInv ==
    /\ reader \in [at : {"idle", "lo", "hi", "done"}, hi : Nat, hi2 : Nat, lo : Nat, raw : Nat]
    /\ reader.at = "lo" => \E r \in began .. now : reader.hi2 = HiAt(r)
    /\ reader.at = "hi" => \E r \in began .. now : \E t \in r .. now :
                              reader.hi = HiAt(r) /\ reader.lo = LoAt(t)
    /\ C!ReadInWindow

\* start was the counter after the call and before the read under way, and end
\* is us later, unless the counter turns.
DelayInv ==
    /\ delay \in [at : {"idle", "start", "wrap", "wait", "returned"}, start : Nat, end : Nat,
                  us : 0 .. W64 - 1]
    /\ reader.at # "idle" => delay.at \in {"start", "wrap", "wait"} /\ called <= began
    /\ delay.at \in {"wrap", "wait"} =>
         /\ delay.end = (delay.start + delay.us) % W64
         /\ \E t \in called .. now : /\ delay.start = t % W64
                                     /\ reader.at # "idle" => t <= began
    /\ C!DelayLasts

ClockInv == TimeInv /\ ReaderInv /\ DelayInv /\ C!TimeExact

\* A sum of two numbers below w is what the counter shows, or w more.
LEMMA SumTurns ==
    ASSUME NEW w \in Nat \ {0}, NEW a \in Nat, NEW b \in Nat, a < w, b < w
    PROVE  /\ a + b < w => (a + b) % w = a + b
           /\ a + b >= w => (a + b) % w = a + b - w
  <1>1. CASE a + b < w
    BY <1>1
  <1>2. CASE a + b >= w
    <2>1. (w * 1 + (a + b - w)) % w = a + b - w
      BY <1>2, DivUnique
    <2>2. w * 1 + (a + b - w) = a + b
      OBVIOUS
    <2>3. QED
      BY <1>2, <2>1, <2>2
  <1>3. QED
    BY <1>1, <1>2

LEMMA ClockInit == C!TimerInit => ClockInv
  <1> SUFFICES ASSUME C!TimerInit PROVE ClockInv
    OBVIOUS
  <1>1. W64 \in Nat \ {0}
    BY ClockAssumption DEF W64
  <1>2. TimeInv
    BY ClockAssumption DEF C!TimerInit, TimeInv
  <1>3. ReaderInv
    BY DEF C!TimerInit, ReaderInv, C!NotReading, C!ReadInWindow
  <1>4. DelayInv
    BY <1>1 DEF C!TimerInit, DelayInv, C!NotDelaying, C!NotReading, C!DelayLasts
  <1>5. C!TimeExact
    BY ClockAssumption DEF C!TimerInit, C!Untimed, C!TimeExact
  <1>6. QED
    BY <1>2, <1>3, <1>4, <1>5 DEF ClockInv

\* Time passes: what was read stays read.
LEMMA TickKeeps ==
    ASSUME ClockInv, C!Tick
    PROVE  ClockInv'
  <1>1. /\ now' = now + 1 /\ reader' = reader /\ began' = began /\ delay' = delay
        /\ called' = called /\ timed' = timed
    BY DEF C!Tick
  <1>2. PICK s \in Starts : /\ now \in s .. s + MaxTicks
                            /\ began \in s .. now /\ called \in s .. now
    BY DEF ClockInv, TimeInv
  <1>3. PICK t \in Starts : now + 1 \in t .. t + MaxTicks
    BY DEF C!Tick
  <1>4. s \in Nat /\ t \in Nat /\ now \in Nat /\ began \in Nat /\ called \in Nat /\ MaxTicks \in Nat
    BY <1>2, <1>3, ClockAssumption
  <1>5. s = t
    BY <1>2, <1>3, <1>4, ClockAssumption
  <1>6. TimeInv'
    BY <1>1, <1>2, <1>3, <1>4, <1>5 DEF TimeInv
  <1>7. began .. now \subseteq began' .. now' /\ called .. now \subseteq called' .. now'
        /\ \A r \in Nat : r .. now \subseteq r .. now'
    BY <1>1, <1>4
  <1>8. ReaderInv'
    <2>1. reader.at = "lo" => \E r \in began' .. now' : reader.hi2 = HiAt(r)
      BY <1>7 DEF ClockInv, ReaderInv
    <2>2. reader.at = "hi" => \E r \in began' .. now' : \E u \in r .. now' :
                                 reader.hi = HiAt(r) /\ reader.lo = LoAt(u)
      <3> SUFFICES ASSUME reader.at = "hi"
                   PROVE  \E r \in began' .. now' : \E u \in r .. now' :
                            reader.hi = HiAt(r) /\ reader.lo = LoAt(u)
        OBVIOUS
      <3>1. PICK r \in began .. now : \E u \in r .. now : reader.hi = HiAt(r) /\ reader.lo = LoAt(u)
        BY DEF ClockInv, ReaderInv
      <3>2. r \in Nat /\ r \in began' .. now'
        BY <1>4, <1>7
      <3>3. QED
        BY <1>7, <3>1, <3>2
    <2>3. C!ReadInWindow'
      BY <1>1, <1>7 DEF ClockInv, ReaderInv, C!ReadInWindow
    <2>4. QED
      BY <1>1, <2>1, <2>2, <2>3 DEF ClockInv, ReaderInv, HiAt, LoAt, W64
  <1>9. DelayInv'
    <2>1. C!DelayLasts'
      <3>1. delay.us \in Nat
        BY DEF ClockInv, DelayInv
      <3>2. QED
        BY <1>1, <1>4, <3>1 DEF ClockInv, DelayInv, C!DelayLasts
    <2>2. delay.at \in {"wrap", "wait"} =>
            \E u \in called' .. now' : delay.start = u % W64 /\ (reader.at # "idle" => u <= began)
      BY <1>7 DEF ClockInv, DelayInv
    <2>3. QED
      BY <1>1, <2>1, <2>2 DEF ClockInv, DelayInv, W64
  <1>10. QED
    BY <1>1, <1>6, <1>8, <1>9 DEF ClockInv, C!TimeExact, C!Word

\* The three reads of systmr_read_raw.
LEMMA ReadsKeep ==
    ASSUME ClockInv, C!ReadBegin \/ C!ReadLo \/ C!ReadHi
    PROVE  ClockInv'
  <1>1. PICK s \in Starts : /\ now \in s .. s + MaxTicks
                            /\ began \in s .. now /\ called \in s .. now
    BY DEF ClockInv, TimeInv
  <1>2. s \in Nat /\ now \in Nat /\ began \in Nat /\ called \in Nat
    BY <1>1, ClockAssumption
  <1>3. W64 \in Nat \ {0} /\ Half \in Nat \ {0}
    BY ClockAssumption DEF W64
  <1>4. \A t \in Nat : t % W64 \in Nat /\ HiAt(t) \in Nat /\ LoAt(t) \in Nat
    <2> SUFFICES ASSUME NEW t \in Nat PROVE t % W64 \in Nat /\ HiAt(t) \in Nat /\ LoAt(t) \in Nat
      OBVIOUS
    <2>1. t % W64 \in Nat
      BY <1>3, DivMod
    <2>2. QED
      BY <1>3, <2>1, DivMod DEF HiAt, LoAt
  <1>5. C!chi = HiAt(now) /\ C!clo = LoAt(now)
    BY DEF C!chi, C!clo, C!Counter, HiAt, LoAt, W64
  <1>6. now' = now /\ delay' = delay /\ called' = called /\ timed' = timed
    BY DEF C!ReadBegin, C!ReadLo, C!ReadHi
  <1>7. C!TimeExact' /\ C!DelayLasts'
    BY <1>6 DEF ClockInv, DelayInv, C!TimeExact, C!DelayLasts, C!Word
  <1>8. now \in began .. now /\ now \in now .. now
    BY <1>1, <1>2
  <1>9. CASE C!ReadBegin
    <2>1. /\ reader.at = "idle" /\ delay.at \in {"start", "wrap", "wait"} /\ began' = now
          /\ reader' = [reader EXCEPT !.at = "lo", !.hi2 = HiAt(now)]
      BY <1>5, <1>9 DEF C!ReadBegin
    <2>2. TimeInv'
      BY <1>1, <1>2, <1>6, <2>1 DEF TimeInv
    <2>3. ReaderInv'
      <3>1. /\ reader' \in [at : {"idle", "lo", "hi", "done"}, hi : Nat, hi2 : Nat, lo : Nat, raw : Nat]
            /\ reader'.at = "lo" /\ reader'.hi2 = HiAt(now)
        BY <1>2, <1>4, <2>1 DEF ClockInv, ReaderInv
      <3>2. QED
        BY <1>6, <1>8, <2>1, <3>1 DEF ReaderInv, C!ReadInWindow, HiAt, LoAt, W64
    <2>4. DelayInv'
      <3>1. called' <= began'
        BY <1>1, <1>2, <1>6, <2>1
      <3>2. delay.at \in {"wrap", "wait"} =>
              \E t \in called' .. now' : delay.start = t % W64 /\ t <= began'
        BY <1>2, <1>6, <2>1 DEF ClockInv, DelayInv
      <3>3. QED
        BY <1>6, <1>7, <2>1, <3>1, <3>2 DEF ClockInv, DelayInv, W64
    <2>5. QED
      BY <1>7, <2>2, <2>3, <2>4 DEF ClockInv
  <1>10. CASE C!ReadLo
    <2>1. /\ reader.at = "lo" /\ began' = began
          /\ reader' = [reader EXCEPT !.at = "hi", !.hi = reader.hi2, !.lo = LoAt(now)]
      BY <1>5, <1>10 DEF C!ReadLo
    <2>2. PICK r \in began .. now : reader.hi2 = HiAt(r)
      BY <2>1 DEF ClockInv, ReaderInv
    <2>3. /\ reader' \in [at : {"idle", "lo", "hi", "done"}, hi : Nat, hi2 : Nat, lo : Nat, raw : Nat]
          /\ reader'.at = "hi" /\ reader'.hi = HiAt(r) /\ reader'.lo = LoAt(now)
      BY <1>2, <1>4, <2>1, <2>2 DEF ClockInv, ReaderInv
    <2>4. now \in r .. now
      BY <1>2
    <2>5. ReaderInv'
      BY <1>6, <2>1, <2>2, <2>3, <2>4 DEF ReaderInv, C!ReadInWindow, HiAt, LoAt, W64
    <2>6. DelayInv'
      BY <1>6, <1>7, <2>1, <2>3 DEF ClockInv, DelayInv, W64
    <2>7. QED
      BY <1>6, <1>7, <2>1, <2>5, <2>6 DEF ClockInv, TimeInv
  <1>11. CASE C!ReadHi
    <2>1. /\ reader.at = "hi" /\ began' = began
          /\ reader' = [reader EXCEPT
               !.at = IF reader.hi # HiAt(now) THEN "lo" ELSE "done",
               !.hi2 = HiAt(now),
               !.raw = IF reader.hi # HiAt(now) THEN @ ELSE reader.hi * Half + reader.lo]
      BY <1>5, <1>11 DEF C!ReadHi, C!Again
    <2>2. PICK r \in began .. now : \E u \in r .. now : reader.hi = HiAt(r) /\ reader.lo = LoAt(u)
      BY <2>1 DEF ClockInv, ReaderInv
    <2> PICK t \in r .. now : reader.hi = HiAt(r) /\ reader.lo = LoAt(t)
      BY <2>2
    <2>3. r \in Nat /\ t \in Nat /\ r <= t /\ t <= now /\ t \in began .. now
      BY <1>2
    <2>4. reader.hi = HiAt(now) => reader.hi * Half + reader.lo = t % W64
      <3> SUFFICES ASSUME reader.hi = HiAt(now) PROVE HiAt(r) * Half + LoAt(t) = t % W64
        OBVIOUS
      <3>1. now - r <= W64 - Half
        <4>1. W64 - Half \in Int /\ MaxTicks <= W64 - Half
          BY <1>3, ClockAssumption DEF W64
        <4>2. QED
          BY <1>1, <1>2, <2>3, <4>1, ClockAssumption
      <3>2. HiAt(r) = HiAt(now)
        OBVIOUS
      <3>3. QED
        BY <1>2, <1>3, <2>3, <3>1, <3>2, SameHalf DEF HiAt, LoAt, W64
    <2>5. reader.hi * Half + reader.lo \in Nat
      BY <1>3 DEF ClockInv, ReaderInv
    <2>6. /\ reader' \in [at : {"idle", "lo", "hi", "done"}, hi : Nat, hi2 : Nat, lo : Nat, raw : Nat]
          /\ reader'.hi2 = HiAt(now)
          /\ \/ reader'.at = "lo"
             \/ /\ reader.hi = HiAt(now)
                /\ reader'.at = "done" /\ reader'.raw = reader.hi * Half + reader.lo
      BY <1>2, <1>4, <2>1, <2>5 DEF ClockInv, ReaderInv
    <2>7. reader'.at = "done" => reader'.raw = t % W64
      BY <2>4, <2>6
    <2>8. C!ReadInWindow'
      BY <1>6, <2>1, <2>3, <2>7 DEF C!ReadInWindow, W64
    <2>9. ReaderInv'
      BY <1>6, <1>8, <2>1, <2>6, <2>8 DEF ReaderInv, HiAt, LoAt, W64
    <2>10. DelayInv'
      BY <1>6, <1>7, <2>1, <2>6 DEF ClockInv, DelayInv, W64
    <2>11. QED
      BY <1>6, <1>7, <2>1, <2>9, <2>10 DEF ClockInv, TimeInv
  <1>12. QED
    BY <1>9, <1>10, <1>11

\* What systmr_delay_us makes of a read.
LEMMA DelayStepKeeps ==
    ASSUME ClockInv, C!DelayStep
    PROVE  ClockInv'
  <1>1. PICK s \in Starts : /\ now \in s .. s + MaxTicks
                            /\ began \in s .. now /\ called \in s .. now
    BY DEF ClockInv, TimeInv
  <1>2. s \in Nat /\ now \in Nat /\ began \in Nat /\ called \in Nat
    BY <1>1, ClockAssumption
  <1>3. W64 \in Nat \ {0}
    BY ClockAssumption DEF W64
  <1>4. /\ reader.at = "done" /\ now' = now /\ began' = began /\ called' = called /\ timed' = timed
        /\ reader' = C!NotReading
    BY DEF C!DelayStep
  <1>5. PICK t \in began .. now : reader.raw = t % W64
    BY <1>4 DEF ClockInv, ReaderInv, C!ReadInWindow, W64
  <1>6. /\ t \in Nat /\ began <= t /\ t <= now /\ called <= began /\ t \in called .. now
        /\ reader.raw \in Nat /\ reader.raw < W64
    BY <1>2, <1>3, <1>4, <1>5, DivMod DEF ClockInv, DelayInv
  <1>7. /\ delay \in [at : {"idle", "start", "wrap", "wait", "returned"}, start : Nat, end : Nat,
                      us : 0 .. W64 - 1]
        /\ delay.at \in {"start", "wrap", "wait"}
        /\ delay.us \in Nat /\ delay.us < W64
    BY <1>3, <1>4 DEF ClockInv, DelayInv
  <1>8. TimeInv' /\ ReaderInv' /\ C!TimeExact' /\ reader'.at = "idle"
    BY <1>4 DEF ClockInv, TimeInv, ReaderInv, C!NotReading, C!ReadInWindow, C!TimeExact, C!Word
  <1>9. CASE delay.at = "start"
    <2> DEFINE end == (reader.raw + delay.us) % W64
    <2>1. end \in Nat
      BY <1>3, <1>6, <1>7, DivMod
    <2>2. end = reader.raw => delay.us = 0
      <3> DEFINE raw == reader.raw
                 us == delay.us
      <3>1. /\ raw + us < W64 => end = raw + us
            /\ raw + us >= W64 => end = raw + us - W64
        BY <1>3, <1>6, <1>7, SumTurns
      <3> HIDE DEF raw, us, end
      <3>2. raw \in Nat /\ us \in Nat /\ us < W64
        BY <1>6, <1>7 DEF raw, us
      <3>3. end = raw => us = 0
        BY <1>3, <3>1, <3>2
      <3>4. QED
        BY <3>3 DEF raw, us
    <2>3. delay' = [delay EXCEPT !.start = reader.raw, !.end = end,
                                 !.at = IF end = reader.raw THEN "returned"
                                        ELSE IF end < reader.raw THEN "wrap" ELSE "wait"]
      BY <1>9 DEF C!DelayStep, C!Started, W64
    <2> HIDE DEF end
    <2>4. /\ delay' \in [at : {"idle", "start", "wrap", "wait", "returned"}, start : Nat, end : Nat,
                         us : 0 .. W64 - 1]
          /\ delay'.start = reader.raw /\ delay'.end = end /\ delay'.us = delay.us
          /\ delay'.at = IF end = reader.raw THEN "returned"
                         ELSE IF end < reader.raw THEN "wrap" ELSE "wait"
      BY <1>6, <1>7, <2>1, <2>3
    <2>5. C!DelayLasts'
      BY <1>1, <1>2, <1>4, <2>2, <2>4 DEF C!DelayLasts
    <2>6. DelayInv'
      BY <1>4, <1>5, <1>6, <1>8, <2>4, <2>5 DEF DelayInv, end, W64
    <2>7. QED
      BY <1>8, <2>6 DEF ClockInv
  <1>10. CASE delay.at \in {"wrap", "wait"}
    <2>1. \/ delay' = delay
          \/ delay.at = "wrap" /\ delay' = [delay EXCEPT !.at = "wait"]
          \/ /\ delay.at = "wait" /\ ~(reader.raw < delay.end)
             /\ delay' = [delay EXCEPT !.at = "returned"]
      BY <1>10 DEF C!DelayStep, C!AfterWrap, C!Waited
    <2>2. PICK t0 \in called .. now : delay.start = t0 % W64 /\ t0 <= began
      BY <1>4, <1>10 DEF ClockInv, DelayInv
    <2>3. delay.end = (delay.start + delay.us) % W64
      BY <1>10 DEF ClockInv, DelayInv
    <2>4. t0 \in Nat /\ t0 <= t /\ delay.start \in Nat /\ delay.start < W64
      BY <1>2, <1>3, <1>6, <2>2, DivMod
    <2>5. CASE delay' = delay \/ delay' = [delay EXCEPT !.at = "wait"]
      <3>1. /\ delay' \in [at : {"idle", "start", "wrap", "wait", "returned"}, start : Nat,
                           end : Nat, us : 0 .. W64 - 1]
            /\ delay'.start = delay.start /\ delay'.end = delay.end /\ delay'.us = delay.us
            /\ delay'.at \in {"wrap", "wait"}
        BY <1>7, <1>10, <2>5
      <3>2. QED
        BY <1>4, <1>8, <2>2, <2>3, <3>1 DEF ClockInv, DelayInv, C!DelayLasts, W64
    <2>6. CASE /\ delay.at = "wait" /\ ~(reader.raw < delay.end)
               /\ delay' = [delay EXCEPT !.at = "returned"]
      <3>1. /\ delay' \in [at : {"idle", "start", "wrap", "wait", "returned"}, start : Nat,
                           end : Nat, us : 0 .. W64 - 1]
            /\ delay'.start = delay.start /\ delay'.end = delay.end /\ delay'.us = delay.us
            /\ delay'.at = "returned"
        BY <1>7, <2>6
      <3>2. delay.end >= delay.start => now - called >= delay.us
        <4> DEFINE a == delay.start
                   us == delay.us
                   e == delay.end
        <4>1. /\ a + us < W64 => e = a + us
              /\ a + us >= W64 => e = a + us - W64
          BY <1>3, <1>7, <2>3, <2>4, SumTurns
        <4>2. a \in Nat /\ us \in Nat /\ us < W64 /\ reader.raw >= e /\ e \in Nat
          BY <1>6, <1>7, <2>4, <2>6
        <4>3. a = t0 % W64
          BY <2>2
        <4> HIDE DEF a, us, e
        <4>4. e >= a => t % W64 >= (t0 % W64) + us
          BY <1>3, <1>5, <1>6, <4>1, <4>2, <4>3
        <4>5. e >= a => t - t0 >= us
          BY <1>3, <1>6, <2>4, <4>2, <4>4, CounterLags
        <4>6. e >= a => now - called >= us
          BY <1>2, <1>6, <2>2, <2>4, <4>2, <4>5
        <4>7. QED
          BY <4>6 DEF a, us, e
      <3>3. C!DelayLasts'
        BY <1>4, <1>7, <2>4, <3>1, <3>2 DEF C!DelayLasts
      <3>4. QED
        BY <1>4, <1>8, <3>1, <3>3 DEF ClockInv, DelayInv, W64
    <2>7. QED
      BY <2>1, <2>5, <2>6
  <1>11. QED
    BY <1>7, <1>9, <1>10

LEMMA ClockStepKeeps ==
    ASSUME ClockInv, C!TimerNext \/ UNCHANGED clockvars
    PROVE  ClockInv'
  <1>1. CASE C!DelayCall
    <2>1. /\ delay.at = "idle" /\ called' = now /\ timed' = C!Untimed
          /\ now' = now /\ reader' = reader /\ began' = began
      BY <1>1 DEF C!DelayCall
    <2>2. PICK us \in Delays : delay' = [delay EXCEPT !.at = "start", !.us = us]
      BY <1>1 DEF C!DelayCall
    <2>3. us \in 0 .. W64 - 1
      BY ClockAssumption DEF W64
    <2>4. delay' \in [at : {"idle", "start", "wrap", "wait", "returned"}, start : Nat, end : Nat,
                      us : 0 .. W64 - 1] /\ delay'.at = "start"
      BY <2>2, <2>3 DEF ClockInv, DelayInv
    <2>5. reader.at = "idle"
      BY <2>1 DEF ClockInv, ReaderInv, DelayInv
    <2>6. DelayInv'
      BY <2>1, <2>4, <2>5 DEF DelayInv, C!DelayLasts, W64
    <2>7. TimeInv'
      <3>1. PICK s \in Starts : now \in s .. s + MaxTicks /\ began \in s .. now
        BY DEF ClockInv, TimeInv
      <3>2. now \in s .. now
        BY <3>1, ClockAssumption
      <3>3. QED
        BY <2>1, <3>1, <3>2 DEF TimeInv
    <2>8. C!TimeExact'
      BY <2>1, ClockAssumption DEF C!Untimed, C!TimeExact
    <2>9. ReaderInv'
      BY <2>1 DEF ClockInv, ReaderInv, C!ReadInWindow, HiAt, LoAt, W64
    <2>10. QED
      BY <2>6, <2>7, <2>8, <2>9 DEF ClockInv
  <1>2. CASE C!DelayReturn
    <2>1. /\ delay.at = "returned" /\ delay' = C!NotDelaying /\ now' = now /\ reader' = reader
          /\ began' = began /\ called' = called /\ timed' = timed
      BY <1>2 DEF C!DelayReturn
    <2>2. reader.at = "idle"
      BY <2>1 DEF ClockInv, ReaderInv, DelayInv
    <2>3. W64 \in Nat \ {0}
      BY ClockAssumption DEF W64
    <2>4. DelayInv'
      BY <2>1, <2>2, <2>3 DEF DelayInv, C!NotDelaying, C!DelayLasts, W64
    <2>5. QED
      BY <2>1, <2>4 DEF ClockInv, TimeInv, ReaderInv, C!ReadInWindow, C!TimeExact, C!Word,
                        HiAt, LoAt, W64
  <1>3. CASE C!TimeRun
    <2>1. now' = now /\ reader' = reader /\ began' = began /\ delay' = delay /\ called' = called
      BY <1>3 DEF C!TimeRun
    <2>2. PICK cycles \in 0 .. MaxCycles, phase \in 0 .. Hz \div Mega - 1,
               lag1 \in 0 .. MaxLag, lag2 \in 0 .. MaxLag :
            timed' = [cycles |-> cycles,
                      ns |-> C!TimeNs((phase + lag1 + cycles + lag2) \div (Hz \div Mega),
                                      cycles % Half)]
      BY <1>3 DEF C!TimeRun, C!TimedRun
    <2>3. C!TimeExact'
      BY <2>2, TimeRight DEF C!TimeExact, C!Word
    <2>4. QED
      BY <2>1, <2>3 DEF ClockInv, TimeInv, ReaderInv, DelayInv, C!ReadInWindow, C!DelayLasts,
                        HiAt, LoAt, W64
  <1>4. CASE UNCHANGED clockvars
    BY <1>4 DEF clockvars, ClockInv, TimeInv, ReaderInv, DelayInv, C!ReadInWindow, C!DelayLasts,
                C!TimeExact, C!Word, HiAt, LoAt, W64
  <1>5. QED
    BY <1>1, <1>2, <1>3, <1>4, TickKeeps, ReadsKeep, DelayStepKeeps DEF C!TimerNext

-----------------------------------------------------------------------------
(* IntegrityCheck: coverage *)

Region == [p : Nat, size : Nat]
Covers(r, a) == r.p <= a /\ a < I!End(r)
InHeader(a) == HeaderRange[1] <= a /\ a < HeaderRange[2]
Holding(s, n, a) == {i \in 1 .. n : s[i].p <= a /\ a < I!End(s[i])}

LEMMA OneElement == ASSUME NEW x PROVE I!Cardinality({x}) = 1
  BY FS_Singleton DEF I!Cardinality, Cardinality

\* The sort, whatever order it leaves them in, loses itself in no new region.
LEMMA SortKeeps ==
    ASSUME NEW R, NEW n \in Nat, NEW s \in Seq(R), Len(s) = n + 1
    PROVE  I!Sorted(s) \in [1 .. n + 1 -> R]
  <1> DEFINE S == [1 .. n + 1 -> R]
             Fcn(h) == [i \in 0 .. Len(s) - 1 |-> IF i = 0 THEN s ELSE I!SortStep(h[i - 1], i)]
             pass == CHOOSE h : h = Fcn(h)
             step == [k \in 1 .. n |-> [t \in S |-> I!SortStep(t, k)]]
  <1>0. s \in S
    OBVIOUS
  <1>1. Len(s) - 1 = n
    OBVIOUS
  <1>2. ASSUME NEW t \in S, NEW k \in 1 .. n PROVE I!SortStep(t, k) \in S
    <2>1. t \in Seq(R) /\ Len(t) = n + 1
      OBVIOUS
    <2>2. I!SortStep(t, k) = t \/ I!SortStep(t, k) = I!Swapped(t, k, n + 1)
      BY <2>1 DEF I!SortStep
    <2>3. I!Swapped(t, k, n + 1) \in S
      BY DEF I!Swapped
    <2>4. QED
      BY <2>2, <2>3
  <1>3. AreSteps(step, S, n)
    BY <1>2 DEF AreSteps
  <1> HIDE DEF S, step
  <1>3a. PICK g : GoesBySteps(g, S, n, s, step)
    BY <1>0, <1>3, Recursion
  <1>4. g \in [0 .. n -> S] /\ g[0] = s /\ \A k \in 1 .. n : g[k] = step[k][g[k - 1]]
    BY <1>3a DEF GoesBySteps
  <1>5. \A k \in 1 .. n : g[k] = I!SortStep(g[k - 1], k)
    <2> SUFFICES ASSUME NEW k \in 1 .. n PROVE g[k] = I!SortStep(g[k - 1], k)
      OBVIOUS
    <2>1. k - 1 \in 0 .. n
      OBVIOUS
    <2>2. g[k - 1] \in S
      BY <1>4, <2>1
    <2>3. step[k][g[k - 1]] = I!SortStep(g[k - 1], k)
      BY <2>2 DEF step
    <2>4. QED
      BY <1>4, <2>3
  <1>6. g = Fcn(g)
    <2>1. ASSUME NEW i \in 0 .. n PROVE g[i] = IF i = 0 THEN s ELSE I!SortStep(g[i - 1], i)
      <3>1. CASE i = 0
        BY <1>4, <3>1
      <3>2. CASE i # 0
        <4>1. i \in 1 .. n
          BY <3>2
        <4>2. QED
          BY <1>5, <3>2, <4>1
      <3>3. QED
        BY <3>1, <3>2
    <2>2. QED
      BY <1>1, <1>4, <2>1
  <1>7. pass = Fcn(pass)
    <2> HIDE DEF Fcn
    <2>1. \E h : h = Fcn(h)
      BY <1>6
    <2>2. QED
      BY <2>1, Zenon
  <1> HIDE DEF pass
  <1>8. /\ pass[0] = s
        /\ \A k \in 1 .. n : pass[k] = I!SortStep(pass[k - 1], k)
    <2>1. \A i \in 0 .. n : pass[i] = IF i = 0 THEN s ELSE I!SortStep(pass[i - 1], i)
      BY <1>1, <1>7
    <2>2. QED
      BY <2>1
  <1> DEFINE T == {i \in Nat : i <= n => pass[i] \in S}
  <1>9. 0 \in T
    BY <1>0, <1>8
  <1>10. ASSUME NEW i \in Nat, i \in T PROVE i + 1 \in T
    <2> SUFFICES ASSUME i + 1 <= n PROVE pass[i + 1] \in S
      OBVIOUS
    <2>1. i + 1 \in 1 .. n /\ (i + 1) - 1 = i /\ i <= n
      OBVIOUS
    <2>2. pass[i] \in S
      BY <1>10, <2>1
    <2>3. pass[i + 1] = I!SortStep(pass[i], i + 1)
      BY <1>8, <2>1
    <2>4. QED
      BY <1>2, <2>1, <2>2, <2>3
  <1> HIDE DEF T
  <1>11. n \in T
    BY <1>9, <1>10, SetInduct
  <1>12. pass[n] \in S
    BY <1>11 DEF T
  <1>13. I!Sorted(s) = pass[n]
    BY <1>1 DEF I!Sorted, pass
  <1>14. QED
    BY <1>12, <1>13 DEF S

\* Where the regions up to i end: where region i does, unless it is empty.
LEMMA EndsStep ==
    ASSUME NEW n \in Nat, NEW s \in [1 .. n -> Region], NEW i \in 1 .. n
    PROVE  I!EndsBefore(s, i + 1) = IF s[i].size > 0 THEN I!End(s[i]) ELSE I!EndsBefore(s, i)
  <1> DEFINE big == {j \in 1 .. i - 1 : s[j].size > 0}
             more == {j \in 1 .. (i + 1) - 1 : s[j].size > 0}
  <1>1. (i + 1) - 1 = i /\ s[i].size \in Nat
    BY DEF Region
  <1>2. CASE s[i].size > 0
    <2>1. i \in more /\ \A j \in more : j <= i /\ j \in Nat
      BY <1>1, <1>2
    <2>2. I!Max(more) = i
      <3> HIDE DEF more
      <3>1. \A x \in more : (\A y \in more : x >= y) <=> x = i
        BY <2>1
      <3>2. QED
        BY <2>1, <3>1 DEF I!Max
    <2>3. more # {}
      BY <2>1
    <2>4. QED
      BY <1>2, <2>2, <2>3 DEF I!EndsBefore
  <1>3. CASE ~(s[i].size > 0)
    <2>1. more = big
      BY <1>1, <1>3
    <2>2. QED
      BY <1>3, <2>1 DEF I!EndsBefore
  <1>4. QED
    BY <1>2, <1>3

\* Regions that pass every test of integ_check_coverage.
LEMMA FitsCover ==
    ASSUME NEW n \in Nat, NEW s \in [1 .. n -> Region],
           \A i \in 1 .. n : I!Fits(s, i) /\ I!ClearOfHeader(s[i]),
           NEW a \in Nat, a < I!EndsBefore(s, n + 1)
    PROVE  IF InHeader(a) THEN Holding(s, n, a) = {} ELSE \E j : Holding(s, n, a) = {j}
  <1>1. /\ \A i \in 1 .. n : s[i].p \in Nat /\ s[i].size \in Nat /\ I!End(s[i]) \in Nat
        /\ HeaderRange[1] \in Nat /\ HeaderRange[2] \in Nat
    BY IntegAssumption DEF Region, I!End
  <1>2. I!EndsBefore(s, 0 + 1) = 0
    BY DEF I!EndsBefore
  <1> DEFINE Q(i) == I!EndsBefore(s, i + 1)
             Claim(i) == /\ Q(i) \in Nat
                         /\ \A j \in 1 .. i : s[j].size > 0 => I!End(s[j]) <= Q(i)
                         /\ \A b \in Nat : b < Q(i) /\ ~InHeader(b) =>
                              \E j \in 1 .. i : Covers(s[j], b)
                         /\ \A b \in Nat : \A j, k \in 1 .. i :
                              Covers(s[j], b) /\ Covers(s[k], b) => j = k
             T == {i \in Nat : i <= n => Claim(i)}
  <1>3. 0 \in T
    BY <1>2
  <1>4. ASSUME NEW i \in Nat, i \in T PROVE i + 1 \in T
    <2>1. SUFFICES ASSUME i + 1 <= n PROVE Claim(i + 1)
      OBVIOUS
    <2>2. Claim(i)
      BY <1>4, <2>1
    <2> DEFINE r == s[i + 1]
               q == Q(i)
               z == Q(i + 1)
    <2>3. i + 1 \in 1 .. n
      BY <2>1
    <2>4. r.p \in Nat /\ r.size \in Nat /\ I!End(r) = r.p + r.size
      BY <1>1, <2>3 DEF I!End
    <2>5. z = IF r.size > 0 THEN I!End(r) ELSE q
      BY <2>3, EndsStep
    <2>6. /\ q <= r.p
          /\ q < r.p => q = HeaderRange[1] /\ r.p = HeaderRange[2]
      <3>1. I!Fits(s, i + 1)
        BY <2>3
      <3> HIDE DEF r
      <3>2. QED
        BY <2>2, <2>4, <3>1 DEF I!Fits, r
    <2>7. \A j \in 1 .. i + 1 : j \in 1 .. i \/ j = i + 1
      OBVIOUS
    <2>8. /\ q \in Nat
          /\ \A j \in 1 .. i : s[j].size > 0 => I!End(s[j]) <= q
          /\ \A b \in Nat : b < q /\ ~InHeader(b) => \E j \in 1 .. i : Covers(s[j], b)
          /\ \A b \in Nat : \A j, k \in 1 .. i : Covers(s[j], b) /\ Covers(s[k], b) => j = k
      BY <2>2
    <2>9. \A j \in 1 .. i : j \in 1 .. n
      BY <2>1
    <2> HIDE DEF Q, q, z, r
    <2>10. z \in Nat /\ q <= z
      BY <2>4, <2>5, <2>6, <2>8
    <2>11. \A j \in 1 .. i : s[j].size > 0 => I!End(s[j]) <= z
      BY <1>1, <2>8, <2>9, <2>10
    <2>12. r.size > 0 => I!End(r) <= z
      BY <2>4, <2>5, <2>10
    <2>13. ASSUME NEW b \in Nat, b < z, ~InHeader(b)
           PROVE  (\E j \in 1 .. i : Covers(s[j], b)) \/ Covers(r, b)
      <3>1. CASE b < q
        BY <2>8, <2>13, <3>1
      <3>2. CASE q <= b
        <4>1. r.size > 0 /\ b < I!End(r)
          BY <2>4, <2>5, <2>8, <2>13, <3>2
        <4>2. r.p <= b
          BY <1>1, <2>4, <2>6, <2>8, <2>13, <3>2 DEF InHeader
        <4>3. QED
          BY <4>1, <4>2 DEF Covers
      <3>3. QED
        BY <2>8, <3>1, <3>2
    <2>14. ASSUME NEW b \in Nat, NEW j \in 1 .. i, Covers(s[j], b) PROVE ~Covers(r, b)
      <3> DEFINE e == I!End(s[j])
      <3>1. e \in Nat /\ b < e /\ s[j].p <= b /\ s[j].p \in Nat /\ s[j].size \in Nat
            /\ e = s[j].p + s[j].size
        BY <1>1, <2>9, <2>14 DEF Covers, I!End
      <3>2. s[j].size > 0
        <4> HIDE DEF e
        <4>1. QED
          BY <3>1
      <3>3. e <= q
        BY <2>8, <3>2
      <3> HIDE DEF e
      <3>4. b < r.p
        BY <2>4, <2>6, <2>8, <3>1, <3>3
      <3>5. QED
        BY <2>4, <3>4 DEF Covers
    <2>15. \A j \in 1 .. i + 1 : s[j].size > 0 => I!End(s[j]) <= z
      BY <2>7, <2>11, <2>12 DEF r
    <2>16. \A b \in Nat : b < z /\ ~InHeader(b) => \E j \in 1 .. i + 1 : Covers(s[j], b)
      <3>1. \A j \in 1 .. i : j \in 1 .. i + 1
        OBVIOUS
      <3>2. i + 1 \in 1 .. i + 1
        OBVIOUS
      <3>3. QED
        BY <2>13, <3>1, <3>2 DEF r
    <2>17. \A b \in Nat : \A j, k \in 1 .. i + 1 : Covers(s[j], b) /\ Covers(s[k], b) => j = k
      BY <2>7, <2>8, <2>14 DEF r
    <2>18. QED
      BY <2>10, <2>15, <2>16, <2>17 DEF z
  <1> HIDE DEF T
  <1>5. n \in T
    BY <1>3, <1>4, SetInduct
  <1>6. Claim(n)
    BY <1>5 DEF T
  <1>7. CASE InHeader(a)
    <2>1. ASSUME NEW i \in 1 .. n, Covers(s[i], a) PROVE FALSE
      <3> DEFINE e == I!End(s[i])
                 p == s[i].p
      <3>1. p \in Nat /\ e \in Nat /\ p <= a /\ a < e
        BY <1>1, <2>1 DEF Covers
      <3>2. ~(p < HeaderRange[2] /\ HeaderRange[1] < e)
        BY DEF I!ClearOfHeader
      <3> HIDE DEF e, p
      <3>3. QED
        BY <1>1, <1>7, <3>1, <3>2 DEF InHeader
    <2>2. Holding(s, n, a) = {}
      BY <2>1 DEF Covers, Holding
    <2>3. QED
      BY <1>7, <2>2
  <1>8. CASE ~InHeader(a)
    <2>1. PICK j \in 1 .. n : Covers(s[j], a)
      BY <1>6, <1>8
    <2>2. \A k \in 1 .. n : Covers(s[k], a) => k = j
      BY <1>6, <2>1
    <2>3. Holding(s, n, a) = {j}
      BY <2>1, <2>2 DEF Covers, Holding
    <2>4. QED
      BY <1>8, <2>3
  <1>9. QED
    BY <1>7, <1>8

\* Before the test there is a list of regions and a spare slot; after it, the
\* result stands.
CoverInv ==
    /\ integPc = "coverage" =>
         /\ ~covered
         /\ layout \in {Append(l, [p |-> 0, size |-> 0]) : l \in Layouts}
    /\ I!CoverageSound

LEMMA CoverInit == I!IntegInit => CoverInv
  BY DEF I!IntegInit, CoverInv, I!CoverageSound

LEMMA CoverStepKeeps ==
    ASSUME CoverInv, I!IntegNext \/ UNCHANGED checkvars
    PROVE  CoverInv'
  <1>1. CASE I!CheckCoverage
    <2> DEFINE n == Len(layout) - 1
               s == I!Sorted(layout)
               spare == [p |-> 0, size |-> 0]
    <2>1. PICK l \in Layouts : layout = Append(l, spare)
      BY <1>1 DEF I!CheckCoverage, CoverInv
    <2>2. l \in Seq(Region) /\ spare \in Region
      BY IntegAssumption DEF Region
    <2> HIDE DEF spare
    <2>3. layout \in Seq(Region) /\ Len(layout) = Len(l) + 1 /\ layout[Len(l) + 1] = spare
          /\ n = Len(l) /\ n \in Nat
      BY <2>1, <2>2
    <2>4. /\ integPc' # "coverage"
          /\ covered' => /\ \A i \in 1 .. n : I!ClearOfHeader(layout[i])
                         /\ layout' = s
                         /\ \A i \in 1 .. n : I!Fits(s, i)
                         /\ I!EndsBefore(s, n + 1) = DramEnd
      BY <1>1 DEF I!CheckCoverage
    <2> HIDE DEF n
    <2>5. SUFFICES ASSUME covered', NEW a \in 0 .. DramEnd - 1
                   PROVE  LET in == {i \in 1 .. Len(layout') - 1 :
                                       layout'[i].p <= a /\ a < I!End(layout'[i])}
                          IN  IF HeaderRange[1] <= a /\ a < HeaderRange[2] THEN in = {}
                              ELSE I!Cardinality(in) = 1
      BY <2>4 DEF CoverInv, I!CoverageSound
    <2> DEFINE R == {r \in Region : I!ClearOfHeader(r)}
    <2>6. layout \in Seq(R)
      <3>1. I!ClearOfHeader(spare)
        BY IntegAssumption DEF I!ClearOfHeader, I!End, spare
      <3>2. ASSUME NEW i \in 1 .. Len(layout) PROVE layout[i] \in R
        <4>1. layout[i] \in Region
          BY <2>3
        <4>2. CASE i \in 1 .. n
          BY <2>4, <2>5, <4>1, <4>2
        <4>3. CASE i = n + 1
          BY <2>3, <3>1, <4>1, <4>3
        <4>4. QED
          BY <2>3, <4>2, <4>3
      <3> HIDE DEF R
      <3>3. QED
        BY <2>3, <3>2
    <2>7. s \in [1 .. n + 1 -> R]
      <3> HIDE DEF R
      <3>1. Len(layout) = n + 1
        BY <2>3
      <3>2. QED
        BY <2>3, <2>6, <3>1, SortKeeps
    <2> HIDE DEF s
    <2>8. Len(s) = n + 1 /\ \A i \in 1 .. n : s[i] \in Region /\ I!ClearOfHeader(s[i])
      BY <2>3, <2>7
    <2> DEFINE t == [i \in 1 .. n |-> s[i]]
    <2>9. t \in [1 .. n -> Region] /\ \A i \in 1 .. n : t[i] = s[i]
      BY <2>8
    <2>10. \A i \in 1 .. n + 1 : I!EndsBefore(t, i) = I!EndsBefore(s, i)
      <3> SUFFICES ASSUME NEW i \in 1 .. n + 1 PROVE I!EndsBefore(t, i) = I!EndsBefore(s, i)
        OBVIOUS
      <3> DEFINE big == {j \in 1 .. i - 1 : s[j].size > 0}
      <3>1. \A j \in 1 .. i - 1 : j \in 1 .. n
        BY <2>3
      <3>2. {j \in 1 .. i - 1 : t[j].size > 0} = big
        BY <2>9, <3>1
      <3>3. big # {} => t[I!Max(big)] = s[I!Max(big)]
        <4> SUFFICES ASSUME big # {} PROVE I!Max(big) \in 1 .. n
          BY <2>9
        <4>1. \A j \in big : j \in 1 .. n
          BY <3>1
        <4>2. I!Max(big) \in big
          <5> HIDE DEF big
          <5>1. QED
            BY <2>3, <4>1, GreatestOf
        <4>3. QED
          BY <4>1, <4>2
      <3> HIDE DEF t
      <3>4. QED
        BY <3>2, <3>3 DEF I!EndsBefore
    <2> HIDE DEF t
    <2>11. \A i \in 1 .. n : I!Fits(t, i) /\ I!ClearOfHeader(t[i])
      <3> SUFFICES ASSUME NEW i \in 1 .. n PROVE I!Fits(t, i) /\ I!ClearOfHeader(t[i])
        OBVIOUS
      <3>1. i \in 1 .. n + 1
        BY <2>3
      <3>2. I!EndsBefore(t, i) = I!EndsBefore(s, i) /\ t[i] = s[i]
        BY <2>9, <2>10, <3>1
      <3>3. I!Fits(s, i) /\ I!ClearOfHeader(s[i])
        BY <2>4, <2>5, <2>8
      <3>4. QED
        BY <3>2, <3>3 DEF I!Fits
    <2>12. n + 1 \in 1 .. n + 1
      BY <2>3
    <2>13. a \in Nat /\ a < I!EndsBefore(t, n + 1)
      BY <2>4, <2>5, <2>10, <2>12, IntegAssumption
    <2>14. IF InHeader(a) THEN Holding(t, n, a) = {} ELSE \E j : Holding(t, n, a) = {j}
      BY <2>3, <2>9, <2>11, <2>13, FitsCover
    <2>15. {i \in 1 .. Len(layout') - 1 : layout'[i].p <= a /\ a < I!End(layout'[i])}
             = Holding(t, n, a)
      <3>1. layout' = s /\ Len(layout') - 1 = n
        BY <2>3, <2>4, <2>5, <2>8
      <3>2. QED
        BY <2>9, <3>1 DEF Holding
    <2>16. QED
      BY <2>14, <2>15, OneElement DEF InHeader
  <1>2. CASE UNCHANGED <<layout, covered>> /\ integPc # "coverage" /\ integPc' # "coverage"
    BY <1>2 DEF CoverInv, I!CoverageSound
  <1>3. CASE UNCHANGED checkvars
    BY <1>3 DEF checkvars, CoverInv, I!CoverageSound
  <1>4. QED
    BY <1>1, <1>2, <1>3 DEF I!IntegNext, I!IntegRun, I!PayloadWrites, I!IntegChk, I!ClearMarks

-----------------------------------------------------------------------------
(* PageAllocator *)

Scale == Fan * Fan * Fan
Offset == Supersections * Fan * Fan + Supersections * Fan
Count == Offset + Supersections
AllFree == [i \in 0 .. Count - 1 |-> 0 .. Fan - 1]
NoLinks == [i \in 0 .. Count - 1 |-> ChainEnd]

\* __builtin_clz of a bitmap never is below 16: no child is ever taken, and the
\* regions stay as ppa_init left them.
PpaType == [mask : SUBSET (0 .. Supersections - 1), bitmap : {AllFree}, next : {NoLinks},
            prev : {NoLinks}, lists : [0 .. 2 -> (0 .. Count - 1) \cup {SizeMax}],
            allocated : [0 .. 3 -> Int], stray : SUBSET (0 .. Supersections - 1)]

\* Supersection s is the one on the list of floating supersections.
Floats(p, s) == p.lists[0] = s + Offset

\* At most one supersection is on the list, and it is not in the mask unless
\* unfloat_region has left it on the list.
ListInv(p) == /\ p.lists[1] = SizeMax /\ p.lists[2] = SizeMax
              /\ \/ p.lists[0] = SizeMax
                 \/ \E s \in 0 .. Supersections - 1 : Floats(p, s) /\ (s \in p.mask => s \in p.stray)

\* The region r begins with a supersection; unless that was left on the list,
\* it is not in the mask, and when r is all of it not on the list either.
Begins(p, r) == /\ r.kind \in 0 .. 3
                /\ \E n \in 0 .. Supersections - 1 :
                     /\ r.at = Scale * n
                     /\ n \notin p.stray => n \notin p.mask /\ (r.kind = 0 => ~Floats(p, n))

\* The regions r and t begin at the same address only where that was left on
\* the list.
Shares(p, r, t) == r.at = t.at => \E n \in p.stray : r.at = Scale * n

LiveInv(p, l) == /\ l \in Seq([at : Nat, kind : 0 .. 3])
                 /\ \A i \in 1 .. Len(l) : Begins(p, l[i])
                 /\ \A i, j \in 1 .. Len(l) : i # j /\ l[i].kind = 0 => Shares(p, l[i], l[j])

PageInv == ppa \in PpaType /\ ListInv(ppa) /\ LiveInv(ppa, live)

\* The numbers of the regions.
LEMMA PageNumbers ==
    /\ Supersections \in Nat /\ Supersections >= 1 /\ Fan \in Nat /\ Fan >= 2
    /\ Scale \in Nat /\ Scale >= 1 /\ Offset \in Nat /\ Offset > 2 /\ Count \in Nat
    /\ Offset + Supersections <= SizeMax /\ SizeMax \in Nat
    /\ Supersections * Fan * Fan \in Nat /\ Supersections * Fan * Fan > 2
    /\ P!IndexOffset(0) = Offset /\ P!IndexOffset(1) = Supersections * Fan * Fan
    /\ P!IndexOffset(2) = 0 /\ P!RegionCount = Count /\ P!RegionScale(0) = Scale
    /\ P!Children = 0 .. Fan - 1 /\ P!Children # {}
  <1>1. Supersections \in Nat /\ Supersections >= 1 /\ Fan \in Nat /\ Fan >= 2
    BY PageAssumption
  <1> DEFINE f2 == Fan * Fan
             s1 == Supersections * Fan
             s2 == Supersections * Fan * Fan
  <1>2. f2 \in Nat /\ f2 >= 4
    BY <1>1
  <1>3. s1 \in Nat /\ s1 >= 2
    BY <1>1
  <1>4. s2 \in Nat /\ s2 >= 4
    <2> HIDE DEF s1
    <2>1. s1 * Fan >= s1 + s1 /\ s1 * Fan \in Nat
      BY <1>1, <1>3
    <2>2. s2 = s1 * Fan
      BY DEF s1
    <2>3. QED
      BY <1>3, <2>1, <2>2
  <1>5. Scale \in Nat /\ Scale >= 1
    <2> HIDE DEF f2
    <2>1. f2 * Fan \in Nat /\ f2 * Fan >= f2
      BY <1>1, <1>2
    <2>2. Scale = f2 * Fan
      BY DEF f2, Scale
    <2>3. QED
      BY <1>2, <2>1, <2>2
  <1>6. Offset = s2 + s1
    BY DEF Offset
  <1>7. Count = Offset + Supersections /\ s2 + s1 + Supersections <= SizeMax /\ SizeMax \in Nat
    BY PageAssumption DEF Count
  <1>8. /\ P!IndexOffset(0) = Offset /\ P!IndexOffset(1) = s2 /\ P!IndexOffset(2) = 0
        /\ P!RegionCount = Count /\ P!RegionScale(0) = Scale
    BY DEF P!IndexOffset, P!RegionCount, P!RegionScale, Offset, Count, Scale
  <1>9. P!Children = 0 .. Fan - 1 /\ 0 \in P!Children
    BY <1>1 DEF P!Children
  <1>10. QED
    <2> HIDE DEF f2, s1, s2
    <2>1. /\ Offset \in Nat /\ Offset > 2 /\ Count \in Nat
          /\ Offset + Supersections <= SizeMax /\ s2 \in Nat /\ s2 > 2
      BY <1>1, <1>3, <1>4, <1>6, <1>7
    <2>2. QED
      BY <1>1, <1>5, <1>7, <1>8, <1>9, <2>1 DEF s2

\* commit_region takes no child of a region that has all of them.
LEMMA TakesNothing ==
    ASSUME NEW p \in PpaType, NEW idx \in 0 .. Count - 1, NEW k \in 0 .. 2
    PROVE  P!CommitLevel(p, idx, k) = [ppa |-> p, no |-> (idx - P!IndexOffset(k)) * Fan]
  <1> DEFINE C0 == 0 .. Fan - 1
  <1>1. p.bitmap = AllFree /\ p.bitmap[idx] = C0
    BY DEF PpaType, AllFree
  <1>2. C0 # {} /\ Fan - 1 \in C0 /\ Fan \in Nat
    BY PageNumbers
  <1>3. P!Max(C0) = Fan - 1
    <2>1. \A y \in C0 : Fan - 1 >= y
      BY <1>2
    <2>2. \A x \in C0 : (\A y \in C0 : x >= y) => x = Fan - 1
      <3> SUFFICES ASSUME NEW x \in C0, \A y \in C0 : x >= y PROVE x = Fan - 1
        OBVIOUS
      <3>1. x >= Fan - 1 /\ x <= Fan - 1 /\ x \in Nat
        BY <1>2
      <3>2. QED
        BY <1>2, <3>1
    <2> DEFINE m == CHOOSE x \in C0 : \A y \in C0 : x >= y
    <2>3. m \in C0 /\ \A y \in C0 : m >= y
      <3> HIDE DEF C0
      <3>1. QED
        BY <1>2, <2>1, Zenon
    <2>4. P!Max(C0) = m
      BY Zenon DEF P!Max
    <2> HIDE DEF m, C0
    <2>5. QED
      BY <2>2, <2>3, <2>4
  <1>4. P!LeadingZeros(C0) = Fan
    <2> HIDE DEF C0
    <2>1. QED
      BY <1>2, <1>3 DEF P!LeadingZeros
  <1>5. P!Taken(C0) = C0 /\ P!ChildNo(C0) = 0
    BY <1>2, <1>4 DEF P!Taken, P!ChildNo
  <1> HIDE DEF C0
  <1>6. [p EXCEPT !.bitmap[idx] = P!Taken(@)] = p
    <2>1. [p.bitmap EXCEPT ![idx] = P!Taken(@)] = p.bitmap
      <3>1. p.bitmap \in [0 .. Count - 1 -> {C0}]
        BY <1>1 DEF AllFree, C0
      <3>2. QED
        BY <1>1, <1>5, <3>1
    <2>2. QED
      BY <2>1 DEF PpaType
  <1>7. P!TakeChild(p, idx, k) = p
    BY <1>1, <1>2, <1>6 DEF P!TakeChild
  <1> DEFINE d == (idx - P!IndexOffset(k)) * Fan
  <1>8. d \in Int
    <2>1. P!IndexOffset(k) \in Int /\ idx \in Int /\ Fan \in Int
      BY PageNumbers
    <2>2. QED
      BY <2>1
  <1>9. 0 + d = d
    <2> HIDE DEF d
    <2>1. QED
      BY <1>8
  <1> HIDE DEF d
  <1>10. QED
    BY <1>1, <1>5, <1>7, <1>9 DEF P!CommitLevel, d

\* The first section of supersection s, and the first large page of it.
LEMMA FirstParts ==
    ASSUME NEW s \in 0 .. Supersections - 1
    PROVE  /\ s * Fan \in Nat /\ s * Fan * Fan \in Nat
           /\ s + Offset \in 0 .. Count - 1 /\ (s + Offset) - P!IndexOffset(0) = s
           /\ P!RegionIndex(s, 0) = s + Offset
           /\ P!RegionIndex(s * Fan, 1) \in 0 .. Count - 1
           /\ P!RegionIndex(s * Fan, 1) - P!IndexOffset(1) = s * Fan
           /\ P!RegionIndex(s * Fan * Fan, 2) \in 0 .. Count - 1
           /\ P!RegionIndex(s * Fan * Fan, 2) - P!IndexOffset(2) = s * Fan * Fan
  <1> DEFINE n1 == s * Fan
             n2 == s * Fan * Fan
  <1>1. s \in Nat /\ Fan \in Nat /\ s + 1 <= Supersections /\ Supersections \in Nat
    BY PageNumbers
  <1>2. n1 \in Nat /\ n1 < Supersections * Fan /\ Supersections * Fan \in Nat
    <2>1. Fan * s + Fan <= Fan * Supersections /\ Fan * s \in Nat /\ Fan * Supersections \in Nat
      BY <1>1, MulStep
    <2>2. n1 = Fan * s /\ Supersections * Fan = Fan * Supersections
      BY <1>1
    <2> HIDE DEF n1
    <2>3. QED
      BY <2>1, <2>2, PageNumbers
  <1>3. n2 \in Nat /\ n2 < Supersections * Fan * Fan
    <2> DEFINE u == Supersections * Fan
    <2> HIDE DEF n1, u
    <2>1. Fan * n1 + Fan <= Fan * u /\ Fan * n1 \in Nat /\ Fan * u \in Nat
      BY <1>1, <1>2, MulStep DEF u
    <2>2. n2 = Fan * n1 /\ Supersections * Fan * Fan = Fan * u
      BY <1>1 DEF n1, u
    <2> HIDE DEF n2
    <2>3. QED
      BY <2>1, <2>2, PageNumbers
  <1>4. /\ s + Offset \in 0 .. Count - 1
        /\ P!RegionIndex(n1, 1) \in 0 .. Count - 1 /\ P!RegionIndex(n2, 2) \in 0 .. Count - 1
        /\ P!RegionIndex(n1, 1) - P!IndexOffset(1) = n1
        /\ P!RegionIndex(n2, 2) - P!IndexOffset(2) = n2
        /\ (s + Offset) - P!IndexOffset(0) = s
    <2> DEFINE s1 == Supersections * Fan
               s2 == Supersections * Fan * Fan
    <2>1. Offset = s2 + s1 /\ Count = Offset + Supersections /\ P!IndexOffset(1) = s2
      BY PageNumbers DEF Offset, Count
    <2> HIDE DEF n1, n2, s1, s2
    <2>2. s1 \in Nat /\ s2 \in Nat /\ n1 < s1 /\ n2 < s2 /\ n1 \in Nat /\ n2 \in Nat
      BY <1>2, <1>3, PageNumbers DEF s1, s2
    <2>3. P!RegionIndex(n1, 1) = n1 + s2 /\ P!RegionIndex(n2, 2) = n2
      BY <2>1, <2>2, PageNumbers DEF P!RegionIndex
    <2>4. QED
      BY <1>1, <2>1, <2>2, <2>3, PageNumbers
  <1>5. P!RegionIndex(s, 0) = s + Offset
    BY PageNumbers DEF P!RegionIndex
  <1>6. QED
    BY <1>2, <1>3, <1>4, <1>5

\* So every region divided off the floating supersection s begins where s
\* begins.
LEMMA CommitStart ==
    ASSUME NEW p \in PpaType, NEW s \in 0 .. Supersections - 1, NEW rk \in 1 .. 3
    PROVE  /\ P!CommitRegion(p, s + Offset, 0, rk).ppa = p
           /\ P!CommitRegion(p, s + Offset, 0, rk).no * P!RegionScale(rk) = Scale * s
  <1> DEFINE n1 == s * Fan
             n2 == s * Fan * Fan
             n3 == s * Fan * Fan * Fan
             v(no) == [ppa |-> p, no |-> no]
             Body(h) == [k \in 0 .. rk - 1 |->
                           IF k = 0 THEN P!CommitLevel(p, s + Offset, k)
                           ELSE P!CommitLevel(h[k - 1].ppa, P!RegionIndex(h[k - 1].no, k), k)]
  <1>1. s \in Nat /\ Fan \in Nat
    BY PageNumbers
  <1>4. /\ s + Offset \in 0 .. Count - 1
        /\ P!RegionIndex(n1, 1) \in 0 .. Count - 1 /\ P!RegionIndex(n2, 2) \in 0 .. Count - 1
        /\ P!RegionIndex(n1, 1) - P!IndexOffset(1) = n1
        /\ P!RegionIndex(n2, 2) - P!IndexOffset(2) = n2
        /\ (s + Offset) - P!IndexOffset(0) = s
    BY FirstParts
  <1> HIDE DEF n1, n2, n3
  <1>5. /\ P!CommitLevel(p, s + Offset, 0) = v(n1)
        /\ P!CommitLevel(p, P!RegionIndex(n1, 1), 1) = v(n2)
        /\ P!CommitLevel(p, P!RegionIndex(n2, 2), 2) = v(n3)
    <2>1. P!CommitLevel(p, s + Offset, 0) = v(s * Fan)
      <3> DEFINE i == s + Offset
      <3>1. i \in 0 .. Count - 1 /\ i - P!IndexOffset(0) = s
        BY <1>4
      <3> HIDE DEF i
      <3>2. P!CommitLevel(p, i, 0) = [ppa |-> p, no |-> (i - P!IndexOffset(0)) * Fan]
        BY <3>1, TakesNothing
      <3>3. QED
        BY <3>1, <3>2 DEF i
    <2>2. P!CommitLevel(p, P!RegionIndex(n1, 1), 1) = v(n1 * Fan)
      BY <1>4, TakesNothing
    <2>3. P!CommitLevel(p, P!RegionIndex(n2, 2), 2) = v(n2 * Fan)
      BY <1>4, TakesNothing
    <2>4. QED
      BY <2>1, <2>2, <2>3 DEF n1, n2, n3
  <1> DEFINE h == [k \in 0 .. rk - 1 |-> IF k = 0 THEN v(n1) ELSE IF k = 1 THEN v(n2) ELSE v(n3)]
  <1>6. h = Body(h)
    <2> SUFFICES ASSUME NEW k \in 0 .. rk - 1 PROVE h[k] = Body(h)[k]
      OBVIOUS
    <2>1. CASE k = 0
      BY <1>5, <2>1
    <2>2. CASE k = 1
      <3>1. h[0] = v(n1) /\ h[1] = v(n2)
        BY <2>2
      <3>2. Body(h)[1] = P!CommitLevel(p, P!RegionIndex(n1, 1), 1)
        BY <2>2, <3>1
      <3>3. QED
        BY <1>5, <2>2, <3>1, <3>2
    <2>3. CASE k = 2
      <3>1. h[1] = v(n2) /\ h[2] = v(n3)
        BY <2>3
      <3>2. Body(h)[2] = P!CommitLevel(p, P!RegionIndex(n2, 2), 2)
        BY <2>3, <3>1
      <3>3. QED
        BY <1>5, <2>3, <3>1, <3>2
    <2>4. QED
      BY <2>1, <2>2, <2>3
  <1> DEFINE g == CHOOSE x : x = Body(x)
  <1>7. g = Body(g)
    <2> HIDE DEF h, Body
    <2>1. \E x : x = Body(x)
      BY <1>6
    <2>2. QED
      BY <2>1, Zenon
  <1>8. P!CommitRegion(p, s + Offset, 0, rk) = g[rk - 1]
    BY Zenon DEF P!CommitRegion
  <1> HIDE DEF g, h
  <1>9. g[0] = v(n1)
    BY <1>5, <1>7
  <1>10. rk > 1 => g[1] = v(n2)
    <2> SUFFICES ASSUME rk > 1 PROVE g[1] = v(n2)
      OBVIOUS
    <2>1. Body(g)[1] = P!CommitLevel(g[0].ppa, P!RegionIndex(g[0].no, 1), 1)
      OBVIOUS
    <2>2. QED
      BY <1>5, <1>7, <1>9, <2>1
  <1>11. rk > 2 => g[2] = v(n3)
    <2> SUFFICES ASSUME rk > 2 PROVE g[2] = v(n3)
      OBVIOUS
    <2>1. Body(g)[2] = P!CommitLevel(g[1].ppa, P!RegionIndex(g[1].no, 2), 2)
      OBVIOUS
    <2>2. QED
      BY <1>5, <1>7, <1>10, <2>1
  <1>12. n1 * (Fan * Fan) = Scale * s /\ n2 * Fan = Scale * s /\ n3 * 1 = Scale * s
    BY <1>1 DEF n1, n2, n3, Scale
  <1>13. P!RegionScale(1) = Fan * Fan /\ P!RegionScale(2) = Fan /\ P!RegionScale(3) = 1
    BY DEF P!RegionScale
  <1> HIDE DEF Body
  <1>14. CASE rk = 1
    BY <1>8, <1>9, <1>12, <1>13, <1>14
  <1>15. CASE rk = 2
    BY <1>8, <1>10, <1>12, <1>13, <1>15
  <1>16. CASE rk = 3
    BY <1>8, <1>11, <1>12, <1>13, <1>16
  <1>17. QED
    BY <1>14, <1>15, <1>16

\* free_region_recursive has region no to free.
Freeing(p, no) == [ppa |-> p, no |-> no, goOn |-> TRUE]

\* What unfloat_region leaves alone.
Later(q, r) == /\ r.mask = q.mask /\ q.stray \subseteq r.stray
               /\ \A k \in 0 .. 2 : r.lists[k] \in {q.lists[k], SizeMax}

\* free_region_recursive goes on to the parent, all of whose children are free;
\* a supersection is left on its list.
LEMMA FreesParent ==
    ASSUME NEW q \in PpaType, NEW n \in Nat, NEW k \in 0 .. 2,
           P!RegionIndex(n \div Fan, k) \in 0 .. Count - 1
    PROVE  \E r \in PpaType :
             /\ P!FreeLevel(Freeing(q, n), k) = Freeing(r, n \div Fan)
             /\ Later(q, r) /\ (k = 0 => n \div Fan \in r.stray)
  <1> DEFINE parent == n \div Fan
             idx == P!RegionIndex(parent, k)
             C0 == 0 .. Fan - 1
             q2 == [q EXCEPT !.bitmap[idx] = @ \cup {n % Fan}]
  <1>1. Fan \in Nat \ {0} /\ parent \in Nat /\ n % Fan \in C0
    <2>1. Fan \in Nat \ {0}
      BY PageNumbers
    <2>2. n \div Fan \in Nat /\ n % Fan \in Nat /\ n % Fan < Fan
      BY <2>1, DivMod
    <2>3. QED
      BY <2>1, <2>2
  <1>2. q.bitmap[idx] = C0 /\ q.bitmap[idx] \cup {n % Fan} = C0 /\ q.bitmap = AllFree
    BY <1>1 DEF PpaType, AllFree
  <1>3. [q.bitmap EXCEPT ![idx] = @ \cup {n % Fan}] = q.bitmap
    <2> HIDE DEF C0
    <2>1. q.bitmap \in [0 .. Count - 1 -> {C0}]
      BY <1>2 DEF AllFree, C0
    <2> HIDE DEF idx
    <2>2. QED
      BY <1>2, <2>1
  <1>4. q2 = q
    BY <1>3 DEF PpaType
  <1>5. q.next[idx] = ChainEnd /\ q.prev[idx] = ChainEnd
    BY DEF PpaType, NoLinks
  <1>6. k = 0 => idx \notin 0 .. 2
    <2> SUFFICES ASSUME k = 0 PROVE idx \notin 0 .. 2
      OBVIOUS
    <2>1. idx = parent + Offset
      BY PageNumbers DEF P!RegionIndex
    <2> HIDE DEF idx, parent
    <2>2. QED
      BY <1>1, <2>1, PageNumbers
  <1>7. k = 0 => idx - P!IndexOffset(k) = parent /\ parent \in 0 .. Supersections - 1
    <2> SUFFICES ASSUME k = 0
                 PROVE  idx - P!IndexOffset(k) = parent /\ parent \in 0 .. Supersections - 1
      OBVIOUS
    <2>1. idx = parent + Offset /\ P!IndexOffset(0) = Offset /\ idx < Offset + Supersections
      BY PageNumbers DEF P!RegionIndex, Count
    <2> HIDE DEF idx, parent
    <2>2. QED
      BY <1>1, <2>1, PageNumbers
  <1> HIDE DEF idx, parent
  <1> DEFINE r == P!UnfloatRegion(q, idx, k)
  <1>8. [q EXCEPT !.prev = IF q.next[idx] # ChainEnd THEN [@ EXCEPT ![q.next[idx]] = ChainEnd] ELSE @]
          = q
    BY <1>5 DEF PpaType
  <1>9. r = IF idx \in 0 .. 2 THEN [q EXCEPT !.lists[idx] = SizeMax]
            ELSE IF k = 0 THEN [q EXCEPT !.stray = @ \cup {idx - P!IndexOffset(k)}]
            ELSE q
    <2>1. DOMAIN q.lists = 0 .. 2
      BY DEF PpaType
    <2>2. QED
      BY <1>5, <1>8, <2>1 DEF P!UnfloatRegion, P!RK_Supersection
  <1> HIDE DEF r
  <1>10. r \in PpaType /\ Later(q, r) /\ (k = 0 => parent \in r.stray)
    <2>1. CASE idx \in 0 .. 2
      <3> DEFINE ls == [q.lists EXCEPT ![idx] = SizeMax]
      <3>1. SizeMax \in Nat /\ k # 0
        BY <1>6, <2>1, PageNumbers
      <3>2. /\ ls \in [0 .. 2 -> (0 .. Count - 1) \cup {SizeMax}]
            /\ \A x \in 0 .. 2 : ls[x] \in {q.lists[x], SizeMax}
        BY <2>1 DEF PpaType
      <3>3. r = [q EXCEPT !.lists = ls]
        BY <1>9, <2>1 DEF PpaType
      <3> HIDE DEF ls
      <3>4. r \in PpaType /\ r.mask = q.mask /\ r.stray = q.stray /\ r.lists = ls
        BY <3>2, <3>3 DEF PpaType
      <3>5. QED
        BY <3>1, <3>2, <3>4 DEF Later
    <2>2. CASE idx \notin 0 .. 2 /\ k = 0
      <3>1. r = [q EXCEPT !.stray = q.stray \cup {parent}] /\ parent \in 0 .. Supersections - 1
        BY <1>7, <1>9, <2>2
      <3>2. /\ r \in PpaType /\ r.mask = q.mask /\ r.stray = q.stray \cup {parent}
            /\ r.lists = q.lists
        BY <3>1 DEF PpaType
      <3>3. QED
        BY <3>2 DEF Later
    <2>3. CASE idx \notin 0 .. 2 /\ k # 0
      BY <1>9, <2>3 DEF Later
    <2>4. QED
      BY <2>1, <2>2, <2>3
  <1>11. P!FreeLevel(Freeing(q, n), k) = Freeing(r, parent)
    <2>1. q2.bitmap[idx] = P!Children
      BY <1>2, <1>4, PageNumbers
    <2> HIDE DEF q2
    <2>2. QED
      BY <1>4, <2>1 DEF P!FreeLevel, Freeing, idx, parent, r, q2
  <1>12. QED
    BY <1>10, <1>11 DEF parent

\* Whoever frees a region that is not a supersection leaves its supersection
\* on the list.
LEMMA FreeStrays ==
    ASSUME NEW p \in PpaType, NEW s \in 0 .. Supersections - 1, NEW rk \in 1 .. 3
    PROVE  \E r \in PpaType :
             /\ P!FreeRegion(p, (Scale * s) \div P!RegionScale(rk), rk)
                  = [r EXCEPT !.mask = @ \cup {s}]
             /\ Later(p, r) /\ s \in r.stray
  <1> DEFINE n1 == s * Fan
             n2 == s * Fan * Fan
             n3 == s * Fan * Fan * Fan
  <1>1. s \in Nat /\ Fan \in Nat \ {0} /\ n1 \in Nat /\ n2 \in Nat
    BY FirstParts, PageNumbers
  <1>2. n3 \in Nat /\ n1 \div Fan = s /\ n2 \div Fan = n1 /\ n3 \div Fan = n2
    <2>1. \A a \in Nat : a * Fan \in Nat /\ (a * Fan) \div Fan = a
      <3> SUFFICES ASSUME NEW a \in Nat PROVE a * Fan \in Nat /\ (a * Fan) \div Fan = a
        OBVIOUS
      <3>1. (Fan * a + 0) \div Fan = a
        BY <1>1, DivUnique
      <3>2. a * Fan = Fan * a + 0 /\ a * Fan \in Nat
        BY <1>1
      <3>3. QED
        BY <3>1, <3>2
    <2>2. n1 = s * Fan /\ n2 = n1 * Fan /\ n3 = n2 * Fan
      OBVIOUS
    <2> HIDE DEF n1, n2, n3
    <2>3. QED
      BY <1>1, <2>1, <2>2
  <1>3. /\ P!RegionIndex(s, 0) \in 0 .. Count - 1
        /\ P!RegionIndex(n1, 1) \in 0 .. Count - 1
        /\ P!RegionIndex(n2, 2) \in 0 .. Count - 1
    BY FirstParts
  <1>4. \A rr \in 1 .. 3 : (Scale * s) \div P!RegionScale(rr)
                             = IF rr = 1 THEN n1 ELSE IF rr = 2 THEN n2 ELSE n3
    <2>1. P!RegionScale(1) = Fan * Fan /\ P!RegionScale(2) = Fan /\ P!RegionScale(3) = 1
      BY DEF P!RegionScale
    <2> DEFINE f2 == Fan * Fan
    <2>2. f2 \in Nat \ {0}
      BY <1>1
    <2>3. Scale * s = f2 * n1 + 0 /\ Scale * s = Fan * n2 + 0 /\ Scale * s = n3
      BY <1>1 DEF Scale
    <2> HIDE DEF f2, n1, n2, n3
    <2>4. (f2 * n1 + 0) \div f2 = n1
      BY <1>1, <2>2, DivUnique
    <2>5. (Fan * n2 + 0) \div Fan = n2
      BY <1>1, DivUnique
    <2>6. n3 \div 1 = n3
      BY <1>2
    <2>7. (Scale * s) \div P!RegionScale(1) = n1
      BY <2>1, <2>3, <2>4 DEF f2
    <2>8. (Scale * s) \div P!RegionScale(2) = n2
      BY <2>1, <2>3, <2>5
    <2>9. (Scale * s) \div P!RegionScale(3) = n3
      BY <2>1, <2>3, <2>6
    <2>10. QED
      BY <2>7, <2>8, <2>9
  <1> DEFINE no == (Scale * s) \div P!RegionScale(rk)
             Body(h) == [k \in 0 .. rk |-> IF k = rk THEN Freeing(p, no) ELSE P!FreeLevel(h[k + 1], k)]
  <1> HIDE DEF n1, n2, n3
  <1>5. \A q \in PpaType : \E r \in PpaType :
          P!FreeLevel(Freeing(q, n3), 2) = Freeing(r, n2) /\ Later(q, r)
    <2> SUFFICES ASSUME NEW q \in PpaType
                 PROVE  \E r \in PpaType :
                          P!FreeLevel(Freeing(q, n3), 2) = Freeing(r, n2) /\ Later(q, r)
      OBVIOUS
    <2>1. P!RegionIndex(n3 \div Fan, 2) \in 0 .. Count - 1
      BY <1>2, <1>3
    <2>2. \E r \in PpaType :
            P!FreeLevel(Freeing(q, n3), 2) = Freeing(r, n3 \div Fan) /\ Later(q, r)
      BY <1>1, <1>2, <2>1, FreesParent
    <2>3. QED
      BY <1>2, <2>2
  <1>6. \A q \in PpaType : \E r \in PpaType :
          P!FreeLevel(Freeing(q, n2), 1) = Freeing(r, n1) /\ Later(q, r)
    <2> SUFFICES ASSUME NEW q \in PpaType
                 PROVE  \E r \in PpaType :
                          P!FreeLevel(Freeing(q, n2), 1) = Freeing(r, n1) /\ Later(q, r)
      OBVIOUS
    <2>1. P!RegionIndex(n2 \div Fan, 1) \in 0 .. Count - 1
      BY <1>2, <1>3
    <2>2. \E r \in PpaType :
            P!FreeLevel(Freeing(q, n2), 1) = Freeing(r, n2 \div Fan) /\ Later(q, r)
      BY <1>1, <1>2, <2>1, FreesParent
    <2>3. QED
      BY <1>2, <2>2
  <1>7. \A q \in PpaType : \E r \in PpaType :
          P!FreeLevel(Freeing(q, n1), 0) = Freeing(r, s) /\ Later(q, r) /\ s \in r.stray
    <2> SUFFICES ASSUME NEW q \in PpaType
                 PROVE  \E r \in PpaType : /\ P!FreeLevel(Freeing(q, n1), 0) = Freeing(r, s)
                                            /\ Later(q, r) /\ s \in r.stray
      OBVIOUS
    <2>1. P!RegionIndex(n1 \div Fan, 0) \in 0 .. Count - 1
      BY <1>2, <1>3
    <2>2. \E r \in PpaType : /\ P!FreeLevel(Freeing(q, n1), 0) = Freeing(r, n1 \div Fan)
                              /\ Later(q, r) /\ n1 \div Fan \in r.stray
      BY <1>1, <1>2, <2>1, FreesParent
    <2>3. QED
      BY <1>2, <2>2
  <1>8. PICK p2 \in PpaType : P!FreeLevel(Freeing(p, n3), 2) = Freeing(p2, n2) /\ Later(p, p2)
    BY <1>5
  <1>9. PICK p2a \in PpaType : p2a = IF rk = 3 THEN p2 ELSE p
    OBVIOUS
  <1>10. PICK p1 \in PpaType : P!FreeLevel(Freeing(p2a, n2), 1) = Freeing(p1, n1) /\ Later(p2a, p1)
    BY <1>6
  <1>11. PICK p1a \in PpaType : p1a = IF rk = 1 THEN p ELSE p1
    OBVIOUS
  <1>12. PICK p0 \in PpaType : /\ P!FreeLevel(Freeing(p1a, n1), 0) = Freeing(p0, s)
                               /\ Later(p1a, p0) /\ s \in p0.stray
    BY <1>7
  <1>13. no = IF rk = 1 THEN n1 ELSE IF rk = 2 THEN n2 ELSE n3
    BY <1>4
  <1> HIDE DEF no
  <1> DEFINE h == [k \in 0 .. rk |-> IF k = 0 THEN Freeing(p0, s) ELSE IF k = 1 THEN Freeing(p1a, n1)
                                     ELSE IF k = 2 THEN Freeing(p2a, n2) ELSE Freeing(p, n3)]
  <1>14. \E x : x = Body(x) /\ x[0] = Freeing(p0, s)
    <2>1. h = Body(h)
      <3> SUFFICES ASSUME NEW k \in 0 .. rk PROVE h[k] = Body(h)[k]
        OBVIOUS
      <3>1. CASE rk = 1
        BY <1>9, <1>11, <1>12, <1>13, <3>1
      <3>2. CASE rk = 2
        BY <1>9, <1>10, <1>11, <1>12, <1>13, <3>2
      <3>3. CASE rk = 3
        BY <1>8, <1>9, <1>10, <1>11, <1>12, <1>13, <3>3
      <3>4. QED
        BY <3>1, <3>2, <3>3
    <2>2. h[0] = Freeing(p0, s)
      OBVIOUS
    <2> HIDE DEF h, Body
    <2>3. QED
      BY <2>1, <2>2
  <1> DEFINE g == CHOOSE x : x = Body(x)
  <1>15. g = Body(g)
    <2> HIDE DEF Body
    <2>1. QED
      BY <1>14, Zenon
  <1> HIDE DEF g
  <1>16. g[0] = Freeing(p0, s)
    <2>1. g[rk] = Freeing(p, no)
      BY <1>15
    <2>2. rk = 3 => g[2] = P!FreeLevel(g[3], 2)
      <3> SUFFICES ASSUME rk = 3 PROVE g[2] = P!FreeLevel(g[3], 2)
        OBVIOUS
      <3>1. Body(g)[2] = P!FreeLevel(g[3], 2)
        OBVIOUS
      <3> HIDE DEF Body
      <3>2. QED
        BY <1>15, <3>1
    <2>3. rk # 1 => g[1] = P!FreeLevel(g[2], 1)
      <3> SUFFICES ASSUME rk # 1 PROVE g[1] = P!FreeLevel(g[2], 1)
        OBVIOUS
      <3>1. Body(g)[1] = P!FreeLevel(g[2], 1)
        OBVIOUS
      <3> HIDE DEF Body
      <3>2. QED
        BY <1>15, <3>1
    <2>4. g[0] = P!FreeLevel(g[1], 0)
      <3>1. Body(g)[0] = P!FreeLevel(g[1], 0)
        OBVIOUS
      <3> HIDE DEF Body
      <3>2. QED
        BY <1>15, <3>1
    <2> HIDE DEF Body
    <2>5. CASE rk = 1
      BY <1>11, <1>12, <1>13, <2>1, <2>4, <2>5
    <2>6. CASE rk = 2
      BY <1>9, <1>10, <1>11, <1>12, <1>13, <2>1, <2>3, <2>4, <2>6
    <2>7. CASE rk = 3
      BY <1>8, <1>9, <1>10, <1>11, <1>12, <1>13, <2>1, <2>2, <2>3, <2>4, <2>7
    <2>8. QED
      BY <2>5, <2>6, <2>7
  <1>17. P!FreeRegion(p, no, rk)
           = IF g[0].goOn THEN [g[0].ppa EXCEPT !.mask = @ \cup {g[0].no}] ELSE g[0].ppa
    BY Zenon DEF P!FreeRegion, g, Freeing
  <1> HIDE DEF Body
  <1>18. P!FreeRegion(p, no, rk) = [p0 EXCEPT !.mask = @ \cup {s}]
    BY <1>16, <1>17 DEF Freeing
  <1>19. Later(p, p0)
    <2>1. \A x, y, z : Later(x, y) /\ Later(y, z) => Later(x, z)
      BY DEF Later
    <2>2. Later(p, p)
      BY DEF Later
    <2>3. Later(p, p2a)
      BY <1>8, <1>9, <2>2
    <2>4. Later(p, p1a)
      BY <1>10, <1>11, <2>1, <2>2, <2>3
    <2>5. QED
      BY <1>12, <2>1, <2>4
  <1>20. QED
    BY <1>12, <1>18, <1>19 DEF no

LEMMA PageInit == P!PpaInit => PageInv
  <1> SUFFICES ASSUME P!PpaInit PROVE ppa \in PpaType /\ ListInv(ppa) /\ LiveInv(ppa, live)
    BY DEF PageInv
  <1>1. /\ P!RegionCount = Count /\ P!Children = 0 .. Fan - 1 /\ SizeMax \in Nat
        /\ P!Kinds = 0 .. 3
    BY PageNumbers DEF P!Kinds, P!RK_Supersection, P!RK_SmallPage
  <1>2. /\ ppa = [mask |-> 0 .. Supersections - 1, bitmap |-> AllFree, next |-> NoLinks,
                  prev |-> NoLinks, lists |-> [k \in 0 .. 2 |-> SizeMax],
                  allocated |-> [k \in 0 .. 3 |-> 0], stray |-> {}]
        /\ live = <<>>
    BY <1>1 DEF P!PpaInit, AllFree, NoLinks
  <1>3. ppa \in PpaType
    BY <1>1, <1>2 DEF PpaType
  <1>4. ListInv(ppa)
    BY <1>2 DEF ListInv
  <1>5. LiveInv(ppa, live)
    BY <1>2 DEF LiveInv
  <1>6. QED
    BY <1>3, <1>4, <1>5

\* Two supersections do not begin at the same address, and one ends before the
\* next begins.
LEMMA SupersectionsApart ==
    ASSUME NEW n \in 0 .. Supersections - 1, NEW m \in 0 .. Supersections - 1, n # m
    PROVE  /\ Scale * n \in Nat /\ Scale * m \in Nat
           /\ Scale * n + Scale <= Scale * m \/ Scale * m + Scale <= Scale * n
           /\ Scale * n # Scale * m
  <1> DEFINE a == Scale * n
             b == Scale * m
  <1>1. n \in Nat /\ m \in Nat /\ Scale \in Nat /\ Scale >= 1
    BY PageNumbers
  <1>2. a \in Nat /\ b \in Nat /\ (a + Scale <= b \/ b + Scale <= a)
    <2>1. CASE n < m
      BY <1>1, <2>1, MulStep
    <2>2. CASE m < n
      BY <1>1, <2>2, MulStep
    <2>3. QED
      BY <1>1, <2>1, <2>2
  <1> HIDE DEF a, b
  <1>3. a # b
    BY <1>1, <1>2
  <1>4. QED
    BY <1>2, <1>3 DEF a, b

\* PageInv is what WholeApart needs.
LEMMA PagesApart == PageInv => P!WholeApart
  <1> SUFFICES ASSUME PageInv, NEW i \in 1 .. Len(live), live[i].kind = 0,
                      live[i].at \div Scale \notin ppa.stray
               PROVE  /\ \A j \in (1 .. Len(live)) \ {i} : ~P!Overlap(live[i], live[j])
                      /\ live[i].at \div Scale \notin ppa.mask
    BY PageNumbers DEF P!WholeApart, P!Alone, P!RK_Supersection
  <1>1. LiveInv(ppa, live)
    BY DEF PageInv
  <1>2. PICK n \in 0 .. Supersections - 1 :
          live[i].at = Scale * n /\ (n \notin ppa.stray => n \notin ppa.mask)
    BY <1>1 DEF LiveInv, Begins
  <1>3. n \in Nat /\ Scale \in Nat \ {0} /\ Fan \in Nat /\ Fan >= 2
    BY PageNumbers
  <1>4. (Scale * n + 0) \div Scale = n /\ Scale * n \in Nat
    BY <1>3, DivUnique
  <1>5. live[i].at \div Scale = n
    <2> DEFINE a == Scale * n
    <2> HIDE DEF a
    <2>1. a + 0 = a
      BY <1>4 DEF a
    <2>2. QED
      BY <1>2, <1>4, <2>1 DEF a
  <1>6. \A k \in 0 .. 3 : P!RegionScale(k) \in Nat /\ P!RegionScale(k) <= Scale
    <2>1. /\ P!RegionScale(0) = Fan * Fan * Fan /\ P!RegionScale(1) = Fan * Fan
          /\ P!RegionScale(2) = Fan /\ P!RegionScale(3) = 1
      BY DEF P!RegionScale
    <2> DEFINE f2 == Fan * Fan
    <2>2. f2 \in Nat /\ f2 >= Fan
      BY <1>3
    <2>3. f2 * Fan \in Nat /\ f2 * Fan >= f2
      <3> HIDE DEF f2
      <3>1. QED
        BY <1>3, <2>2
    <2>4. Scale = f2 * Fan
      BY DEF Scale
    <2>5. f2 <= Scale /\ Fan <= Scale /\ 1 <= Scale
      <3> HIDE DEF f2
      <3>1. QED
        BY <1>3, <2>2, <2>3, <2>4
    <2>6. QED
      BY <1>3, <2>1, <2>2, <2>4, <2>5
  <1>7. ASSUME NEW j \in (1 .. Len(live)) \ {i}
        PROVE  ~P!Overlap(live[i], live[j])
    <2>1. PICK m \in 0 .. Supersections - 1 :
            live[j].at = Scale * m /\ live[j].kind \in 0 .. 3
      BY <1>1 DEF LiveInv, Begins
    <2>2. live[i].at = live[j].at => \E x \in ppa.stray : live[i].at = Scale * x
      BY <1>1 DEF LiveInv, Shares
    <2>3. n # m
      <3> SUFFICES ASSUME n = m PROVE FALSE
        OBVIOUS
      <3>1. PICK x \in ppa.stray : Scale * n = Scale * x
        BY <1>2, <2>1, <2>2
      <3>2. x \in 0 .. Supersections - 1
        BY DEF PageInv, PpaType
      <3>3. x = n
        BY <3>1, <3>2, SupersectionsApart
      <3>4. QED
        BY <1>5, <3>3
    <2> DEFINE a == Scale * n
               b == Scale * m
    <2>4. a \in Nat /\ b \in Nat /\ (a + Scale <= b \/ b + Scale <= a)
      BY <2>3, SupersectionsApart
    <2>5. P!RegionScale(live[j].kind) \in Nat /\ P!RegionScale(live[j].kind) <= Scale
      BY <1>6, <2>1
    <2>6. live[i].at = a /\ live[j].at = b /\ P!RegionScale(live[i].kind) = Scale
      BY <1>2, <2>1, PageNumbers
    <2> HIDE DEF a, b
    <2>7. QED
      BY <1>3, <2>4, <2>5, <2>6 DEF P!Overlap
  <1>8. QED
    BY <1>2, <1>5, <1>7

\* The numbers of the mask: __builtin_clz finds one that is in it.
LEMMA MaskMax ==
    ASSUME NEW S, S \subseteq 0 .. Supersections - 1, S # {}
    PROVE  P!Max(S) \in S
  <1> DEFINE T == {Supersections - x : x \in S}
  <1>1. \A x \in S : x \in Nat /\ Supersections - x \in Nat
    BY PageNumbers
  <1>2. T \subseteq Nat /\ T # {}
    BY <1>1
  <1>3. PICK t \in T : \A u \in T : t <= u
    <2> HIDE DEF T
    <2>1. QED
      BY <1>2, LeastNumber
  <1>4. PICK x \in S : t = Supersections - x
    BY <1>3
  <1>5. \A y \in S : x >= y
    <2> SUFFICES ASSUME NEW y \in S PROVE x >= y
      OBVIOUS
    <2>1. t <= Supersections - y
      BY <1>3
    <2>2. QED
      BY <1>1, <1>4, <2>1, PageNumbers
  <1>6. QED
    BY <1>4, <1>5, Zenon DEF P!Max

\* ppa_alloc of a region smaller than a supersection, with s floating.
LEMMA GivesStart ==
    ASSUME NEW p \in PpaType, ListInv(p), NEW s \in 0 .. Supersections - 1, Floats(p, s),
           NEW rk \in 1 .. 3, P!FromFloating(p, rk)
    PROVE  /\ ppa' = [p EXCEPT !.allocated[rk] = @ + 1]
           /\ live' = Append(live, [at |-> Scale * s, kind |-> rk])
  <1>1. p.lists[0] = s + Offset /\ s + Offset # SizeMax
    BY PageNumbers DEF Floats
  <1>2. P!FloatingAbove(p, rk) = {0}
    <2>1. p.lists[1] = SizeMax /\ p.lists[2] = SizeMax
      BY DEF ListInv
    <2>2. \A k \in 0 .. rk - 1 : k = 0 \/ k = 1 \/ k = 2
      OBVIOUS
    <2>3. 0 \in 0 .. rk - 1
      OBVIOUS
    <2>4. QED
      BY <1>1, <2>1, <2>2, <2>3 DEF P!FloatingAbove
  <1>3. P!Max({0}) = 0
    <2>1. \E x \in {0} : \A y \in {0} : x >= y
      OBVIOUS
    <2>2. QED
      BY <2>1, Zenon DEF P!Max
  <1> DEFINE c == P!CommitRegion(p, s + Offset, 0, rk)
  <1>4. c.ppa = p /\ c.no * P!RegionScale(rk) = Scale * s
    BY CommitStart
  <1>5. P!Give(c.ppa, c.no, rk)
    <2> HIDE DEF c
    <2>1. QED
      BY <1>1, <1>2, <1>3 DEF P!FromFloating, c
  <1> HIDE DEF c
  <1>6. QED
    BY <1>4, <1>5 DEF P!Give

\* allocated_counts is only counted.
LEMMA CountOne ==
    ASSUME NEW p \in PpaType, NEW k \in 0 .. 3, NEW d \in Int
    PROVE  /\ [p EXCEPT !.allocated[k] = d] \in PpaType
           /\ [p EXCEPT !.allocated[k] = d].mask = p.mask
           /\ [p EXCEPT !.allocated[k] = d].lists = p.lists
           /\ [p EXCEPT !.allocated[k] = d].stray = p.stray
  <1>1. p.allocated \in [0 .. 3 -> Int]
    BY DEF PpaType
  <1> DEFINE f == [p.allocated EXCEPT ![k] = d]
  <1>2. f \in [0 .. 3 -> Int]
    BY <1>1
  <1> HIDE DEF f
  <1>3. /\ [p EXCEPT !.allocated = f] \in PpaType
        /\ [p EXCEPT !.allocated = f].mask = p.mask
        /\ [p EXCEPT !.allocated = f].lists = p.lists
        /\ [p EXCEPT !.allocated = f].stray = p.stray
    BY <1>2 DEF PpaType
  <1>4. [p EXCEPT !.allocated[k] = d] = [p EXCEPT !.allocated = f]
    BY Zenon DEF f
  <1>5. QED
    BY <1>2, <1>3, <1>4

\* What was handed out stays as it is while mask and lists do.
LEMMA LiveSame ==
    ASSUME NEW p, NEW q, NEW l, LiveInv(p, l), q.mask = p.mask, q.lists = p.lists,
           q.stray = p.stray
    PROVE  LiveInv(q, l)
  <1>1. \A r : Begins(p, r) => Begins(q, r)
    BY DEF Begins, Floats
  <1>2. \A r, t : Shares(p, r, t) => Shares(q, r, t)
    BY DEF Shares
  <1>3. QED
    BY <1>1, <1>2 DEF LiveInv

\* One more region is handed out.
LEMMA LiveAppend ==
    ASSUME NEW p, NEW l, LiveInv(p, l), NEW r \in [at : Nat, kind : 0 .. 3], Begins(p, r),
           \A i \in 1 .. Len(l) : l[i].kind = 0 \/ r.kind = 0 => Shares(p, l[i], r)
    PROVE  LiveInv(p, Append(l, r))
  <1> DEFINE R == [at : Nat, kind : 0 .. 3]
             m == Append(l, r)
             n == Len(l)
  <1> HIDE DEF R
  <1>1. l \in Seq(R) /\ r \in R /\ n \in Nat
    BY DEF LiveInv, R
  <1>2. /\ m \in Seq(R) /\ Len(m) = n + 1 /\ m[n + 1] = r
        /\ \A i \in 1 .. n : m[i] = l[i]
    BY <1>1
  <1> HIDE DEF m, n
  <1>3. \A i \in 1 .. n : Begins(p, m[i])
    BY <1>2 DEF LiveInv, n
  <1>4. \A i \in 1 .. n + 1 : i \in 1 .. n \/ i = n + 1
    BY <1>1
  <1>5. \A i \in 1 .. n + 1 : Begins(p, m[i])
    BY <1>2, <1>3, <1>4
  <1>6. \A i, j \in 1 .. n : i # j /\ m[i].kind = 0 => Shares(p, m[i], m[j])
    BY <1>2 DEF LiveInv, n
  <1>7. \A i \in 1 .. n : m[i].kind = 0 => Shares(p, m[i], r)
    BY <1>2 DEF n
  <1>8. \A i \in 1 .. n : r.kind = 0 => Shares(p, r, m[i])
    BY <1>2 DEF n, Shares
  <1>9. \A i, j \in 1 .. n + 1 : i # j /\ m[i].kind = 0 => Shares(p, m[i], m[j])
    <2> SUFFICES ASSUME NEW i \in 1 .. n + 1, NEW j \in 1 .. n + 1, i # j, m[i].kind = 0
                 PROVE  Shares(p, m[i], m[j])
      OBVIOUS
    <2>1. m[n + 1] = r
      BY <1>2
    <2>2. CASE i \in 1 .. n /\ j \in 1 .. n
      BY <1>6, <2>2, Zenon
    <2>3. CASE i \in 1 .. n /\ j = n + 1
      <3>1. m[j] = r
        BY <2>1, <2>3
      <3>2. Shares(p, m[i], r)
        BY <1>7, <2>3, Zenon
      <3>3. QED
        BY <3>1, <3>2, Zenon
    <2>4. CASE i = n + 1 /\ j \in 1 .. n
      <3>1. m[i] = r /\ r.kind = 0
        BY <2>1, <2>4
      <3>2. Shares(p, r, m[j])
        BY <1>8, <2>4, <3>1, Zenon
      <3>3. QED
        BY <3>1, <3>2, Zenon
    <2>5. QED
      BY <1>4, <2>2, <2>3, <2>4, Zenon
  <1>10. QED
    BY <1>2, <1>5, <1>9 DEF LiveInv, m, R

\* ppa_alloc keeps PageInv.
LEMMA AllocKeeps ==
    ASSUME PageInv, P!Alloc
    PROVE  PageInv'
  <1>1. ppa \in PpaType /\ ListInv(ppa) /\ LiveInv(ppa, live)
    BY DEF PageInv
  <1>2. P!Kinds = 0 .. 3
    BY DEF P!Kinds, P!RK_Supersection, P!RK_SmallPage
  <1>3. PICK rk \in 0 .. 3 : P!PpaAlloc(rk)
    BY <1>2 DEF P!Alloc
  <1>4. \A n \in 0 .. Supersections - 1 : /\ Scale * n \in Nat
                                          /\ n + Offset # SizeMax /\ n + Offset \in Nat
    BY PageNumbers
  <1>5. ASSUME NEW p \in PpaType, ListInv(p), LiveInv(p, live),
               NEW s \in 0 .. Supersections - 1, Floats(p, s), rk \in 1 .. 3,
               P!FromFloating(p, rk)
        PROVE  PageInv'
    <2> DEFINE r == [at |-> Scale * s, kind |-> rk]
    <2>1. ppa' = [p EXCEPT !.allocated[rk] = @ + 1] /\ live' = Append(live, r)
      BY <1>5, GivesStart
    <2>2. ppa' \in PpaType /\ ppa'.mask = p.mask /\ ppa'.lists = p.lists /\ ppa'.stray = p.stray
      <3> DEFINE d == p.allocated[rk] + 1
      <3>1. d \in Int
        <4>1. p.allocated \in [0 .. 3 -> Int]
          BY DEF PpaType
        <4>2. QED
          BY <4>1
      <3>2. ppa' = [p EXCEPT !.allocated[rk] = d]
        BY <2>1
      <3> HIDE DEF d
      <3>3. QED
        BY <3>1, <3>2, CountOne
    <2>3. ListInv(ppa')
      BY <1>5, <2>2 DEF ListInv, Floats
    <2>4. LiveInv(ppa', live)
      BY <1>5, <2>2, LiveSame
    <2>5. r \in [at : Nat, kind : 0 .. 3] /\ r.kind # 0
      BY <1>4, <1>5
    <2>6. s \in p.mask => s \in p.stray
      <3>1. p.lists[0] = s + Offset /\ s + Offset # SizeMax
        BY <1>4, <1>5 DEF Floats
      <3>2. PICK x \in 0 .. Supersections - 1 : Floats(p, x) /\ (x \in p.mask => x \in p.stray)
        BY <1>5, <3>1 DEF ListInv
      <3>3. x = s
        <4>1. x \in Int /\ s \in Int /\ Offset \in Int
          BY PageNumbers
        <4>2. x + Offset = s + Offset
          BY <3>1, <3>2 DEF Floats
        <4>3. QED
          BY <4>1, <4>2
      <3>4. QED
        BY <3>2, <3>3
    <2>7. Begins(ppa', r)
      BY <1>5, <2>2, <2>5, <2>6 DEF Begins, Floats
    <2>8. ASSUME NEW i \in 1 .. Len(live), live[i].kind = 0 \/ r.kind = 0
          PROVE  Shares(ppa', live[i], r)
      <3>1. PICK n \in 0 .. Supersections - 1 :
              live[i].at = Scale * n /\ (n \notin p.stray => ~Floats(p, n))
        BY <1>5, <2>5, <2>8 DEF LiveInv, Begins
      <3>2. live[i].at = Scale * s => n = s
        BY <3>1, SupersectionsApart
      <3>3. QED
        BY <1>5, <2>2, <3>1, <3>2 DEF Shares
    <2>9. LiveInv(ppa', live')
      <3> HIDE DEF r
      <3>1. QED
        BY <2>1, <2>4, <2>5, <2>7, <2>8, LiveAppend
    <2>10. QED
      BY <2>2, <2>3, <2>9 DEF PageInv, ListInv, LiveInv, Begins, Floats, Shares
  <1>6. CASE P!FloatingAbove(ppa, rk) # {} /\ P!FromFloating(ppa, rk)
    <2>1. PICK k \in 0 .. rk - 1 : ppa.lists[k] # SizeMax
      BY <1>6 DEF P!FloatingAbove
    <2>2. k = 0 /\ rk \in 1 .. 3
      <3>1. k \in 0 .. 2 /\ rk \in 1 .. 3
        OBVIOUS
      <3>2. k # 1 /\ k # 2
        BY <1>1, <2>1 DEF ListInv
      <3>3. QED
        BY <3>1, <3>2
    <2>3. PICK s \in 0 .. Supersections - 1 : Floats(ppa, s)
      BY <1>1, <2>1, <2>2 DEF ListInv
    <2>4. QED
      BY <1>1, <1>5, <1>6, <2>2, <2>3
  <1> DEFINE m == P!Max(ppa.mask)
             p0 == [ppa EXCEPT !.mask = @ \ {m}]
  <1>7. ppa.mask # {} => m \in ppa.mask /\ m \in 0 .. Supersections - 1
    <2>1. ppa.mask \subseteq 0 .. Supersections - 1
      BY <1>1 DEF PpaType
    <2>2. QED
      BY <2>1, MaskMax
  <1> HIDE DEF m
  <1>8. /\ p0 \in PpaType /\ p0.mask = ppa.mask \ {m} /\ p0.lists = ppa.lists
        /\ p0.stray = ppa.stray
        /\ P!Unmasked(ppa) = p0
    BY <1>1 DEF PpaType, P!Unmasked, m
  <1>9. CASE rk = 0 /\ ppa.mask # {} /\ P!Give(p0, m, 0)
    <2> DEFINE r == [at |-> Scale * m, kind |-> 0]
    <2>1. ppa' = [p0 EXCEPT !.allocated[0] = @ + 1] /\ live' = Append(live, r)
      <3>1. m * P!RegionScale(0) = Scale * m
        BY <1>7, <1>9, PageNumbers
      <3>2. QED
        BY <1>9, <3>1 DEF P!Give
    <2>2. /\ ppa' \in PpaType /\ ppa'.mask = ppa.mask \ {m} /\ ppa'.lists = ppa.lists
          /\ ppa'.stray = ppa.stray
      <3> HIDE DEF p0
      <3> DEFINE d == p0.allocated[0] + 1
      <3>1. d \in Int
        <4>1. p0.allocated \in [0 .. 3 -> Int]
          BY <1>8 DEF PpaType
        <4>2. QED
          BY <4>1
      <3>2. ppa' = [p0 EXCEPT !.allocated[0] = d]
        BY <2>1
      <3> HIDE DEF d
      <3>3. QED
        BY <1>8, <3>1, <3>2, CountOne
    <2>3. ListInv(ppa')
      BY <1>1, <2>2 DEF ListInv, Floats
    <2>4. \A x : Begins(ppa, x) => Begins(ppa', x)
      BY <2>2 DEF Begins, Floats
    <2>5. LiveInv(ppa', live)
      <3>1. \A x, y : Shares(ppa, x, y) => Shares(ppa', x, y)
        BY <2>2 DEF Shares
      <3>2. QED
        BY <1>1, <2>4, <3>1 DEF LiveInv
    <2>6. r \in [at : Nat, kind : 0 .. 3]
      BY <1>4, <1>7, <1>9
    <2>7. m \notin ppa.stray => ~Floats(ppa, m)
      <3> SUFFICES ASSUME Floats(ppa, m), m \notin ppa.stray PROVE FALSE
        OBVIOUS
      <3>1. ppa.lists[0] = m + Offset /\ m + Offset # SizeMax
        BY <1>4, <1>7, <1>9 DEF Floats
      <3>2. PICK s \in 0 .. Supersections - 1 : Floats(ppa, s) /\ (s \in ppa.mask => s \in ppa.stray)
        BY <1>1, <3>1 DEF ListInv
      <3>3. s = m
        <4>1. m \in Int /\ s \in Int /\ Offset \in Int
          BY <1>7, <1>9, PageNumbers
        <4>2. m + Offset = s + Offset
          BY <3>1, <3>2 DEF Floats
        <4>3. QED
          BY <4>1, <4>2
      <3>4. QED
        BY <1>7, <1>9, <3>2, <3>3
    <2>8. Begins(ppa', r)
      BY <1>7, <1>9, <2>2, <2>7 DEF Begins, Floats
    <2>9. ASSUME NEW i \in 1 .. Len(live) PROVE Shares(ppa', live[i], r)
      <3>1. PICK n \in 0 .. Supersections - 1 :
              live[i].at = Scale * n /\ (n \notin ppa.stray => n \notin ppa.mask)
        BY <1>1 DEF LiveInv, Begins
      <3>2. live[i].at = Scale * m => n = m
        BY <1>7, <1>9, <3>1, SupersectionsApart
      <3>3. QED
        BY <1>7, <1>9, <2>2, <3>1, <3>2 DEF Shares
    <2>10. LiveInv(ppa', live')
      <3> HIDE DEF r
      <3>1. QED
        BY <2>1, <2>5, <2>6, <2>8, <2>9, LiveAppend
    <2>11. QED
      BY <2>2, <2>3, <2>10 DEF PageInv, ListInv, LiveInv, Begins, Floats, Shares
  <1>10. CASE /\ rk # 0 /\ ppa.mask # {} /\ P!FloatingAbove(ppa, rk) = {}
              /\ P!FromFloating(P!FloatRegion(p0, m, 0), rk)
    <2>1. ppa.lists[0] = SizeMax /\ rk \in 1 .. 3
      <3>1. 0 \in 0 .. rk - 1 /\ rk \in 1 .. 3
        BY <1>10
      <3>2. QED
        BY <1>10, <3>1 DEF P!FloatingAbove
    <2>2. P!RegionIndex(m, 0) = m + Offset /\ m + Offset \in 0 .. Count - 1
      BY <1>7, <1>10, FirstParts
    <2> DEFINE idx == m + Offset
               p1 == P!FloatRegion(p0, m, 0)
    <2>3. [p0.prev EXCEPT ![idx] = ChainEnd] = p0.prev /\ [p0.next EXCEPT ![idx] = ChainEnd] = p0.next
      <3>1. p0.prev = NoLinks /\ p0.next = NoLinks
        BY <1>8 DEF PpaType
      <3> HIDE DEF idx, p0
      <3>2. idx \in 0 .. Count - 1
        BY <2>2 DEF idx
      <3>3. QED
        BY <3>1, <3>2 DEF NoLinks
    <2> DEFINE ls == [p0.lists EXCEPT ![0] = idx]
               p2 == [p0 EXCEPT !.lists = ls]
    <2>4. p1 = p2
      <3> HIDE DEF idx, p0
      <3>1. p1 = [p0 EXCEPT !.prev[idx] = ChainEnd, !.next[idx] = ChainEnd, !.lists[0] = idx]
        BY <1>8, <2>1, <2>2 DEF P!FloatRegion, idx
      <3>2. p1 = [p0 EXCEPT !.prev = [p0.prev EXCEPT ![idx] = ChainEnd],
                            !.next = [p0.next EXCEPT ![idx] = ChainEnd], !.lists = ls]
        BY <1>8, <3>1 DEF PpaType
      <3> HIDE DEF ls
      <3>3. p1 = [p0 EXCEPT !.prev = p0.prev, !.next = p0.next, !.lists = ls]
        BY <2>3, <3>2
      <3>4. QED
        BY <1>8, <3>3 DEF PpaType
    <2> DEFINE Entry == (0 .. Count - 1) \cup {SizeMax}
    <2>5. idx \in Entry
      <3>1. m \in 0 .. Supersections - 1 /\ Offset \in Nat /\ Supersections \in Nat
        BY <1>7, <1>10, PageNumbers
      <3>2. m + Offset \in 0 .. Count - 1
        BY <3>1 DEF Count
      <3>3. QED
        BY <2>2, <3>2
    <2>6. /\ p2 \in PpaType /\ p2.mask = ppa.mask \ {m} /\ p2.lists[0] = idx
          /\ p2.lists[1] = ppa.lists[1] /\ p2.lists[2] = ppa.lists[2] /\ p2.stray = ppa.stray
      <3> HIDE DEF idx, p0
      <3>1. p0.lists \in [0 .. 2 -> Entry]
        BY <1>8 DEF PpaType
      <3> HIDE DEF Entry
      <3>2. /\ ls \in [0 .. 2 -> Entry]
            /\ ls[0] = idx /\ ls[1] = p0.lists[1] /\ ls[2] = p0.lists[2]
        BY <2>5, <3>1
      <3> HIDE DEF ls
      <3>3. p2 \in PpaType /\ p2.mask = p0.mask /\ p2.lists = ls /\ p2.stray = p0.stray
        BY <1>8, <3>2 DEF PpaType, Entry
      <3>4. QED
        BY <1>8, <3>2, <3>3
    <2> HIDE DEF p1, p2
    <2>7. Floats(p2, m)
      BY <2>6 DEF Floats
    <2>8. ListInv(p2)
      BY <1>1, <1>7, <1>10, <2>6, <2>7 DEF ListInv
    <2>9. LiveInv(p2, live)
      <3>1. ASSUME NEW i \in 1 .. Len(live) PROVE Begins(p2, live[i])
        <4>1. PICK n \in 0 .. Supersections - 1 :
                /\ live[i].at = Scale * n /\ live[i].kind \in 0 .. 3
                /\ n \notin ppa.stray => n \notin ppa.mask
          BY <1>1 DEF LiveInv, Begins
        <4>2. n \notin ppa.stray => n # m
          BY <1>7, <1>10, <4>1
        <4>3. n # m => ~Floats(p2, n)
          <5> SUFFICES ASSUME n # m PROVE ~Floats(p2, n)
            OBVIOUS
          <5>1. n + Offset # m + Offset
            <6>1. m \in Int /\ n \in Int /\ Offset \in Int
              BY <1>7, <1>10, PageNumbers
            <6>2. QED
              BY <6>1
          <5>2. QED
            BY <2>6, <5>1 DEF Floats
        <4>4. QED
          BY <2>6, <4>1, <4>2, <4>3 DEF Begins
      <3>2. \A x, y : Shares(ppa, x, y) => Shares(p2, x, y)
        BY <2>6 DEF Shares
      <3>3. QED
        BY <1>1, <3>1, <3>2 DEF LiveInv
    <2>10. P!FromFloating(p2, rk)
      BY <1>10, <2>4 DEF p1
    <2>11. QED
      BY <1>5, <1>7, <1>10, <2>1, <2>6, <2>7, <2>8, <2>9, <2>10
  <1> HIDE DEF p0
  <1>11. QED
    BY <1>3, <1>6, <1>8, <1>9, <1>10 DEF P!PpaAlloc, P!RK_Supersection, m

\* ppa_free of a supersection puts it back into the mask.
LEMMA FreesWhole ==
    ASSUME NEW p, NEW no
    PROVE  P!FreeRegion(p, no, 0) = [p EXCEPT !.mask = @ \cup {no}]
  <1> DEFINE Body(h) == [k \in 0 .. 0 |-> IF k = 0 THEN [ppa |-> p, no |-> no, goOn |-> TRUE]
                                          ELSE P!FreeLevel(h[k + 1], k)]
             g == CHOOSE x : x = Body(x)
             h0 == [k \in 0 .. 0 |-> [ppa |-> p, no |-> no, goOn |-> TRUE]]
  <1>1. h0 = Body(h0)
    OBVIOUS
  <1>2. g = Body(g)
    <2> HIDE DEF Body, h0
    <2>1. QED
      BY <1>1, Zenon
  <1>3. P!FreeRegion(p, no, 0)
          = IF g[0].goOn THEN [g[0].ppa EXCEPT !.mask = @ \cup {g[0].no}] ELSE g[0].ppa
    BY Zenon DEF P!FreeRegion
  <1> HIDE DEF g
  <1>4. g[0] = [ppa |-> p, no |-> no, goOn |-> TRUE]
    BY <1>2
  <1> HIDE DEF Body
  <1>5. QED
    BY <1>3, <1>4

\* ppa_free keeps PageInv.
LEMMA FreeKeeps ==
    ASSUME PageInv, P!Free
    PROVE  PageInv'
  <1>1. ppa \in PpaType /\ ListInv(ppa) /\ LiveInv(ppa, live)
    BY DEF PageInv
  <1>2. PICK i \in 1 .. Len(live) : P!PpaFree(i)
    BY DEF P!Free
  <1> DEFINE rk == live[i].kind
             l == [j \in 1 .. Len(live) - 1 |-> IF j < i THEN live[j] ELSE live[j + 1]]
  <1>3. PICK n \in 0 .. Supersections - 1 :
          /\ live[i].at = Scale * n /\ rk \in 0 .. 3
          /\ rk = 0 /\ n \notin ppa.stray => ~Floats(ppa, n)
    BY <1>1 DEF LiveInv, Begins
  <1> DEFINE p == P!FreeRegion(ppa, live[i].at \div P!RegionScale(rk), rk)
  <1>4. ppa' = [p EXCEPT !.allocated[rk] = @ - 1] /\ live' = l
    BY <1>2 DEF P!PpaFree
  <1> HIDE DEF rk, l
  <1>5. /\ p \in PpaType /\ p.mask = ppa.mask \cup {n} /\ ppa.stray \subseteq p.stray
        /\ \A k \in 0 .. 2 : p.lists[k] \in {ppa.lists[k], SizeMax}
        /\ rk # 0 => n \in p.stray
    <2>1. CASE rk # 0
      <3>1. rk \in 1 .. 3
        BY <1>3, <2>1
      <3>2. PICK r \in PpaType : p = [r EXCEPT !.mask = @ \cup {n}] /\ Later(ppa, r) /\ n \in r.stray
        BY <1>1, <1>3, <3>1, FreeStrays
      <3> HIDE DEF p
      <3>3. p \in PpaType /\ p.mask = r.mask \cup {n} /\ p.stray = r.stray /\ p.lists = r.lists
        BY <3>2 DEF PpaType
      <3>4. QED
        BY <3>2, <3>3 DEF Later
    <2>2. CASE rk = 0
      <3>1. live[i].at \div P!RegionScale(0) = n
        <4>1. n \in Nat /\ Scale \in Nat \ {0} /\ P!RegionScale(0) = Scale
          BY PageNumbers
        <4> DEFINE a == Scale * n
        <4>2. (a + 0) \div Scale = n /\ a \in Nat
          BY <4>1, DivUnique
        <4> HIDE DEF a
        <4>3. a + 0 = a
          BY <4>2
        <4>4. QED
          BY <1>3, <4>1, <4>2, <4>3 DEF a
      <3> DEFINE q == [ppa EXCEPT !.mask = @ \cup {n}]
      <3>2. p = q
        BY <2>2, <3>1, FreesWhole
      <3> HIDE DEF p
      <3>3. /\ q \in PpaType /\ q.mask = ppa.mask \cup {n} /\ q.lists = ppa.lists
            /\ q.stray = ppa.stray
        BY <1>1 DEF PpaType
      <3> HIDE DEF q
      <3>4. QED
        BY <2>2, <3>2, <3>3
    <2>3. QED
      BY <2>1, <2>2
  <1> HIDE DEF p
  <1>6. ppa' \in PpaType /\ ppa'.mask = p.mask /\ ppa'.lists = p.lists /\ ppa'.stray = p.stray
    <2> DEFINE d == p.allocated[rk] - 1
    <2>1. d \in Int
      <3>1. p.allocated \in [0 .. 3 -> Int]
        BY <1>5 DEF PpaType
      <3>2. QED
        BY <1>3, <3>1
    <2>2. ppa' = [p EXCEPT !.allocated[rk] = d]
      BY <1>4
    <2> HIDE DEF d
    <2>3. QED
      BY <1>3, <1>5, <2>1, <2>2, CountOne
  <1>7. ListInv(ppa')
    <2>1. ppa'.lists[1] = SizeMax /\ ppa'.lists[2] = SizeMax
      BY <1>1, <1>5, <1>6 DEF ListInv
    <2>2. CASE ppa'.lists[0] = SizeMax
      BY <2>1, <2>2 DEF ListInv
    <2>3. CASE ppa'.lists[0] # SizeMax
      <3>1. ppa'.lists[0] = ppa.lists[0] /\ ppa.lists[0] # SizeMax
        BY <1>5, <1>6, <2>3
      <3>2. PICK x \in 0 .. Supersections - 1 : Floats(ppa, x) /\ (x \in ppa.mask => x \in ppa.stray)
        BY <1>1, <3>1 DEF ListInv
      <3>3. x \in ppa'.mask => x \in ppa'.stray
        BY <1>3, <1>5, <1>6, <3>2
      <3>4. Floats(ppa', x)
        BY <3>1, <3>2 DEF Floats
      <3>5. QED
        BY <2>1, <3>3, <3>4 DEF ListInv
    <2>4. QED
      BY <2>2, <2>3
  <1> DEFINE R == [at : Nat, kind : 0 .. 3]
             len == Len(live)
             at(j) == IF j < i THEN j ELSE j + 1
  <1> HIDE DEF R
  <1>8. live \in Seq(R) /\ len \in Nat /\ len >= 1
    BY <1>1 DEF LiveInv, R
  <1>9. \A j \in 1 .. len - 1 : at(j) \in 1 .. len /\ at(j) # i
    BY <1>8
  <1>10. \A j, k \in 1 .. len - 1 : j # k => at(j) # at(k)
    BY <1>8
  <1>11. \A j \in 1 .. len : live[j] \in R
    BY <1>8
  <1>12. \A j \in 1 .. len - 1 : l[j] = live[at(j)]
    BY DEF l
  <1> HIDE DEF at
  <1>13. l \in Seq(R) /\ Len(l) = len - 1
    <2>1. len - 1 \in Nat
      BY <1>8
    <2>2. l \in [1 .. len - 1 -> R]
      <3>1. DOMAIN l = 1 .. len - 1 /\ l = [j \in 1 .. len - 1 |-> l[j]]
        BY DEF l
      <3>2. \A j \in 1 .. len - 1 : l[j] \in R
        BY <1>9, <1>11, <1>12
      <3> HIDE DEF len
      <3>3. QED
        BY <3>1, <3>2
    <2> HIDE DEF len
    <2>3. QED
      BY <2>1, <2>2
  <1>14. \A j \in 1 .. len - 1 : Begins(ppa', l[j])
    <2> SUFFICES ASSUME NEW j \in 1 .. len - 1 PROVE Begins(ppa', l[j])
      OBVIOUS
    <2>1. l[j] = live[at(j)] /\ at(j) \in 1 .. len /\ at(j) # i
      BY <1>9, <1>12
    <2>2. PICK m \in 0 .. Supersections - 1 :
            /\ l[j].at = Scale * m /\ l[j].kind \in 0 .. 3
            /\ m \notin ppa.stray => m \notin ppa.mask /\ (l[j].kind = 0 => ~Floats(ppa, m))
      BY <1>1, <2>1 DEF LiveInv, Begins
    <2>3. m = n => n \in ppa'.stray
      <3> SUFFICES ASSUME m = n, rk = 0 PROVE n \in ppa.stray
        BY <1>5, <1>6
      <3>1. Shares(ppa, live[i], live[at(j)])
        BY <1>1, <2>1 DEF LiveInv, rk
      <3>2. PICK x \in ppa.stray : Scale * n = Scale * x
        BY <1>3, <2>1, <2>2, <3>1 DEF Shares
      <3>3. x \in 0 .. Supersections - 1
        BY <1>1 DEF PpaType
      <3>4. QED
        BY <3>2, <3>3, SupersectionsApart
    <2>4. ~Floats(ppa, m) => ~Floats(ppa', m)
      <3>1. m + Offset # SizeMax /\ ppa'.lists[0] \in {ppa.lists[0], SizeMax}
        BY <1>5, <1>6, PageNumbers
      <3>2. QED
        BY <3>1 DEF Floats
    <2>5. m \notin ppa'.stray => m \notin ppa'.mask /\ (l[j].kind = 0 => ~Floats(ppa', m))
      BY <1>5, <1>6, <2>2, <2>3, <2>4
    <2>6. QED
      BY <2>2, <2>5 DEF Begins
  <1>15. ASSUME NEW j \in 1 .. len - 1, NEW k \in 1 .. len - 1, j # k, l[j].kind = 0
         PROVE  Shares(ppa', l[j], l[k])
    <2>1. Shares(ppa, l[j], l[k])
      BY <1>1, <1>9, <1>10, <1>12, <1>15 DEF LiveInv
    <2>2. QED
      BY <1>5, <1>6, <2>1 DEF Shares
  <1>16. LiveInv(ppa', l)
    BY <1>13, <1>14, <1>15 DEF LiveInv, R
  <1>17. QED
    BY <1>4, <1>6, <1>7, <1>16 DEF PageInv, ListInv, LiveInv, Begins, Floats, Shares

LEMMA PageStepKeeps ==
    ASSUME PageInv, P!PpaNext \/ UNCHANGED pagevars
    PROVE  PageInv'
  <1>1. CASE P!Alloc
    BY <1>1, AllocKeeps
  <1>2. CASE P!Free
    BY <1>2, FreeKeeps
  <1>3. CASE UNCHANGED <<ppa, live>>
    BY <1>3 DEF PageInv, ListInv, LiveInv, Begins, Floats, Shares
  <1>4. QED
    BY <1>1, <1>2, <1>3 DEF P!PpaNext, P!AllocFails, P!PpaAllocFails, pagevars

-----------------------------------------------------------------------------
(* The types of the programs *)

\* PupHost: no port is reset before the options are parsed and a port is open.
HostTypes == H!TypeOK /\ (pc \in {"parse", "device", "reset"} => reset = {})

\* find_serial_device only adds a port that exists.
LEMMA FindTypes ==
    ASSUME NEW dev, NEW next, H!FindSerialDevice(dev, next), held \subseteq Ttys
    PROVE  held' \subseteq Ttys /\ pc' \in {next, "exit"}
  BY DEF H!FindSerialDevice, H!Found, H!Enumerated, H!FindEnumerative, H!FindAuto,
         H!FindFuzzy, H!WithPath

LEMMA HostTypesKeep ==
    ASSUME HostInv, HostTypes, H!Next \/ UNCHANGED hostvars
    PROVE  HostTypes'
  <1> USE DEF HostTypes, H!TypeOK
  <1>1. CASE H!ParseArg
    <2>1. PICK a \in Tokens : H!OptionValue(a) \/ H!DeviceValue(a) \/ H!OptionName(a)
      BY <1>1 DEF H!ParseArg
    <2>2. pc = "parse" /\ reset = {} /\ reset' = reset
      BY <1>1, <2>1 DEF H!ParseArg, H!OptionValue, H!DeviceValue, H!OptionName, H!envvars
    <2>3. CASE H!OptionValue(a)
      BY <2>2, <2>3 DEF H!OptionValue, H!envvars
    <2>4. CASE H!DeviceValue(a)
      <3>1. /\ curr' = "NONE"
            /\ \E dev : H!FindSerialDevice(dev, "parse")
        BY <2>4 DEF H!DeviceValue
      <3>2. held' \subseteq Ttys /\ pc' \in {"parse", "exit"}
        BY <3>1, FindTypes
      <3>3. QED
        BY <2>2, <3>1, <3>2
    <2>5. CASE H!OptionName(a)
      <3>1. curr' \in {"NONE", "DEV", "LOAD", "CON_BAUD", "RETRIES"}
        BY <2>5 DEF H!OptionName
      <3>2. held' = held /\ pc' = pc
        BY <2>5 DEF H!OptionName, H!envvars
      <3>3. QED
        BY <2>2, <3>1, <3>2
    <2>6. QED
      BY <2>1, <2>3, <2>4, <2>5
  <1>2. CASE H!ParseDone
    <2>1. pc = "parse" /\ pc' \in {"exit", "device"} /\ held' = held /\ reset' = reset /\ curr' = curr
      BY <1>2 DEF H!ParseDone, H!envvars
    <2>2. QED
      BY <2>1
  <1>3. CASE H!PickDevice
    <2>1. pc = "device" /\ reset' = reset /\ curr' = curr
      BY <1>3 DEF H!PickDevice
    <2>2. held' \subseteq Ttys /\ pc' \in {"reset", "exit"}
      BY <1>3, FindTypes DEF H!PickDevice
    <2>3. QED
      BY <2>1, <2>2
  <1>4. CASE H!Reset
    <2>1. /\ pc = "reset" /\ pc' \in {"stat", "exit"} /\ held' = held /\ opts' = opts /\ curr' = curr
      BY <1>4 DEF H!Reset
    <2>2. reset' \subseteq held \cup {opts.fd}
      BY <1>4 DEF H!Reset, H!ResetLinux, H!ResetMacos
    <2>3. QED
      BY <2>1, <2>2
  <1>5. CASE H!StatAndCrc
    <2>1. /\ pc' \in {"inspect", "exit"} /\ UNCHANGED <<held, reset, opts, curr>>
      BY <1>5 DEF H!StatAndCrc, H!envvars
    <2>2. QED
      BY <2>1
  <1>6. CASE H!Inspect
    <2>1. /\ pc' \in {"upload", "exit"} /\ UNCHANGED <<held, reset, curr>>
          /\ opts' = opts \/ opts' = [opts EXCEPT !.addr = DefaultAddr]
      BY <1>6 DEF H!Inspect, H!envvars
    <2>2. opts'.fd = opts.fd
      BY <2>1 DEF HostInv, OptsType
    <2>3. QED
      BY <2>1, <2>2
  <1>7. CASE H!PlatformMarshal
    BY <1>7 DEF H!PlatformMarshal, H!envvars
  <1>8. CASE H!UploadEnds
    <2>1. pc' \in {"booted", "exit"} /\ UNCHANGED <<held, reset, opts, curr>>
      BY <1>8 DEF H!UploadEnds, H!envvars
    <2>2. QED
      BY <2>1
  <1>9. CASE H!Console
    <2>1. /\ pc' \in {"success", "console"} /\ UNCHANGED <<reset, opts, curr>>
          /\ held' = held \/ held' = held \ {opts.fd}
      BY <1>9 DEF H!Console
    <2>2. QED
      BY <2>1
  <1>10. CASE UNCHANGED hostvars
    BY <1>10 DEF hostvars
  <1>11. QED
    BY <1>1, <1>2, <1>3, <1>4, <1>5, <1>6, <1>7, <1>8, <1>9, <1>10 DEF H!Next

\* PageAllocator.
LEMMA PageTypes == PageInv => P!TypeOK
  <1> SUFFICES ASSUME PageInv PROVE P!TypeOK
    OBVIOUS
  <1>1. ppa.mask \subseteq 0 .. Supersections - 1
    BY DEF PageInv, PpaType
  <1>2. \A k \in 0 .. 2 : ppa.lists[k] \in (0 .. P!RegionCount - 1) \cup {SizeMax}
    BY PageNumbers DEF PageInv, PpaType
  <1>3. ASSUME NEW i \in 1 .. Len(live) PROVE live[i].at \in 0 .. P!Pages - 1
    <2>1. PICK n \in 0 .. Supersections - 1 : live[i].at = Scale * n
      BY DEF PageInv, LiveInv, Begins
    <2>2. Scale \in Nat /\ Scale >= 1 /\ n \in Nat /\ Supersections \in Nat /\ n < Supersections
      BY PageNumbers
    <2>3. Scale * n + Scale <= Scale * Supersections /\ Scale * n \in Nat
          /\ Scale * Supersections \in Nat
      BY <2>2, MulStep
    <2>4. P!Pages = Supersections * Scale
      BY PageNumbers DEF P!Pages, P!RK_Supersection
    <2>5. Supersections * Scale = Scale * Supersections
      BY <2>2
    <2> DEFINE a == Scale * n
               b == Scale * Supersections
    <2> HIDE DEF a, b
    <2>6. a \in Nat /\ b \in Nat /\ a + Scale <= b
      BY <2>3 DEF a, b
    <2>7. a \in 0 .. b - 1
      BY <2>2, <2>6
    <2>8. QED
      BY <2>1, <2>4, <2>5, <2>7 DEF a, b
  <1>4. QED
    BY <1>1, <1>2, <1>3 DEF P!TypeOK

\* IntegrityCheck.
LEMMA CheckTypesKeep ==
    ASSUME CheckInv, I!TypeOK, I!IntegNext \/ UNCHANGED checkvars
    PROVE  I!TypeOK'
  <1> USE DEF I!TypeOK
  <1>1. 0 \in Values /\ 1 \in Values
    BY IntegAssumption
  <1>2. CASE I!CheckCoverage
    <2>1. covered' \in BOOLEAN /\ integPc' \in {"main", "stop"}
      BY <1>2 DEF I!CheckCoverage
    <2>2. UNCHANGED <<content, low, microstack, verdict>>
      BY <1>2 DEF I!CheckCoverage, I!machine
    <2>3. QED
      BY <2>1, <2>2
  <1>3. CASE I!IntegRun
    BY <1>1, <1>3 DEF I!IntegRun, I!Prepared
  <1>4. CASE I!PayloadWrites
    BY <1>4 DEF I!PayloadWrites
  <1>5. CASE I!IntegChk
    BY <1>1, <1>5 DEF I!IntegChk, I!StateOf
  <1>6. CASE I!ClearMarks
    BY <1>6 DEF I!ClearMarks, I!machine
  <1>7. CASE UNCHANGED checkvars
    BY <1>7 DEF checkvars
  <1>8. QED
    BY <1>2, <1>3, <1>4, <1>5, <1>6, <1>7 DEF I!IntegNext

\* Mailbox.
LEMMA BoxTypesKeep ==
    ASSUME BoxInv', M!TypeOK, M!MailNext \/ UNCHANGED boxvars
    PROVE  M!TypeOK'
  <1>1. vc' \in {"idle", "asked", "answered"}
    BY DEF M!TypeOK, M!MailNext, M!FillAndFlush, M!MboxWrite, M!VcAnswer, M!MboxRead, M!ReadCode,
           M!CopyTag, M!CopyValue, M!Return, M!Refill, M!Evict, boxvars
  <1>2. mailPc' \in {"call", "returned", "panic"} \cup M!Waiting
    BY DEF M!TypeOK, M!MailNext, M!FillAndFlush, M!MboxWrite, M!VcAnswer, M!MboxRead, M!ReadCode,
           M!CopyTag, M!CopyValue, M!Return, M!Refill, M!Evict, boxvars, M!Waiting
  <1>3. QED
    BY <1>1, <1>2 DEF M!TypeOK, BoxInv, M!Waiting

\* SystemTimer: the halves of the counter.
LEMMA HalvesFit ==
    ASSUME NEW n \in Nat
    PROVE  /\ n % W64 \in 0 .. W64 - 1
           /\ (n % W64) \div Half \in 0 .. Half - 1
           /\ (n % W64) % Half \in 0 .. Half - 1
  <1>1. Half \in Nat \ {0} /\ W64 \in Nat \ {0}
    BY ClockAssumption DEF W64
  <1> DEFINE x == n % W64
             q == x \div Half
  <1>2. x \in Nat /\ x < W64
    BY <1>1, DivMod
  <1> HIDE DEF x
  <1>3. q \in Nat /\ x % Half \in Nat /\ x % Half < Half /\ x = Half * q + (x % Half)
    BY <1>1, <1>2, DivMod
  <1> HIDE DEF q
  <1>4. q < Half
    <2> SUFFICES ASSUME q >= Half PROVE FALSE
      BY <1>1, <1>3
    <2>1. Half * q >= Half * Half
      BY <1>1, <1>3
    <2> DEFINE y == Half * q
    <2> HIDE DEF y
    <2>2. y \in Nat /\ x = y + (x % Half) /\ y >= W64
      BY <1>1, <1>3, <2>1 DEF y, W64
    <2>3. QED
      BY <1>1, <1>2, <1>3, <2>2
  <1>5. QED
    BY <1>1, <1>2, <1>3, <1>4 DEF x, q

\* Two halves make a value of the counter.
LEMMA HalvesJoin ==
    ASSUME NEW a \in 0 .. Half - 1, NEW b \in 0 .. Half - 1
    PROVE  a * Half + b \in 0 .. W64 - 1
  <1>1. Half \in Nat \ {0} /\ a \in Nat /\ b \in Nat /\ a < Half /\ b < Half
    BY ClockAssumption
  <1>2. Half * a + Half <= Half * Half /\ Half * a \in Nat
    BY <1>1, MulStep
  <1> DEFINE y == Half * a
             z == Half * Half
  <1>3. a * Half = y
    BY <1>1
  <1> HIDE DEF y, z
  <1>4. y \in Nat /\ y + Half <= z /\ W64 = z /\ z \in Nat
    BY <1>1, <1>2 DEF y, z, W64
  <1>5. QED
    BY <1>1, <1>3, <1>4

\* The time of a run is a 64-bit value.
LEMMA TimeFits ==
    ASSUME NEW dm \in Nat, NEW dc \in Nat
    PROVE  C!TimeNs(dm, dc) \in 0 .. W64 - 1
  <1>1. W64 \in Nat \ {0} /\ Half \in Nat \ {0} /\ Hz \in Nat \ {0} /\ Mega \in Nat \ {0}
        /\ Giga \in Nat \ {0} /\ C!Word = W64
    BY ClockAssumption DEF W64, C!Word
  <1>2. \A x \in Int : x % W64 \in Nat /\ x % W64 < W64
    BY <1>1
  <1>3. C!Wraps(dm, dc) \in Int
    <2> DEFINE u == (dm * Hz) % W64
               v == u \div Mega
               k == (v - dc) % W64
               g == Half \div 2
               h == k \div g
    <2>1. dm * Hz \in Int
      BY <1>1
    <2>2. u \in Nat
      BY <1>2, <2>1
    <2> HIDE DEF u
    <2>3. v \in Nat
      BY <1>1, <2>2
    <2> HIDE DEF v
    <2>4. k \in Nat
      BY <1>2, <2>3
    <2> HIDE DEF k
    <2>5. g \in Nat \ {0}
      BY ClockAssumption
    <2> HIDE DEF g
    <2>6. h \in Nat
      BY <2>4, <2>5
    <2> HIDE DEF h
    <2>7. (h \div 2) + (h % 2) \in Int
      BY <2>6
    <2>8. C!Wraps(dm, dc) = IF dm = 0 THEN 0 ELSE (h \div 2) + (h % 2)
      BY <1>1 DEF C!Wraps, h, g, k, v, u
    <2>9. QED
      BY <2>7, <2>8
  <1> DEFINE w == C!Wraps(dm, dc)
             c == (dc + w * Half) % W64
             t == (c * Giga) % W64
  <1>4. C!TimeNs(dm, dc) = t \div Hz
    BY <1>1 DEF C!TimeNs, C!Cycles
  <1> HIDE DEF w
  <1>5. w * Half \in Int
    BY <1>1, <1>3 DEF w
  <1>6. c \in Nat
    BY <1>2, <1>5
  <1> HIDE DEF c
  <1>7. c * Giga \in Int
    BY <1>1, <1>6
  <1>8. t \in Nat /\ t < W64
    BY <1>2, <1>7
  <1> HIDE DEF t
  <1>9. t \div Hz \in Nat /\ t \div Hz <= t
    <2> DEFINE q == t \div Hz
    <2>1. q \in Nat /\ t % Hz \in Nat /\ t = Hz * q + (t % Hz)
      BY <1>1, <1>8, DivMod
    <2> HIDE DEF q
    <2>2. Hz * q >= q /\ Hz * q \in Nat
      BY <1>1, <2>1
    <2> DEFINE y == Hz * q
    <2> HIDE DEF y
    <2>3. y \in Nat /\ y >= q /\ t = y + (t % Hz)
      BY <2>1, <2>2 DEF y
    <2>4. QED
      BY <1>8, <2>1, <2>3 DEF q
  <1>10. QED
    BY <1>1, <1>4, <1>8, <1>9

LEMMA ClockTypesKeep ==
    ASSUME ClockInv, C!TypeOK, C!TimerNext \/ UNCHANGED clockvars
    PROVE  C!TypeOK'
  <1>1. now \in Nat /\ Half \in Nat \ {0} /\ W64 \in Nat \ {0} /\ C!Word = W64 /\ Half * Half = W64
    BY ClockAssumption DEF ClockInv, TimeInv, W64, C!Word
  <1>2. C!chi \in 0 .. Half - 1 /\ C!clo \in 0 .. Half - 1
    BY <1>1, HalvesFit DEF C!chi, C!clo, C!Counter
  <1>3. /\ reader.hi \in 0 .. Half - 1 /\ reader.hi2 \in 0 .. Half - 1
        /\ reader.lo \in 0 .. Half - 1 /\ reader.raw \in 0 .. W64 - 1
        /\ delay.start \in 0 .. W64 - 1 /\ delay.end \in 0 .. W64 - 1
        /\ timed.ns \in 0 .. W64 - 1
    BY <1>1 DEF C!TypeOK
  <1>4. /\ reader \in [at : {"idle", "lo", "hi", "done"}, hi : Nat, hi2 : Nat, lo : Nat, raw : Nat]
        /\ delay \in [at : {"idle", "start", "wrap", "wait", "returned"}, start : Nat, end : Nat,
                      us : 0 .. W64 - 1]
        /\ reader.at # "idle" => delay.at \in {"start", "wrap", "wait"}
    BY DEF ClockInv, ReaderInv, DelayInv
  <1>5. SUFFICES /\ reader'.hi \in 0 .. Half - 1 /\ reader'.hi2 \in 0 .. Half - 1
                 /\ reader'.lo \in 0 .. Half - 1 /\ reader'.raw \in 0 .. W64 - 1
                 /\ delay'.start \in 0 .. W64 - 1 /\ delay'.end \in 0 .. W64 - 1
                 /\ timed'.ns \in 0 .. W64 - 1
    BY <1>1 DEF C!TypeOK
  <1>6. CASE C!ReadBegin
    BY <1>2, <1>3, <1>4, <1>6 DEF C!ReadBegin
  <1>7. CASE C!ReadLo
    BY <1>2, <1>3, <1>4, <1>7 DEF C!ReadLo
  <1>8. CASE C!ReadHi
    <2> DEFINE v == reader.hi * Half + reader.lo
    <2>1. v \in 0 .. W64 - 1
      BY <1>3, HalvesJoin
    <2>2. /\ reader'.hi = reader.hi /\ reader'.lo = reader.lo /\ reader'.hi2 = C!chi
          /\ reader'.raw \in {reader.raw, v} /\ delay' = delay /\ timed' = timed
      BY <1>4, <1>8 DEF C!ReadHi
    <2> HIDE DEF v
    <2>3. QED
      BY <1>2, <1>3, <2>1, <2>2
  <1>9. CASE C!DelayCall
    BY <1>1, <1>3, <1>4, <1>9 DEF C!DelayCall, C!Untimed
  <1>10. CASE C!DelayStep
    <2> DEFINE e == (reader.raw + delay.us) % W64
    <2>1. e \in 0 .. W64 - 1
      <3> DEFINE n == reader.raw + delay.us
      <3>1. n \in Nat
        BY <1>4
      <3> HIDE DEF n
      <3>2. n % W64 \in 0 .. W64 - 1
        BY <3>1, HalvesFit
      <3>3. QED
        BY <3>2 DEF n
    <2>2. delay.at \in {"start", "wrap", "wait"} /\ reader' = C!NotReading /\ timed' = timed
      BY <1>4, <1>10 DEF C!DelayStep
    <2>3. /\ delay'.start \in {delay.start, reader.raw}
          /\ delay'.end \in {delay.end, e}
      <3>1. CASE delay.at = "start"
        <4>1. delay' = C!Started(reader.raw)
          BY <1>10, <3>1 DEF C!DelayStep
        <4>2. QED
          BY <1>1, <1>4, <4>1 DEF C!Started
      <3>2. CASE delay.at = "wrap"
        <4>1. delay' = C!AfterWrap(reader.raw)
          BY <1>10, <3>2 DEF C!DelayStep
        <4>2. QED
          BY <1>4, <4>1 DEF C!AfterWrap
      <3>3. CASE delay.at = "wait"
        <4>1. delay' = C!Waited(reader.raw)
          BY <1>10, <3>3 DEF C!DelayStep
        <4>2. QED
          BY <1>4, <4>1 DEF C!Waited
      <3>4. QED
        BY <2>2, <3>1, <3>2, <3>3
    <2> HIDE DEF e
    <2>4. 0 \in 0 .. Half - 1 /\ 0 \in 0 .. W64 - 1
      BY <1>1
    <2>5. QED
      BY <1>3, <2>1, <2>2, <2>3, <2>4 DEF C!NotReading
  <1>11. CASE C!DelayReturn
    BY <1>1, <1>3, <1>11 DEF C!DelayReturn, C!NotDelaying
  <1>12. CASE C!TimeRun
    <2>1. PICK cycles \in 0 .. MaxCycles, phase \in 0 .. Hz \div Mega - 1,
               before0, after \in 0 .. MaxLag :
            timed' = [cycles |-> cycles,
                      ns |-> C!TimeNs((phase + before0 + cycles + after) \div (Hz \div Mega),
                                      cycles % Half)]
      BY <1>12 DEF C!TimeRun, C!TimedRun
    <2> DEFINE d == Hz \div Mega
               n == phase + before0 + cycles + after
    <2>2. d \in Nat \ {0}
      <3>1. d \in Nat
        BY ClockAssumption
      <3>2. d - 1 >= 0
        BY <3>1
      <3>3. QED
        BY <3>1, <3>2
    <2> HIDE DEF d
    <2>3. n \in Nat /\ cycles \in Nat
      BY <2>2, ClockAssumption DEF d
    <2> HIDE DEF n
    <2>4. n \div d \in Nat /\ cycles % Half \in Nat
      BY <1>1, <2>2, <2>3
    <2>5. C!TimeNs(n \div d, cycles % Half) \in 0 .. W64 - 1
      BY <2>4, TimeFits
    <2>6. timed'.ns \in 0 .. W64 - 1
      BY <2>1, <2>5 DEF n, d
    <2>7. UNCHANGED <<reader, delay>>
      BY <1>12 DEF C!TimeRun
    <2>8. QED
      BY <1>3, <2>6, <2>7
  <1>13. CASE C!Tick \/ UNCHANGED clockvars
    BY <1>3, <1>13 DEF C!Tick, clockvars
  <1>14. QED
    BY <1>6, <1>7, <1>8, <1>9, <1>10, <1>11, <1>12, <1>13 DEF C!TimerNext

\* DmaArena: the entries of the contexts are counted, and the contexts are few.
ScratchTypes == /\ A!TypeOK /\ currMono \in Nat /\ probes \in Seq(buffers)
                /\ IsFiniteSet(DOMAIN monos)
LEMMA SameCount == \A S : A!Cardinality(S) = Cardinality(S)
  BY DEF A!Cardinality, Cardinality

LEMMA ScratchTypesInit == A!ArenaInit => ScratchTypes
  <1> SUFFICES ASSUME A!ArenaInit PROVE ScratchTypes
    OBVIOUS
  <1>1. /\ arena = [p |-> ArenaStart, util |-> 0] /\ currMono = 0 /\ monos = <<>>
        /\ probes = <<>> /\ buffers = {} /\ arenaPc = "run"
    BY DEF A!ArenaInit
  <1>2. DOMAIN monos = {}
    BY <1>1
  <1>3. IsFiniteSet({}) /\ A!Cardinality({}) = 0
    BY FS_EmptySet, SameCount
  <1>4. probes \in Seq(buffers) /\ Len(probes) = 0
    BY <1>1
  <1>5. QED
    BY <1>1, <1>2, <1>3, <1>4, ArenaAssumption DEF ScratchTypes, A!TypeOK

LEMMA ScratchTypesKeep ==
    ASSUME ScratchInv, ScratchTypes, A!ArenaNext \/ UNCHANGED scratchvars
    PROVE  ScratchTypes'
  <1>1. CASE A!RunInitializers \/ UNCHANGED scratchvars
    BY <1>1 DEF ScratchTypes, A!TypeOK, A!RunInitializers, scratchvars
  <1>2. CASE A!Probe
    <2>1. UNCHANGED <<arena, monos, currMono, buffers>> /\ arenaPc' \in {"run", "panic"}
      BY <1>2 DEF A!Probe
    <2>2. probes' \in Seq(buffers) /\ Len(probes') <= MaxProbes
      <3>1. probes \in Seq(buffers) /\ Len(probes) \in Nat /\ Len(probes) <= MaxProbes
        BY DEF ScratchTypes, A!TypeOK
      <3>2. CASE probes' = probes
        BY <3>1, <3>2
      <3>3. ASSUME Len(probes) < MaxProbes, NEW b \in buffers, probes' = Append(probes, b)
            PROVE  probes' \in Seq(buffers) /\ Len(probes') <= MaxProbes
        <4>1. probes' \in Seq(buffers) /\ Len(probes') = Len(probes) + 1
          BY <3>1, <3>3
        <4>2. QED
          BY <3>1, <3>3, <4>1, ArenaAssumption
      <3>4. ~(Len(probes) >= MaxProbes) => Len(probes) < MaxProbes
        BY <3>1, ArenaAssumption
      <3>5. QED
        BY <1>2, <3>2, <3>3, <3>4 DEF A!Probe
    <2>3. QED
      BY <2>1, <2>2 DEF ScratchTypes, A!TypeOK
  <1>3. CASE A!ClearProbes
    <2>1. UNCHANGED <<arena, monos, currMono, buffers, arenaPc>> /\ probes' = <<>>
      BY <1>3 DEF A!ClearProbes
    <2>2. probes' \in Seq(buffers) /\ Len(probes') = 0
      BY <2>1
    <2>3. QED
      BY <2>1, <2>2, ArenaAssumption DEF ScratchTypes, A!TypeOK
  <1>4. ASSUME NEW c \in DOMAIN Needs, NEW width \in DOMAIN Needs[c],
               A!MonomorphizePanics(c, width)
        PROVE  ScratchTypes'
    BY <1>4 DEF A!MonomorphizePanics, ScratchTypes, A!TypeOK
  <1>5. ASSUME NEW c \in DOMAIN Needs, NEW width \in DOMAIN Needs[c],
               A!MonomorphizeOn(c, width)
        PROVE  ScratchTypes'
    <2> DEFINE found == A!MonoGet(c, width)
               D0 == DOMAIN monos
    <2>1. /\ probes' = probes /\ arenaPc' = arenaPc /\ buffers \subseteq buffers'
          /\ ~A!Panics(c, width)
      BY <1>5 DEF A!MonomorphizeOn
    <2>2. probes' \in Seq(buffers') /\ Len(probes') <= MaxProbes
      <3>1. probes \in Seq(buffers) /\ Len(probes) <= MaxProbes
        BY DEF ScratchTypes, A!TypeOK
      <3>2. probes \in Seq(buffers')
        BY <2>1, <3>1
      <3>3. QED
        BY <2>1, <3>1, <3>2
    <2>3. CASE found
      <3>1. UNCHANGED <<arena, monos, currMono>>
        BY <1>5, <2>3 DEF A!MonomorphizeOn
      <3>2. QED
        BY <2>1, <2>2, <3>1 DEF ScratchTypes, A!TypeOK
    <2>4. CASE ~found
      <3>1. /\ monos' = [A!WithContext(c) EXCEPT ![c] = @ + 1]
            /\ currMono' = currMono + 1 /\ ~(currMono >= MaxMono) /\ ~A!NoContextLeft(c)
        BY <1>5, <2>1, <2>4 DEF A!MonomorphizeOn, A!Panics
      <3>2. currMono' \in Nat /\ currMono' <= MaxMono
        BY <3>1, ArenaAssumption DEF ScratchTypes
      <3>3. DOMAIN monos' = D0 \cup {c}
        BY <3>1 DEF A!WithContext
      <3>4. IsFiniteSet(D0) /\ A!Cardinality(D0) \in Nat /\ A!Cardinality(D0) <= MaxContext
        <4>1. IsFiniteSet(D0) /\ A!Cardinality(D0) <= MaxContext
          BY DEF ScratchTypes, A!TypeOK
        <4>2. QED
          BY <4>1, FS_CardinalityType, SameCount
      <3>5. c \notin D0 => A!Cardinality(D0) < MaxContext
        BY <3>1, <3>4, ArenaAssumption DEF A!NoContextLeft
      <3> HIDE DEF D0
      <3>6. /\ IsFiniteSet(D0 \cup {c})
            /\ A!Cardinality(D0 \cup {c})
                 = IF c \in D0 THEN A!Cardinality(D0) ELSE A!Cardinality(D0) + 1
        BY <3>4, FS_AddElement, SameCount
      <3>7. IsFiniteSet(DOMAIN monos') /\ A!Cardinality(DOMAIN monos') <= MaxContext
        <4> DEFINE n == A!Cardinality(D0)
        <4> HIDE DEF n
        <4>1. n \in Nat /\ n <= MaxContext /\ (c \notin D0 => n < MaxContext)
          BY <3>4, <3>5 DEF n
        <4>2. A!Cardinality(DOMAIN monos') = IF c \in D0 THEN n ELSE n + 1
          BY <3>3, <3>6 DEF n
        <4>3. QED
          BY <3>3, <3>6, <4>1, <4>2, ArenaAssumption
      <3>8. arena'.p >= ArenaStart /\ arena'.p < ArenaEnd /\ arena'.util <= arena'.p - ArenaStart
        <4> DEFINE req == Needs[c][width]
                   q == (arena.p + req.align - 1) \div req.align
        <4>1. req.size \in Nat /\ req.align \in Nat \ {0}
          BY ArenaAssumption
        <4>2. arena.p \in Nat /\ arena.util \in Nat /\ arena.p >= ArenaStart
              /\ arena.util <= arena.p - ArenaStart
          BY DEF ScratchInv, ScratchTypes, A!TypeOK
        <4>3. /\ arena' = [p |-> q * req.align + req.size, util |-> arena.util + req.size]
              /\ q * req.align + req.size < ArenaEnd
          BY <1>5, <2>1, <2>4
             DEF A!MonomorphizeOn, A!Panics, A!ArenaFits, A!ArenaAlloc, A!AlignUp
        <4> HIDE DEF req
        <4>4. q \in Nat /\ q * req.align >= arena.p
          BY <4>1, <4>2, RoundUp
        <4> DEFINE y == q * req.align
        <4> HIDE DEF q
        <4>5. y \in Nat /\ y >= arena.p
          BY <4>1, <4>4
        <4>6. arena'.p = y + req.size /\ arena'.util = arena.util + req.size /\ y + req.size < ArenaEnd
          BY <4>3
        <4> HIDE DEF y
        <4>7. QED
          BY <4>1, <4>2, <4>5, <4>6, ArenaAssumption
      <3>9. QED
        BY <2>1, <2>2, <3>2, <3>7, <3>8 DEF ScratchTypes, A!TypeOK
    <2>5. QED
      BY <2>3, <2>4
  <1>6. QED
    BY <1>1, <1>2, <1>3, <1>4, <1>5 DEF A!ArenaNext, A!Emitting, A!Contexts, A!Widths

-----------------------------------------------------------------------------
(* The programs together *)

\* The invariant of the program that runs.
PartsInv == /\ part = "host" => HostInv
            /\ part = "pages" => PageInv
            /\ part = "check" => CheckInv /\ CoverInv
            /\ part = "clock" => ClockInv
            /\ part = "box" => BoxInv
            /\ part = "dma" => DmaInv
            /\ part = "scratch" => ScratchInv

LEMMA PartsInit == Init => PartsInv
  BY HostInit, PageInit, CheckInit, CoverInit, ClockInit, BoxInit, DmaInit, ScratchInit
     DEF Init, PartsInv

LEMMA PartsStepKeeps ==
    ASSUME PartsInv, [Next]_vars
    PROVE  PartsInv'
  <1>1. part' = part
    BY OneProgram
  <1>2. part = "host" => HostInv'
    BY OneProgram, HostStepKeeps DEF PartsInv
  <1>3. part = "pages" => PageInv'
    BY OneProgram, PageStepKeeps DEF PartsInv
  <1>4. part = "check" => CheckInv' /\ CoverInv'
    BY OneProgram, CheckStepKeeps, CoverStepKeeps DEF PartsInv
  <1>5. part = "clock" => ClockInv'
    BY OneProgram, ClockStepKeeps DEF PartsInv
  <1>6. part = "box" => BoxInv'
    BY OneProgram, BoxStepKeeps DEF PartsInv
  <1>7. part = "dma" => DmaInv'
    BY OneProgram, DmaStepKeeps DEF PartsInv
  <1>8. part = "scratch" => ScratchInv'
    BY OneProgram, ScratchStepKeeps DEF PartsInv
  <1>9. QED
    BY <1>1, <1>2, <1>3, <1>4, <1>5, <1>6, <1>7, <1>8 DEF PartsInv

\* Whatever program runs keeps its invariant.
THEOREM PartsInvariant == Spec => []PartsInv
  <1>1. Init => PartsInv
    BY PartsInit
  <1>2. PartsInv /\ [Next]_vars => PartsInv'
    BY PartsStepKeeps
  <1>3. QED
    BY <1>1, <1>2, PTL DEF Spec

\* Whatever the arguments, the files and the ports: what main announces to the
\* device describes the file it goes on to send, wherever xz and ELF inspection
\* left the offset; of a packed file all but the checksum.
THEOREM MetaIsRight == Spec => []MetaDescribesFile
  <1>1. PartsInv => MetaDescribesFile
    BY HostMeans DEF PartsInv, MetaDescribesFile
  <1>2. QED
    BY <1>1, PartsInvariant, PTL

\* Whatever the size of a chunk and of the file: platform_marshal sends every
\* announced byte once and in order.
THEOREM ChunksCover == Spec => []ChunksCoverFile
  <1>1. PartsInv => ChunksCoverFile
    BY HostCovers DEF PartsInv, ChunksCoverFile
  <1>2. QED
    BY <1>1, PartsInvariant, PTL

\* parse_opts and find_serial_device lead upload and console to the port that
\* was asked for.
THEOREM DeviceIsRight == Spec => []RightDevice
  <1>1. PartsInv => RightDevice
    BY HostMeans DEF PartsInv, RightDevice
  <1>2. QED
    BY <1>1, PartsInvariant, PTL

\* Whatever the width of the counter: systmr_read_raw gives a value the counter
\* had during the call, systmr_delay_us does not return early, and
\* dma_run_info_get_time_ns tells the length of the run although the cycle
\* counter wraps.
THEOREM ClockIsSound == Spec => []ClockSound
  <1>1. PartsInv => ClockSound
    BY DEF PartsInv, ClockSound, ClockInv, ReaderInv, DelayInv
  <1>2. QED
    BY <1>1, PartsInvariant, PTL

\* Whatever the regions, the memory and the payloads that ran before: integ_chk
\* marks the regions the payload changed, and no other but the stack it pushed
\* its own registers on; it finds clean exactly what it does not mark.
THEOREM CorruptionIsReported == Spec => []CorruptionReported
  <1>1. PartsInv => CorruptionReported
    BY DEF PartsInv, CorruptionReported, CheckInv
  <1>2. QED
    BY <1>1, PartsInvariant, PTL

\* Whatever the list of regions: one that integ_check_coverage accepts has
\* every address outside the header in exactly one region.
THEOREM CoverageIsSound == Spec => []CoverageSound
  <1>1. PartsInv => CoverageSound
    BY DEF PartsInv, CoverageSound, CoverInv
  <1>2. QED
    BY <1>1, PartsInvariant, PTL

\* Whatever the cache does: mail returns what VideoCore answered to this
\* request; and __dma_timed_run reports the errors of this run, whatever the
\* debug register of the channel held before.
THEOREM ResultsAreFresh == Spec => []ResultsFresh
  <1>1. PartsInv => ResultsFresh
    BY DEF PartsInv, ResultsFresh, BoxInv, DmaInv
  <1>2. QED
    BY <1>1, PartsInvariant, PTL

\* Whatever the number of supersections, channels, clients and buffers: what
\* dmakit_channel_acquire reserves and where MonomorphizeOn puts a buffer belongs
\* to one owner, and so does what ppa_alloc hands out whole, except the
\* supersections unfloat_region has left on the list.
THEOREM AllocationsStayApart == Spec => []AllocationsApart
  <1>1. PartsInv => AllocationsApart
    BY PagesApart, ScratchApart DEF PartsInv, AllocationsApart, DmaInv
  <1>2. QED
    BY <1>1, PartsInvariant, PTL

\* The types need what the programs themselves keep, and for the host program
\* and the arena a little more.
TypesInv == /\ part = "host" => HostTypes
            /\ part = "check" => I!TypeOK
            /\ part = "clock" => C!TypeOK
            /\ part = "box" => M!TypeOK
            /\ part = "scratch" => ScratchTypes

LEMMA TypesInit == Init => TypesInv
  <1> SUFFICES ASSUME Init PROVE TypesInv
    OBVIOUS
  <1>1. part = "host" => HostTypes
    BY DEF Init, H!Init, HostTypes, H!TypeOK
  <1>2. part = "check" => I!TypeOK
    BY IntegAssumption DEF Init, I!IntegInit, I!TypeOK
  <1>3. part = "clock" => C!TypeOK
    BY ClockAssumption DEF Init, C!TimerInit, C!TypeOK, C!NotReading, C!NotDelaying, C!Untimed, C!Word
  <1>4. part = "box" => M!TypeOK
    BY DEF Init, M!MailInit, M!TypeOK, M!Flushed, M!Absent
  <1>5. part = "scratch" => ScratchTypes
    BY ScratchTypesInit DEF Init
  <1>6. QED
    BY <1>1, <1>2, <1>3, <1>4, <1>5 DEF TypesInv

LEMMA TypesStepKeeps ==
    ASSUME PartsInv, TypesInv, [Next]_vars
    PROVE  TypesInv'
  <1>1. part' = part
    BY OneProgram
  <1>2. part = "host" => HostTypes'
    BY OneProgram, HostTypesKeep DEF PartsInv, TypesInv
  <1>3. part = "check" => I!TypeOK'
    BY OneProgram, CheckTypesKeep DEF PartsInv, TypesInv
  <1>4. part = "clock" => C!TypeOK'
    BY OneProgram, ClockTypesKeep DEF PartsInv, TypesInv
  <1>5. part = "box" => M!TypeOK'
    BY OneProgram, BoxTypesKeep, BoxStepKeeps DEF PartsInv, TypesInv
  <1>6. part = "scratch" => ScratchTypes'
    BY OneProgram, ScratchTypesKeep DEF PartsInv, TypesInv
  <1>7. QED
    BY <1>1, <1>2, <1>3, <1>4, <1>5, <1>6 DEF TypesInv

\* Whatever the constants: no program leaves its types and tables.  ppa_alloc
\* hands out nothing behind the end of memory, ARENA.p stays in ARENA_BACKING,
\* curr_mono, curr_context and probecnt in their arrays, the halves of the
\* counter in 32 bits, and only a port that was opened is ever reset.
THEOREM PartsTypes == Spec => []TypeOK
  <1>1. PartsInv /\ TypesInv => TypeOK
    <2> SUFFICES ASSUME PartsInv, TypesInv PROVE TypeOK
      OBVIOUS
    <2>1. part = "pages" => P!TypeOK
      BY PageTypes DEF PartsInv
    <2>2. part = "dma" => D!TypeOK
      BY DEF PartsInv, DmaInv, D!TypeOK
    <2>3. QED
      BY <2>1, <2>2 DEF TypesInv, HostTypes, ScratchTypes, TypeOK
  <1>2. Init => TypesInv
    BY TypesInit
  <1>3. PartsInv /\ TypesInv /\ [Next]_vars => TypesInv'
    BY TypesStepKeeps
  <1>4. QED
    BY <1>1, <1>2, <1>3, PartsInvariant, PTL DEF Spec

===============================================================================
