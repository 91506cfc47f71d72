------------------------------ MODULE BootImage ------------------------------
(***************************************************************************)
(* Where the boot loader of pup/bcm2835.c puts an image: the memory layout *)
(* platform_init_meta plans, the bytes platform_feed writes, what          *)
(* platform_load_image verifies, and the stub of                           *)
(* pup/trampolines/bin.bcm2835.S that moves the last part of a flat image  *)
(* over the boot loader and starts it.                                     *)
(*                                                                         *)
(* An image may be meant for the memory the running boot loader occupies.  *)
(* That part of it is kept in a relocation buffer until the stub, itself   *)
(* copied out of the way, moves it.                                        *)
(***************************************************************************)
EXTENDS Integers

CONSTANTS
    DRAM_LIMIT,            \* one past the last byte of memory
    ProgStart, ProgEnd,    \* the boot loader: __prog_start, __prog_end
    StubSize,              \* TRAMPOLINE_END - TRAMPOLINE_START
    ChunkSize,             \* bytes of a CHNK frame (0xffff)
    OutSize,               \* sizeof decompress_buffer
    WordMod,               \* registers hold 32 bits: 2^32
    Metas                  \* the meta_t values a host may announce

MetaType == [format : {"BIN", "ELF", "unknown"}, compression : {"NONE", "XZ", "unknown"},
             load : Nat, size : Nat]

\* Memory ends on a word boundary, and so do the boot loader (linker script)
\* and the stub (ARM instructions).
ASSUME LayoutAssumption ==
    /\ DRAM_LIMIT \in Nat /\ ProgStart \in Nat /\ ProgEnd \in Nat /\ StubSize \in Nat
    /\ DRAM_LIMIT % 4 = 0 /\ StubSize % 4 = 0
    /\ ProgStart % 4 = 0 /\ ProgEnd % 4 = 0
    /\ ProgStart < ProgEnd
    /\ 2 * ProgEnd + StubSize < DRAM_LIMIT
    /\ StubSize > 0

ASSUME InputAssumption ==
    /\ ChunkSize \in Nat \ {0} /\ OutSize \in Nat \ {0}
    /\ WordMod \in Nat \ {0} /\ WordMod % 16 = 0
    /\ Metas \subseteq MetaType

VARIABLES
    phase,     \* where the boot loader is, or who runs after it
    META,      \* the accepted metadata
    image,     \* img_start, img_end
    reloc,     \* struct reloc; size 0: no relocation
    feed,      \* where the next byte of the image belongs
    chunks,    \* chunks fed, of an uncompressed image
    swapped,   \* history: data of another file was fed in this session
    ok,        \* what platform_load_image returned
    stub,      \* registers r0, r1, r8 of the relocation stub, and its loop
    mem        \* memory: what each byte holds

vars == <<phase, META, image, reloc, feed, chunks, swapped, ok, stub, mem>>

\* Byte k of the announced image is the number k; other contents, Alien(k)
\* being what another file has where byte k belongs:
Addr     == 0 .. DRAM_LIMIT - 1
Junk     == -1
Prog     == -2
Stub     == -3
Alien(k) == -4 - k

Lesser(a, b)  == IF a < b THEN a ELSE b
Greater(a, b) == IF a > b THEN a ELSE b

\* memcpy of n bytes to dst, from data + from.
Write(m, dst, n, data, from) ==
    [a \in Addr |-> IF dst <= a /\ a < dst + n THEN data[from + (a - dst)] ELSE m[a]]

-----------------------------------------------------------------------------
(* platform_init_meta *)

\* The checks that come before anything is assigned.
Acceptable(m) ==
    /\ m.compression # "unknown"
    /\ m.format # "unknown"
    /\ m.format = "BIN" => /\ m.load < DRAM_LIMIT
                           /\ m.load + m.size < DRAM_LIMIT
                           /\ m.load % 4 = 0

ImageOf(m) ==
    LET start == IF m.format = "BIN" THEN m.load ELSE ProgEnd
    IN  [start |-> start, end |-> start + m.size]

\* Mutant: an image that starts below the boot loader is not seen to reach it.
OverlapsInside(img) == img.start >= ProgStart /\ img.start < ProgEnd

\* The two cases drawn in the source: the image starts inside the boot loader,
\* or before it and reaches into it.
Overlaps(img) ==
    \/ img.start >= ProgStart /\ img.start < ProgEnd
    \/ img.start < ProgStart /\ img.end > ProgStart

RelocSize(img) ==
    IF Overlaps(img)
    THEN Lesser(img.end, ProgEnd) - Greater(img.start, ProgStart)
    ELSE 0

BufStart(img) == Greater(ProgEnd, img.end)

\* The relocation buffer and the stub do not fit behind image and boot loader.
NoRoom(img) ==
    RelocSize(img) > 0 /\ BufStart(img) >= DRAM_LIMIT - RelocSize(img) - StubSize

\* Mutant: the stub's address is rounded down.
StubStartDown(end) == (end \div 4) * 4

\* The stub is word-aligned, behind the buffer.
StubStart(end) == ((end + 3) \div 4) * 4

Reloc(img) ==
    LET tgt == Greater(img.start, ProgStart)
        buf == BufStart(img)
        n   == RelocSize(img)
    IN  IF n = 0
        THEN [tgt |-> 0, tgtEnd |-> 0, buf |-> 0, stub |-> 0, size |-> 0]
        ELSE [tgt |-> tgt, tgtEnd |-> tgt + n, buf |-> buf,
              stub |-> StubStart(buf + n), size |-> n]

\* A POLL with this metadata arrives and is accepted.  What earlier uploads
\* left in memory is not data of this image.
InitMeta(m) ==
    /\ phase = "poll"
    /\ Acceptable(m)
    /\ ~NoRoom(ImageOf(m))
    /\ META' = m
    /\ image' = ImageOf(m)
    /\ reloc' = Reloc(ImageOf(m))
    /\ feed' = ImageOf(m).start
    /\ chunks' = 0
    /\ swapped' = FALSE
    /\ mem' = [a \in Addr |-> IF mem[a] = Prog THEN Prog ELSE Junk]
    /\ phase' = "feed"
    /\ UNCHANGED <<ok, stub>>

\* The image does not fit: img_start, img_end and META are already assigned.
NoRoomForMeta(m) ==
    /\ phase = "poll"
    /\ Acceptable(m)
    /\ NoRoom(ImageOf(m))
    /\ META' = m
    /\ image' = ImageOf(m)
    /\ UNCHANGED <<phase, reloc, feed, chunks, swapped, ok, stub, mem>>

-----------------------------------------------------------------------------
(* platform_feed *)

\* feed_impl: up to the relocation target in place, inside it to the buffer,
\* and in place again.
FeedImpl(n, data) ==
    LET c1 == IF reloc.size > 0 /\ feed < reloc.tgt /\ feed + n > reloc.tgt
              THEN reloc.tgt - feed ELSE 0
        f1 == feed + c1
        c2 == IF reloc.size > 0 /\ f1 >= reloc.tgt /\ f1 < reloc.tgtEnd
              THEN Lesser(reloc.tgtEnd - f1, n - c1) ELSE 0
        f2 == f1 + c2
    IN  /\ mem' = Write(Write(Write(mem, feed, c1, data, 0),
                              reloc.buf + (f1 - reloc.tgt), c2, data, c1),
                        f2, n - c1 - c2, data, c1 + c2)
        /\ feed' = feed + n

Remaining == image.end - feed
ChunkCount == (META.size + ChunkSize - 1) \div ChunkSize

\* Chunk number k of the announced file: its length and its bytes.
ChunkLen(k) == Lesser(ChunkSize, META.size - k * ChunkSize)
ChunkBytes(k) == [j \in 0 .. ChunkLen(k) - 1 |-> k * ChunkSize + j]

\* The chunk of an uncompressed image that is due.
FeedChunk ==
    /\ phase = "feed"
    /\ META.compression = "NONE"
    /\ chunks < ChunkCount
    /\ FeedImpl(ChunkLen(chunks), ChunkBytes(chunks))
    /\ chunks' = chunks + 1
    /\ UNCHANGED <<phase, META, image, reloc, swapped, ok, stub>>

\* feed_impl does not compare its data with the end of the image: n bytes more
\* would reach the running boot loader, or leave memory.
Escapes(n) ==
    /\ feed + n > image.end
    /\ \/ feed + n > DRAM_LIMIT
       \/ image.end < ProgEnd /\ feed + n > ProgStart

\* A chunk of another file, served by a host program that was restarted: it
\* may be shorter or longer than the one that was due.
AlienBytes(n) == [j \in 0 .. n - 1 |-> Alien(feed - image.start + j)]
FeedAlien ==
    /\ phase = "feed"
    /\ META.compression = "NONE"
    /\ chunks < ChunkCount
    /\ \E n \in 1 .. ChunkSize :
         /\ FeedImpl(n, AlienBytes(n))
         /\ phase' = IF Escapes(n) THEN "lost" ELSE phase
    /\ chunks' = chunks + 1
    /\ swapped' = TRUE
    /\ UNCHANGED <<META, image, reloc, ok, stub>>

\* The bytes of the announced image, from where the feed is.
ImageBytes(n) == [j \in 0 .. n - 1 |-> feed - image.start + j]

\* xz_dec_run put out some bytes of a compressed image: those of the announced
\* one, of which there are META.size, as long as only its file is received.
FeedInflated ==
    /\ phase = "feed"
    /\ META.compression = "XZ"
    /\ ~swapped
    /\ \E n \in 1 .. Lesser(OutSize, Remaining) : FeedImpl(n, ImageBytes(n))
    /\ UNCHANGED <<phase, META, image, reloc, chunks, swapped, ok, stub>>

\* From the first chunk of another file on, the decoder's output is another
\* one, in bytes and in length: as much as there is goes to feed_impl, which
\* does not stop at the end of the announced image.
FeedSwapped ==
    /\ phase = "feed"
    /\ META.compression = "XZ"
    /\ \E n \in 1 .. OutSize :
         /\ FeedImpl(n, AlienBytes(n))
         /\ phase' = IF Escapes(n) THEN "lost" ELSE phase
    /\ swapped' = TRUE
    /\ UNCHANGED <<META, image, reloc, chunks, ok, stub>>

\* The decoder refuses its input, or TIMER_RESET ends the session.
Abandon ==
    /\ phase \in {"feed", "verdict"}
    /\ phase' = "poll"
    /\ UNCHANGED <<META, image, reloc, feed, chunks, swapped, ok, stub, mem>>

-----------------------------------------------------------------------------
(* platform_load_image *)

\* The last chunk was fed: of the announced file all of it, of another one any
\* part.
AllFed ==
    IF META.compression = "NONE" THEN chunks = ChunkCount
    ELSE swapped \/ Remaining = 0

\* Mutant: the length of what was fed is not looked at.
ReachedEndAny == TRUE

\* feed == end, the only check a compressed image gets here.
ReachedEnd == feed = image.end

\* The CRC is taken over the same three parts, the middle one in the buffer.
\* It is that of the announced image only if every byte is.
CrcOk ==
    LET c1 == IF reloc.size > 0 /\ image.start < reloc.tgt /\ image.end > reloc.tgt
              THEN reloc.tgt - image.start ELSE 0
        f1 == image.start + c1
        c2 == IF reloc.size > 0 /\ f1 >= reloc.tgt /\ f1 < reloc.tgtEnd
              THEN Lesser(reloc.tgtEnd - f1, image.end - f1) ELSE 0
    IN  /\ \A k \in 0 .. c1 - 1 : mem[image.start + k] = k
        /\ \A k \in 0 .. c2 - 1 : mem[reloc.buf + (f1 - reloc.tgt) + k] = c1 + k
        /\ \A k \in c1 + c2 .. META.size - 1 : mem[image.start + k] = k

\* The verdict.  "CRC was already checked by xz-embedded": crc_ok is true for
\* every compressed image, mem_crc32 is not compared.  What is done with an ELF
\* image is the subject of ElfLoader.
LoadImage ==
    /\ phase = "feed"
    /\ AllFed
    /\ \E format_ok \in {f \in BOOLEAN : META.format = "BIN" => f} :
         ok' = (/\ ReachedEnd
                /\ META.compression = "NONE" => CrcOk
                /\ format_ok)
    /\ phase' = "verdict"
    /\ UNCHANGED <<META, image, reloc, feed, chunks, swapped, stub, mem>>

-----------------------------------------------------------------------------
(* trampoline and the relocation stub *)

StubBytes == [j \in 0 .. StubSize - 1 |-> Stub]

\* Mutant: a last incomplete block is copied as a whole block.
CoarseUp(n) == ((n + 15) \div 16) * 16

\* How much .fastreloc_loop_coarse copies: r2 without its low four bits.
Coarse(n) == (n \div 16) * 16

\* The verdict is acknowledged and main calls trampoline, whatever it was: the
\* stub is copied behind the buffer and entered there, or in place when nothing
\* is relocated.
Trampoline ==
    /\ phase = "verdict"
    /\ META.format = "BIN"
    /\ mem' = IF reloc.size > 0 THEN Write(mem, reloc.stub, StubSize, StubBytes, 0) ELSE mem
    /\ stub' = [r0 |-> reloc.tgt, r1 |-> reloc.buf,
                r8 |-> Coarse(reloc.size), loop |-> "coarse"]
    /\ phase' = "stub"
    /\ UNCHANGED <<META, image, reloc, feed, chunks, swapped, ok>>

\* ldmia/stmia or ldr/str with write-back: n bytes are moved.
Move(n) ==
    LET loaded == [j \in 0 .. n - 1 |-> IF stub.r1 + j \in Addr
                                        THEN mem[stub.r1 + j] ELSE Junk]
    IN  mem' = Write(mem, stub.r0, n, loaded, 0)

\* .fastreloc_loop_coarse: sixteen bytes at a time.
CopyCoarse ==
    /\ phase = "stub" /\ stub.loop = "coarse" /\ stub.r8 # 0
    /\ Move(16)
    /\ stub' = [stub EXCEPT !.r0 = @ + 16, !.r1 = @ + 16, !.r8 = @ - 16]
    /\ UNCHANGED <<phase, META, image, reloc, feed, chunks, swapped, ok>>

\* .fastreloc_try_fine: r8 becomes the rest.
StartFine ==
    /\ phase = "stub" /\ stub.loop = "coarse" /\ stub.r8 = 0
    /\ stub' = [stub EXCEPT !.r8 = reloc.size % 16, !.loop = "fine"]
    /\ UNCHANGED <<phase, META, image, reloc, feed, chunks, swapped, ok, mem>>

\* Mutants: the counter is wider than a register; it counts by the wrong step.
LessWordSigned(r) == r - 4
LessTwoWords(r) == (r - 8) % WordMod

\* subs r8, r8, #4
LessWord(r) == (r - 4) % WordMod

\* .fastreloc_loop_fine: a word at a time, until r8 is exactly zero.  Once the
\* copy has left memory behind, the device is lost.
CopyFine ==
    /\ phase = "stub" /\ stub.loop = "fine" /\ stub.r8 # 0
    /\ Move(4)
    /\ stub' = [stub EXCEPT !.r0 = @ + 4, !.r1 = @ + 4, !.r8 = LessWord(@)]
    /\ phase' = IF stub.r0 + 4 >= DRAM_LIMIT THEN "lost" ELSE phase
    /\ UNCHANGED <<META, image, reloc, feed, chunks, swapped, ok>>

\* .jump_to_loaded_program
Jump ==
    /\ phase = "stub" /\ stub.loop = "fine" /\ stub.r8 = 0
    /\ phase' = "started"
    /\ UNCHANGED <<META, image, reloc, feed, chunks, swapped, ok, stub, mem>>

-----------------------------------------------------------------------------

Init ==
    /\ phase = "poll"
    /\ META \in Metas
    /\ image = ImageOf(META)
    /\ reloc = [tgt |-> 0, tgtEnd |-> 0, buf |-> 0, stub |-> 0, size |-> 0]
    /\ feed = 0 /\ chunks = 0 /\ swapped = FALSE /\ ok = FALSE
    /\ stub = [r0 |-> 0, r1 |-> 0, r8 |-> 0, loop |-> "coarse"]
    /\ mem = [a \in Addr |-> IF ProgStart <= a /\ a < ProgEnd THEN Prog ELSE Junk]

StubRuns == CopyCoarse \/ StartFine \/ CopyFine \/ Jump

Next ==
    \/ \E m \in Metas : InitMeta(m) \/ NoRoomForMeta(m)
    \/ FeedChunk \/ FeedAlien \/ FeedInflated \/ FeedSwapped
    \/ LoadImage
    \/ Abandon
    \/ Trampoline
    \/ StubRuns

Spec == Init /\ [][Next]_vars

\* Once entered, the stub runs.
FairSpec == Spec /\ WF_vars(StubRuns)

-----------------------------------------------------------------------------
(* Properties *)

TypeOK ==
    /\ phase \in {"poll", "feed", "verdict", "stub", "started", "lost"}
    /\ META \in MetaType
    /\ image \in [start : Nat, end : Nat]
    /\ reloc \in [tgt : Nat, tgtEnd : Nat, buf : Nat, stub : Nat, size : Nat]
    /\ feed \in Nat /\ chunks \in Nat /\ swapped \in BOOLEAN /\ ok \in BOOLEAN
    /\ stub \in [r0 : Nat, r1 : Nat, r8 : Nat, loop : {"coarse", "fine"}]
    /\ mem \in [Addr -> Int]

\* No byte of the boot loader is overwritten while it runs, however the image
\* overlaps it and whatever is fed in place of the image (platform_init_meta,
\* feed_impl).  The exception is the one Escapes describes, after which the
\* device is lost.
BootLoaderIntact ==
    phase \in {"poll", "feed", "verdict"} =>
        \A a \in ProgStart .. ProgEnd - 1 : mem[a] = Prog

\* Where a byte of the image is kept until the stub has run.
Kept(a) == IF a >= ProgStart /\ a < ProgEnd THEN reloc.buf + (a - reloc.tgt) ELSE a

\* What byte k of an image found good may be: the announced byte or, as no CRC
\* is taken of a compressed upload, the byte that came out of the decoder for
\* its place when another file was received.
Contents(k) == IF META.compression = "XZ" /\ swapped THEN {k, Alien(k)} ELSE {k}

\* A good verdict is about the bytes that will be started: every byte of a
\* flat image is in place or, where the boot loader is, in the buffer, at an
\* address of memory; it is the announced byte unless the image is compressed
\* and another file was received in its session.
VerdictSound ==
    phase = "verdict" /\ ok /\ META.format = "BIN" =>
        \A k \in 0 .. META.size - 1 :
            Kept(image.start + k) \in Addr /\ mem[Kept(image.start + k)] \in Contents(k)

\* While the stub runs, the stub is intact: neither the image nor the buffer
\* nor the copy it makes reaches it (relocations of whole words).
StubIntact ==
    phase = "stub" /\ reloc.size > 0 /\ reloc.size % 4 = 0 =>
        \A a \in reloc.stub .. reloc.stub + StubSize - 1 : a \in Addr /\ mem[a] = Stub

\* When a flat image with a good verdict is started, all that the verdict was
\* about is where it was meant to be: the stub's copy neither missed nor damaged
\* a byte.
StartedComplete ==
    phase = "started" /\ ok =>
        \A k \in 0 .. META.size - 1 : mem[image.start + k] \in Contents(k)

\* The stub starts every image whose relocated part is a number of words.
WordsStart == (phase = "stub" /\ reloc.size % 4 = 0) ~> phase = "started"

\* "Relocatable micro-stub that performs a `memcpy` and then jumps": the copy
\* ends where the relocated part ends.
CopyStopsAtEnd ==
    phase = "stub" /\ reloc.size > 0 => stub.r0 <= reloc.tgtEnd

=============================================================================
