-------------------------------- MODULE Parts --------------------------------
(* The programs around the upload: the host program, and on the board the   *)
(* page allocator, the integrity checker, the system timer, the mailbox,    *)
(* the DMA channels and the arena of the DMA programs.  They share no       *)
(* state: each behaviour runs the one that part names, and the variables of *)
(* the others hold None.                                                    *)
EXTENDS Integers, Sequences, FiniteSets

CONSTANTS
    None,
    Tokens, MaxArgs, Numbers, Files, Ttys, Chunk, SizeMod, MaxBaud, MaxRetries, DefaultAddr,
    Supersections, Fan, SizeMax, ChainEnd, MaxLive,
    Layouts, MainLayout, DramEnd, HeaderRange, RegionFlags, Values,
    Half, Starts, MaxTicks, Delays, Mega, Giga, Hz, MaxCycles, MaxLag,
    Tags, Right,
    ChanCount, LiteFrom, LiteTo, Clients,
    ArenaStart, ArenaEnd, Needs, MaxMono, MaxContext, MaxProbes

\* What the host program is given: None is no argument, file or port; the
\* numbers are addresses, speeds and counts, none of them ~0ULL, which would be
\* no address; and a file has less than 2^32 bytes, packed or not.
ASSUME HostAssumption ==
    /\ None \notin Tokens /\ None \notin DOMAIN Files /\ None \notin Ttys
    /\ Chunk \in Nat \ {0} /\ SizeMod \in Nat \ {0}
    /\ DefaultAddr \in Nat /\ MaxBaud \in Nat /\ MaxRetries \in Nat
    /\ \A a \in DOMAIN Numbers : Numbers[a] \in Nat
    /\ \A f \in DOMAIN Files :
         /\ Files[f].size \in 0 .. SizeMod - 1 /\ Files[f].mem \in 0 .. SizeMod - 1
         /\ Files[f].xz \in BOOLEAN /\ Files[f].elf \in BOOLEAN
         /\ ~Files[f].xz => Files[f].mem = Files[f].size

\* The memory of the superoptimiser: a region has at least two children, and
\* no region has the number that ends a list.
ASSUME PageAssumption ==
    /\ Supersections \in Nat \ {0} /\ Fan \in Nat /\ Fan >= 2
    /\ SizeMax \in Nat /\ ChainEnd \in Nat
    /\ Supersections * Fan * Fan + Supersections * Fan + Supersections <= SizeMax

\* The clocks: a behaviour starts at one of Starts and lasts MaxTicks, less
\* than the 64-bit counter takes for a turn; a delay fits in the counter; and
\* of a DMA run the lags stay within half a turn of the cycle counter and the
\* microseconds times arm_freq within 64 bits.
ASSUME ClockAssumption ==
    /\ Half \in Nat \ {0} /\ Half % 2 = 0
    /\ Starts \subseteq Nat /\ MaxTicks \in Nat /\ MaxTicks <= Half * Half - Half
    /\ \A s, t \in Starts : s # t => s > t + MaxTicks + 1 \/ t > s + MaxTicks + 1
    /\ Delays \subseteq 0 .. Half * Half - 1
    /\ Mega \in Nat \ {0} /\ Giga \in Nat \ {0} /\ Hz \in Nat \ {0} /\ Hz % Mega = 0
    /\ MaxCycles \in Nat /\ MaxLag \in Nat
    /\ 2 * MaxLag + (Hz \div Mega) <= Half \div 2
    /\ (MaxCycles + 2 * MaxLag + (Hz \div Mega)) * Mega < Half * Half

\* The regions have an address and a size, and the header ends behind its
\* start.  The regions main sets up have no marks, and none is a stack that may be
\* thrown away; memory holds zeros or something else.
ASSUME IntegAssumption ==
    /\ RegionFlags \in Seq(SUBSET {"Purgable", "Critical", "Stack", "Mutable"})
    /\ \A i \in DOMAIN RegionFlags : ~({"Purgable", "Stack"} \subseteq RegionFlags[i])
    /\ {0, 1} \subseteq Values
    /\ Layouts \subseteq Seq([p : Nat, size : Nat])
    /\ DramEnd \in Nat /\ HeaderRange \in Nat \X Nat /\ HeaderRange[1] < HeaderRange[2]

\* The channels, and clients that are neither VideoCore nor nobody.
ASSUME DmaAssumption ==
    /\ ChanCount \in Nat \ {0}
    /\ None \notin Clients /\ "VideoCore" \notin Clients

\* The arena lies above every width of an operand, and what is asked of it
\* has a size and an alignment.
ASSUME ArenaAssumption ==
    /\ ArenaStart \in Nat /\ ArenaEnd \in Nat /\ ArenaStart < ArenaEnd
    /\ MaxMono \in Nat /\ MaxContext \in Nat /\ MaxProbes \in Nat
    /\ \A c \in DOMAIN Needs : \A w \in DOMAIN Needs[c] :
         /\ w \in 0 .. ArenaStart - 1
         /\ Needs[c][w].size \in Nat /\ Needs[c][w].align \in Nat \ {0}

VARIABLES part,
    os, nargs, curr, opts, wants, held, reset, pos, meta, sent, pc,
    ppa, live,
    layout, covered, header, content, low, microstack, cleanup, before, leftover, meddled, verdict,
    integPc,
    now, reader, began, delay, called, timed,
    aligned, tag, mem, cache, vc, got, mailPc,
    didInit, res, debug, rsvs, run, chanPc,
    ranInit, arena, word0, monos, currMono, buffers, probes, arenaPc

hostvars == <<os, nargs, curr, opts, wants, held, reset, pos, meta, sent, pc>>
pagevars == <<ppa, live>>
checkvars == <<layout, covered, header, content, low, microstack, cleanup, before, leftover,
               meddled, verdict, integPc>>
clockvars == <<now, reader, began, delay, called, timed>>
boxvars == <<aligned, tag, mem, cache, vc, got, mailPc>>
dmavars == <<didInit, res, debug, rsvs, run, chanPc>>
scratchvars == <<ranInit, arena, word0, monos, currMono, buffers, probes, arenaPc>>
vars == <<part, hostvars, pagevars, checkvars, clockvars, boxvars, dmavars, scratchvars>>

------------------------------------------------------------------------------
H == INSTANCE PupHost
P == INSTANCE PageAllocator
I == INSTANCE IntegrityCheck
C == INSTANCE SystemTimer
M == INSTANCE Mailbox
D == INSTANCE DmaChannels WITH NULL <- None
A == INSTANCE DmaArena

------------------------------------------------------------------------------
NoHost == /\ os = None /\ nargs = None /\ curr = None /\ opts = None /\ wants = None
          /\ held = None /\ reset = None /\ pos = None /\ meta = None /\ sent = None /\ pc = None
NoPages == ppa = None /\ live = None
NoCheck == /\ layout = None /\ covered = None /\ header = None /\ content = None /\ low = None
           /\ microstack = None /\ cleanup = None /\ before = None /\ leftover = None
           /\ meddled = None /\ verdict = None /\ integPc = None
NoClock == /\ now = None /\ reader = None /\ began = None /\ delay = None /\ called = None
           /\ timed = None
NoBox == /\ aligned = None /\ tag = None /\ mem = None /\ cache = None /\ vc = None
         /\ got = None /\ mailPc = None
NoDma == /\ didInit = None /\ res = None /\ debug = None /\ rsvs = None /\ run = None
         /\ chanPc = None
NoScratch == /\ ranInit = None /\ arena = None /\ word0 = None /\ monos = None
             /\ currMono = None /\ buffers = None /\ probes = None /\ arenaPc = None

Init == \/ /\ part = "host" /\ H!Init
           /\ NoPages /\ NoCheck /\ NoClock /\ NoBox /\ NoDma /\ NoScratch
        \/ /\ part = "pages" /\ P!PpaInit
           /\ NoHost /\ NoCheck /\ NoClock /\ NoBox /\ NoDma /\ NoScratch
        \/ /\ part = "check" /\ I!IntegInit
           /\ NoHost /\ NoPages /\ NoClock /\ NoBox /\ NoDma /\ NoScratch
        \/ /\ part = "clock" /\ C!TimerInit
           /\ NoHost /\ NoPages /\ NoCheck /\ NoBox /\ NoDma /\ NoScratch
        \/ /\ part = "box" /\ M!MailInit
           /\ NoHost /\ NoPages /\ NoCheck /\ NoClock /\ NoDma /\ NoScratch
        \/ /\ part = "dma" /\ D!ChanInit
           /\ NoHost /\ NoPages /\ NoCheck /\ NoClock /\ NoBox /\ NoScratch
        \/ /\ part = "scratch" /\ A!ArenaInit
           /\ NoHost /\ NoPages /\ NoCheck /\ NoClock /\ NoBox /\ NoDma

HostStep == /\ part = "host" /\ H!Next
            /\ UNCHANGED <<part, pagevars, checkvars, clockvars, boxvars, dmavars, scratchvars>>
PageStep == /\ part = "pages" /\ P!PpaNext
            /\ UNCHANGED <<part, hostvars, checkvars, clockvars, boxvars, dmavars, scratchvars>>
CheckStep == /\ part = "check" /\ I!IntegNext
             /\ UNCHANGED <<part, hostvars, pagevars, clockvars, boxvars, dmavars, scratchvars>>
ClockStep == /\ part = "clock" /\ C!TimerNext
             /\ UNCHANGED <<part, hostvars, pagevars, checkvars, boxvars, dmavars, scratchvars>>
BoxStep == /\ part = "box" /\ M!MailNext
           /\ UNCHANGED <<part, hostvars, pagevars, checkvars, clockvars, dmavars, scratchvars>>
DmaStep == /\ part = "dma" /\ D!ChanNext
           /\ UNCHANGED <<part, hostvars, pagevars, checkvars, clockvars, boxvars, scratchvars>>
ScratchStep == /\ part = "scratch" /\ A!ArenaNext
               /\ UNCHANGED <<part, hostvars, pagevars, checkvars, clockvars, boxvars, dmavars>>

Next == \/ HostStep \/ PageStep \/ CheckStep \/ ClockStep \/ BoxStep \/ DmaStep \/ ScratchStep

Spec == Init /\ [][Next]_vars

------------------------------------------------------------------------------
\* Every program stays within its types and tables; for the arena of the DMA
\* programs, within the memory it was given (arena_alloc).
TypeOK == /\ part = "host" => H!TypeOK
          /\ part = "pages" => P!TypeOK
          /\ part = "check" => I!TypeOK
          /\ part = "clock" => C!TypeOK
          /\ part = "box" => M!TypeOK
          /\ part = "dma" => D!TypeOK
          /\ part = "scratch" => A!TypeOK

\* PupHost: what is announced to the device describes the file, whatever the
\* options and wherever the inspection left the file offset (main); of a packed
\* file all but the checksum.
MetaDescribesFile == part = "host" => H!MetaDescribesFile

\* PupHost: the checksum announced is of the image, unpacked (common.h:46).
CrcOfImage == part = "host" => H!CrcOfImage

\* PupHost: the chunks sent cover the announced bytes once and in order
\* (platform_marshal).
ChunksCoverFile == part = "host" => H!ChunksCoverFile

\* PupHost: upload and console go to the port that was asked for (parse_opts,
\* find_serial_device).
RightDevice == part = "host" => H!RightDevice

\* SystemTimer: a read gives a value the counter had during the call, a delay
\* lasts, and the length of a DMA run is right although the cycle counter
\* wraps (systmr_read_raw, systmr_delay_us, dma_run_info_get_time_ns).
ClockSound == part = "clock" => C!ReadInWindow /\ C!DelayLasts /\ C!TimeExact

\* IntegrityCheck: the marks name every region the payload changed, no other
\* but a stack the checker itself wrote to, and the verdict is Clean exactly
\* without marks (integ_prep, integ_run, integ_chk).
CorruptionReported == part = "check" => I!CorruptionReported

\* IntegrityCheck: a payload that changed nothing is found clean (integ.h:55).
UntouchedIsClean == part = "check" => I!UntouchedIsClean

\* IntegrityCheck: a list of regions that is accepted covers memory exactly
\* once (integ_check_coverage).
CoverageSound == part = "check" => I!CoverageSound

\* Mailbox and DmaChannels: a reply of VideoCore and the status of a DMA run
\* belong to this request and this run, never to what cache or debug register
\* kept from before (mail, __dma_timed_run).
ResultsFresh == /\ part = "box" => M!ReplyFresh
                /\ part = "dma" => D!StatusFresh

\* What is handed out belongs to one owner: DMA channels, the buffers of DMA
\* programs, and supersections handed out whole, but for those unfloat_region
\* has left on the list (dmakit_channel_acquire, MonomorphizeOn, ppa_alloc).
AllocationsApart == /\ part = "pages" => P!WholeApart
                    /\ part = "dma" => D!ReservationsApart
                    /\ part = "scratch" => A!BuffersApart
==============================================================================
