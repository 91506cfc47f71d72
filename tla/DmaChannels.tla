----------------------------- MODULE DmaChannels -----------------------------
(* The DMA channels: who has which (dma/dmakit.c) and timed runs on them    *)
(* (dma/dma.c).  The program runs on one core; the controller runs beside   *)
(* it.                                                                      *)
EXTENDS Integers, FiniteSets, FiniteSetsExt

CONSTANTS
    ChanCount,    \* DMA_CHAN_COUNT, 16
    LiteFrom, LiteTo,  \* the lite channels, 7 and 14
    Clients,      \* the names channels are acquired under
    NULL

VARIABLES
    didInit,      \* did_init_reservations
    res,          \* channel_reservations
    debug,        \* per channel: the error bits of its debug register
    rsvs,         \* the struct dmakit_reservation clients have, with what they asked
    run,          \* the run in progress
    chanPc

chanvars == <<didInit, res, debug, rsvs, run, chanPc>>

Chans == 0 .. ChanCount - 1
Errors == {"READ", "FIFO", "AXI_READ_LAST"}

IsLite(c) == c >= LiteFrom /\ c <= LiteTo

\* dmakit_init_channels: what the mask does not give is VideoCore's.
InitChannels ==
    /\ chanPc = "idle" /\ ~didInit
    /\ didInit' = TRUE
    /\ \E mask \in SUBSET Chans :
         res' = [c \in Chans |-> IF c \in mask THEN NULL ELSE "VideoCore"]
    /\ UNCHANGED <<debug, rsvs, run, chanPc>>

\* dmakit_channel_acquire: the first free channel that will do; without one
\* it fails and changes nothing.  Every caller has run dmakit_init_channels
\* before, which the function itself does not look at.
Usable(allowLite) == {c \in Chans : res[c] = NULL /\ (allowLite \/ ~IsLite(c))}

Acquire(who, allowLite) ==
    /\ chanPc = "idle" /\ didInit
    /\ Usable(allowLite) # {}
    /\ LET c == Min(Usable(allowLite))
       IN  /\ res' = [res EXCEPT ![c] = who]
           /\ rsvs' = rsvs \cup {[chan |-> c, who |-> who, lite |-> allowLite]}
    /\ UNCHANGED <<didInit, debug, run, chanPc>>

\* dmakit_channel_release, of a channel the client has; of another's it would
\* panic.
Release(rsv) ==
    /\ chanPc = "idle"
    /\ res[rsv.chan] = rsv.who
    /\ res' = [res EXCEPT ![rsv.chan] = NULL]
    /\ rsvs' = rsvs \ {rsv}
    /\ UNCHANGED <<didInit, debug, run, chanPc>>

------------------------------------------------------------------------------
(* __dma_timed_run.                                                         *)

\* The bits the run clears before it starts: READ is named twice, FIFO never.
ClearedErrors == {"READ", "AXI_READ_LAST"}

\* __dma_is_error: CS has the error flag while a bit of debug is set.
IsError(bits) == bits # {}

MayStart(bits) == ~IsError(bits)

TimedRunStart(rsv) ==
    /\ chanPc = "idle"
    /\ LET left == debug[rsv.chan] \ ClearedErrors
       IN  /\ debug' = [debug EXCEPT ![rsv.chan] = left]
           /\ IF MayStart(left)
                THEN /\ chanPc' = "active"
                     /\ run' = [chan |-> rsv.chan, met |-> {}, status |-> {}]
                ELSE chanPc' = "panic" /\ UNCHANGED run
    /\ UNCHANGED <<didInit, res, rsvs>>

\* The controller: it goes idle, having met errors or none.
ControllerStops ==
    /\ chanPc = "active"
    /\ \E errs \in SUBSET Errors :
         /\ debug' = [debug EXCEPT ![run.chan] = @ \cup errs]
         /\ run' = [run EXCEPT !.met = errs]
    /\ chanPc' = "stopped"
    /\ UNCHANGED <<didInit, res, rsvs>>

\* A run that met an error may leave the control block register set, which
\* the run asserts against.
StatusOf(bits) == bits \cup (IF IsError(bits) THEN {"ANY"} ELSE {})

TimedRunEnd ==
    /\ chanPc = "stopped"
    /\ \/ /\ \E extra \in SUBSET {"OUTSTANDING_WRITES", "PAUSED_FOR_DREQ"} :
                run' = [run EXCEPT !.status = StatusOf(debug[run.chan]) \cup extra]
          /\ chanPc' = "idle"
       \/ run.met # {} /\ chanPc' = "panic" /\ UNCHANGED run
    /\ UNCHANGED <<didInit, res, debug, rsvs>>

------------------------------------------------------------------------------
ChanInit == /\ didInit = FALSE /\ chanPc = "idle"
            /\ res = [c \in Chans |-> NULL]
            /\ debug = [c \in Chans |-> {}]
            /\ rsvs = {}
            /\ run = [chan |-> 0, met |-> {}, status |-> {}]

ClientStep == \/ \E who \in Clients, lite \in BOOLEAN : Acquire(who, lite)
              \/ \E rsv \in rsvs : Release(rsv) \/ TimedRunStart(rsv)

ChanNext == InitChannels \/ ClientStep \/ ControllerStops \/ TimedRunEnd

------------------------------------------------------------------------------
\* Channels are free, VideoCore's or a client's.
TypeOK == /\ res \in [Chans -> {NULL, "VideoCore"} \cup Clients]
          /\ debug \in [Chans -> SUBSET Errors]
          /\ run.chan \in Chans
          /\ chanPc \in {"idle", "active", "stopped", "panic"}

\* No two reservations share a channel, none is of a channel VideoCore keeps,
\* a lite channel goes only to who allows one, and only a reserved channel
\* runs (dmakit_channel_acquire, dmakit_channel_release, dmakit_timed_run).
ReservationsApart ==
    /\ \A r, q \in rsvs : r # q => r.chan # q.chan
    /\ \A r \in rsvs : res[r.chan] = r.who /\ (IsLite(r.chan) => r.lite)
    /\ chanPc \in {"active", "stopped"} => \E r \in rsvs : r.chan = run.chan

\* The errors a timed run reports are those it met itself, never what an
\* earlier run left in the debug register (__dma_timed_run).
StatusFresh ==
    chanPc = "idle" =>
        /\ run.status \cap Errors = run.met
        /\ "ANY" \in run.status <=> run.met # {}
==============================================================================
