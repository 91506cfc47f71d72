----------------------------- MODULE SystemTimer -----------------------------
(* The running 64-bit microsecond counter read in two halves (systmr.c),    *)
(* delays, and the length of a DMA run put together from the microsecond    *)
(* and the 32-bit cycle counters (dma/private.c).                           *)
EXTENDS Integers

CONSTANTS
    Half,        \* 2^32: what one half of the counter counts
    Starts,      \* what the counter may stand at
    MaxTicks,    \* bound on the time that passes
    Delays,      \* the delays asked for
    Mega, Giga,  \* microseconds and nanoseconds in a second
    Hz,          \* arm_freq, a multiple of Mega
    MaxCycles,   \* bound on the length of a run in cycles
    MaxLag       \* bound on the cycles between reading one counter and the other

VARIABLES
    now,         \* microseconds, without the counter's overflow
    reader,      \* systmr_read_raw: where it is, hi, hi2, lo, the result
    began,       \* now when the read began (history)
    delay,       \* systmr_delay_us: where it is, start, end, us
    called,      \* now when the delay was called (history)
    timed        \* the last timed run: cycles it took, its time as computed

NotReading == [at |-> "idle", hi |-> 0, hi2 |-> 0, lo |-> 0, raw |-> 0]
NotDelaying == [at |-> "idle", start |-> 0, end |-> 0, us |-> 0]
Untimed == [cycles |-> 0, ns |-> 0]
timervars == <<now, reader, began, delay, called, timed>>

Counter == now % (Half * Half)
chi == Counter \div Half
clo == Counter % Half

Tick == /\ now + 1 \in UNION {t .. t + MaxTicks : t \in Starts}
        /\ now' = now + 1
        /\ UNCHANGED <<reader, began, delay, called, timed>>

------------------------------------------------------------------------------
(* systmr_read_raw: one step per register read.                             *)

ReadBegin == /\ reader.at = "idle" /\ delay.at \in {"start", "wrap", "wait"}
             /\ reader' = [reader EXCEPT !.at = "lo", !.hi2 = chi]
             /\ began' = now
             /\ UNCHANGED <<now, delay, called, timed>>

ReadLo == /\ reader.at = "lo"
          /\ reader' = [reader EXCEPT !.at = "hi", !.hi = reader.hi2, !.lo = clo]
          /\ UNCHANGED <<now, began, delay, called, timed>>

\* A plausible bug: the upper half is read once.
AgainNever(hi, hi2) == FALSE

\* The upper half changed between its two reads.
Again(hi, hi2) == hi # hi2

ReadHi == /\ reader.at = "hi"
          /\ reader' = [reader EXCEPT
                          !.at = IF Again(reader.hi, chi) THEN "lo" ELSE "done",
                          !.hi2 = chi,
                          !.raw = IF Again(reader.hi, chi) THEN @ ELSE reader.hi * Half + reader.lo]
          /\ UNCHANGED <<now, began, delay, called, timed>>

------------------------------------------------------------------------------
(* systmr_delay_us.                                                         *)

DelayCall == /\ delay.at = "idle"
             /\ \E us \in Delays : delay' = [delay EXCEPT !.at = "start", !.us = us]
             /\ called' = now
             /\ timed' = Untimed
             /\ UNCHANGED <<now, reader, began>>

\* What each of the three reads of the counter decides.
Started(raw) == LET end == (raw + delay.us) % (Half * Half)
                IN  [delay EXCEPT !.start = raw, !.end = end,
                                  !.at = IF end = raw THEN "returned"
                                         ELSE IF end < raw THEN "wrap" ELSE "wait"]
AfterWrap(raw) == IF raw > delay.start THEN delay ELSE [delay EXCEPT !.at = "wait"]
Waited(raw) == IF raw < delay.end THEN delay ELSE [delay EXCEPT !.at = "returned"]

DelayStep == /\ reader.at = "done"
             /\ delay' = CASE delay.at = "start" -> Started(reader.raw)
                           [] delay.at = "wrap" -> AfterWrap(reader.raw)
                           [] delay.at = "wait" -> Waited(reader.raw)
             /\ reader' = NotReading
             /\ UNCHANGED <<now, began, called, timed>>

DelayReturn == /\ delay.at = "returned"
               /\ delay' = NotDelaying
               /\ UNCHANGED <<now, reader, began, called, timed>>

------------------------------------------------------------------------------
(* dma_run_info_get_time_ns, in 64-bit arithmetic (Word); the cycle         *)
(* counter is 32 bits wide.                                                 *)

Word == Half * Half

\* How often the cycle counter wrapped: the difference of the two clocks,
\* rounded to a multiple of a wrap.
Wraps(dm, dc) == LET k == (((dm * Hz) % Word) \div Mega - dc) % Word
                     h == k \div (Half \div 2)
                 IN  IF dm = 0 THEN 0 ELSE (h \div 2) + (h % 2)
Cycles(dm, dc) == (dc + Wraps(dm, dc) * Half) % Word
TimeNs(dm, dc) == ((Cycles(dm, dc) * Giga) % Word) \div Hz

\* __dma_timed_run reads the microseconds, sets the cycle counter to 0, runs,
\* and reads cycles and microseconds: phase cycles into a microsecond the
\* first read is made, before and after are the cycles between the readings.
TimedRun == \E cycles \in 0 .. MaxCycles, phase \in 0 .. Hz \div Mega - 1, before, after \in 0 .. MaxLag :
                LET dm == (phase + before + cycles + after) \div (Hz \div Mega)
                IN  timed' = [cycles |-> cycles, ns |-> TimeNs(dm, cycles % Half)]

TimeRun == /\ delay.at = "idle" /\ now \in Starts
           /\ TimedRun
           /\ UNCHANGED <<now, reader, began, delay, called>>

------------------------------------------------------------------------------
TimerInit == /\ now \in Starts /\ began = now /\ called = now
             /\ reader = NotReading /\ delay = NotDelaying
             /\ timed = Untimed

TimerNext == Tick \/ ReadBegin \/ ReadLo \/ ReadHi \/ DelayCall \/ DelayStep \/ DelayReturn \/ TimeRun

------------------------------------------------------------------------------
\* Registers and locals hold 32-bit halves and 64-bit values.
TypeOK == /\ reader.hi \in 0 .. Half - 1 /\ reader.hi2 \in 0 .. Half - 1
          /\ reader.lo \in 0 .. Half - 1 /\ reader.raw \in 0 .. Half * Half - 1
          /\ delay.start \in 0 .. Half * Half - 1 /\ delay.end \in 0 .. Half * Half - 1
          /\ timed.ns \in 0 .. Word - 1

\* The value read is one the counter had during the call, although its halves
\* are read at different times and the lower one may overflow in between
\* (systmr_read_raw).
ReadInWindow ==
    reader.at = "done" => \E t \in began .. now : reader.raw = t % (Half * Half)

\* A delay lasts at least as long as was asked for (systmr_delay_us), unless
\* its end is past the overflow of all 64 bits: a second read that still gives
\* start then ends both loops at once.
DelayLasts ==
    delay.at = "returned" => now - called >= delay.us \/ delay.end < delay.start

\* The length of a run is exact however often the 32-bit cycle counter
\* wrapped, when the readings are made within half a wrap of each other and
\* the cycles times 10^9 fit in 64 bits (dma_run_info_get_time_ns).
TimeExact == timed.cycles * Giga < Word => timed.ns = (timed.cycles * Giga) \div Hz
==============================================================================
