------------------------------- MODULE DmaArena -------------------------------
(* The scratch memory of the DMA programs: the arena (dma/emit.h), the     *)
(* table MonomorphizeOn keeps of buffers per operation and width, and the   *)
(* initializers and probes (dma/private.c).                                 *)
EXTENDS Integers, Sequences, FiniteSets

CONSTANTS
    ArenaStart, ArenaEnd,  \* ARENA_BACKING
    Needs,                 \* per use of MonomorphizeOn and width: size and alignment
    MaxMono, MaxContext, MaxProbes   \* MAX_MONO, MAX_CONTEXT, PROBE_MAX

VARIABLES
    ranInit,      \* did_run_initializers
    arena,        \* ARENA: p and util
    word0,        \* the word at address 0
    monos,        \* per context made so far, the number of its entries
    currMono,     \* curr_mono: the entries of all contexts together
    buffers,      \* what MonomorphizeOn has returned (history)
    probes,       \* the buffers under observation, probecnt of them
    arenaPc

arenavars == <<ranInit, arena, word0, monos, currMono, buffers, probes, arenaPc>>

Contexts == DOMAIN Needs
Widths(c) == DOMAIN Needs[c]

\* run_initializers: once.
RunInitializers ==
    /\ arenaPc = "run"
    /\ IF ranInit THEN arenaPc' = "panic" /\ UNCHANGED ranInit
       ELSE ranInit' = TRUE /\ UNCHANGED arenaPc
    /\ UNCHANGED <<arena, word0, monos, currMono, buffers, probes>>

------------------------------------------------------------------------------
(* The arena.                                                               *)

PowersOfTwo == {1, 2, 4, 8, 16, 32, 64, 128, 256}
AlignUp(q, align) == ((q + align - 1) \div align) * align

\* A plausible bug: a block may end where the arena does.
ArenaFitsToEnd(req) == /\ req.align \in PowersOfTwo
                       /\ AlignUp(arena.p, req.align) + req.size <= ArenaEnd

\* The alignment must be a power of two, and a block may not end where the
\* arena does, or beyond.
ArenaFits(req) == /\ req.align \in PowersOfTwo
                  /\ AlignUp(arena.p, req.align) + req.size < ArenaEnd

ArenaAlloc(req) == [p |-> AlignUp(arena.p, req.align) + req.size, util |-> arena.util + req.size]

------------------------------------------------------------------------------
(* MonomorphizeOn.                                                          *)

\* _mono_get_or_init_ctx
NoContextLeft(c) == c \notin DOMAIN monos /\ Cardinality(DOMAIN monos) >= MaxContext
WithContext(c) == [d \in DOMAIN monos \cup {c} |-> IF d \in DOMAIN monos THEN monos[d] ELSE 0]

\* _mono_get: an entry's key and value are null pointers, so the width is
\* compared with the word at address 0, and that word is the buffer.
MonoGet(c, width) == WithContext(c)[c] > 0 /\ word0 = width

\* A plausible bug: the address and then the width are copied.
MonoSetSwapped(width, start) == width

\* _mono_set: the width and then the buffer's address are copied to address 0.
MonoSet(width, start) == start

Panics(c, width) == \/ NoContextLeft(c)
                    \/ ~MonoGet(c, width) /\ (~ArenaFits(Needs[c][width]) \/ currMono >= MaxMono)

MonomorphizeOn(c, width) ==
    LET req == Needs[c][width]
        found == MonoGet(c, width)
        start == IF found THEN word0 ELSE AlignUp(arena.p, req.align)
    IN  /\ arenaPc = "run" /\ ranInit
        /\ ~Panics(c, width)
        /\ buffers' = buffers \cup {[start |-> start, size |-> req.size, for |-> <<c, width>>]}
        /\ arena' = IF found THEN arena ELSE ArenaAlloc(req)
        /\ word0' = IF found THEN word0 ELSE MonoSet(width, start)
        /\ monos' = IF found THEN monos ELSE [WithContext(c) EXCEPT ![c] = @ + 1]
        /\ currMono' = IF found THEN currMono ELSE currMono + 1
        /\ UNCHANGED <<ranInit, probes, arenaPc>>

MonomorphizePanics(c, width) ==
    /\ arenaPc = "run" /\ ranInit
    /\ Panics(c, width)
    /\ arenaPc' = "panic"
    /\ UNCHANGED <<ranInit, arena, word0, monos, currMono, buffers, probes>>

------------------------------------------------------------------------------
(* Probes.                                                                  *)

Probe == /\ arenaPc = "run"
         /\ IF Len(probes) >= MaxProbes THEN arenaPc' = "panic" /\ UNCHANGED probes
            ELSE \E b \in buffers : probes' = Append(probes, b) /\ UNCHANGED arenaPc
         /\ UNCHANGED <<ranInit, arena, word0, monos, currMono, buffers>>

ClearProbes == /\ arenaPc = "run" /\ probes' = <<>>
               /\ UNCHANGED <<ranInit, arena, word0, monos, currMono, buffers, arenaPc>>

------------------------------------------------------------------------------
\* The word at address 0 is whatever the boot left there.
ArenaInit == /\ ranInit = FALSE /\ arenaPc = "run"
             /\ arena = [p |-> ArenaStart, util |-> 0]
             /\ word0 \in {0} \cup UNION {Widths(c) : c \in Contexts}
             /\ monos = <<>> /\ currMono = 0 /\ buffers = {} /\ probes = <<>>

Emitting == \E c \in Contexts : \E width \in Widths(c) :
                MonomorphizeOn(c, width) \/ MonomorphizePanics(c, width)

ArenaNext == RunInitializers \/ Emitting \/ Probe \/ ClearProbes

------------------------------------------------------------------------------
\* ARENA.p stays inside the arena, and the tables inside their arrays.
TypeOK == /\ arena.p >= ArenaStart /\ arena.p < ArenaEnd
          /\ arena.util <= arena.p - ArenaStart
          /\ currMono <= MaxMono /\ Cardinality(DOMAIN monos) <= MaxContext
          /\ Len(probes) <= MaxProbes
          /\ arenaPc \in {"run", "panic"}

\* The buffers DMA programs use lie in the arena, and two of them share no
\* byte unless they were made for the same operation and width (arena_alloc,
\* MonomorphizeOn).
BuffersApart ==
    /\ \A b \in buffers : b.start >= ArenaStart /\ b.start + b.size < ArenaEnd
    /\ \A b, d \in buffers : b # d =>
         b.for = d.for \/ b.start + b.size <= d.start \/ d.start + d.size <= b.start
==============================================================================
