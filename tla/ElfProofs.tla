------------------------------- MODULE ElfProofs -------------------------------
(***************************************************************************)
(* The ELF loader finds free places and delivers every segment, for every  *)
(* memory layout and every file whose segments do not share memory.        *)
(***************************************************************************)
EXTENDS ElfLoader, NumberFacts, SequenceTheorems, FiniteSetTheorems

Extent == [start : Nat, end : Nat]
SearchState == [p : Nat, st : {"go", "none", "found"}]

\* The ranges of a map, in memory and one behind the other.
Sorted(map) == \A m, n \in 1 .. Len(map) : m < n => map[m].start <= map[n].start
Laid(map) ==
    /\ \A n \in 1 .. Len(map) : map[n].start < map[n].end /\ map[n].end <= MemHi
    /\ \A m, n \in 1 .. Len(map) : m < n => map[m].end <= map[n].start

Has(map, r) == \E n \in 1 .. Len(map) : map[n] = r

-----------------------------------------------------------------------------
(* The inductive invariant *)

Headers == Len(elf.phdrs)
Loads(n) == {k \in 1 .. n : elf.phdrs[k].load}
Seg(k) == SegmentRange(elf.phdrs[k])

\* The map has room for all segments.  If not, the ops do not fit either.
Few == Cardinality(Loads(Headers)) <= ELF_MAX_SEGMENTS

\* The operations are the ones that load the segments among the first n headers.
OpOf(op, k) ==
    \/ op = Copy(elf.phdrs[k]) /\ elf.phdrs[k].filesz > 0
    \/ op = Fill(elf.phdrs[k]) /\ elf.phdrs[k].filesz < elf.phdrs[k].memsz
OpsFrom(n) ==
    /\ \A m \in 1 .. Len(loader_ops) : \E k \in Loads(n) : OpOf(loader_ops[m], k)
    /\ \A k \in Loads(n) :
         /\ elf.phdrs[k].filesz > 0 => Has(loader_ops, Copy(elf.phdrs[k]))
         /\ elf.phdrs[k].filesz < elf.phdrs[k].memsz => Has(loader_ops, Fill(elf.phdrs[k]))

\* The memory an operation writes holds what it is to write.
Done(op) ==
    \A j \in 0 .. op.size - 1 :
      mem[op.dst + j] = IF op.kind = "COPY" THEN (op.src - elf_alloc) + j ELSE Zero

FileAt(start) == \A k \in 0 .. elf.size - 1 : mem[start + k] = k

\* The map is sorted and within its bound, and apart until the trampoline is in it.
MapInv ==
    /\ phase \in {"validate", "claim", "ops"} => Laid(memory_map)
    /\ phase = "validate" => memory_map = <<>>
    /\ phase = "claim" => Len(memory_map) <= ELF_MAX_SEGMENTS
    /\ phase = "ops" => Len(memory_map) <= ELF_MAX_SEGMENTS + 1
    /\ MapSorted

\* While segments are claimed the map is made of them, and misses none before
\* it is full.
ClaimInv ==
    /\ phase \in {"validate", "claim"} => loader_ops = <<>>
    /\ phase = "claim" =>
         /\ i \in 1 .. Headers + 1
         /\ \A n \in 1 .. Len(memory_map) : \E k \in Loads(i - 1) : memory_map[n] = Seg(k)
         /\ Cardinality(Loads(i - 1)) <= ELF_MAX_SEGMENTS =>
              /\ Len(memory_map) = Cardinality(Loads(i - 1))
              /\ \A k \in Loads(i - 1) : Has(memory_map, Seg(k))

\* While operations are registered every segment costs at least one.
OpsInv ==
    phase = "ops" =>
      /\ i \in 1 .. Headers + 1
      /\ ElfRange.end <= MemHi
      /\ Has(memory_map, ElfRange)
      /\ Few => \A k \in Loads(Headers) :
                  Has(memory_map, Seg(k)) /\ Disjoint(ElfRange, Seg(k))
      /\ OpsFrom(i - 1)
      /\ Cardinality(Loads(i - 1)) <= Len(loader_ops)
      /\ Len(loader_ops) <= ELF_MAX_SEGMENTS

\* The trampoline has an operation for everything, and room to do it in.
PlacedInv ==
    phase \in {"loaded", "run", "started"} =>
      /\ OpsFrom(Headers)
      /\ phase = "run" => i >= 1
      /\ ElfRange.end <= MemHi
      /\ \A k \in Loads(Headers) : Disjoint(ElfRange, Seg(k))
      /\ Low => /\ Disjoint(BootRange, ElfRange)
                /\ \A k \in Loads(Headers) : Disjoint(BootRange, Seg(k))

\* The file is intact, first behind the boot loader and then in its new place,
\* and the operations before the next one are done.
MemInv ==
    /\ phase \in {"validate", "claim", "ops"} => FileAt(ProgEnd)
    /\ phase = "loaded" /\ Low => FileAt(ProgEnd) /\ entry = 0
    /\ phase \in {"run", "started"} /\ Low =>
         /\ FileAt(elf_alloc) /\ entry = 0
         /\ \A m \in 1 .. Len(loader_ops) : m < i \/ phase = "started" => Done(loader_ops[m])

ElfInv ==
    TypeOK /\ elf \in Elfs /\ MapInv /\ ClaimInv /\ OpsInv /\ PlacedInv /\ MemInv

-----------------------------------------------------------------------------
(* The search of allocate_space *)

\* One turn of the search yields a state of the search.
LEMMA TurnType ==
    ASSUME NEW s \in SearchState, NEW r \in Extent, NEW size \in Nat, NEW allowed \in Extent
    PROVE  SearchTurn(s, r, size, allowed) \in SearchState
  BY DEF SearchTurn, SearchState, AfterRange, Extent

\* The loop of allocate_space visits a state for every range of the map.
LEMMA SearchRuns ==
    ASSUME NEW map \in Seq(Extent), NEW size \in Nat, NEW allowed \in Extent
    PROVE  \E g \in [0 .. Len(map) -> SearchState] :
             /\ g[0] = [p |-> allowed.start, st |-> "go"]
             /\ \A k \in 1 .. Len(map) :
                  g[k] = SearchTurn(g[k - 1], map[k], size, allowed)
             /\ Search(map, size, allowed) = g[Len(map)]
  <1> DEFINE first == [p |-> allowed.start, st |-> "go"]
             Fcn(h) == [k \in 0 .. Len(map) |->
                          IF k = 0 THEN first
                          ELSE SearchTurn(h[k - 1], map[k], size, allowed)]
             at == CHOOSE h : h = Fcn(h)
  <1>1. Len(map) \in Nat /\ \A k \in 1 .. Len(map) : map[k] \in Extent
    BY ElementOfSeq, LenProperties
  <1>2. first \in SearchState
    BY DEF SearchState, Extent
  <1>3. \A n \in Nat : n <= Len(map) =>
          \E g \in [0 .. n -> SearchState] :
            /\ g[0] = first
            /\ \A k \in 1 .. n : g[k] = SearchTurn(g[k - 1], map[k], size, allowed)
    <2> HIDE DEF first
    <2> DEFINE Run(n, g) ==
                 /\ g[0] = first
                 /\ \A k \in 1 .. n : g[k] = SearchTurn(g[k - 1], map[k], size, allowed)
               S == {n \in Nat : n <= Len(map) => \E g \in [0 .. n -> SearchState] : Run(n, g)}
    <2>1. 0 \in S
      <3> DEFINE g == [k \in 0 .. 0 |-> first]
      <3>1. g \in [0 .. 0 -> SearchState] /\ Run(0, g)
        BY <1>2
      <3>2. QED
        BY <3>1
    <2>2. ASSUME NEW n \in Nat, n \in S PROVE n + 1 \in S
      <3>1. SUFFICES ASSUME n + 1 <= Len(map)
                     PROVE  \E g \in [0 .. n + 1 -> SearchState] : Run(n + 1, g)
        OBVIOUS
      <3>2. PICK g \in [0 .. n -> SearchState] : Run(n, g)
        BY <1>1, <2>2, <3>1
      <3> DEFINE last == SearchTurn(g[n], map[n + 1], size, allowed)
                 h == [k \in 0 .. n + 1 |-> IF k <= n THEN g[k] ELSE last]
      <3>3. last \in SearchState
        <4>1. g[n] \in SearchState /\ map[n + 1] \in Extent
          BY <1>1, <3>1
        <4>2. QED
          BY <4>1, TurnType
      <3>4. \A k \in 1 .. n : g[k] = SearchTurn(g[k - 1], map[k], size, allowed)
        BY <3>2
      <3>5. g[0] = first
        BY <3>2
      <3> HIDE DEF last
      <3>6. h \in [0 .. n + 1 -> SearchState] /\ h[0] = first
        BY <3>3, <3>5
      <3>7. ASSUME NEW k \in 1 .. n + 1
            PROVE  h[k] = SearchTurn(h[k - 1], map[k], size, allowed)
        <4>1. CASE k <= n
          <5>1. h[k] = g[k] /\ h[k - 1] = g[k - 1] /\ k \in 1 .. n
            BY <4>1
          <5>2. QED
            BY <3>4, <5>1
        <4>2. CASE k = n + 1
          <5>1. h[k] = last /\ h[k - 1] = g[n]
            BY <4>2
          <5>2. QED
            BY <4>2, <5>1 DEF last
        <4>3. QED
          BY <4>1, <4>2
      <3> HIDE DEF h
      <3>8. QED
        BY <3>6, <3>7
    <2> HIDE DEF S
    <2>3. Nat \subseteq S
      BY <2>1, <2>2, SetInduct
    <2>4. QED
      BY <2>3 DEF S
  <1>4. PICK g \in [0 .. Len(map) -> SearchState] :
          /\ g[0] = first
          /\ \A k \in 1 .. Len(map) : g[k] = SearchTurn(g[k - 1], map[k], size, allowed)
    <2> HIDE DEF first
    <2>1. Len(map) <= Len(map)
      BY <1>1
    <2>2. QED
      BY <1>1, <1>3, <2>1, Zenon
  <1>5. g = Fcn(g)
    <2> HIDE DEF first
    <2>1. QED
      BY <1>1, <1>4
  <1>6. at = Fcn(at)
    <2>1. \E h : h = Fcn(h)
      BY <1>5
    <2> HIDE DEF Fcn
    <2>2. QED
      BY <2>1, Zenon
  <1>7. Search(map, size, allowed) = at[Len(map)]
    BY DEF Search
  <1>8. ASSUME NEW k \in 1 .. Len(map)
        PROVE  at[k] = SearchTurn(at[k - 1], map[k], size, allowed)
    <2> HIDE DEF at
    <2>1. k \in 0 .. Len(map) /\ k # 0
      BY <1>1
    <2>2. Fcn(at)[k] = SearchTurn(at[k - 1], map[k], size, allowed)
      BY <2>1
    <2>3. QED
      BY <1>6, <2>2
  <1>9. at[0] = first /\ at = [k \in 0 .. Len(map) |-> at[k]]
    <2> HIDE DEF at, first
    <2>1. 0 \in 0 .. Len(map)
      BY <1>1
    <2>2. Fcn(at)[0] = first /\ Fcn(at) = [k \in 0 .. Len(map) |-> Fcn(at)[k]]
      BY <2>1
    <2> HIDE DEF Fcn
    <2>3. QED
      BY <1>6, <2>2, Zenon
  <1> HIDE DEF at, Fcn, first
  <1>10. \A k \in 0 .. Len(map) : at[k] \in SearchState
    <2> DEFINE S == {k \in Nat : k <= Len(map) => at[k] \in SearchState}
    <2>1. 0 \in S
      BY <1>2, <1>9
    <2>2. ASSUME NEW k \in Nat, k \in S PROVE k + 1 \in S
      <3>1. CASE k + 1 <= Len(map)
        <4>1. k + 1 \in 1 .. Len(map) /\ at[k] \in SearchState
          BY <1>1, <2>2, <3>1
        <4>2. at[k + 1] = SearchTurn(at[k], map[k + 1], size, allowed)
          BY <1>8, <4>1
        <4>3. at[k + 1] \in SearchState
          BY <1>1, <4>1, <4>2, TurnType
        <4>4. QED
          BY <4>3
      <3>2. CASE ~(k + 1 <= Len(map))
        BY <3>2
      <3>3. QED
        BY <3>1, <3>2
    <2> HIDE DEF S
    <2>3. Nat \subseteq S
      BY <2>1, <2>2, SetInduct
    <2>4. QED
      BY <1>1, <2>3 DEF S
  <1>11. at \in [0 .. Len(map) -> SearchState]
    BY <1>9, <1>10
  <1>12. QED
    BY <1>7, <1>8, <1>9, <1>11 DEF first

\* What the search knows after k ranges of a map that is laid out apart, when
\* it began at the bottom of memory: a candidate is behind all of them, and a
\* place it has found is clear of the whole map.
Clear(map, p, size) ==
    \A m \in 1 .. Len(map) : p + size <= map[m].start \/ map[m].end <= p
Knows(map, size, allowed, k, s) ==
    /\ s.st = "go" => /\ s.p = 0 \/ \E m \in 1 .. k : s.p = map[m].end
                      /\ \A m \in 1 .. k : map[m].end <= s.p
    /\ s.st = "found" => /\ s.p <= MemHi /\ s.p + size <= allowed.end
                         /\ Clear(map, s.p, size)

LEMMA TurnKnows ==
    ASSUME NEW map \in Seq(Extent), Laid(map), NEW size \in Nat, NEW allowed \in Extent,
           NEW k \in 1 .. Len(map), NEW s \in SearchState,
           Knows(map, size, allowed, k - 1, s)
    PROVE  Knows(map, size, allowed, k, SearchTurn(s, map[k], size, allowed))
  <1> DEFINE r == map[k]
             t == SearchTurn(s, map[k], size, allowed)
  <1>1. Len(map) \in Nat /\ \A n \in 1 .. Len(map) : map[n] \in Extent
    BY ElementOfSeq, LenProperties
  <1>2. /\ MemHi \in Nat /\ r.start \in Nat /\ r.end \in Nat /\ s.p \in Nat
        /\ s.st \in {"go", "none", "found"}
        /\ allowed.end \in Nat /\ k \in Nat
        /\ \A n \in 1 .. Len(map) : map[n].start \in Nat /\ map[n].end \in Nat
    BY <1>1, MemoryAssumption DEF Extent, SearchState
  <1>3. ASSUME s.st = "go" PROVE s.p <= r.start /\ s.p <= MemHi
    <2>1. CASE s.p = 0
      BY <1>2, <2>1
    <2>2. CASE \E m \in 1 .. k - 1 : s.p = map[m].end
      <3>1. PICK m \in 1 .. k - 1 : s.p = map[m].end
        BY <2>2
      <3>2. m \in 1 .. Len(map) /\ m < k
        BY <1>1, <1>2
      <3>3. map[m].end <= map[k].start /\ map[m].end <= MemHi
        BY <3>2 DEF Laid
      <3>4. QED
        BY <3>1, <3>3
    <2>3. QED
      BY <1>3, <2>1, <2>2 DEF Knows
  <1>4. CASE s.st # "go"
    <2>1. t = s
      BY <1>4 DEF SearchTurn
    <2>2. QED
      BY <1>4, <2>1 DEF Knows
  <1>5. CASE s.st = "go" /\ s.p + size > allowed.end
    <2>1. t.st = "none"
      BY <1>2, <1>3, <1>5 DEF SearchTurn
    <2>2. QED
      BY <2>1 DEF Knows
  <1>6. CASE s.st = "go" /\ ~(s.p + size > allowed.end) /\ r.start - s.p >= size
    <2>1. t = [p |-> s.p, st |-> "found"]
      BY <1>2, <1>3, <1>6 DEF SearchTurn
    <2>2. s.p + size <= allowed.end /\ s.p <= MemHi /\ s.p + size <= r.start
      BY <1>2, <1>3, <1>6
    <2>3. ASSUME NEW m \in 1 .. Len(map)
          PROVE  s.p + size <= map[m].start \/ map[m].end <= s.p
      <3>1. CASE m < k
        <4>1. m \in 1 .. k - 1
          BY <1>1, <1>2, <3>1
        <4>2. QED
          BY <1>6, <4>1 DEF Knows
      <3>2. CASE m = k
        BY <2>2, <3>2
      <3>3. CASE k < m
        <4>1. map[k].end <= map[m].start /\ map[k].start < map[k].end
          BY <3>3 DEF Laid
        <4>2. QED
          BY <1>2, <2>2, <4>1
      <3>4. QED
        BY <1>1, <1>2, <3>1, <3>2, <3>3
    <2>4. Clear(map, s.p, size)
      BY <2>3 DEF Clear
    <2>5. QED
      BY <2>1, <2>2, <2>4 DEF Knows
  <1>7. CASE s.st = "go" /\ ~(s.p + size > allowed.end) /\ ~(r.start - s.p >= size)
    <2>1. t = [p |-> r.end, st |-> "go"]
      BY <1>2, <1>3, <1>7 DEF SearchTurn, AfterRange
    <2>2. k \in 1 .. k /\ t.p = map[k].end
      BY <1>2, <2>1
    <2>3. ASSUME NEW m \in 1 .. k PROVE map[m].end <= t.p
      <3>1. CASE m = k
        BY <1>2, <2>2, <3>1
      <3>2. CASE m < k
        <4>1. m \in 1 .. Len(map)
          BY <1>1, <1>2
        <4>2. map[m].end <= map[k].start /\ map[k].start < map[k].end
          BY <3>2, <4>1 DEF Laid
        <4>3. map[m].end \in Nat
          BY <1>2, <4>1
        <4>4. QED
          BY <1>2, <2>2, <4>2, <4>3
      <3>3. QED
        BY <1>2, <3>1, <3>2
    <2>4. QED
      BY <2>1, <2>2, <2>3 DEF Knows
  <1>8. QED
    BY <1>4, <1>5, <1>6, <1>7

\* The place found from the bottom of memory is clear of the map, and in memory
\* if all of memory is allowed.
LEMMA AllocateClear ==
    ASSUME NEW map \in Seq(Extent), Laid(map), NEW size \in Nat, NEW allowed \in Extent,
           allowed.start = 0, NEW p, p = allocate_space(map, size, allowed),
           p # UINTPTR_MAX
    PROVE  /\ p \in Nat /\ Clear(map, p, size)
           /\ allowed.end = MemHi => p + size <= MemHi
  <1>1. Len(map) \in Nat /\ \A n \in 1 .. Len(map) : map[n] \in Extent
    BY ElementOfSeq, LenProperties
  <1>2. PICK g \in [0 .. Len(map) -> SearchState] :
             /\ g[0] = [p |-> allowed.start, st |-> "go"]
             /\ \A k \in 1 .. Len(map) :
                  g[k] = SearchTurn(g[k - 1], map[k], size, allowed)
             /\ Search(map, size, allowed) = g[Len(map)]
    BY SearchRuns
  <1> DEFINE S == {k \in Nat : k <= Len(map) => Knows(map, size, allowed, k, g[k])}
             s == g[Len(map)]
  <1>3. 0 \in S
    BY <1>2 DEF Knows
  <1>4. ASSUME NEW k \in Nat, k \in S PROVE k + 1 \in S
    <2>1. SUFFICES ASSUME k + 1 <= Len(map)
                   PROVE  Knows(map, size, allowed, k + 1, g[k + 1])
      OBVIOUS
    <2>2. k + 1 \in 1 .. Len(map) /\ k \in 0 .. Len(map) /\ (k + 1) - 1 = k /\ k <= Len(map)
      BY <1>1, <2>1
    <2>3. Knows(map, size, allowed, k, g[k]) /\ g[k] \in SearchState
      BY <1>4, <2>2
    <2>4. g[k + 1] = SearchTurn(g[k], map[k + 1], size, allowed)
      BY <1>2, <2>2
    <2>5. Knows(map, size, allowed, k + 1, SearchTurn(g[k], map[k + 1], size, allowed))
      BY <2>2, <2>3, TurnKnows
    <2>6. QED
      BY <2>4, <2>5
  <1> HIDE DEF S
  <1>5. Nat \subseteq S
    BY <1>3, <1>4, SetInduct
  <1>6. Knows(map, size, allowed, Len(map), s) /\ s \in SearchState
    BY <1>1, <1>5 DEF S
  <1>7. s.p \in Nat /\ s.st \in {"go", "none", "found"} /\ allowed.end \in Nat
    BY <1>6 DEF SearchState, Extent
  <1> HIDE DEF s
  <1>8. /\ p = s.p
        /\ s.st = "found" \/ (s.st = "go" /\ (allowed.end - s.p) % AddrMod >= size)
    BY <1>2 DEF allocate_space, s
  <1>9. CASE s.st = "found"
    BY <1>6, <1>7, <1>8, <1>9 DEF Knows
  <1>10. CASE s.st = "go"
    <2>1. \A m \in 1 .. Len(map) : map[m].end <= p
      BY <1>6, <1>8, <1>10 DEF Knows
    <2>2. p <= MemHi
      <3>1. CASE s.p = 0
        BY <1>8, <3>1, MemoryAssumption
      <3>2. CASE \E m \in 1 .. Len(map) : s.p = map[m].end
        BY <1>8, <3>2 DEF Laid
      <3>3. QED
        BY <1>6, <1>10, <3>1, <3>2 DEF Knows
    <2>3. ASSUME allowed.end = MemHi PROVE p + size <= MemHi
      <3>1. (allowed.end - s.p) % AddrMod = MemHi - p
        <4>1. MemHi - p \in 0 .. AddrMod - 1 /\ AddrMod \in Nat
          BY <1>7, <1>8, <2>2, MemoryAssumption
        <4>2. QED
          BY <1>8, <2>3, <4>1
      <3>2. MemHi - p >= size
        BY <1>8, <1>10, <3>1
      <3>3. QED
        BY <1>7, <1>8, <3>2, MemoryAssumption
    <2>4. QED
      BY <1>7, <1>8, <2>1, <2>3 DEF Clear
  <1>11. QED
    BY <1>8, <1>9, <1>10

\* Wherever the search begins, it never goes below that.
LEMMA AllocateAbove ==
    ASSUME NEW map \in Seq(Extent), NEW size \in Nat, NEW allowed \in Extent,
           \A n \in 1 .. Len(map) : map[n].start < map[n].end, allowed.start < AddrMod,
           NEW p, p = allocate_space(map, size, allowed)
    PROVE  p \in Nat /\ allowed.start <= p
  <1>1. Len(map) \in Nat /\ \A n \in 1 .. Len(map) : map[n] \in Extent
    BY ElementOfSeq, LenProperties
  <1>2. PICK g \in [0 .. Len(map) -> SearchState] :
             /\ g[0] = [p |-> allowed.start, st |-> "go"]
             /\ \A k \in 1 .. Len(map) :
                  g[k] = SearchTurn(g[k - 1], map[k], size, allowed)
             /\ Search(map, size, allowed) = g[Len(map)]
    BY SearchRuns
  <1> DEFINE S == {k \in Nat : k <= Len(map) => allowed.start <= g[k].p}
  <1>3. 0 \in S
    BY <1>2 DEF Extent
  <1>4. ASSUME NEW k \in Nat, k \in S PROVE k + 1 \in S
    <2>1. SUFFICES ASSUME k + 1 <= Len(map) PROVE  allowed.start <= g[k + 1].p
      OBVIOUS
    <2>2. k + 1 \in 1 .. Len(map) /\ k \in 0 .. Len(map) /\ (k + 1) - 1 = k /\ k <= Len(map)
      BY <1>1, <2>1
    <2>3. allowed.start <= g[k].p /\ g[k] \in SearchState
      BY <1>4, <2>2
    <2>4. g[k + 1] = SearchTurn(g[k], map[k + 1], size, allowed)
      BY <1>2, <2>2
    <2>5. /\ map[k + 1].start \in Nat /\ map[k + 1].end \in Nat /\ allowed.start \in Nat
          /\ map[k + 1].start < map[k + 1].end /\ g[k].p \in Nat
      BY <1>1, <2>2, <2>3 DEF Extent, SearchState
    <2>6. QED
      BY <2>3, <2>4, <2>5 DEF SearchTurn, AfterRange
  <1> HIDE DEF S
  <1>5. Nat \subseteq S
    BY <1>3, <1>4, SetInduct
  <1>6. allowed.start <= g[Len(map)].p /\ g[Len(map)].p \in Nat /\ allowed.start \in Nat
    BY <1>1, <1>5 DEF S, SearchState, Extent
  <1>7. p = g[Len(map)].p \/ p = AddrMod - 1
    BY <1>2 DEF allocate_space, UINTPTR_MAX
  <1>8. QED
    BY <1>6, <1>7, MemoryAssumption

-----------------------------------------------------------------------------
(* The memory map *)

\* Where claim_space puts a range: behind all that start no later, before the
\* first that starts later.
LEMMA InsertAt ==
    ASSUME NEW map \in Seq(Extent), NEW r \in Extent
    PROVE  /\ Insert(map, r) \in Seq(Extent)
           /\ Len(Insert(map, r)) = Len(map) + 1
           /\ \E at \in 1 .. Len(map) + 1 :
                /\ \A n \in 1 .. at - 1 : map[n].start <= r.start
                /\ at <= Len(map) => r.start < map[at].start
                /\ \A n \in 1 .. Len(map) + 1 :
                     Insert(map, r)[n] = IF n < at THEN map[n]
                                         ELSE IF n = at THEN r ELSE map[n - 1]
  <1> DEFINE later == {k \in 1 .. Len(map) : r.start < map[k].start}
             least == CHOOSE k \in later : \A n \in later : k <= n
             at == IF later = {} THEN Len(map) + 1 ELSE least
             front == SubSeq(map, 1, at - 1)
             back == SubSeq(map, at, Len(map))
  <1>1. Len(map) \in Nat /\ \A n \in 1 .. Len(map) : map[n] \in Extent
    BY ElementOfSeq, LenProperties
  <1>2. r.start \in Nat /\ \A n \in 1 .. Len(map) : map[n].start \in Nat
    BY <1>1 DEF Extent
  <1>3. /\ at \in 1 .. Len(map) + 1
        /\ \A n \in 1 .. at - 1 : map[n].start <= r.start
        /\ at <= Len(map) => r.start < map[at].start
    <2>1. CASE later = {}
      BY <1>1, <1>2, <2>1
    <2>2. CASE later # {}
      <3>1. later \subseteq Nat
        BY <1>1
      <3>2. \E x \in later : \A y \in later : x <= y
        <4> HIDE DEF later
        <4>1. QED
          BY <2>2, <3>1, LeastNumber
      <3>3. least \in later /\ \A n \in later : least <= n
        <4> HIDE DEF later
        <4>1. QED
          BY <3>2, Zenon
      <3> HIDE DEF least
      <3>4. at = least
        BY <2>2
      <3>5. least \in 1 .. Len(map) /\ r.start < map[least].start
        BY <3>3
      <3>6. ASSUME NEW n \in 1 .. least - 1 PROVE map[n].start <= r.start
        <4>1. n \in 1 .. Len(map) /\ ~(least <= n)
          BY <1>1, <3>5
        <4>2. n \notin later
          BY <3>3, <4>1
        <4>3. QED
          BY <1>2, <4>1, <4>2
      <3>7. QED
        BY <1>1, <3>4, <3>5, <3>6
    <2>3. QED
      BY <2>1, <2>2
  <1>4. Insert(map, r) = (front \o <<r>>) \o back
    BY DEF Insert
  <1> HIDE DEF at
  <1>5. /\ front \in Seq(Extent) /\ Len(front) = at - 1
        /\ \A n \in 1 .. at - 1 : front[n] = map[n]
    <2>1. \A n \in 1 .. at - 1 : map[n] \in Extent
      BY <1>1, <1>3
    <2>2. 1 \in Int /\ at - 1 \in Int /\ at \in Nat
      BY <1>1, <1>3
    <2>3. 1 .. at - 1 \subseteq 1 .. Len(map)
      BY <1>1, <1>3
    <2>4. QED
      BY <1>1, <1>3, <2>1, <2>2, <2>3, SubSeqProperties
  <1>6. /\ back \in Seq(Extent) /\ Len(back) = Len(map) + 1 - at
        /\ \A n \in 1 .. Len(map) + 1 - at : back[n] = map[at + n - 1]
    BY <1>1, <1>3, SubSeqProperties
  <1> HIDE DEF front, back
  <1>7. /\ front \o <<r>> \in Seq(Extent) /\ Len(front \o <<r>>) = at
        /\ \A n \in 1 .. at : (front \o <<r>>)[n] = IF n < at THEN map[n] ELSE r
    <2>1. <<r>> \in Seq(Extent) /\ Len(<<r>>) = 1 /\ <<r>>[1] = r
      OBVIOUS
    <2>2. QED
      BY <1>1, <1>3, <1>5, <2>1, ConcatProperties
  <1> DEFINE f == front \o <<r>>
  <1> HIDE DEF f
  <1>8. /\ f \in Seq(Extent) /\ Len(f) = at
        /\ \A n \in 1 .. at : f[n] = IF n < at THEN map[n] ELSE r
        /\ Insert(map, r) = f \o back
    BY <1>4, <1>7 DEF f
  <1>9. /\ f \o back \in Seq(Extent) /\ Len(f \o back) = Len(map) + 1
        /\ \A n \in 1 .. Len(map) + 1 :
             (f \o back)[n] = IF n < at THEN map[n] ELSE IF n = at THEN r ELSE map[n - 1]
    BY <1>1, <1>3, <1>6, <1>8, ConcatProperties
  <1>10. QED
    BY <1>3, <1>8, <1>9

\* A sorted map stays sorted.
LEMMA InsertSorted ==
    ASSUME NEW map \in Seq(Extent), NEW r \in Extent, Sorted(map)
    PROVE  Sorted(Insert(map, r))
  <1> DEFINE new == Insert(map, r)
  <1>1. Len(map) \in Nat /\ r.start \in Nat /\ \A n \in 1 .. Len(map) : map[n].start \in Nat
    <2>1. Len(map) \in Nat /\ \A n \in 1 .. Len(map) : map[n] \in Extent
      BY ElementOfSeq, LenProperties
    <2>2. QED
      BY <2>1 DEF Extent
  <1>2. Len(new) = Len(map) + 1
    BY InsertAt
  <1>3. PICK at \in 1 .. Len(map) + 1 :
          /\ \A n \in 1 .. at - 1 : map[n].start <= r.start
          /\ at <= Len(map) => r.start < map[at].start
          /\ \A n \in 1 .. Len(map) + 1 :
               new[n] = IF n < at THEN map[n] ELSE IF n = at THEN r ELSE map[n - 1]
    BY InsertAt
  <1> HIDE DEF new
  <1>4. \A n \in 1 .. Len(map) : at <= n => r.start < map[n].start
    <2>1. SUFFICES ASSUME NEW n \in 1 .. Len(map), at <= n PROVE r.start < map[n].start
      OBVIOUS
    <2>2. at \in 1 .. Len(map) /\ r.start < map[at].start
      BY <1>1, <1>3, <2>1
    <2>3. at = n \/ map[at].start <= map[n].start
      BY <1>1, <2>1, <2>2 DEF Sorted
    <2>4. QED
      BY <1>1, <2>2, <2>3
  <1>5. ASSUME NEW m \in 1 .. Len(new), NEW n \in 1 .. Len(new), m < n
        PROVE  new[m].start <= new[n].start
    <2>1. m \in 1 .. Len(map) + 1 /\ n \in 1 .. Len(map) + 1 /\ at \in Nat
      BY <1>1, <1>2
    <2>2. CASE n < at
      <3>1. new[m] = map[m] /\ new[n] = map[n] /\ m \in 1 .. Len(map) /\ n \in 1 .. Len(map)
        BY <1>1, <1>3, <1>5, <2>1, <2>2
      <3>2. QED
        BY <1>5, <3>1 DEF Sorted
    <2>3. CASE n = at
      <3>1. new[m] = map[m] /\ new[n] = r /\ m \in 1 .. at - 1
        BY <1>1, <1>3, <1>5, <2>1, <2>3
      <3>2. QED
        BY <1>3, <3>1
    <2>4. CASE at < n
      <3>1. new[n] = map[n - 1] /\ n - 1 \in 1 .. Len(map) /\ at <= n - 1
        BY <1>1, <1>3, <2>1, <2>4
      <3>2. CASE m < at
        <4>1. new[m] = map[m] /\ m \in 1 .. Len(map) /\ m < n - 1
          BY <1>1, <1>3, <1>5, <2>1, <2>4, <3>2
        <4>2. QED
          BY <3>1, <4>1 DEF Sorted
      <3>3. CASE m = at
        <4>1. new[m] = r
          BY <1>3, <2>1, <3>3
        <4>2. r.start < map[n - 1].start /\ map[n - 1].start \in Nat
          BY <1>1, <1>4, <3>1
        <4>3. QED
          BY <1>1, <3>1, <4>1, <4>2
      <3>4. CASE at < m
        <4>1. new[m] = map[m - 1] /\ m - 1 \in 1 .. Len(map) /\ m - 1 < n - 1
          BY <1>1, <1>3, <1>5, <2>1, <3>4
        <4>2. QED
          BY <3>1, <4>1 DEF Sorted
      <3>5. QED
        BY <2>1, <3>2, <3>3, <3>4
    <2>5. QED
      BY <2>1, <2>2, <2>3, <2>4
  <1>6. QED
    BY <1>5 DEF Sorted, new

\* A range that is clear of a map that is laid out apart can be put into it.
LEMMA InsertLaid ==
    ASSUME NEW map \in Seq(Extent), NEW r \in Extent, Laid(map),
           r.start < r.end, r.end <= MemHi,
           \A m \in 1 .. Len(map) : r.end <= map[m].start \/ map[m].end <= r.start
    PROVE  Laid(Insert(map, r))
  <1> DEFINE new == Insert(map, r)
  <1>1. /\ Len(map) \in Nat /\ r.start \in Nat /\ r.end \in Nat
        /\ \A n \in 1 .. Len(map) : map[n].start \in Nat /\ map[n].end \in Nat
    <2>1. Len(map) \in Nat /\ \A n \in 1 .. Len(map) : map[n] \in Extent
      BY ElementOfSeq, LenProperties
    <2>2. QED
      BY <2>1 DEF Extent
  <1>2. Len(new) = Len(map) + 1
    BY InsertAt
  <1>3. PICK at \in 1 .. Len(map) + 1 :
          /\ \A n \in 1 .. at - 1 : map[n].start <= r.start
          /\ at <= Len(map) => r.start < map[at].start
          /\ \A n \in 1 .. Len(map) + 1 :
               new[n] = IF n < at THEN map[n] ELSE IF n = at THEN r ELSE map[n - 1]
    BY InsertAt
  <1> HIDE DEF new
  <1>4. \A n \in 1 .. Len(map) : n < at => map[n].end <= r.start
    <2>1. SUFFICES ASSUME NEW n \in 1 .. Len(map), n < at PROVE map[n].end <= r.start
      OBVIOUS
    <2>2. map[n].start <= r.start
      BY <1>1, <1>3, <2>1
    <2>3. QED
      BY <1>1, <2>2
  <1>5. \A n \in 1 .. Len(map) : at <= n => r.end <= map[n].start
    <2>1. SUFFICES ASSUME NEW n \in 1 .. Len(map), at <= n PROVE r.end <= map[n].start
      OBVIOUS
    <2>2. at \in 1 .. Len(map) /\ r.start < map[at].start
      BY <1>1, <1>3, <2>1
    <2>3. map[at].start < map[at].end
      BY <2>2 DEF Laid
    <2>4. r.end <= map[at].start
      BY <1>1, <2>2, <2>3
    <2>5. at = n \/ map[at].end <= map[n].start
      BY <1>1, <2>1, <2>2 DEF Laid
    <2>6. QED
      BY <1>1, <2>2, <2>3, <2>4, <2>5
  <1>6. ASSUME NEW n \in 1 .. Len(new)
        PROVE  new[n].start < new[n].end /\ new[n].end <= MemHi
    <2>1. n \in 1 .. Len(map) + 1 /\ at \in Nat
      BY <1>1, <1>2
    <2>2. CASE n < at
      <3>1. new[n] = map[n] /\ n \in 1 .. Len(map)
        BY <1>1, <1>3, <2>1, <2>2
      <3>2. QED
        BY <3>1 DEF Laid
    <2>3. CASE n = at
      BY <1>3, <2>1, <2>3
    <2>4. CASE at < n
      <3>1. new[n] = map[n - 1] /\ n - 1 \in 1 .. Len(map)
        BY <1>1, <1>3, <2>1, <2>4
      <3>2. QED
        BY <3>1 DEF Laid
    <2>5. QED
      BY <2>1, <2>2, <2>3, <2>4
  <1>7. ASSUME NEW m \in 1 .. Len(new), NEW n \in 1 .. Len(new), m < n
        PROVE  new[m].end <= new[n].start
    <2>1. m \in 1 .. Len(map) + 1 /\ n \in 1 .. Len(map) + 1 /\ at \in Nat
      BY <1>1, <1>2
    <2>2. CASE n < at
      <3>1. new[m] = map[m] /\ new[n] = map[n] /\ m \in 1 .. Len(map) /\ n \in 1 .. Len(map)
        BY <1>1, <1>3, <1>7, <2>1, <2>2
      <3>2. QED
        BY <1>7, <3>1 DEF Laid
    <2>3. CASE n = at
      <3>1. new[m] = map[m] /\ new[n] = r /\ m \in 1 .. Len(map) /\ m < at
        BY <1>1, <1>3, <1>7, <2>1, <2>3
      <3>2. QED
        BY <1>4, <3>1
    <2>4. CASE at < n
      <3>1. new[n] = map[n - 1] /\ n - 1 \in 1 .. Len(map) /\ at <= n - 1
        BY <1>1, <1>3, <2>1, <2>4
      <3>2. CASE m < at
        <4>1. new[m] = map[m] /\ m \in 1 .. Len(map) /\ m < n - 1
          BY <1>1, <1>3, <1>7, <2>1, <2>4, <3>2
        <4>2. QED
          BY <3>1, <4>1 DEF Laid
      <3>3. CASE m = at
        <4>1. new[m] = r
          BY <1>3, <2>1, <3>3
        <4>2. QED
          BY <1>5, <3>1, <4>1
      <3>4. CASE at < m
        <4>1. new[m] = map[m - 1] /\ m - 1 \in 1 .. Len(map) /\ m - 1 < n - 1
          BY <1>1, <1>3, <1>7, <2>1, <3>4
        <4>2. QED
          BY <3>1, <4>1 DEF Laid
      <3>5. QED
        BY <2>1, <3>2, <3>3, <3>4
    <2>5. QED
      BY <2>1, <2>2, <2>3, <2>4
  <1>8. QED
    BY <1>6, <1>7 DEF Laid, new

\* The map then has the range, everything it had, and nothing else.
LEMMA InsertHas ==
    ASSUME NEW map \in Seq(Extent), NEW r \in Extent
    PROVE  /\ Has(Insert(map, r), r)
           /\ \A q : Has(map, q) => Has(Insert(map, r), q)
           /\ \A n \in 1 .. Len(map) + 1 : Insert(map, r)[n] = r \/ Has(map, Insert(map, r)[n])
  <1> DEFINE new == Insert(map, r)
  <1>1. Len(map) \in Nat
    BY LenProperties
  <1>2. Len(new) = Len(map) + 1
    BY InsertAt
  <1>3. PICK at \in 1 .. Len(map) + 1 : \A n \in 1 .. Len(map) + 1 :
               new[n] = IF n < at THEN map[n] ELSE IF n = at THEN r ELSE map[n - 1]
    BY InsertAt
  <1> HIDE DEF new
  <1>4. Has(new, r)
    BY <1>2, <1>3 DEF Has
  <1>5. ASSUME NEW q, Has(map, q) PROVE Has(new, q)
    <2>1. PICK n \in 1 .. Len(map) : map[n] = q
      BY <1>5 DEF Has
    <2>2. CASE n < at
      BY <1>1, <1>2, <1>3, <2>1, <2>2 DEF Has
    <2>3. CASE ~(n < at)
      <3>1. n + 1 \in 1 .. Len(new) /\ new[n + 1] = map[n]
        BY <1>1, <1>2, <1>3, <2>3
      <3>2. QED
        BY <2>1, <3>1 DEF Has
    <2>4. QED
      BY <2>2, <2>3
  <1>6. ASSUME NEW n \in 1 .. Len(map) + 1 PROVE new[n] = r \/ Has(map, new[n])
    <2>1. CASE n < at
      <3>1. n \in 1 .. Len(map) /\ new[n] = map[n]
        BY <1>1, <1>3, <2>1
      <3>2. QED
        BY <3>1 DEF Has
    <2>2. CASE n = at
      BY <1>3, <2>2
    <2>3. CASE n > at
      <3>1. n - 1 \in 1 .. Len(map) /\ new[n] = map[n - 1]
        BY <1>1, <1>3, <2>3
      <3>2. QED
        BY <3>1 DEF Has
    <2>4. QED
      BY <1>1, <2>1, <2>2, <2>3
  <1>7. QED
    BY <1>4, <1>5, <1>6 DEF new

-----------------------------------------------------------------------------
(* The uploaded file *)

\* The assumptions, for the file that was uploaded.
LEMMA ElfFacts ==
    ASSUME elf \in Elfs
    PROVE  /\ elf \in ElfType /\ elf.size \in Nat \ {0} /\ ProgEnd + elf.size <= MemHi
           /\ Headers \in Nat
           /\ \A k \in 1 .. Headers :
                /\ elf.phdrs[k].load \in BOOLEAN /\ elf.phdrs[k].offset \in Nat
                /\ elf.phdrs[k].vaddr \in Nat /\ elf.phdrs[k].filesz \in Nat
                /\ elf.phdrs[k].memsz \in Nat
           /\ \A k \in Loads(Headers) :
                /\ elf.phdrs[k].filesz <= elf.phdrs[k].memsz /\ elf.phdrs[k].memsz > 0
                /\ elf.phdrs[k].offset + elf.phdrs[k].filesz <= elf.size
                /\ elf.phdrs[k].vaddr + elf.phdrs[k].memsz <= MemHi
           /\ \A j, k \in Loads(Headers) : j # k => Disjoint(Seg(j), Seg(k))
  <1>1. elf \in ElfType /\ ProgEnd + elf.size <= MemHi
    BY ElfAssumption
  <1>2. elf.size \in Nat \ {0} /\ elf.phdrs \in Seq(Phdr)
    BY <1>1 DEF ElfType
  <1>3. Headers \in Nat /\ \A k \in 1 .. Headers : elf.phdrs[k] \in Phdr
    BY <1>2, ElementOfSeq, LenProperties DEF Headers
  <1>4. \A k \in Loads(Headers) :
                /\ elf.phdrs[k].filesz <= elf.phdrs[k].memsz /\ elf.phdrs[k].memsz > 0
                /\ elf.phdrs[k].offset + elf.phdrs[k].filesz <= elf.size
                /\ elf.phdrs[k].vaddr + elf.phdrs[k].memsz <= MemHi
    BY ElfAssumption DEF Loads, Headers
  <1>5. \A j, k \in Loads(Headers) : j # k => Disjoint(Seg(j), Seg(k))
    BY ElfAssumption DEF Loads, Headers, Disjoint, Seg, SegmentRange, range
  <1>6. QED
    BY <1>1, <1>2, <1>3, <1>4, <1>5 DEF Phdr

\* Counting the segments header by header.
LEMMA LoadsStep ==
    ASSUME NEW n \in Nat
    PROVE  /\ IsFiniteSet(Loads(n)) /\ Cardinality(Loads(n)) \in Nat
           /\ elf.phdrs[n + 1].load =>
                /\ Loads(n + 1) = Loads(n) \cup {n + 1}
                /\ Cardinality(Loads(n + 1)) = Cardinality(Loads(n)) + 1
           /\ ~elf.phdrs[n + 1].load => Loads(n + 1) = Loads(n)
  <1>1. IsFiniteSet(Loads(n)) /\ Cardinality(Loads(n)) \in Nat
    <2>1. Loads(n) \in SUBSET (1 .. n)
      BY DEF Loads
    <2>2. IsFiniteSet(1 .. n)
      BY FS_Interval
    <2>3. QED
      BY <2>1, <2>2, FS_Subset, FS_CardinalityType
  <1>2. ASSUME elf.phdrs[n + 1].load
        PROVE  /\ Loads(n + 1) = Loads(n) \cup {n + 1}
               /\ Cardinality(Loads(n + 1)) = Cardinality(Loads(n)) + 1
    <2>1. Loads(n + 1) = Loads(n) \cup {n + 1} /\ n + 1 \notin Loads(n)
      BY <1>2 DEF Loads
    <2>2. QED
      BY <1>1, <2>1, FS_AddElement
  <1>3. ASSUME ~elf.phdrs[n + 1].load PROVE Loads(n + 1) = Loads(n)
    BY <1>3 DEF Loads
  <1>4. QED
    BY <1>1, <1>2, <1>3

LEMMA NoLoads == Loads(0) = {} /\ Cardinality(Loads(0)) = 0
  <1>1. Loads(0) = {}
    BY DEF Loads
  <1>2. QED
    BY <1>1, FS_EmptySet

\* The file never changes.
LEMMA SameFile ==
    ASSUME elf' = elf
    PROVE  /\ Headers' = Headers /\ (Few <=> Few')
           /\ \A n : Loads(n)' = Loads(n)
           /\ \A k : Seg(k)' = Seg(k)
  BY DEF Headers, Few, Loads, Seg, SegmentRange, range

LEMMA SameOps ==
    ASSUME elf' = elf, elf_alloc' = elf_alloc, loader_ops' = loader_ops
    PROVE  \A n : OpsFrom(n) <=> OpsFrom(n)'
  BY Zenon DEF OpsFrom, OpOf, Has, Copy, Fill, Loads

LEMMA LaidSorted ==
    ASSUME NEW map \in Seq(Extent), Laid(map)
    PROVE  Sorted(map)
  <1>1. \A n \in 1 .. Len(map) : map[n].start \in Nat /\ map[n].end \in Nat
    <2>1. \A n \in 1 .. Len(map) : map[n] \in Extent
      BY ElementOfSeq
    <2>2. QED
      BY <2>1 DEF Extent
  <1>2. ASSUME NEW m \in 1 .. Len(map), NEW n \in 1 .. Len(map), m < n
        PROVE  map[m].start <= map[n].start
    <2>1. map[m].end <= map[n].start /\ map[m].start < map[m].end
      BY <1>2 DEF Laid
    <2>2. QED
      BY <1>1, <2>1
  <1>3. QED
    BY <1>2 DEF Sorted

-----------------------------------------------------------------------------
(* load_elf_image *)

LEMMA ElfInit == Init => ElfInv
  <1> SUFFICES ASSUME Init PROVE ElfInv
    OBVIOUS
  <1>1. elf \in Elfs /\ phase = "validate" /\ i = 1
    BY DEF Init
  <1>2. /\ elf \in ElfType /\ elf.size \in Nat \ {0} /\ ProgEnd + elf.size <= MemHi
    BY <1>1, ElfFacts
  <1>3. TypeOK
    <2>1. mem \in [Addr -> Int]
      BY <1>2, MemoryAssumption DEF Init, Prog, Junk, Addr
    <2>2. QED
      BY <1>1, <1>2, <2>1 DEF Init, TypeOK, Junk
  <1>4. MapInv
    BY MemoryAssumption DEF Init, MapInv, MapSorted, Laid
  <1>5. ClaimInv /\ OpsInv /\ PlacedInv
    BY DEF Init, ClaimInv, OpsInv, PlacedInv
  <1>6. MemInv
    <2>1. FileAt(ProgEnd)
      <3>1. SUFFICES ASSUME NEW k \in 0 .. elf.size - 1 PROVE mem[ProgEnd + k] = k
        BY DEF FileAt
      <3>2. /\ ProgEnd + k \in Addr /\ ~(ProgEnd + k < ProgEnd) /\ ProgEnd <= ProgEnd + k
            /\ ProgEnd + k < ProgEnd + elf.size /\ (ProgEnd + k) - ProgEnd = k
        BY <1>2, MemoryAssumption DEF Addr
      <3>3. QED
        BY <3>2 DEF Init
    <2>2. QED
      BY <1>1, <2>1 DEF MemInv
  <1>7. QED
    BY <1>1, <1>3, <1>4, <1>5, <1>6 DEF ElfInv

LEMMA ElfValidate == ElfInv /\ Validate => ElfInv'
  <1> SUFFICES ASSUME ElfInv, Validate PROVE ElfInv'
    OBVIOUS
  <1>1. /\ phase = "validate" /\ phase' \in {"claim", "failed"} /\ i' = 1
        /\ elf' = elf /\ memory_map' = memory_map /\ loader_ops' = loader_ops
        /\ elf_alloc' = elf_alloc /\ boot_alloc' = boot_alloc /\ entry' = entry /\ mem' = mem
        /\ memory_map = <<>> /\ loader_ops = <<>>
    BY DEF Validate, ElfInv, MapInv, ClaimInv
  <1>2. TypeOK' /\ (elf \in Elfs)'
    BY <1>1 DEF ElfInv, TypeOK
  <1>3. MapInv'
    BY <1>1, MemoryAssumption DEF ElfInv, MapInv, MapSorted, Laid
  <1>4. ClaimInv'
    <2>1. Headers' = Headers /\ Headers \in Nat
      BY <1>1, SameFile, ElfFacts DEF ElfInv
    <2>2. Loads(0)' = {} /\ Cardinality(Loads(0))' = 0
      BY <1>1, NoLoads, SameFile
    <2>3. i' - 1 = 0 /\ Len(memory_map') = 0
      BY <1>1
    <2>4. QED
      BY <1>1, <2>1, <2>2, <2>3 DEF ClaimInv
  <1>5. OpsInv' /\ PlacedInv'
    BY <1>1 DEF OpsInv, PlacedInv
  <1>6. MemInv'
    BY <1>1 DEF ElfInv, MemInv, FileAt
  <1>7. QED
    BY <1>2, <1>3, <1>4, <1>5, <1>6 DEF ElfInv

LEMMA ElfClaimSegment == ElfInv /\ ClaimSegment => ElfInv'
  <1> SUFFICES ASSUME ElfInv, ClaimSegment PROVE ElfInv'
    OBVIOUS
  <1> DEFINE r == Seg(i)
             n == i - 1
  <1>1. /\ phase = "claim" /\ phase' = phase /\ i' = i + 1 /\ i <= Headers
        /\ elf' = elf /\ loader_ops' = loader_ops /\ elf_alloc' = elf_alloc
        /\ boot_alloc' = boot_alloc /\ entry' = entry /\ mem' = mem
        /\ loader_ops = <<>>
        /\ memory_map' = IF elf.phdrs[i].load THEN Claim(memory_map, r) ELSE memory_map
    BY DEF ClaimSegment, Load, Headers, ElfInv, ClaimInv, Seg, SegmentRange
  <1>2. /\ Headers \in Nat /\ i \in 1 .. Headers /\ n \in Nat /\ i = n + 1 /\ i' - 1 = n + 1
        /\ ELF_MAX_SEGMENTS \in Nat /\ MemHi \in Nat
    <2>1. Headers \in Nat
      BY ElfFacts DEF ElfInv
    <2>2. i \in 1 .. Headers + 1
      BY <1>1 DEF ElfInv, ClaimInv
    <2>3. QED
      BY <1>1, <2>1, <2>2, MemoryAssumption
  <1>3. /\ memory_map \in Seq(Extent) /\ Laid(memory_map) /\ Len(memory_map) \in Nat
        /\ Len(memory_map) <= ELF_MAX_SEGMENTS
        /\ \A m \in 1 .. Len(memory_map) : \E k \in Loads(n) : memory_map[m] = Seg(k)
        /\ Cardinality(Loads(n)) <= ELF_MAX_SEGMENTS =>
              /\ Len(memory_map) = Cardinality(Loads(n))
              /\ \A k \in Loads(n) : Has(memory_map, Seg(k))
    BY <1>1, LenProperties DEF ElfInv, TypeOK, Extent, MapInv, ClaimInv
  <1>4. /\ Headers' = Headers /\ \A m : Loads(m)' = Loads(m) /\ \A k : Seg(k)' = Seg(k)
    BY <1>1, SameFile
  <1> HIDE DEF n, r
  <1>5. Cardinality(Loads(n)) \in Nat
    BY <1>2, LoadsStep
  <1>6. \A k \in Loads(n) : k \in Loads(Headers) /\ k < i
    BY <1>2 DEF Loads, n
  <1>7. /\ memory_map' \in Seq(Extent) /\ Laid(memory_map')
        /\ Len(memory_map') <= ELF_MAX_SEGMENTS
        /\ \A m \in 1 .. Len(memory_map') : \E k \in Loads(n + 1) : memory_map'[m] = Seg(k)
        /\ Cardinality(Loads(n + 1)) <= ELF_MAX_SEGMENTS =>
              /\ Len(memory_map') = Cardinality(Loads(n + 1))
              /\ \A k \in Loads(n + 1) : Has(memory_map', Seg(k))
    <2>1. CASE ~elf.phdrs[i].load
      <3>1. memory_map' = memory_map /\ Loads(n + 1) = Loads(n)
        BY <1>1, <1>2, <2>1, LoadsStep
      <3>2. QED
        BY <1>3, <3>1
    <2>2. CASE elf.phdrs[i].load
      <3>1. /\ Loads(n + 1) = Loads(n) \cup {i}
            /\ Cardinality(Loads(n + 1)) = Cardinality(Loads(n)) + 1
        BY <1>2, <2>2, LoadsStep
      <3>2. /\ i \in Loads(Headers) /\ r \in Extent
            /\ r.start < r.end /\ r.end <= MemHi
        <4>1. i \in Loads(Headers)
          BY <1>2, <2>2 DEF Loads
        <4>2. /\ elf.phdrs[i].vaddr \in Nat /\ elf.phdrs[i].memsz \in Nat
              /\ elf.phdrs[i].memsz > 0 /\ elf.phdrs[i].vaddr + elf.phdrs[i].memsz <= MemHi
          BY <1>2, <4>1, ElfFacts DEF ElfInv
        <4>3. QED
          BY <4>1, <4>2 DEF r, Seg, SegmentRange, range, Extent
      <3>3. CASE Len(memory_map) >= ELF_MAX_SEGMENTS
        <4>1. memory_map' = memory_map
          BY <1>1, <2>2, <3>3 DEF Claim
        <4>2. ~(Cardinality(Loads(n + 1)) <= ELF_MAX_SEGMENTS)
          BY <1>2, <1>3, <1>5, <3>1, <3>3
        <4>3. QED
          BY <1>3, <3>1, <4>1, <4>2
      <3>4. CASE ~(Len(memory_map) >= ELF_MAX_SEGMENTS)
        <4>1. memory_map' = Insert(memory_map, r)
          BY <1>1, <2>2, <3>4 DEF Claim
        <4>2. memory_map' \in Seq(Extent) /\ Len(memory_map') = Len(memory_map) + 1
          BY <1>3, <3>2, <4>1, InsertAt
        <4>3. Laid(memory_map')
          <5>1. ASSUME NEW m \in 1 .. Len(memory_map)
                PROVE  r.end <= memory_map[m].start \/ memory_map[m].end <= r.start
            <6>1. PICK k \in Loads(n) : memory_map[m] = Seg(k)
              BY <1>3
            <6>2. k \in Loads(Headers) /\ k # i
              BY <1>2, <1>6
            <6>3. Disjoint(Seg(i), Seg(k))
              BY <3>2, <6>2, ElfFacts DEF ElfInv
            <6>4. QED
              BY <6>1, <6>3 DEF Disjoint, r
          <5>2. QED
            BY <1>3, <3>2, <4>1, <5>1, InsertLaid
        <4>4. /\ Has(memory_map', r) /\ \A q : Has(memory_map, q) => Has(memory_map', q)
              /\ \A m \in 1 .. Len(memory_map) + 1 :
                    memory_map'[m] = r \/ Has(memory_map, memory_map'[m])
          BY <1>3, <3>2, <4>1, InsertHas
        <4>5. ASSUME NEW m \in 1 .. Len(memory_map')
              PROVE  \E k \in Loads(n + 1) : memory_map'[m] = Seg(k)
          <5>1. CASE memory_map'[m] = r
            BY <3>1, <5>1 DEF r
          <5>2. CASE Has(memory_map, memory_map'[m])
            BY <1>3, <3>1, <5>2 DEF Has
          <5>3. QED
            BY <4>2, <4>4, <5>1, <5>2
        <4>6. ASSUME Cardinality(Loads(n + 1)) <= ELF_MAX_SEGMENTS
              PROVE  /\ Len(memory_map') = Cardinality(Loads(n + 1))
                     /\ \A k \in Loads(n + 1) : Has(memory_map', Seg(k))
          <5>1. Cardinality(Loads(n)) <= ELF_MAX_SEGMENTS
            BY <1>2, <1>5, <3>1, <4>6
          <5>2. QED
            BY <1>3, <3>1, <4>2, <4>4, <5>1 DEF r
        <4>7. Len(memory_map') <= ELF_MAX_SEGMENTS
          BY <1>2, <1>3, <3>4, <4>2
        <4>8. QED
          BY <4>2, <4>3, <4>5, <4>6, <4>7
      <3>5. QED
        BY <3>3, <3>4
    <2>3. QED
      BY <2>1, <2>2
  <1>8. TypeOK' /\ (elf \in Elfs)'
    BY <1>1, <1>2, <1>7 DEF ElfInv, TypeOK, Extent
  <1>9. MapInv'
    <2>1. Sorted(memory_map') /\ Len(memory_map') \in Nat
      BY <1>7, LaidSorted, LenProperties
    <2>2. MapSorted'
      BY <1>2, <1>7, <2>1 DEF MapSorted, Sorted
    <2>3. QED
      BY <1>1, <1>7, <2>2 DEF MapInv
  <1>10. ClaimInv'
    BY <1>1, <1>2, <1>4, <1>7 DEF ClaimInv
  <1>11. OpsInv' /\ PlacedInv'
    BY <1>1 DEF OpsInv, PlacedInv
  <1>12. MemInv'
    BY <1>1 DEF ElfInv, MemInv, FileAt
  <1>13. QED
    BY <1>8, <1>9, <1>10, <1>11, <1>12 DEF ElfInv

LEMMA ElfAllocateElf == ElfInv /\ AllocateElf => ElfInv'
  <1> SUFFICES ASSUME ElfInv, AllocateElf PROVE ElfInv'
    OBVIOUS
  <1> DEFINE p == elf_alloc'
             r == range(p, elf.size)
             all == range(0, MemHi)
  <1>1. /\ phase = "claim" /\ i' = 1 /\ i > Headers
        /\ elf' = elf /\ loader_ops' = loader_ops
        /\ boot_alloc' = boot_alloc /\ entry' = entry /\ mem' = mem
        /\ loader_ops = <<>>
        /\ p = allocate_space(memory_map, elf.size, all)
        /\ \/ p = UINTPTR_MAX /\ phase' = "failed" /\ memory_map' = memory_map
           \/ p # UINTPTR_MAX /\ phase' = "ops" /\ memory_map' = Insert(memory_map, r)
    BY DEF AllocateElf, Headers, ElfInv, ClaimInv
  <1>2. /\ Headers \in Nat /\ i - 1 = Headers /\ elf.size \in Nat \ {0}
        /\ ELF_MAX_SEGMENTS \in Nat /\ MemHi \in Nat /\ UINTPTR_MAX \in Nat
    <2>1. Headers \in Nat /\ elf.size \in Nat \ {0}
      BY ElfFacts DEF ElfInv
    <2>2. i \in 1 .. Headers + 1
      BY <1>1 DEF ElfInv, ClaimInv
    <2>3. QED
      BY <1>1, <2>1, <2>2, MemoryAssumption DEF UINTPTR_MAX
  <1>3. /\ memory_map \in Seq(Extent) /\ Laid(memory_map) /\ Len(memory_map) \in Nat
        /\ Len(memory_map) <= ELF_MAX_SEGMENTS
        /\ Few => \A k \in Loads(Headers) : Has(memory_map, Seg(k))
    BY <1>1, <1>2, LenProperties DEF ElfInv, TypeOK, Extent, MapInv, ClaimInv, Few
  <1>4. /\ Headers' = Headers /\ (Few <=> Few')
        /\ \A m : Loads(m)' = Loads(m) /\ \A k : Seg(k)' = Seg(k)
    BY <1>1, SameFile
  <1>5. MemInv'
    BY <1>1 DEF ElfInv, MemInv, FileAt
  <1>6. PlacedInv' /\ ClaimInv'
    BY <1>1 DEF PlacedInv, ClaimInv
  <1>7. CASE p = UINTPTR_MAX
    <2>1. phase' = "failed" /\ memory_map' = memory_map
      BY <1>1, <1>7
    <2>2. TypeOK' /\ (elf \in Elfs)'
      BY <1>1, <1>2, <1>7, <2>1 DEF ElfInv, TypeOK
    <2>3. MapInv'
      BY <2>1 DEF ElfInv, MapInv, MapSorted
    <2>4. OpsInv'
      BY <2>1 DEF OpsInv
    <2>5. QED
      BY <1>5, <1>6, <2>2, <2>3, <2>4 DEF ElfInv
  <1>8. CASE p # UINTPTR_MAX
    <2>1. phase' = "ops" /\ memory_map' = Insert(memory_map, r)
      BY <1>1, <1>8
    <2>2. all \in Extent /\ all.start = 0 /\ all.end = MemHi
      BY <1>2 DEF Extent, range
    <2> HIDE DEF p, all
    <2>3. p \in Nat /\ Clear(memory_map, p, elf.size) /\ p + elf.size <= MemHi
      BY <1>1, <1>2, <1>3, <1>8, <2>2, AllocateClear
    <2>4. r \in Extent /\ r.start = p /\ r.end = p + elf.size /\ r.start < r.end
      BY <1>2, <2>3 DEF range, Extent
    <2> HIDE DEF r
    <2>5. memory_map' \in Seq(Extent) /\ Len(memory_map') = Len(memory_map) + 1
      BY <1>3, <2>1, <2>4, InsertAt
    <2>6. Laid(memory_map')
      BY <1>3, <2>1, <2>3, <2>4, InsertLaid DEF Clear
    <2>7. Has(memory_map', r) /\ \A q : Has(memory_map, q) => Has(memory_map', q)
      BY <1>3, <2>1, <2>4, InsertHas
    <2>8. ElfRange' = r
      BY <1>1 DEF ElfRange, r, p
    <2>9. TypeOK' /\ (elf \in Elfs)'
      BY <1>1, <2>1, <2>3, <2>5 DEF ElfInv, TypeOK, Extent, p
    <2>10. MapInv'
      <3>1. Sorted(memory_map')
        BY <2>5, <2>6, LaidSorted
      <3>2. Len(memory_map') <= ELF_MAX_SEGMENTS + 1
        BY <1>2, <1>3, <2>5
      <3>3. MapSorted'
        BY <1>2, <1>3, <2>5, <3>1, <3>2 DEF MapSorted, Sorted
      <3>4. QED
        BY <2>1, <2>6, <3>2, <3>3 DEF MapInv
    <2>11. OpsInv'
      <3>1. ASSUME Few, NEW k \in Loads(Headers)
            PROVE  Has(memory_map', Seg(k)) /\ Disjoint(r, Seg(k))
        <4>1. Has(memory_map, Seg(k))
          BY <1>3, <3>1
        <4>2. PICK m \in 1 .. Len(memory_map) : memory_map[m] = Seg(k)
          BY <4>1 DEF Has
        <4>3. QED
          BY <2>3, <2>4, <2>7, <4>1, <4>2 DEF Clear, Disjoint
      <3>2. /\ i' - 1 = 0 /\ i' \in 1 .. Headers + 1
            /\ Len(loader_ops') = 0 /\ 0 <= ELF_MAX_SEGMENTS
        BY <1>1, <1>2
      <3>3. Loads(i - 1)' = {}
        BY <3>2 DEF Loads
      <3>4. OpsFrom(i - 1)'
        BY <3>2, <3>3 DEF OpsFrom
      <3>5. Cardinality(Loads(i - 1))' <= Len(loader_ops')
        BY <3>2, <3>3, FS_EmptySet
      <3>6. r.end <= MemHi
        BY <2>3, <2>4
      <3>7. Few' => \A k \in Loads(Headers)' : Has(memory_map', Seg(k)') /\ Disjoint(r, Seg(k)')
        BY <1>4, <3>1
      <3>8. QED
        BY <1>4, <2>7, <2>8, <3>2, <3>4, <3>5, <3>6, <3>7 DEF OpsInv, Has, Disjoint
    <2>12. QED
      BY <1>5, <1>6, <2>9, <2>10, <2>11 DEF ElfInv
  <1>9. QED
    BY <1>7, <1>8

-----------------------------------------------------------------------------
(* The loader operations *)

OpType == [kind : {"COPY", "ZERO"}, dst : Nat, src : Nat, size : Nat]

LEMMA HasConcat ==
    ASSUME NEW S, NEW a \in Seq(S), NEW b \in Seq(S)
    PROVE  /\ \A x : Has(a, x) \/ Has(b, x) => Has(a \o b, x)
           /\ \A m \in 1 .. Len(a \o b) : Has(a, (a \o b)[m]) \/ Has(b, (a \o b)[m])
  <1>1. /\ Len(a) \in Nat /\ Len(b) \in Nat /\ Len(a \o b) = Len(a) + Len(b)
        /\ \A m \in 1 .. Len(a) + Len(b) :
             (a \o b)[m] = IF m <= Len(a) THEN a[m] ELSE b[m - Len(a)]
    BY ConcatProperties, LenProperties
  <1>2. ASSUME NEW x, Has(a, x) PROVE Has(a \o b, x)
    <2>1. PICK m \in 1 .. Len(a) : a[m] = x
      BY <1>2 DEF Has
    <2>2. m \in 1 .. Len(a \o b) /\ (a \o b)[m] = x
      BY <1>1, <2>1
    <2>3. QED
      BY <2>2 DEF Has
  <1>3. ASSUME NEW x, Has(b, x) PROVE Has(a \o b, x)
    <2>1. PICK m \in 1 .. Len(b) : b[m] = x
      BY <1>3 DEF Has
    <2>2. /\ Len(a) + m \in 1 .. Len(a) + Len(b) /\ ~(Len(a) + m <= Len(a))
          /\ (Len(a) + m) - Len(a) = m
      BY <1>1
    <2>3. (a \o b)[Len(a) + m] = x
      BY <1>1, <2>1, <2>2
    <2>4. QED
      BY <1>1, <2>2, <2>3 DEF Has
  <1>4. ASSUME NEW m \in 1 .. Len(a \o b) PROVE Has(a, (a \o b)[m]) \/ Has(b, (a \o b)[m])
    <2>1. CASE m <= Len(a)
      <3>1. m \in 1 .. Len(a) /\ (a \o b)[m] = a[m]
        BY <1>1, <2>1
      <3>2. QED
        BY <3>1 DEF Has
    <2>2. CASE ~(m <= Len(a))
      <3>1. m - Len(a) \in 1 .. Len(b) /\ (a \o b)[m] = b[m - Len(a)]
        BY <1>1, <2>2
      <3>2. QED
        BY <3>1 DEF Has
    <2>3. QED
      BY <2>1, <2>2
  <1>5. QED
    BY <1>2, <1>3, <1>4

\* A segment has one or two operations.
LEMMA OpsOfFacts ==
    ASSUME elf \in Elfs, elf_alloc \in Nat, NEW k \in Loads(Headers)
    PROVE  /\ OpsOf(elf.phdrs[k]) \in Seq(OpType)
           /\ Len(OpsOf(elf.phdrs[k])) >= 1
           /\ \A m \in 1 .. Len(OpsOf(elf.phdrs[k])) : OpOf(OpsOf(elf.phdrs[k])[m], k)
           /\ elf.phdrs[k].filesz > 0 => Has(OpsOf(elf.phdrs[k]), Copy(elf.phdrs[k]))
           /\ elf.phdrs[k].filesz < elf.phdrs[k].memsz =>
                Has(OpsOf(elf.phdrs[k]), Fill(elf.phdrs[k]))
  <1> DEFINE h == elf.phdrs[k]
             c == Copy(h)
             f == Fill(h)
  <1>1. /\ h.offset \in Nat /\ h.vaddr \in Nat /\ h.filesz \in Nat /\ h.memsz \in Nat
        /\ h.filesz <= h.memsz /\ h.memsz > 0
    <2>1. k \in 1 .. Headers
      BY DEF Loads
    <2>2. QED
      BY <2>1, ElfFacts
  <1>2. c \in OpType /\ f \in OpType
    BY <1>1 DEF Copy, Fill, OpType
  <1>3. CASE h.filesz > 0 /\ h.filesz < h.memsz
    <2>1. OpsOf(h) = <<c>> \o <<f>>
      BY <1>3 DEF OpsOf
    <2> HIDE DEF c, f
    <2>2. OpOf(c, k) /\ OpOf(f, k)
      BY <1>3 DEF OpOf, c, f
    <2> DEFINE cf == <<c>> \o <<f>>
    <2>3. /\ <<c>> \in Seq(OpType) /\ Len(<<c>>) = 1 /\ <<c>>[1] = c
          /\ <<f>> \in Seq(OpType) /\ Len(<<f>>) = 1 /\ <<f>>[1] = f
      BY <1>2
    <2>4. cf \in Seq(OpType) /\ Len(cf) = 2 /\ cf[1] = c /\ cf[2] = f
      BY <2>3, ConcatProperties
    <2> HIDE DEF cf
    <2>5. \A m \in 1 .. 2 : cf[m] = c \/ cf[m] = f
      BY <2>4
    <2>6. Has(cf, c) /\ Has(cf, f)
      BY <2>4 DEF Has
    <2>7. \A m \in 1 .. 2 : OpOf(cf[m], k)
      BY <2>2, <2>5
    <2>8. Len(cf) >= 1
      BY <2>4
    <2>9. OpsOf(h) = cf
      BY <2>1 DEF cf
    <2>10. QED
      BY <2>4, <2>6, <2>7, <2>8, <2>9, Zenon DEF c, f
  <1>4. CASE h.filesz > 0 /\ ~(h.filesz < h.memsz)
    <2>1. OpsOf(h) = <<c>> \o <<>>
      BY <1>4 DEF OpsOf
    <2> HIDE DEF c, f
    <2>2. OpsOf(h) = <<c>> /\ OpOf(c, k)
      BY <1>2, <1>4, <2>1 DEF OpOf, c
    <2>3. <<c>> \in Seq(OpType) /\ Len(<<c>>) = 1 /\ <<c>>[1] = c
      BY <1>2
    <2>4. Has(<<c>>, c)
      BY <2>3 DEF Has
    <2>5. \A m \in 1 .. 1 : OpOf(<<c>>[m], k)
      BY <2>2, <2>3
    <2>6. Len(<<c>>) >= 1
      BY <2>3
    <2>7. QED
      BY <1>4, <2>2, <2>3, <2>4, <2>5, <2>6, Zenon DEF c, f
  <1>5. CASE ~(h.filesz > 0)
    <2>1. h.filesz < h.memsz
      BY <1>1, <1>5
    <2>2. OpsOf(h) = <<>> \o <<f>>
      BY <1>5, <2>1 DEF OpsOf
    <2> HIDE DEF c, f
    <2>3. OpsOf(h) = <<f>> /\ OpOf(f, k)
      BY <1>2, <2>1, <2>2 DEF OpOf, f
    <2>4. <<f>> \in Seq(OpType) /\ Len(<<f>>) = 1 /\ <<f>>[1] = f
      BY <1>2
    <2>5. Has(<<f>>, f)
      BY <2>4 DEF Has
    <2>6. \A m \in 1 .. 1 : OpOf(<<f>>[m], k)
      BY <2>3, <2>4
    <2>7. Len(<<f>>) >= 1
      BY <2>4
    <2>8. QED
      BY <1>5, <2>3, <2>4, <2>5, <2>6, <2>7, Zenon DEF c, f
  <1>6. QED
    BY <1>3, <1>4, <1>5

LEMMA ElfRegisterOps == ElfInv /\ RegisterOps => ElfInv'
  <1> SUFFICES ASSUME ElfInv, RegisterOps PROVE ElfInv'
    OBVIOUS
  <1> DEFINE n == i - 1
             h == elf.phdrs[i]
             new == IF elf.phdrs[i].load THEN OpsOf(h) ELSE <<>>
             all == loader_ops \o new
  <1>1. /\ phase = "ops" /\ i' = i + 1 /\ i <= Headers
        /\ elf' = elf /\ memory_map' = memory_map /\ elf_alloc' = elf_alloc
        /\ boot_alloc' = boot_alloc /\ entry' = entry /\ mem' = mem
        /\ Len(all) <= ELF_MAX_SEGMENTS =>
             loader_ops' = SubSeq(all, 1, Len(all)) /\ phase' = "ops"
        /\ ~(Len(all) <= ELF_MAX_SEGMENTS) =>
             loader_ops' = SubSeq(all, 1, ELF_MAX_SEGMENTS) /\ phase' = "failed"
    BY DEF RegisterOps, Load, Headers
  <1>2. /\ Headers \in Nat /\ i \in 1 .. Headers /\ n \in Nat /\ i = n + 1 /\ i' - 1 = n + 1
        /\ ELF_MAX_SEGMENTS \in Nat /\ elf_alloc \in Nat /\ elf \in Elfs
    <2>1. elf_alloc \in Nat /\ elf \in Elfs
      BY DEF ElfInv, TypeOK
    <2>2. Headers \in Nat
      BY <2>1, ElfFacts
    <2>3. i \in 1 .. Headers + 1
      BY <1>1 DEF ElfInv, OpsInv
    <2>4. QED
      BY <1>1, <2>1, <2>2, <2>3, MemoryAssumption
  <1>3. /\ loader_ops \in Seq(OpType) /\ Len(loader_ops) \in Nat
        /\ ElfRange.end <= MemHi /\ Has(memory_map, ElfRange)
        /\ Few => \A k \in Loads(Headers) :
                     Has(memory_map, Seg(k)) /\ Disjoint(ElfRange, Seg(k))
        /\ OpsFrom(n) /\ Cardinality(Loads(n)) <= Len(loader_ops)
    BY <1>1, LenProperties DEF ElfInv, TypeOK, OpsInv, OpType
  <1>4. /\ Headers' = Headers /\ (Few <=> Few')
        /\ \A m : Loads(m)' = Loads(m) /\ \A k : Seg(k)' = Seg(k)
    BY <1>1, SameFile
  <1> HIDE DEF n
  <1>5. /\ new \in Seq(OpType) /\ Len(new) \in Nat
        /\ h.load => /\ Len(new) >= 1
                     /\ \A m \in 1 .. Len(new) : OpOf(new[m], i)
                     /\ h.filesz > 0 => Has(new, Copy(h))
                     /\ h.filesz < h.memsz => Has(new, Fill(h))
        /\ ~h.load => Len(new) = 0
    <2>1. CASE h.load
      <3>1. i \in Loads(Headers)
        BY <1>2, <2>1 DEF Loads
      <3>2. new = OpsOf(elf.phdrs[i])
        BY <2>1
      <3>3. QED
        BY <1>2, <2>1, <3>1, <3>2, OpsOfFacts, LenProperties
    <2>2. CASE ~h.load
      <3>1. new = <<>>
        BY <2>2
      <3>2. QED
        BY <2>2, <3>1
    <2>3. QED
      BY <2>1, <2>2
  <1> HIDE DEF new
  <1>6. /\ all \in Seq(OpType) /\ Len(all) = Len(loader_ops) + Len(new)
        /\ \A x : Has(loader_ops, x) \/ Has(new, x) => Has(all, x)
        /\ \A m \in 1 .. Len(all) : Has(loader_ops, all[m]) \/ Has(new, all[m])
    BY <1>3, <1>5, ConcatProperties, HasConcat
  <1> HIDE DEF all
  <1>7. loader_ops' \in Seq(OpType) /\ (Len(all) <= ELF_MAX_SEGMENTS => loader_ops' = all)
    <2>1. CASE Len(all) <= ELF_MAX_SEGMENTS
      BY <1>1, <1>6, <2>1, SubSeqFull
    <2>2. CASE ~(Len(all) <= ELF_MAX_SEGMENTS)
      <3>1. \A m \in 1 .. ELF_MAX_SEGMENTS : all[m] \in OpType
        <4>1. \A m \in 1 .. Len(all) : all[m] \in OpType
          BY <1>6, ElementOfSeq
        <4>2. QED
          BY <1>2, <1>3, <1>5, <1>6, <2>2, <4>1
      <3>2. QED
        BY <1>1, <1>2, <2>2, <3>1, SubSeqProperties
    <2>3. QED
      BY <2>1, <2>2
  <1>8. TypeOK' /\ (elf \in Elfs)'
    BY <1>1, <1>2, <1>7 DEF ElfInv, TypeOK, OpType
  <1>9. MapInv'
    BY <1>1 DEF ElfInv, MapInv, MapSorted
  <1>10. ClaimInv' /\ PlacedInv'
    BY <1>1 DEF ClaimInv, PlacedInv
  <1>11. MemInv'
    BY <1>1 DEF ElfInv, MemInv, FileAt
  <1>12. OpsInv'
    <2>1. CASE ~(Len(all) <= ELF_MAX_SEGMENTS)
      BY <1>1, <2>1 DEF OpsInv
    <2>2. CASE Len(all) <= ELF_MAX_SEGMENTS
      <3>1. loader_ops' = all /\ phase' = "ops"
        BY <1>1, <1>7, <2>2
      <3>2. /\ h.load => /\ Loads(n + 1) = Loads(n) \cup {i}
                         /\ Cardinality(Loads(n + 1)) = Cardinality(Loads(n)) + 1
            /\ ~h.load => Loads(n + 1) = Loads(n)
            /\ Cardinality(Loads(n)) \in Nat
            /\ Loads(n) \subseteq Loads(n + 1)
        <4>1. Loads(n) \subseteq Loads(n + 1)
          BY <1>2 DEF Loads
        <4>2. QED
          BY <1>2, <4>1, LoadsStep
      <3>3. ASSUME NEW m \in 1 .. Len(all)
            PROVE  \E k \in Loads(n + 1) : OpOf(all[m], k)
        <4>1. CASE Has(loader_ops, all[m])
          <5>1. PICK l \in 1 .. Len(loader_ops) : loader_ops[l] = all[m]
            BY <4>1 DEF Has
          <5>2. PICK k \in Loads(n) : OpOf(loader_ops[l], k)
            BY <1>3 DEF OpsFrom
          <5>3. QED
            BY <3>2, <5>1, <5>2
        <4>2. CASE Has(new, all[m])
          <5>1. PICK l \in 1 .. Len(new) : new[l] = all[m]
            BY <4>2 DEF Has
          <5>2. h.load
            BY <1>5, <5>1
          <5>3. QED
            BY <1>5, <3>2, <5>1, <5>2
        <4>3. QED
          BY <1>6, <4>1, <4>2
      <3>4. ASSUME NEW k \in Loads(n + 1)
            PROVE  /\ elf.phdrs[k].filesz > 0 => Has(all, Copy(elf.phdrs[k]))
                   /\ elf.phdrs[k].filesz < elf.phdrs[k].memsz => Has(all, Fill(elf.phdrs[k]))
        <4>1. CASE k \in Loads(n)
          BY <1>3, <1>6, <4>1 DEF OpsFrom
        <4>2. CASE k = i /\ h.load
          BY <1>5, <1>6, <4>2
        <4>3. QED
          BY <3>2, <4>1, <4>2
      <3>5. Loads(i - 1)' = Loads(n + 1)
        BY <1>1, <1>2 DEF Loads
      <3>6. OpsFrom(i - 1)'
        <4>1. \A m, k : OpOf(loader_ops[m], k)' <=> OpOf(all[m], k)
          BY <1>1, <3>1 DEF OpOf, Copy, Fill
        <4>2. \A k : /\ Copy(elf.phdrs[k])' = Copy(elf.phdrs[k])
                     /\ Fill(elf.phdrs[k])' = Fill(elf.phdrs[k])
          BY <1>1 DEF Copy, Fill
        <4>3. \A m \in 1 .. Len(loader_ops') : \E k \in Loads(i - 1)' : OpOf(loader_ops[m], k)'
          BY <3>1, <3>3, <3>5, <4>1, Zenon
        <4>4. ASSUME NEW k \in Loads(i - 1)'
              PROVE  /\ elf'.phdrs[k].filesz > 0 => Has(loader_ops', Copy(elf.phdrs[k])')
                     /\ elf'.phdrs[k].filesz < elf'.phdrs[k].memsz =>
                          Has(loader_ops', Fill(elf.phdrs[k])')
          BY <1>1, <3>1, <3>4, <3>5, <4>2
        <4>5. QED
          BY <4>3, <4>4, Zenon DEF OpsFrom, OpOf, Has
      <3>7. Cardinality(Loads(n + 1)) <= Len(all)
        BY <1>2, <1>3, <1>5, <1>6, <3>2
      <3>8. ElfRange' = ElfRange /\ memory_map' = memory_map
        BY <1>1 DEF ElfRange
      <3>9. Few' => \A k \in Loads(Headers)' :
                      Has(memory_map, Seg(k)') /\ Disjoint(ElfRange, Seg(k)')
        BY <1>3, <1>4
      <3>10. i' \in 1 .. Headers + 1 /\ Len(loader_ops') <= ELF_MAX_SEGMENTS
        BY <1>1, <1>2, <2>2, <3>1
      <3>11. Cardinality(Loads(i - 1))' <= Len(loader_ops')
        BY <3>1, <3>5, <3>7
      <3>12. QED
        BY <1>3, <1>4, <3>6, <3>8, <3>9, <3>10, <3>11 DEF OpsInv, Has, Disjoint
    <2>3. QED
      BY <2>1, <2>2
  <1>13. QED
    BY <1>8, <1>9, <1>10, <1>11, <1>12 DEF ElfInv

LEMMA ElfPlaceTrampoline == ElfInv /\ PlaceTrampoline => ElfInv'
  <1> SUFFICES ASSUME ElfInv, PlaceTrampoline PROVE ElfInv'
    OBVIOUS
  <1> DEFINE p == boot_alloc'
             r == range(p, TrampSize)
             below == range(0, ProgStart)
             above == [start |-> ProgEnd, end |-> MemHi]
             low == allocate_space(memory_map, TrampSize, below)
             high == allocate_space(memory_map, TrampSize, above)
  <1>1. /\ phase = "ops" /\ i > Headers /\ i' = i
        /\ elf' = elf /\ elf_alloc' = elf_alloc /\ loader_ops' = loader_ops
        /\ p = IF low # UINTPTR_MAX THEN low ELSE high
        /\ \/ /\ p = UINTPTR_MAX /\ phase' = "failed"
              /\ memory_map' = memory_map /\ mem' = mem /\ entry' = entry
           \/ /\ p # UINTPTR_MAX /\ phase' = "loaded"
              /\ memory_map' = Insert(memory_map, r)
              /\ mem' = [a \in Addr |-> IF p <= a /\ a < p + TrampSize THEN Tramp ELSE mem[a]]
              /\ entry' = mem'[ProgEnd]
    BY DEF PlaceTrampoline, BootSpace, Headers
  <1>2. /\ Headers \in Nat /\ i - 1 = Headers /\ elf.size \in Nat \ {0}
        /\ elf \in Elfs /\ elf_alloc \in Nat
        /\ ELF_MAX_SEGMENTS \in Nat /\ MemHi \in Nat /\ TrampSize \in Nat \ {0}
        /\ ProgStart \in Nat /\ ProgEnd \in Nat /\ ProgStart < ProgEnd
        /\ ProgEnd + elf.size <= MemHi
    <2>1. Headers \in Nat /\ i \in 1 .. Headers + 1
      BY <1>1, ElfFacts DEF ElfInv, OpsInv
    <2>2. i - 1 = Headers
      BY <1>1, <2>1
    <2>3. elf \in Elfs /\ elf_alloc \in Nat
      BY DEF ElfInv, TypeOK
    <2>4. QED
      BY <2>1, <2>2, <2>3, ElfFacts, MemoryAssumption
  <1>3. /\ memory_map \in Seq(Extent) /\ Laid(memory_map) /\ Len(memory_map) \in Nat
        /\ Len(memory_map) <= ELF_MAX_SEGMENTS + 1
        /\ Cardinality(Loads(Headers)) <= Len(loader_ops)
        /\ Len(loader_ops) <= ELF_MAX_SEGMENTS /\ Len(loader_ops) \in Nat
        /\ ElfRange.end <= MemHi /\ Has(memory_map, ElfRange) /\ OpsFrom(Headers)
        /\ FileAt(ProgEnd) /\ mem \in [Addr -> Int]
    BY <1>1, <1>2, LenProperties DEF ElfInv, TypeOK, Extent, MapInv, OpsInv, MemInv
  <1>4. /\ Headers' = Headers /\ (Few <=> Few')
        /\ \A m : Loads(m)' = Loads(m) /\ \A k : Seg(k)' = Seg(k)
    BY <1>1, SameFile
  <1>5. Few
    <2>1. Cardinality(Loads(Headers)) \in Nat
      BY <1>2, LoadsStep
    <2>2. QED
      BY <1>2, <1>3, <2>1 DEF Few
  <1>6. /\ below \in Extent /\ below.start = 0
        /\ above \in Extent /\ above.start = ProgEnd /\ above.start < AddrMod
    BY <1>2, MemoryAssumption DEF Extent, range
  <1> HIDE DEF below, above
  <1>7. low # UINTPTR_MAX => low \in Nat /\ Clear(memory_map, low, TrampSize)
    BY <1>2, <1>3, <1>6, AllocateClear
  <1>8. high \in Nat /\ ProgEnd <= high
    <2>1. \A n \in 1 .. Len(memory_map) : memory_map[n].start < memory_map[n].end
      BY <1>3 DEF Laid
    <2>2. QED
      BY <1>2, <1>3, <1>6, <2>1, AllocateAbove
  <1>9. /\ p \in Nat
        /\ p + TrampSize <= ProgStart => Clear(memory_map, p, TrampSize)
    <2>1. CASE low # UINTPTR_MAX
      BY <1>1, <1>7, <2>1
    <2>2. CASE low = UINTPTR_MAX
      <3>1. p = high
        BY <1>1, <2>2
      <3>2. ~(p + TrampSize <= ProgStart)
        BY <1>2, <1>8, <3>1
      <3>3. QED
        BY <1>8, <3>1, <3>2
    <2>3. QED
      BY <2>1, <2>2
  <1> HIDE DEF low, high
  <1>10. ClaimInv' /\ OpsInv'
    BY <1>1 DEF ClaimInv, OpsInv
  <1>11. CASE p = UINTPTR_MAX
    <2>1. /\ phase' = "failed" /\ memory_map' = memory_map
          /\ mem' = mem /\ entry' = entry
      BY <1>1, <1>11
    <2>2. TypeOK' /\ (elf \in Elfs)'
      BY <1>1, <1>9, <2>1 DEF ElfInv, TypeOK
    <2>3. MapInv'
      BY <2>1 DEF ElfInv, MapInv, MapSorted
    <2>4. PlacedInv' /\ MemInv'
      BY <2>1 DEF PlacedInv, MemInv
    <2>5. QED
      BY <1>10, <2>2, <2>3, <2>4 DEF ElfInv
  <1>12. CASE p # UINTPTR_MAX
    <2>1. /\ phase' = "loaded" /\ memory_map' = Insert(memory_map, r)
          /\ mem' = [a \in Addr |-> IF p <= a /\ a < p + TrampSize THEN Tramp ELSE mem[a]]
          /\ entry' = mem'[ProgEnd]
      BY <1>1, <1>12
    <2> HIDE DEF p
    <2>2. r \in Extent /\ r.start = p /\ r.end = p + TrampSize
      BY <1>2, <1>9 DEF range, Extent
    <2>3. BootRange' = r /\ ElfRange' = ElfRange
      BY <1>1 DEF BootRange, ElfRange, p
    <2> HIDE DEF r
    <2>4. memory_map' \in Seq(Extent) /\ Len(memory_map') = Len(memory_map) + 1
      BY <1>3, <2>1, <2>2, InsertAt
    <2>5. mem' \in [Addr -> Int] /\ ProgEnd \in Addr
      BY <1>2, <1>3, <2>1 DEF Tramp, Addr
    <2>6. TypeOK' /\ (elf \in Elfs)'
      BY <1>1, <1>2, <1>9, <2>1, <2>4, <2>5 DEF ElfInv, TypeOK, Extent, p
    <2>7. MapInv'
      <3>1. Sorted(memory_map)
        BY <1>3, LaidSorted
      <3>2. Sorted(memory_map')
        BY <1>3, <2>1, <2>2, <3>1, InsertSorted
      <3>3. MapSorted'
        <4>1. Len(memory_map') <= ELF_MAX_SEGMENTS + 2
          BY <1>2, <1>3, <2>4
        <4>2. QED
          BY <3>2, <4>1 DEF MapSorted, Sorted
      <3>4. QED
        BY <2>1, <3>3 DEF MapInv
    <2>8. PlacedInv'
      <3>1. OpsFrom(Headers)'
        BY <1>1, <1>3, <1>4, SameOps DEF OpsFrom, OpOf, Has, Copy, Fill
      <3>2. \A k \in Loads(Headers) : Has(memory_map, Seg(k)) /\ Disjoint(ElfRange, Seg(k))
        BY <1>1, <1>5 DEF ElfInv, OpsInv
      <3>3. ASSUME Low', NEW q, Has(memory_map, q) PROVE Disjoint(r, q)
        <4>1. Clear(memory_map, p, TrampSize)
          BY <1>2, <1>9, <2>2, <2>3, <3>3 DEF Low
        <4>2. PICK m \in 1 .. Len(memory_map) : memory_map[m] = q
          BY <3>3 DEF Has
        <4>3. QED
          BY <2>2, <4>1, <4>2 DEF Clear, Disjoint
      <3>4. Low' => /\ Disjoint(r, ElfRange)
                    /\ \A k \in Loads(Headers)' : Disjoint(r, Seg(k)')
        BY <1>3, <1>4, <3>2, <3>3
      <3>5. \A k \in Loads(Headers)' : Disjoint(ElfRange, Seg(k)')
        BY <1>4, <3>2
      <3>6. QED
        BY <1>3, <2>1, <2>3, <3>1, <3>4, <3>5 DEF PlacedInv, Disjoint
    <2>9. MemInv'
      <3>1. ASSUME Low' PROVE FileAt(ProgEnd)' /\ entry' = 0
        <4>1. p + TrampSize <= ProgStart
          BY <2>2, <2>3, <3>1 DEF Low
        <4>2. ASSUME NEW k \in 0 .. elf.size - 1 PROVE mem'[ProgEnd + k] = k
          <5>1. ProgEnd + k \in Addr /\ ~(ProgEnd + k < p + TrampSize)
            BY <1>2, <1>9, <4>1 DEF Addr
          <5>2. mem[ProgEnd + k] = k
            BY <1>3 DEF FileAt
          <5>3. QED
            BY <2>1, <5>1, <5>2
        <4>3. FileAt(ProgEnd)'
          BY <1>1, <4>2 DEF FileAt
        <4>4. mem'[ProgEnd + 0] = 0 /\ ProgEnd + 0 = ProgEnd
          BY <1>2, <4>2
        <4>5. QED
          BY <2>1, <4>3, <4>4
      <3>2. QED
        BY <2>1, <3>1 DEF MemInv
    <2>10. QED
      BY <1>10, <2>6, <2>7, <2>8, <2>9 DEF ElfInv
  <1>13. QED
    BY <1>11, <1>12

-----------------------------------------------------------------------------
(* The trampoline *)

\* What main and the trampoline find when they are entered.
LEMMA PlacedFacts ==
    ASSUME ElfInv, phase \in {"loaded", "run", "started"}
    PROVE  /\ elf \in Elfs /\ elf.size \in Nat \ {0} /\ ProgEnd + elf.size <= MemHi
           /\ elf_alloc \in Nat /\ elf_alloc + elf.size <= MemHi
           /\ MemHi \in Nat /\ ProgEnd \in Nat /\ mem \in [Addr -> Int]
           /\ loader_ops \in Seq(OpType) /\ Len(loader_ops) \in Nat
           /\ OpsFrom(Headers)
           /\ \A k \in Loads(Headers) : Disjoint(ElfRange, Seg(k))
  <1>1. elf \in Elfs /\ elf_alloc \in Nat /\ mem \in [Addr -> Int] /\ loader_ops \in Seq(OpType)
    BY DEF ElfInv, TypeOK, OpType
  <1>2. ElfRange.end <= MemHi /\ OpsFrom(Headers) /\ \A k \in Loads(Headers) : Disjoint(ElfRange, Seg(k))
    BY DEF ElfInv, PlacedInv
  <1>3. ElfRange.end = elf_alloc + elf.size
    BY DEF ElfRange, range
  <1>4. QED
    BY <1>1, <1>2, <1>3, ElfFacts, MemoryAssumption, LenProperties

\* A step of the trampoline leaves the plan alone.
LEMMA PlanKept ==
    ASSUME PlacedInv, phase \in {"loaded", "run", "started"},
           phase' \in {"loaded", "run", "started"}, phase' = "run" => i' >= 1,
           elf' = elf, elf_alloc' = elf_alloc, boot_alloc' = boot_alloc,
           loader_ops' = loader_ops
    PROVE  PlacedInv' /\ (Low' <=> Low)
  <1>1. ElfRange' = ElfRange /\ BootRange' = BootRange /\ (Low' <=> Low)
    BY DEF ElfRange, BootRange, Low
  <1>2. /\ Headers' = Headers /\ \A m : Loads(m)' = Loads(m) /\ \A k : Seg(k)' = Seg(k)
    BY SameFile
  <1>3. OpsFrom(Headers)'
    BY <1>2, SameOps DEF PlacedInv, OpsFrom, OpOf, Has, Copy, Fill
  <1>4. /\ \A k \in Loads(Headers)' : Disjoint(ElfRange, Seg(k)')
        /\ Low => \A k \in Loads(Headers)' : Disjoint(BootRange, Seg(k)')
    BY <1>2 DEF PlacedInv
  <1>5. QED
    BY <1>1, <1>3, <1>4 DEF PlacedInv, Disjoint

LEMMA ElfMoveElf == ElfInv /\ MoveElf => ElfInv'
  <1> SUFFICES ASSUME ElfInv, MoveElf PROVE ElfInv'
    OBVIOUS
  <1>1. /\ phase = "loaded" /\ phase' = "run" /\ i' = 1
        /\ elf' = elf /\ memory_map' = memory_map /\ elf_alloc' = elf_alloc
        /\ loader_ops' = loader_ops /\ boot_alloc' = boot_alloc /\ entry' = entry
        /\ mem' = [a \in Addr |-> IF elf_alloc <= a /\ a < elf_alloc + elf.size
                                  THEN mem[ProgEnd + (a - elf_alloc)] ELSE mem[a]]
    BY DEF MoveElf, Moved
  <1>2. /\ elf.size \in Nat /\ ProgEnd + elf.size <= MemHi
        /\ elf_alloc \in Nat /\ elf_alloc + elf.size <= MemHi
        /\ MemHi \in Nat /\ ProgEnd \in Nat /\ mem \in [Addr -> Int]
        /\ Len(loader_ops) \in Nat
    BY <1>1, PlacedFacts
  <1>3. mem' \in [Addr -> Int]
    <2>1. ASSUME NEW a \in Addr PROVE mem'[a] \in Int
      <3>1. CASE elf_alloc <= a /\ a < elf_alloc + elf.size
        <4>1. ProgEnd + (a - elf_alloc) \in Addr
          BY <1>2, <3>1 DEF Addr
        <4>2. QED
          BY <1>1, <1>2, <3>1, <4>1
      <3>2. CASE ~(elf_alloc <= a /\ a < elf_alloc + elf.size)
        BY <1>1, <1>2, <3>2
      <3>3. QED
        BY <3>1, <3>2
    <2>2. QED
      BY <1>1, <2>1
  <1>4. TypeOK' /\ (elf \in Elfs)'
    BY <1>1, <1>3 DEF ElfInv, TypeOK
  <1>5. MapInv' /\ ClaimInv' /\ OpsInv'
    BY <1>1 DEF ElfInv, MapInv, MapSorted, ClaimInv, OpsInv
  <1>6. PlacedInv' /\ (Low' <=> Low)
    BY <1>1, PlanKept DEF ElfInv
  <1>7. MemInv'
    <2>1. ASSUME Low PROVE FileAt(elf_alloc)' /\ entry' = 0
      <3>1. FileAt(ProgEnd) /\ entry = 0
        BY <1>1, <2>1 DEF ElfInv, MemInv
      <3>2. ASSUME NEW k \in 0 .. elf.size - 1 PROVE mem'[elf_alloc + k] = k
        <4>1. /\ elf_alloc + k \in Addr /\ elf_alloc <= elf_alloc + k
              /\ elf_alloc + k < elf_alloc + elf.size /\ (elf_alloc + k) - elf_alloc = k
          BY <1>2 DEF Addr
        <4>2. mem[ProgEnd + k] = k
          BY <3>1 DEF FileAt
        <4>3. QED
          BY <1>1, <4>1, <4>2
      <3>3. QED
        BY <1>1, <3>1, <3>2 DEF FileAt
    <2>2. \A m \in 1 .. Len(loader_ops) : ~(m < i')
      BY <1>1, <1>2
    <2>3. QED
      BY <1>1, <1>6, <2>1, <2>2 DEF MemInv
  <1>8. QED
    BY <1>4, <1>5, <1>6, <1>7 DEF ElfInv

\* An operation writes into its segment, and copies from the file.
LEMMA OpPlace ==
    ASSUME elf \in Elfs, elf_alloc \in Nat, NEW k \in Loads(Headers),
           NEW op, OpOf(op, k)
    PROVE  /\ op.dst \in Nat /\ op.size \in Nat /\ op.src \in Nat
           /\ op.kind \in {"COPY", "ZERO"}
           /\ Seg(k).start <= op.dst /\ op.dst + op.size <= Seg(k).end
           /\ Seg(k).start \in Nat /\ Seg(k).end \in Nat /\ Seg(k).end <= MemHi
           /\ op.kind = "COPY" => elf_alloc <= op.src /\ op.src + op.size <= elf_alloc + elf.size
  <1> DEFINE h == elf.phdrs[k]
  <1>1. /\ h.offset \in Nat /\ h.vaddr \in Nat /\ h.filesz \in Nat /\ h.memsz \in Nat
        /\ h.filesz <= h.memsz /\ h.offset + h.filesz <= elf.size
        /\ h.vaddr + h.memsz <= MemHi /\ elf.size \in Nat
    <2>1. k \in 1 .. Headers
      BY DEF Loads
    <2>2. QED
      BY <2>1, ElfFacts
  <1>2. Seg(k).start = h.vaddr /\ Seg(k).end = h.vaddr + h.memsz
    BY DEF Seg, SegmentRange, range
  <1>3. CASE op = Copy(h)
    <2>1. /\ op.kind = "COPY" /\ op.dst = h.vaddr /\ op.src = elf_alloc + h.offset
          /\ op.size = h.filesz
      BY <1>3 DEF Copy
    <2> HIDE DEF h
    <2>2. QED
      BY <1>1, <1>2, <2>1
  <1>4. CASE op = Fill(h)
    <2>1. /\ op.kind = "ZERO" /\ op.dst = h.vaddr + h.filesz /\ op.src = 0
          /\ op.size = h.memsz - h.filesz
      BY <1>4 DEF Fill
    <2> HIDE DEF h
    <2>2. QED
      BY <1>1, <1>2, <2>1
  <1>5. QED
    BY <1>3, <1>4 DEF OpOf

\* Two different operations write to different memory.
LEMMA OpsApart ==
    ASSUME elf \in Elfs, elf_alloc \in Nat, NEW j \in Loads(Headers), NEW k \in Loads(Headers),
           NEW o, OpOf(o, j), NEW op, OpOf(op, k)
    PROVE  o = op \/ o.dst + o.size <= op.dst \/ op.dst + op.size <= o.dst
  <1>1. CASE j # k
    <2>1. Disjoint(Seg(j), Seg(k))
      BY <1>1, ElfFacts
    <2>2. /\ o.dst \in Nat /\ o.size \in Nat
          /\ Seg(j).start <= o.dst /\ o.dst + o.size <= Seg(j).end
          /\ Seg(j).start \in Nat /\ Seg(j).end \in Nat
      BY OpPlace
    <2>3. /\ op.dst \in Nat /\ op.size \in Nat
          /\ Seg(k).start <= op.dst /\ op.dst + op.size <= Seg(k).end
          /\ Seg(k).start \in Nat /\ Seg(k).end \in Nat
      BY OpPlace
    <2>4. QED
      BY <2>1, <2>2, <2>3 DEF Disjoint
  <1>2. CASE j = k
    <2> DEFINE h == elf.phdrs[k]
    <2>1. h.vaddr \in Nat /\ h.filesz \in Nat /\ h.memsz \in Nat
      <3>1. k \in 1 .. Headers
        BY DEF Loads
      <3>2. QED
        BY <3>1, ElfFacts
    <2>2. /\ Copy(h).dst = h.vaddr /\ Copy(h).size = h.filesz
          /\ Fill(h).dst = h.vaddr + h.filesz
      BY DEF Copy, Fill
    <2>3. (o = Copy(h) \/ o = Fill(h)) /\ (op = Copy(h) \/ op = Fill(h))
      BY <1>2 DEF OpOf
    <2> HIDE DEF h
    <2>4. Copy(h).dst + Copy(h).size <= Fill(h).dst
      BY <2>1, <2>2
    <2>5. QED
      BY <2>3, <2>4
  <1>3. QED
    BY <1>1, <1>2

\* Byte j of n bytes at d, which end at or below hi; apart from m bytes at e;
\* and, when they are copied from a file of z bytes at a, as a byte of the file.
LEMMA ByteIn ==
    ASSUME NEW d \in Nat, NEW n \in Nat, NEW hi \in Nat, d + n <= hi, hi <= MemHi,
           NEW j \in 0 .. n - 1
    PROVE  d + j \in Addr /\ d <= d + j /\ d + j < d + n /\ (d + j) - d = j
  BY MemoryAssumption DEF Addr

LEMMA ByteApart ==
    ASSUME NEW d \in Nat, NEW n \in Nat, NEW e \in Nat, NEW m \in Nat,
           d + n <= e \/ e + m <= d, NEW j \in 0 .. n - 1
    PROVE  ~(e <= d + j /\ d + j < e + m)
  OBVIOUS

LEMMA ByteOfFile ==
    ASSUME NEW a \in Nat, NEW z \in Nat, NEW d \in Nat, NEW n \in Nat,
           a <= d, d + n <= a + z, NEW j \in 0 .. n - 1
    PROVE  (d - a) + j \in 0 .. z - 1 /\ a + ((d - a) + j) = d + j
  OBVIOUS

LEMMA ElfRunOp == ElfInv /\ RunOp => ElfInv'
  <1> SUFFICES ASSUME ElfInv, RunOp PROVE ElfInv'
    OBVIOUS
  <1> DEFINE op == loader_ops[i]
             In(a) == op.dst <= a /\ a < op.dst + op.size
  <1>1. /\ phase = "run" /\ phase' = phase /\ i' = i + 1 /\ i <= Len(loader_ops)
        /\ elf' = elf /\ memory_map' = memory_map /\ elf_alloc' = elf_alloc
        /\ loader_ops' = loader_ops /\ boot_alloc' = boot_alloc /\ entry' = entry
        /\ mem' = IF op.kind = "COPY"
                  THEN [a \in Addr |-> IF In(a) THEN mem[op.src + (a - op.dst)] ELSE mem[a]]
                  ELSE [a \in Addr |-> IF In(a) THEN Zero ELSE mem[a]]
    BY DEF RunOp, Moved
  <1>2. /\ elf \in Elfs /\ elf.size \in Nat
        /\ elf_alloc \in Nat /\ elf_alloc + elf.size <= MemHi
        /\ MemHi \in Nat /\ elf_alloc + elf.size \in Nat
    BY <1>1, PlacedFacts
  <1>3. /\ mem \in [Addr -> Int] /\ Len(loader_ops) \in Nat /\ OpsFrom(Headers)
        /\ \A k \in Loads(Headers) : Disjoint(ElfRange, Seg(k))
    BY <1>1, PlacedFacts
  <1>4. i \in 1 .. Len(loader_ops) /\ i \in Nat
    BY <1>1, <1>3 DEF ElfInv, TypeOK, PlacedInv
  <1>5. PICK k \in Loads(Headers) : OpOf(op, k)
    BY <1>3, <1>4 DEF OpsFrom
  <1> HIDE DEF op
  <1>6. /\ op.dst \in Nat /\ op.size \in Nat /\ op.src \in Nat /\ op.kind \in {"COPY", "ZERO"}
        /\ Seg(k).start <= op.dst /\ op.dst + op.size <= Seg(k).end
        /\ Seg(k).start \in Nat /\ Seg(k).end \in Nat /\ Seg(k).end <= MemHi
        /\ op.kind = "COPY" => elf_alloc <= op.src /\ op.src + op.size <= elf_alloc + elf.size
    BY <1>2, <1>5, OpPlace
  <1>7. \A a \in Addr : ~In(a) => mem'[a] = mem[a]
    BY <1>1
  <1>8. mem' \in [Addr -> Int]
    <2>1. CASE op.kind = "COPY"
      <3>1. ASSUME NEW a \in Addr PROVE mem'[a] \in Int
        <4>1. CASE In(a)
          <5>1. op.src + (a - op.dst) \in Addr
            <6>1. /\ op.src + op.size <= elf_alloc + elf.size
                  /\ elf_alloc + elf.size \in Nat /\ a \in Int
              BY <1>2, <1>6, <2>1 DEF Addr
            <6>2. a - op.dst \in 0 .. op.size - 1
              BY <1>6, <4>1, <6>1
            <6>3. QED
              BY <1>2, <1>6, <6>1, <6>2, ByteIn
          <5>2. QED
            BY <1>1, <1>3, <2>1, <4>1, <5>1
        <4>2. CASE ~In(a)
          BY <1>3, <1>7, <4>2
        <4>3. QED
          BY <4>1, <4>2
      <3>2. QED
        BY <1>1, <2>1, <3>1
    <2>2. CASE op.kind # "COPY"
      BY <1>1, <1>3, <2>2 DEF Zero
    <2>3. QED
      BY <2>1, <2>2
  <1>9. TypeOK' /\ (elf \in Elfs)'
    BY <1>1, <1>4, <1>8 DEF ElfInv, TypeOK
  <1>10. MapInv' /\ ClaimInv' /\ OpsInv'
    BY <1>1 DEF ElfInv, MapInv, MapSorted, ClaimInv, OpsInv
  <1>11. PlacedInv' /\ (Low' <=> Low)
    BY <1>1, <1>4, PlanKept DEF ElfInv
  <1>12. ASSUME Low PROVE /\ FileAt(elf_alloc)' /\ entry' = 0
                         /\ \A m \in 1 .. Len(loader_ops) : m < i' => Done(loader_ops[m])'
    <2>1. /\ FileAt(elf_alloc) /\ entry = 0
          /\ \A m \in 1 .. Len(loader_ops) : m < i => Done(loader_ops[m])
      BY <1>1, <1>12 DEF ElfInv, MemInv
    <2>2. FileAt(elf_alloc)'
      <3>1. ASSUME NEW j \in 0 .. elf.size - 1 PROVE mem'[elf_alloc + j] = j
        <4>1. elf_alloc + elf.size <= Seg(k).start \/ Seg(k).end <= elf_alloc
          BY <1>3 DEF Disjoint, ElfRange, range
        <4>2. elf_alloc + j \in Addr /\ ~In(elf_alloc + j)
          <5>1. elf_alloc + elf.size <= op.dst \/ op.dst + op.size <= elf_alloc
            BY <1>2, <1>6, <4>1
          <5>2. elf_alloc + j \in Addr
            BY <1>2 DEF Addr
          <5>3. ~In(elf_alloc + j)
            BY <1>2, <1>6, <5>1, ByteApart
          <5>4. QED
            BY <5>2, <5>3
        <4>3. mem[elf_alloc + j] = j
          BY <2>1 DEF FileAt
        <4>4. QED
          BY <1>7, <4>2, <4>3
      <3>2. QED
        BY <1>1, <3>1 DEF FileAt
    <2>3. ASSUME NEW j \in 0 .. op.size - 1
          PROVE  mem'[op.dst + j] = IF op.kind = "COPY" THEN (op.src - elf_alloc) + j ELSE Zero
      <3>1. /\ op.dst + j \in Addr /\ In(op.dst + j)
            /\ op.src + ((op.dst + j) - op.dst) = op.src + j
        BY <1>6, ByteIn
      <3>2. CASE op.kind = "COPY"
        <4>1. elf_alloc <= op.src /\ op.src + op.size <= elf_alloc + elf.size
          BY <1>6, <3>2
        <4>2. /\ (op.src - elf_alloc) + j \in 0 .. elf.size - 1
              /\ elf_alloc + ((op.src - elf_alloc) + j) = op.src + j
          BY <1>2, <1>6, <4>1, ByteOfFile
        <4>3. mem[elf_alloc + ((op.src - elf_alloc) + j)] = (op.src - elf_alloc) + j
          BY <2>1, <4>2 DEF FileAt
        <4>4. mem[op.src + j] = (op.src - elf_alloc) + j
          BY <4>2, <4>3
        <4>5. mem'[op.dst + j] = mem[op.src + j]
          BY <1>1, <3>1, <3>2
        <4>6. QED
          BY <3>2, <4>4, <4>5
      <3>3. CASE op.kind # "COPY"
        BY <1>1, <3>1, <3>3
      <3>4. QED
        BY <3>2, <3>3
    <2>4. ASSUME NEW m \in 1 .. Len(loader_ops), m < i'
          PROVE  \A j \in 0 .. loader_ops[m].size - 1 :
                   mem'[loader_ops[m].dst + j] =
                     IF loader_ops[m].kind = "COPY"
                     THEN (loader_ops[m].src - elf_alloc) + j ELSE Zero
      <3> DEFINE o == loader_ops[m]
      <3>1. CASE o = op
        BY <2>3, <3>1
      <3>2. CASE o # op
        <4>1. m < i
          <5>1. m # i
            BY <3>2 DEF op
          <5>2. QED
            BY <1>1, <1>4, <2>4, <5>1
        <4>2. PICK l \in Loads(Headers) : OpOf(o, l)
          BY <1>3 DEF OpsFrom
        <4>3. Done(o)
          BY <2>1, <4>1
        <4> HIDE DEF o
        <4>4. o.dst + o.size <= op.dst \/ op.dst + op.size <= o.dst
          BY <1>2, <1>5, <3>2, <4>2, OpsApart
        <4>5. /\ o.dst \in Nat /\ o.size \in Nat
              /\ o.dst + o.size <= Seg(l).end /\ Seg(l).end <= MemHi /\ Seg(l).end \in Nat
          BY <1>2, <4>2, OpPlace
        <4>6. ASSUME NEW j \in 0 .. o.size - 1 PROVE mem'[o.dst + j] = mem[o.dst + j]
          <5>1. o.dst + j \in Addr /\ ~In(o.dst + j)
            <6>1. o.dst + j \in Addr
              BY <4>5, ByteIn
            <6>2. ~In(o.dst + j)
              BY <1>6, <4>4, <4>5, ByteApart
            <6>3. QED
              BY <6>1, <6>2
          <5>2. QED
            BY <1>7, <5>1
        <4>7. \A j \in 0 .. o.size - 1 :
                mem'[o.dst + j] = IF o.kind = "COPY" THEN (o.src - elf_alloc) + j ELSE Zero
          BY <4>3, <4>6 DEF Done
        <4>8. QED
          BY <4>7 DEF o
      <3>3. QED
        BY <3>1, <3>2
    <2>5. \A m \in 1 .. Len(loader_ops) : m < i' => Done(loader_ops[m])'
      BY <1>1, <2>4 DEF Done
    <2>6. QED
      BY <1>1, <2>1, <2>2, <2>5
  <1>13. MemInv'
    BY <1>1, <1>11, <1>12 DEF MemInv
  <1>14. QED
    BY <1>9, <1>10, <1>11, <1>13 DEF ElfInv

LEMMA ElfStart == ElfInv /\ Start => ElfInv'
  <1> SUFFICES ASSUME ElfInv, Start PROVE ElfInv'
    OBVIOUS
  <1>1. /\ phase = "run" /\ phase' = "started" /\ i' = i /\ i > Len(loader_ops)
        /\ elf' = elf /\ memory_map' = memory_map /\ elf_alloc' = elf_alloc
        /\ loader_ops' = loader_ops /\ boot_alloc' = boot_alloc /\ entry' = entry
        /\ mem' = mem
    BY DEF Start
  <1>2. TypeOK' /\ (elf \in Elfs)'
    BY <1>1 DEF ElfInv, TypeOK
  <1>3. MapInv' /\ ClaimInv' /\ OpsInv'
    BY <1>1 DEF ElfInv, MapInv, MapSorted, ClaimInv, OpsInv
  <1>4. PlacedInv' /\ (Low' <=> Low)
    BY <1>1, PlanKept DEF ElfInv
  <1>5. MemInv'
    <2>1. Len(loader_ops) \in Nat /\ i \in Nat
      BY <1>1, PlacedFacts DEF ElfInv, TypeOK
    <2>2. \A m \in 1 .. Len(loader_ops) : m < i
      BY <1>1, <2>1
    <2>3. ASSUME Low
          PROVE  /\ FileAt(elf_alloc) /\ entry = 0
                 /\ \A m \in 1 .. Len(loader_ops) : Done(loader_ops[m])
      BY <1>1, <2>2, <2>3 DEF ElfInv, MemInv
    <2>4. QED
      BY <1>1, <1>4, <2>3 DEF MemInv, FileAt, Done
  <1>6. QED
    BY <1>2, <1>3, <1>4, <1>5 DEF ElfInv

-----------------------------------------------------------------------------
(* The theorems *)

LEMMA ElfStutter == ElfInv /\ UNCHANGED vars => ElfInv'
  <1> SUFFICES ASSUME ElfInv, UNCHANGED vars PROVE ElfInv'
    OBVIOUS
  <1>1. /\ phase' = phase /\ elf' = elf /\ i' = i /\ memory_map' = memory_map
        /\ elf_alloc' = elf_alloc /\ loader_ops' = loader_ops /\ boot_alloc' = boot_alloc
        /\ entry' = entry /\ mem' = mem
    BY DEF vars
  <1>2. TypeOK' /\ (elf \in Elfs)' /\ MapInv'
    BY <1>1 DEF ElfInv, TypeOK, MapInv, MapSorted
  <1>3. ClaimInv'
    BY <1>1 DEF ElfInv, ClaimInv, Headers, Loads, Seg, SegmentRange, range, Has
  <1>4. OpsInv' /\ PlacedInv'
    BY <1>1 DEF ElfInv, OpsInv, PlacedInv, Headers, Loads, Seg, SegmentRange, range, Has,
                Few, ElfRange, BootRange, Low, Disjoint, OpsFrom, OpOf, Copy, Fill
  <1>5. MemInv'
    BY <1>1 DEF ElfInv, MemInv, FileAt, Done, Low, BootRange, range
  <1>6. QED
    BY <1>2, <1>3, <1>4, <1>5 DEF ElfInv

LEMMA ElfInvariant == Spec => []ElfInv
  <1>1. Init => ElfInv
    BY ElfInit
  <1>2. ElfInv /\ [Next]_vars => ElfInv'
    BY ElfValidate, ElfClaimSegment, ElfAllocateElf, ElfRegisterOps, ElfPlaceTrampoline,
       ElfMoveElf, ElfRunOp, ElfStart, ElfStutter DEF Next
  <1>3. QED
    BY <1>1, <1>2, PTL DEF Spec

\* load_elf_image and the trampoline only compute addresses, sizes and contents
\* of the right kind; no copy reads outside memory.
THEOREM TypeCorrect == Spec => []TypeOK
  <1>1. ElfInv => TypeOK
    BY DEF ElfInv
  <1>2. QED
    BY <1>1, ElfInvariant, PTL

\* claim_space keeps the memory map sorted and never writes behind the array,
\* for every number and every order of segments.
THEOREM MapStaysSorted == Spec => []MapSorted
  <1>1. ElfInv => MapSorted
    BY DEF ElfInv, MapInv
  <1>2. QED
    BY <1>1, ElfInvariant, PTL

\* The places allocate_space found for the file and, below the boot loader, for
\* the trampoline touch nothing that is still needed, though claim_space drops
\* segments when the map is full.
THEOREM PlacesAreClear == Spec => []PlacesClear
  <1>1. ElfInv => PlacesClear
    <2> SUFFICES ASSUME ElfInv, phase \in {"loaded", "run", "started"}
                 PROVE  /\ ElfRange.end <= MemHi
                        /\ \A h \in Segments : Disjoint(ElfRange, SegmentRange(h))
                        /\ Low => /\ Disjoint(BootRange, ElfRange)
                                  /\ \A h \in Segments : Disjoint(BootRange, SegmentRange(h))
      BY DEF PlacesClear
    <2>1. \A h \in Segments : \E k \in Loads(Headers) : SegmentRange(h) = Seg(k)
      BY DEF Segments, Loads, Headers, Seg
    <2>2. /\ ElfRange.end <= MemHi
          /\ \A k \in Loads(Headers) : Disjoint(ElfRange, Seg(k))
          /\ Low => /\ Disjoint(BootRange, ElfRange)
                    /\ \A k \in Loads(Headers) : Disjoint(BootRange, Seg(k))
      BY DEF ElfInv, PlacedInv
    <2>3. QED
      BY <2>1, <2>2
  <1>2. QED
    BY <1>1, ElfInvariant, PTL

\* With the trampoline below the boot loader, a program is started with every
\* segment, its zero fill, its own file and its entry point in place, wherever
\* its segments overlap the boot loader or the file they are copied from.
THEOREM LowIsDelivered == Spec => []LowDelivers
  <1>1. ElfInv => LowDelivers
    <2> SUFFICES ASSUME ElfInv, phase = "started", Low PROVE Delivered
      BY DEF LowDelivers
    <2>1. /\ FileAt(elf_alloc) /\ entry = 0
          /\ \A m \in 1 .. Len(loader_ops) : Done(loader_ops[m])
      BY DEF ElfInv, MemInv
    <2>2. OpsFrom(Headers) /\ elf \in Elfs /\ elf_alloc \in Nat
      BY PlacedFacts
    <2>3. ASSUME NEW n \in Loads(Headers), NEW k \in 0 .. elf.phdrs[n].memsz - 1
          PROVE  mem[elf.phdrs[n].vaddr + k] =
                   IF k < elf.phdrs[n].filesz THEN elf.phdrs[n].offset + k ELSE Zero
      <3> DEFINE h == elf.phdrs[n]
      <3>1. h.offset \in Nat /\ h.vaddr \in Nat /\ h.filesz \in Nat /\ h.memsz \in Nat
        <4>1. n \in 1 .. Headers
          BY DEF Loads
        <4>2. QED
          BY <2>2, <4>1, ElfFacts
      <3>2. CASE k < h.filesz
        <4> DEFINE op == Copy(h)
        <4>1. Has(loader_ops, op)
          BY <2>2, <3>1, <3>2 DEF OpsFrom
        <4>2. Done(op)
          BY <2>1, <4>1 DEF Has
        <4>3. /\ op.kind = "COPY" /\ op.dst = h.vaddr /\ op.src = elf_alloc + h.offset
              /\ op.size = h.filesz
          BY DEF Copy
        <4> HIDE DEF op, h
        <4>4. k \in 0 .. op.size - 1 /\ (op.src - elf_alloc) + k = h.offset + k
          BY <2>2, <3>1, <3>2, <4>3
        <4>5. mem[op.dst + k] = (op.src - elf_alloc) + k
          BY <4>2, <4>3, <4>4 DEF Done
        <4>6. QED
          BY <3>2, <4>3, <4>4, <4>5 DEF h
      <3>3. CASE ~(k < h.filesz)
        <4> DEFINE op == Fill(h)
        <4>1. h.filesz < h.memsz
          BY <3>1, <3>3
        <4>2. Has(loader_ops, op)
          BY <2>2, <4>1 DEF OpsFrom
        <4>3. Done(op)
          BY <2>1, <4>2 DEF Has
        <4>4. op.kind = "ZERO" /\ op.dst = h.vaddr + h.filesz /\ op.size = h.memsz - h.filesz
          BY DEF Fill
        <4>5. k \in 0 .. h.memsz - 1
          OBVIOUS
        <4> HIDE DEF op, h
        <4>6. k - h.filesz \in 0 .. op.size - 1 /\ op.dst + (k - h.filesz) = h.vaddr + k
          BY <3>1, <3>3, <4>4, <4>5
        <4>7. mem[op.dst + (k - h.filesz)] = Zero
          BY <4>3, <4>4, <4>6 DEF Done
        <4>8. QED
          BY <3>3, <4>6, <4>7 DEF h
      <3>4. QED
        BY <3>2, <3>3
    <2>4. \A h \in Segments : \E n \in Loads(Headers) : h = elf.phdrs[n]
      BY DEF Segments, Loads, Headers
    <2>5. QED
      BY <2>1, <2>3, <2>4 DEF Delivered, FileAt
  <1>2. QED
    BY <1>1, ElfInvariant, PTL

===============================================================================
