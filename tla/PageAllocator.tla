---------------------------- MODULE PageAllocator ----------------------------
(* The physical page allocator of the superoptimiser (240-superopt/ppa.c):  *)
(* supersections are taken whole from a mask, or floated on a list and      *)
(* divided.  The only caller in the repository gives no preclaims, so       *)
(* ppa_init is modelled without them.                                       *)
EXTENDS Integers, Sequences, FiniteSets, FiniteSetsExt

CONSTANTS
    Supersections,   \* how many there are, 32
    Fan,             \* children of a region, 16
    SizeMax,         \* SIZE_MAX: the list is empty
    ChainEnd,        \* CHAIN_END, 0xffff
    MaxLive          \* bound on the regions handed out at a time

VARIABLES
    ppa,     \* PhysicalPageAllocator
    live     \* the regions handed out: address in small pages, and kind

RK_Supersection == 0
RK_SmallPage == 3
Kinds == RK_Supersection .. RK_SmallPage

\* REGION_SCALES, in small pages, and INDEX_OFFSETS
RegionScale(rk) == <<Fan * Fan * Fan, Fan * Fan, Fan, 1>>[rk + 1]
IndexOffset(rk) == <<Supersections * Fan * Fan + Supersections * Fan,
                     Supersections * Fan * Fan, 0>>[rk + 1]
RegionIndex(i, rk) == i + IndexOffset(rk)
RegionCount == IndexOffset(0) + Supersections
Children == 0 .. Fan - 1
Pages == Supersections * RegionScale(RK_Supersection)

------------------------------------------------------------------------------
(* The lists of floating regions.  floating_counts, which is never read, is *)
(* left out.                                                                *)

FloatRegion(p, i, rk) ==
    LET idx == RegionIndex(i, rk)
    IN  [p EXCEPT !.prev[idx] = ChainEnd,
                  !.next[idx] = IF p.lists[rk] = SizeMax THEN ChainEnd ELSE p.lists[rk],
                  !.lists[rk] = idx]

\* The head is stored at floating_lists[region_idx], not floating_lists[rk].
\* The first large page of a supersection s has the index s * 256, its first
\* section 0x2000 + s * 16, and the supersection itself 0x2200 + s: for all but
\* the large page 0 the store lands behind the whole PhysicalPageAllocator, the
\* list keeps its head and the program goes on.  The history stray collects
\* the supersections that are left on the list that way.
UnfloatRegion(p, idx, rk) ==
    LET next == p.next[idx]
        prev == p.prev[idx]
        q == [p EXCEPT !.prev = IF next # ChainEnd THEN [@ EXCEPT ![next] = ChainEnd] ELSE @]
    IN  IF prev # ChainEnd THEN [q EXCEPT !.next[prev] = next]
        ELSE IF idx \in DOMAIN p.lists
               THEN [q EXCEPT !.lists[idx] = IF next = ChainEnd THEN SizeMax ELSE next]
        ELSE IF rk = RK_Supersection THEN [q EXCEPT !.stray = @ \cup {idx - IndexOffset(rk)}]
        ELSE q

------------------------------------------------------------------------------
(* commit_region.                                                           *)

\* __builtin_clz counts the zeros of the 32-bit value the 16-bit bitmap is
\* promoted to, so it is never below 16.
LeadingZeros(bitmap) == IF bitmap = {} THEN 0 ELSE Fan + (Fan - 1 - Max(bitmap))

\* bitmap &= ~(0x8000 >> lz); child_no = 16 - lz
Taken(bitmap) == bitmap \ {Fan - 1 - LeadingZeros(bitmap)}
ChildNo(bitmap) == Fan - LeadingZeros(bitmap)

TakeChild(p, idx, rk) ==
    LET q == [p EXCEPT !.bitmap[idx] = Taken(@)]
    IN  IF q.bitmap[idx] = {} THEN UnfloatRegion(q, idx, rk) ELSE q

\* One level of the descent from a floated region to a page of kind rk: the
\* allocator after it and the number of the child taken.
CommitLevel(p, idx, k) ==
    [ppa |-> TakeChild(p, idx, k),
     no |-> ChildNo(p.bitmap[idx]) + (idx - IndexOffset(k)) * Fan]

CommitRegion(p, idx, from, rk) ==
    LET level[k \in from .. rk - 1] ==
            IF k = from THEN CommitLevel(p, idx, k)
            ELSE CommitLevel(level[k - 1].ppa, RegionIndex(level[k - 1].no, k), k)
    IN  level[rk - 1]

------------------------------------------------------------------------------
(* ppa_alloc and ppa_free.                                                  *)

Give(p, no, rk) ==
    /\ ppa' = [p EXCEPT !.allocated[rk] = @ + 1]
    /\ live' = Append(live, [at |-> no * RegionScale(rk), kind |-> rk])

\* The smallest floating region that is large enough.
FloatingAbove(p, rk) == {k \in 0 .. rk - 1 : p.lists[k] # SizeMax}

FromFloating(p, rk) ==
    LET from == Max(FloatingAbove(p, rk))
        c == CommitRegion(p, p.lists[from], from, rk)
    IN  Give(c.ppa, c.no, rk)

Unmasked(p) == [p EXCEPT !.mask = @ \ {Max(@)}]

PpaAlloc(rk) ==
    \/ /\ FloatingAbove(ppa, rk) # {}
       /\ FromFloating(ppa, rk)
    \/ /\ FloatingAbove(ppa, rk) = {} /\ ppa.mask # {}
       /\ IF rk = RK_Supersection THEN Give(Unmasked(ppa), Max(ppa.mask), rk)
          ELSE FromFloating(FloatRegion(Unmasked(ppa), Max(ppa.mask), RK_Supersection), rk)

\* UINTPTR_MAX
PpaAllocFails(rk) == /\ FloatingAbove(ppa, rk) = {} /\ ppa.mask = {}
                     /\ UNCHANGED <<ppa, live>>

\* One step up: the child is free again; a parent all of whose children are
\* free is taken off its list and is itself free.
FreeLevel(below, k) ==
    LET parent == below.no \div Fan
        idx == RegionIndex(parent, k)
        q == [below.ppa EXCEPT !.bitmap[idx] = @ \cup {below.no % Fan}]
    IN  IF ~below.goOn THEN below
        ELSE IF q.bitmap[idx] = Children
          THEN [ppa |-> UnfloatRegion(q, idx, k), no |-> parent, goOn |-> TRUE]
        ELSE [ppa |-> q, no |-> parent, goOn |-> FALSE]

FreeRegion(p, no, rk) ==
    LET up[k \in 0 .. rk] ==
            IF k = rk THEN [ppa |-> p, no |-> no, goOn |-> TRUE] ELSE FreeLevel(up[k + 1], k)
    IN  IF up[0].goOn THEN [up[0].ppa EXCEPT !.mask = @ \cup {up[0].no}] ELSE up[0].ppa

PpaFree(i) ==
    LET r == live[i]
        p == FreeRegion(ppa, r.at \div RegionScale(r.kind), r.kind)
    IN  /\ ppa' = [p EXCEPT !.allocated[r.kind] = @ - 1]
        /\ live' = [j \in 1 .. Len(live) - 1 |-> IF j < i THEN live[j] ELSE live[j + 1]]

------------------------------------------------------------------------------
PpaInit == /\ ppa = [mask |-> 0 .. Supersections - 1,
                     bitmap |-> [i \in 0 .. RegionCount - 1 |-> Children],
                     next |-> [i \in 0 .. RegionCount - 1 |-> ChainEnd],
                     prev |-> [i \in 0 .. RegionCount - 1 |-> ChainEnd],
                     lists |-> [k \in 0 .. 2 |-> SizeMax],
                     allocated |-> [k \in Kinds |-> 0],
                     stray |-> {}]
           /\ live = <<>>

Alloc == Len(live) < MaxLive /\ \E rk \in Kinds : PpaAlloc(rk)
AllocFails == \E rk \in Kinds : PpaAllocFails(rk)
Free == \E i \in 1 .. Len(live) : PpaFree(i)

PpaNext == Alloc \/ AllocFails \/ Free

PpaSpec == PpaInit /\ [][PpaNext]_<<ppa, live>>

------------------------------------------------------------------------------
\* Lists and links name regions, and nothing is handed out beyond memory.
TypeOK == /\ ppa.mask \subseteq 0 .. Supersections - 1
          /\ \A k \in 0 .. 2 : ppa.lists[k] \in (0 .. RegionCount - 1) \cup {SizeMax}
          /\ \A i \in 1 .. Len(live) : live[i].at \in 0 .. Pages - 1

Overlap(r, q) == r.at < q.at + RegionScale(q.kind) /\ q.at < r.at + RegionScale(r.kind)

\* Region i shares no page with another one handed out, and its supersection
\* is not in the mask.
Alone(i) == /\ \A j \in (1 .. Len(live)) \ {i} : ~Overlap(live[i], live[j])
            /\ live[i].at \div RegionScale(RK_Supersection) \notin ppa.mask

\* A supersection handed out whole belongs to its owner alone: no page of it
\* is handed out again, divided or whole, and it is not in the mask.  Once a
\* part of a supersection has been freed (unfloat_region leaves it on the list)
\* that supersection is excepted, and only that one (ppa_alloc, ppa_free).
WholeApart ==
    \A i \in 1 .. Len(live) :
        /\ live[i].kind = RK_Supersection
        /\ live[i].at \div RegionScale(RK_Supersection) \notin ppa.stray
        => Alone(i)

\* What the test of the allocator asserts when it has freed a section and
\* handed out all of memory again (1-test-ppa.c:64-67): ppa_alloc gives no more
\* of it.  Of a supersection handed out whole no part is handed out afterwards
\* (live is in the order of handing out).
WholeHasOneOwner ==
    \A i, j \in 1 .. Len(live) :
        i < j /\ live[i].kind = RK_Supersection => ~Overlap(live[i], live[j])

\* What the test of the allocator asserts (1-test-ppa.c): once all of memory
\* is handed out, ppa_alloc gives nothing more.
GivenFitsMemory ==
    MapThenSumSet(LAMBDA rk : ppa.allocated[rk] * RegionScale(rk), Kinds) <= Pages
==============================================================================
