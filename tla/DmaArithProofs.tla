--------------------------- MODULE DmaArithProofs ---------------------------
(***************************************************************************)
(* The DMA arithmetic, for every width, number of bits and operand: where  *)
(* the control blocks of the emitters write, and in which order they run.  *)
(***************************************************************************)
EXTENDS DmaArith, SequenceTheorems, NumberFacts, TLAPS

-----------------------------------------------------------------------------
(* Blocks *)

\* An address, as patched, and one that is not patched.
IsAddr(a) == a = [reg |-> a.reg, hi |-> a.hi, mid |-> a.mid, lo |-> a.lo]
IsAt(a) == a = At(a.reg, a.lo) /\ a.lo \in Int

\* A control block whose rows do not overlap.
Shape(b) ==
    /\ b = [dst |-> b.dst, src |-> b.src, srcInc |-> b.srcInc, rows |-> b.rows,
            cols |-> b.cols, ds |-> b.ds, ss |-> b.ss, jump |-> b.jump]
    /\ IsAt(b.dst) /\ IsAddr(b.src)
    /\ b.rows \in Int /\ b.cols \in Int /\ b.ds \in Int /\ b.cols + b.ds >= 0

\* It writes to blocks, to the scratch buffer or to the first lim bytes of res.
Lands(b, res, lim) ==
    \/ b.dst.reg = "blocks" \/ b.dst.reg = "tmp"
    \/ b.dst.reg = res /\ b.rows = 1 /\ b.dst.lo >= 0 /\ b.dst.lo + b.cols <= lim

\* Block n goes straight on and patches blocks behind it only.
BlockOk(b, n, res, lim) ==
    /\ Shape(b) /\ Lands(b, res, lim) /\ b.jump = 1
    /\ b.dst.reg = "blocks" => b.dst.lo >= 32 * n + 4

\* The c blocks q, which come behind n others.
LoopOk(q, n, c, res, lim) == \A k \in 1 .. c : BlockOk(q[k], n + k, res, lim)
Emitted(q, n, c, res, lim) ==
    (\E S : q \in Seq(S)) /\ Len(q) = c /\ LoopOk(q, n, c, res, lim)

\* The first w bytes behind ret are bytes of res or of the scratch buffer.
InResult(ret, w, res, lim) ==
    IsAt(ret) /\ (ret.reg = "tmp" \/ (ret.reg = res /\ ret.lo >= 0 /\ ret.lo + w <= lim))

LEMMA AtIs ==
    ASSUME NEW reg, NEW lo
    PROVE  IsAddr(At(reg, lo)) /\ (lo \in Int => IsAt(At(reg, lo)))
           /\ At(reg, lo).reg = reg /\ At(reg, lo).lo = lo
  BY DEF At, IsAddr, IsAt

LEMMA AtIsAddr == ASSUME NEW a, IsAt(a) PROVE IsAddr(a)
  BY DEF At, IsAddr, IsAt

LEMMA AddIsAt ==
    ASSUME NEW a, IsAt(a), NEW n \in Int
    PROVE  IsAt(bus_add(a, n)) /\ bus_add(a, n).reg = a.reg /\ bus_add(a, n).lo = a.lo + n
  BY DEF At, IsAt, bus_add

LEMMA AddIsAddr == ASSUME NEW a, IsAddr(a), NEW n PROVE IsAddr(bus_add(a, n))
  BY DEF IsAddr, bus_add

LEMMA FldIs ==
    ASSUME NEW at \in Int, NEW k \in Int, NEW o \in Int
    PROVE  /\ IsAt(Fld(at, k, o)) /\ Fld(at, k, o).reg = "blocks"
           /\ Fld(at, k, o).lo = 32 * (at + k) + 4 + o
  BY DEF At, IsAt, Fld

LEMMA StridedShape ==
    ASSUME NEW i, NEW dst, IsAt(dst), NEW src, IsAddr(src), NEW rows \in Int, NEW cols \in Int,
           NEW ds \in Int, NEW ss, cols + ds >= 0,
           NEW b, b = EmitStridedWith(i, dst, src, rows, cols, ds, ss)
    PROVE  /\ Shape(b) /\ b.dst = dst /\ b.src = src /\ b.rows = rows /\ b.cols = cols
           /\ b.jump = 1
  BY DEF EmitStridedWith, Shape

\* A block that patches: behind block n.
LEMMA PatchOk ==
    ASSUME NEW i, NEW at \in Int, NEW k \in Int, NEW o \in Nat, NEW src, IsAddr(src),
           NEW rows \in Int, NEW cols \in Int, NEW ds \in Int, NEW ss, cols + ds >= 0,
           NEW n \in Int, at + k >= n, NEW res, NEW lim
    PROVE  BlockOk(EmitStridedWith(i, Fld(at, k, o), src, rows, cols, ds, ss), n, res, lim)
  <1> DEFINE b == EmitStridedWith(i, Fld(at, k, o), src, rows, cols, ds, ss)
             d == Fld(at, k, o)
  <1>1. IsAt(d) /\ d.reg = "blocks" /\ d.lo = 32 * (at + k) + 4 + o
    BY FldIs
  <1>2. d.lo >= 32 * n + 4
    BY <1>1
  <1> HIDE DEF d
  <1>3. Shape(b) /\ b.dst = d /\ b.jump = 1
    BY <1>1, StridedShape DEF d
  <1> HIDE DEF b
  <1>4. QED
    BY <1>1, <1>2, <1>3 DEF BlockOk, Lands, b, d

\* A block that writes cols bytes of the result.
LEMMA WriteOk ==
    ASSUME NEW i, NEW w \in Int, NEW lim \in Int, NEW ret, NEW res, res # "blocks",
           InResult(ret, w, res, lim),
           NEW j \in Nat, NEW cols \in Nat, j + cols <= w, NEW src, IsAddr(src), NEW n
    PROVE  BlockOk(EmitStridedWith(i, bus_add(ret, j), src, 1, cols, 0, 0), n, res, lim)
  <1> DEFINE d == bus_add(ret, j)
             b == EmitStridedWith(i, d, src, 1, cols, 0, 0)
  <1>1. IsAt(d) /\ d.reg = ret.reg /\ d.lo = ret.lo + j /\ ret.lo \in Int
    BY AddIsAt DEF InResult, IsAt
  <1> HIDE DEF d
  <1>2. cols + 0 >= 0
    OBVIOUS
  <1>3. Shape(b) /\ b.dst = d /\ b.rows = 1 /\ b.cols = cols /\ b.jump = 1
    BY <1>1, <1>2, StridedShape
  <1>4. d.reg # "blocks" /\ (d.reg = "tmp" \/ (d.reg = res /\ d.lo >= 0 /\ d.lo + cols <= lim))
    BY <1>1 DEF InResult
  <1> HIDE DEF b
  <1>5. BlockOk(b, n, res, lim)
    BY <1>3, <1>4 DEF BlockOk, Lands
  <1>6. QED
    BY <1>5 DEF b, d

\* One that begins at its first byte.
LEMMA WriteAtOk ==
    ASSUME NEW i, NEW w \in Int, NEW lim \in Int, NEW ret, NEW res, res # "blocks",
           InResult(ret, w, res, lim),
           NEW cols \in Nat, cols <= w, NEW src, IsAddr(src), NEW n
    PROVE  BlockOk(EmitStridedWith(i, ret, src, 1, cols, 0, 0), n, res, lim)
  <1>1. bus_add(ret, 0) = ret
    BY DEF bus_add, InResult, IsAt, At
  <1>2. QED
    BY <1>1, WriteOk

\* A block that patches one byte.
LEMMA PatchByteOk ==
    ASSUME NEW i, NEW at \in Int, NEW k \in Int, NEW o \in Nat, NEW src, IsAddr(src),
           NEW n \in Int, at + k >= n, NEW res, NEW lim
    PROVE  BlockOk(EmitStridedWith(i, Fld(at, k, o), src, 1, 1, 0, 0), n, res, lim)
  <1>1. 1 \in Int /\ 0 \in Int /\ 1 + 0 >= 0
    OBVIOUS
  <1>2. QED
    BY <1>1, PatchOk, Zenon

LEMMA Blocks1 ==
    ASSUME NEW n \in Int, NEW res, NEW lim,
           NEW a, BlockOk(a, n + 1, res, lim)
    PROVE  Emitted(<<a>>, n, 1, res, lim)
  <1>1. <<a>> \in Seq({a}) /\ Len(<<a>>) = 1
    OBVIOUS
  <1>2. ASSUME NEW k \in 1 .. 1 PROVE BlockOk(<<a>>[k], n + k, res, lim)
    <2>1. k = 1 => BlockOk(<<a>>[k], n + k, res, lim)
      OBVIOUS
    <2>2. QED
      BY <2>1
  <1>3. QED
    BY <1>1, <1>2, Zenon DEF Emitted, LoopOk

LEMMA Blocks2 ==
    ASSUME NEW n \in Int, NEW res, NEW lim,
           NEW a, BlockOk(a, n + 1, res, lim),
           NEW b, BlockOk(b, n + 2, res, lim)
    PROVE  Emitted(<<a, b>>, n, 2, res, lim)
  <1>1. <<a, b>> \in Seq({a, b}) /\ Len(<<a, b>>) = 2
    OBVIOUS
  <1>2. ASSUME NEW k \in 1 .. 2 PROVE BlockOk(<<a, b>>[k], n + k, res, lim)
    <2>1. k = 1 => BlockOk(<<a, b>>[k], n + k, res, lim)
      OBVIOUS
    <2>2. k = 2 => BlockOk(<<a, b>>[k], n + k, res, lim)
      OBVIOUS
    <2>3. QED
      BY <2>1, <2>2
  <1>3. QED
    BY <1>1, <1>2, Zenon DEF Emitted, LoopOk

LEMMA Blocks3 ==
    ASSUME NEW n \in Int, NEW res, NEW lim,
           NEW a, BlockOk(a, n + 1, res, lim),
           NEW b, BlockOk(b, n + 2, res, lim),
           NEW c, BlockOk(c, n + 3, res, lim)
    PROVE  Emitted(<<a, b, c>>, n, 3, res, lim)
  <1>1. <<a, b, c>> \in Seq({a, b, c}) /\ Len(<<a, b, c>>) = 3
    OBVIOUS
  <1>2. ASSUME NEW k \in 1 .. 3 PROVE BlockOk(<<a, b, c>>[k], n + k, res, lim)
    <2>1. k = 1 => BlockOk(<<a, b, c>>[k], n + k, res, lim)
      OBVIOUS
    <2>2. k = 2 => BlockOk(<<a, b, c>>[k], n + k, res, lim)
      OBVIOUS
    <2>3. k = 3 => BlockOk(<<a, b, c>>[k], n + k, res, lim)
      OBVIOUS
    <2>4. QED
      BY <2>1, <2>2, <2>3
  <1>3. QED
    BY <1>1, <1>2, Zenon DEF Emitted, LoopOk

LEMMA Blocks4 ==
    ASSUME NEW n \in Int, NEW res, NEW lim,
           NEW a, BlockOk(a, n + 1, res, lim),
           NEW b, BlockOk(b, n + 2, res, lim),
           NEW c, BlockOk(c, n + 3, res, lim),
           NEW d, BlockOk(d, n + 4, res, lim)
    PROVE  Emitted(<<a, b, c, d>>, n, 4, res, lim)
  <1>1. <<a, b, c, d>> \in Seq({a, b, c, d}) /\ Len(<<a, b, c, d>>) = 4
    OBVIOUS
  <1>2. ASSUME NEW k \in 1 .. 4 PROVE BlockOk(<<a, b, c, d>>[k], n + k, res, lim)
    <2>1. k = 1 => BlockOk(<<a, b, c, d>>[k], n + k, res, lim)
      OBVIOUS
    <2>2. k = 2 => BlockOk(<<a, b, c, d>>[k], n + k, res, lim)
      OBVIOUS
    <2>3. k = 3 => BlockOk(<<a, b, c, d>>[k], n + k, res, lim)
      OBVIOUS
    <2>4. k = 4 => BlockOk(<<a, b, c, d>>[k], n + k, res, lim)
      OBVIOUS
    <2>5. QED
      BY <2>1, <2>2, <2>3, <2>4
  <1>3. QED
    BY <1>1, <1>2, Zenon DEF Emitted, LoopOk

LEMMA Blocks5 ==
    ASSUME NEW n \in Int, NEW res, NEW lim,
           NEW a, BlockOk(a, n + 1, res, lim),
           NEW b, BlockOk(b, n + 2, res, lim),
           NEW c, BlockOk(c, n + 3, res, lim),
           NEW d, BlockOk(d, n + 4, res, lim),
           NEW e, BlockOk(e, n + 5, res, lim)
    PROVE  Emitted(<<a, b, c, d, e>>, n, 5, res, lim)
  <1>1. <<a, b, c, d, e>> \in Seq({a, b, c, d, e}) /\ Len(<<a, b, c, d, e>>) = 5
    OBVIOUS
  <1>2. ASSUME NEW k \in 1 .. 5 PROVE BlockOk(<<a, b, c, d, e>>[k], n + k, res, lim)
    <2>1. k = 1 => BlockOk(<<a, b, c, d, e>>[k], n + k, res, lim)
      OBVIOUS
    <2>2. k = 2 => BlockOk(<<a, b, c, d, e>>[k], n + k, res, lim)
      OBVIOUS
    <2>3. k = 3 => BlockOk(<<a, b, c, d, e>>[k], n + k, res, lim)
      OBVIOUS
    <2>4. k = 4 => BlockOk(<<a, b, c, d, e>>[k], n + k, res, lim)
      OBVIOUS
    <2>5. k = 5 => BlockOk(<<a, b, c, d, e>>[k], n + k, res, lim)
      OBVIOUS
    <2>6. QED
      BY <2>1, <2>2, <2>3, <2>4, <2>5
  <1>3. QED
    BY <1>1, <1>2, Zenon DEF Emitted, LoopOk

\* The blocks of a loop.
LEMMA BlocksLoop ==
    ASSUME NEW n \in Int, NEW res, NEW lim, NEW c \in Nat, NEW q, q = [k \in 1 .. c |-> q[k]],
           LoopOk(q, n, c, res, lim)
    PROVE  Emitted(q, n, c, res, lim)
  <1>1. q \in Seq({q[k] : k \in 1 .. c}) /\ Len(q) = c
    OBVIOUS
  <1>2. QED
    BY <1>1, Zenon DEF Emitted

LEMMA BlocksJoin ==
    ASSUME NEW n \in Int, NEW res, NEW lim, NEW q, NEW t, NEW c \in Nat, NEW d \in Nat,
           NEW m, m = n + c, NEW e, e = c + d,
           Emitted(q, n, c, res, lim), Emitted(t, m, d, res, lim)
    PROVE  Emitted(q \o t, n, e, res, lim)
  <1>1. PICK S : q \in Seq(S)
    BY DEF Emitted
  <1>2. PICK T : t \in Seq(T)
    BY DEF Emitted
  <1>3. q \in Seq(S \cup T) /\ t \in Seq(S \cup T) /\ Len(q) = c /\ Len(t) = d
    BY <1>1, <1>2 DEF Emitted
  <1>4. /\ q \o t \in Seq(S \cup T) /\ Len(q \o t) = c + d
        /\ \A i \in 1 .. c + d : (q \o t)[i] = IF i <= c THEN q[i] ELSE t[i - c]
    BY <1>3, ConcatProperties
  <1>5. ASSUME NEW k \in 1 .. c + d PROVE BlockOk((q \o t)[k], n + k, res, lim)
    <2>1. CASE k <= c
      BY <1>4, <2>1 DEF Emitted, LoopOk
    <2>2. CASE ~(k <= c)
      <3>1. k - c \in 1 .. d /\ n + k = m + (k - c)
        BY <2>2
      <3>2. BlockOk(t[k - c], m + (k - c), res, lim)
        BY <3>1 DEF Emitted, LoopOk
      <3>3. QED
        BY <1>4, <2>2, <3>1, <3>2
    <2>3. QED
      BY <2>1, <2>2
  <1>6. LoopOk(q \o t, n, e, res, lim)
    BY <1>5 DEF LoopOk
  <1>7. QED
    BY <1>4, <1>6, Zenon DEF Emitted

-----------------------------------------------------------------------------
(* The emitters *)

LEMMA SomeAddr == \A r, l : IsAddr(At(r, l))
  BY AtIs

LEMMA CarryFits ==
    ASSUME NEW w \in Nat, NEW i \in Nat, i <= w - 1
    PROVE  CarryLen(i, w) \in Nat /\ i + CarryLen(i, w) <= w
  BY DEF CarryLen

LEMMA SmallNumbers ==
    /\ \A i \in 0 .. 5 : i \in Nat /\ i \in Int
    /\ 0 \in Nat /\ 1 \in Nat /\ 2 \in Nat /\ 3 \in Nat /\ 4 \in Nat /\ 5 \in Nat
    /\ 0 \in Int /\ 1 \in Int /\ 2 \in Int /\ 3 \in Int /\ 4 \in Int /\ 5 \in Int
    /\ 31 \in Int /\ 63 \in Int /\ 30 \in Int
    /\ 1 + 63 >= 0 /\ 1 + 31 >= 0 /\ 2 + 30 >= 0 /\ 1 + 0 >= 0
  OBVIOUS

LEMMA IncOk ==
    ASSUME NEW at \in Int, NEW w \in Nat \ {0}, NEW ret, NEW inp, IsAddr(inp),
           NEW res, res # "blocks", NEW lim \in Int, InResult(ret, w, res, lim)
    PROVE  Emitted(Inc(at, w, ret, inp), at, 2 * w, res, lim)
  <1> DEFINE first == EmitStridedWith(TRUE, Fld(at, 1, 1), inp, w, 1, 63, 0)
             item(k) == IF k % 2 = 1
                        THEN EmitStridedWith(TRUE, bus_add(ret, (k - 1) \div 2),
                               At("SUPER", SUPER_INC + 2), 1, CarryLen((k - 1) \div 2, w), 0, 0)
                        ELSE EmitStridedWith(TRUE, Fld(at + k - 1, 2, 0),
                               bus_add(ret, (k - 1) \div 2 + 1), 1, 1, 0, 0)
             loop == [k \in 1 .. 2 * w - 1 |-> item(k)]
  <1>1. Emitted(<<first>>, at, 1, res, lim)
    <2>1. w \in Int /\ at + 1 \in Int /\ at + 1 >= at + 1
      OBVIOUS
    <2>2. BlockOk(first, at + 1, res, lim)
      BY <2>1, SmallNumbers, PatchOk, Zenon
    <2> HIDE DEF first
    <2>3. QED
      BY <2>2, Blocks1
  <1>2. ASSUME NEW k \in 1 .. 2 * w - 1 PROVE BlockOk(item(k), at + 1 + k, res, lim)
    <2> DEFINE i == (k - 1) \div 2
               a == at + k - 1
    <2>1. i \in Nat /\ i <= w - 1 /\ w \in Int /\ w \in Nat
      OBVIOUS
    <2>2. a \in Int /\ at + 1 + k \in Int /\ a + 2 >= at + 1 + k
      OBVIOUS
    <2>3. CASE k % 2 = 1
      <3>1. CarryLen(i, w) \in Nat /\ i + CarryLen(i, w) <= w
        BY <2>1, CarryFits
      <3>2. item(k) = EmitStridedWith(TRUE, bus_add(ret, i), At("SUPER", SUPER_INC + 2), 1, CarryLen(i, w), 0, 0)
        BY <2>3
      <3> HIDE DEF i, item
      <3>3. QED
        BY <2>1, <3>1, <3>2, SomeAddr, WriteOk, Zenon
    <2>4. CASE k % 2 # 1
      <3>1. IsAddr(bus_add(ret, i + 1))
        BY AddIsAddr, AtIsAddr DEF InResult
      <3>2. item(k) = EmitStridedWith(TRUE, Fld(a, 2, 0), bus_add(ret, i + 1), 1, 1, 0, 0)
        BY <2>4
      <3> HIDE DEF i, item, a
      <3>3. BlockOk(EmitStridedWith(TRUE, Fld(a, 2, 0), bus_add(ret, i + 1), 1, 1, 0, 0),
                    at + 1 + k, res, lim)
        BY <2>2, <3>1, SmallNumbers, PatchByteOk, Zenon
      <3>4. QED
        BY <3>2, <3>3
    <2>5. QED
      BY <2>3, <2>4
  <1>3. Emitted(loop, at + 1, 2 * w - 1, res, lim)
    <2> HIDE DEF item
    <2>1. /\ 2 * w - 1 \in Nat /\ at + 1 \in Int /\ loop = [k \in 1 .. 2 * w - 1 |-> loop[k]]
          /\ \A k \in 1 .. 2 * w - 1 : loop[k] = item(k)
      OBVIOUS
    <2> HIDE DEF loop
    <2>2. LoopOk(loop, at + 1, 2 * w - 1, res, lim)
      BY <1>2, <2>1, Zenon DEF LoopOk
    <2>3. QED
      BY <2>1, <2>2, BlocksLoop, Zenon
  <1>4. Inc(at, w, ret, inp) = <<first>> \o loop
    BY DEF Inc, Emit, EmitStrided
  <1> HIDE DEF first, loop
  <1>5. 2 * w = 1 + (2 * w - 1) /\ 2 * w - 1 \in Nat /\ 1 \in Nat
    OBVIOUS
  <1>6. QED
    BY <1>1, <1>3, <1>4, <1>5, BlocksJoin, Zenon

\* The blocks that write bytes 0 to c - 1 of the result, one each.
LEMMA WriteLoop ==
    ASSUME NEW n \in Int, NEW w \in Int, NEW ret, NEW src, IsAddr(src),
           NEW res, res # "blocks", NEW lim \in Int, InResult(ret, w, res, lim),
           NEW c \in Nat, c <= w
    PROVE  Emitted([k \in 1 .. c |-> EmitStridedWith(TRUE, bus_add(ret, k - 1), src, 1, 1, 0, 0)],
                   n, c, res, lim)
  <1> DEFINE item(k) == EmitStridedWith(TRUE, bus_add(ret, k - 1), src, 1, 1, 0, 0)
             loop == [k \in 1 .. c |-> item(k)]
  <1>1. ASSUME NEW k \in 1 .. c PROVE BlockOk(item(k), n + k, res, lim)
    <2>1. k - 1 \in Nat /\ 1 \in Nat /\ (k - 1) + 1 <= w
      OBVIOUS
    <2>2. QED
      BY <2>1, WriteOk, Zenon
  <1> HIDE DEF item
  <1>2. loop = [k \in 1 .. c |-> loop[k]] /\ \A k \in 1 .. c : loop[k] = item(k)
    OBVIOUS
  <1> HIDE DEF loop
  <1>3. LoopOk(loop, n, c, res, lim)
    BY <1>1, <1>2, Zenon DEF LoopOk
  <1>4. Emitted(loop, n, c, res, lim)
    BY <1>2, <1>3, BlocksLoop, Zenon
  <1>5. QED
    BY <1>4 DEF loop, item

LEMMA NotOk ==
    ASSUME NEW at \in Int, NEW w \in Nat \ {0}, NEW ret, NEW inp, IsAddr(inp),
           NEW res, res # "blocks", NEW lim \in Int, InResult(ret, w, res, lim)
    PROVE  Emitted(Not(at, w, ret, inp), at, 1 + w, res, lim)
  <1> DEFINE first == EmitStridedWith(TRUE, Fld(at, 1, 0), inp, w, 1, 31, 0)
             loop == [k \in 1 .. w |->
                        EmitStridedWith(TRUE, bus_add(ret, k - 1), At("NOT", 0), 1, 1, 0, 0)]
  <1>1. w \in Int /\ w \in Nat /\ w <= w /\ at + 1 \in Int /\ at + 1 >= at + 1
    OBVIOUS
  <1>2. BlockOk(first, at + 1, res, lim)
    BY <1>1, SmallNumbers, PatchOk, Zenon
  <1>3. Emitted(loop, at + 1, w, res, lim)
    BY <1>1, SomeAddr, WriteLoop, Zenon
  <1>4. Not(at, w, ret, inp) = <<first>> \o loop
    BY DEF Not, Emit, EmitStrided
  <1> HIDE DEF first, loop
  <1>5. Emitted(<<first>>, at, 1, res, lim)
    BY <1>2, Blocks1, Zenon
  <1>6. Emitted(<<first>> \o loop, at, 1 + w, res, lim)
    BY <1>1, <1>3, <1>5, SmallNumbers, BlocksJoin, Zenon
  <1>7. QED
    BY <1>4, <1>6

LEMMA BytewiseOk ==
    ASSUME NEW at \in Int, NEW w \in Nat \ {0}, NEW ret, NEW l, IsAddr(l), NEW r, IsAddr(r),
           NEW selector,
           NEW res, res # "blocks", NEW lim \in Int, InResult(ret, w, res, lim)
    PROVE  Emitted(Bytewise(at, w, ret, l, r, selector), at, 2 + w, res, lim)
  <1> DEFINE first == EmitStridedWith(TRUE, Fld(at, 2, 1), l, w, 1, 31, 0)
             second == EmitStridedWith(TRUE, Fld(at, 2, 2), r, w, 1, 31, 0)
             loop == [k \in 1 .. w |->
                        EmitStridedWith(TRUE, bus_add(ret, k - 1), At("HYPER", selector), 1, 1, 0, 0)]
  <1>1. /\ w \in Int /\ w \in Nat /\ w <= w /\ at + 1 \in Int /\ at + 2 >= at + 1
        /\ at + 2 \in Int /\ at + 2 >= at + 2
    OBVIOUS
  <1>2. BlockOk(first, at + 1, res, lim) /\ BlockOk(second, at + 2, res, lim)
    BY <1>1, SmallNumbers, PatchOk, Zenon
  <1>3. Emitted(loop, at + 2, w, res, lim)
    BY <1>1, SomeAddr, WriteLoop, Zenon
  <1>4. Bytewise(at, w, ret, l, r, selector) = <<first, second>> \o loop
    BY DEF Bytewise, Emit, EmitStrided
  <1> HIDE DEF first, second, loop
  <1>5. Emitted(<<first, second>>, at, 2, res, lim)
    BY <1>2, Blocks2, Zenon
  <1>6. Emitted(<<first, second>> \o loop, at, 2 + w, res, lim)
    BY <1>1, <1>3, <1>5, SmallNumbers, BlocksJoin, Zenon
  <1>7. QED
    BY <1>4, <1>6

LEMMA CompareOk ==
    ASSUME NEW at \in Int, NEW w \in Nat \ {0}, NEW ret, NEW l, IsAddr(l), NEW r, IsAddr(r),
           NEW selector,
           NEW res, res # "blocks", NEW lim \in Int, InResult(ret, 1, res, lim)
    PROVE  Emitted(Compare(at, w, ret, l, r, selector), at, 3 + w, res, lim)
  <1> DEFINE first == EmitStridedWith(TRUE, Fld(at, 2, 1), r, w, 1, 31, 0)
             second == EmitStridedWith(TRUE, Fld(at, 2, 2), l, w, 1, 31, 0)
             item(k) == EmitStridedWith(TRUE, Fld(at + 1 + k, 1, 0), At("HYPER", selector), 1, 1, 0, 0)
             loop == [k \in 1 .. w |-> item(k)]
             last == EmitStridedWith(TRUE, ret, At("TRUTH", 0), 1, 1, 0, 0)
  <1>1. /\ w \in Int /\ w \in Nat /\ at + 1 \in Int /\ at + 2 >= at + 1
        /\ at + 2 \in Int /\ at + 2 >= at + 2 /\ 1 <= 1
        /\ 2 + w \in Nat /\ 3 + w = (2 + w) + 1 /\ at + (2 + w) \in Int
    OBVIOUS
  <1>2. BlockOk(first, at + 1, res, lim) /\ BlockOk(second, at + 2, res, lim)
    BY <1>1, SmallNumbers, PatchOk, Zenon
  <1>3. Emitted(loop, at + 2, w, res, lim)
    <2>1. ASSUME NEW k \in 1 .. w PROVE BlockOk(item(k), at + 2 + k, res, lim)
      <3>1. at + 1 + k \in Int /\ at + 2 + k \in Int /\ (at + 1 + k) + 1 >= at + 2 + k
        OBVIOUS
      <3>2. QED
        BY <3>1, SmallNumbers, SomeAddr, PatchByteOk, Zenon
    <2> HIDE DEF item
    <2>2. loop = [k \in 1 .. w |-> loop[k]] /\ \A k \in 1 .. w : loop[k] = item(k)
      OBVIOUS
    <2> HIDE DEF loop
    <2>3. LoopOk(loop, at + 2, w, res, lim)
      BY <2>1, <2>2, Zenon DEF LoopOk
    <2>4. QED
      BY <1>1, <2>2, <2>3, BlocksLoop, Zenon
  <1>4. BlockOk(last, at + (2 + w) + 1, res, lim)
    BY <1>1, SmallNumbers, SomeAddr, WriteAtOk, Zenon
  <1>5. Compare(at, w, ret, l, r, selector) = <<first, second>> \o loop \o <<last>>
    BY DEF Compare, Emit, EmitStrided
  <1> HIDE DEF first, second, loop, last
  <1>6. Emitted(<<first, second>>, at, 2, res, lim)
    BY <1>2, Blocks2, Zenon
  <1>7. Emitted(<<first, second>> \o loop, at, 2 + w, res, lim)
    BY <1>1, <1>3, <1>6, SmallNumbers, BlocksJoin, Zenon
  <1>8. Emitted(<<last>>, at + (2 + w), 1, res, lim)
    BY <1>1, <1>4, Blocks1, Zenon
  <1>9. Emitted(<<first, second>> \o loop \o <<last>>, at, 3 + w, res, lim)
    BY <1>1, <1>7, <1>8, SmallNumbers, BlocksJoin, Zenon
  <1>10. QED
    BY <1>5, <1>9
LEMMA ChainOk ==
    ASSUME NEW at \in Int, NEW w \in Nat \ {0}, NEW ret, NEW l, IsAddr(l), NEW r, IsAddr(r),
           NEW selector, NEW m \in Int, m >= w, m >= 2,
           NEW res, res # "blocks", NEW lim \in Int, InResult(ret, m, res, lim)
    PROVE  Emitted(Chain(at, w, ret, l, r, selector), at, 3 + 2 * (w - 1), res, lim)
  <1> DEFINE first == EmitStridedWith(TRUE, Fld(at, 2, 1), r, w, 1, 63, 0)
             second == EmitStridedWith(TRUE, Fld(at, 2, 2), l, w, 1, 63, 0)
             third == EmitStridedWith(TRUE, ret, At("HYPER", selector), 1, 2, 0, 0)
             item(k) == IF k % 2 = 1
                        THEN EmitStridedWith(TRUE, Fld(at + 2 + k, 1, 0),
                               bus_add(ret, (k + 1) \div 2), 1, 1, 0, 0)
                        ELSE EmitStridedWith(TRUE, bus_add(ret, (k + 1) \div 2),
                               At("HYPER", 0), 1, CarryLen((k + 1) \div 2, w), 0, 0)
             c == 2 * (w - 1)
             loop == [k \in 1 .. c |-> item(k)]
  <1>1. /\ w \in Int /\ at + 1 \in Int /\ at + 2 >= at + 1 /\ at + 2 \in Int /\ at + 2 >= at + 2
        /\ 2 <= m /\ at + 3 \in Int /\ c \in Nat
    OBVIOUS
  <1>2. BlockOk(first, at + 1, res, lim) /\ BlockOk(second, at + 2, res, lim)
    BY <1>1, SmallNumbers, PatchOk, Zenon
  <1>3. BlockOk(third, at + 3, res, lim)
    BY <1>1, SmallNumbers, SomeAddr, WriteAtOk, Zenon
  <1>4. ASSUME NEW k \in 1 .. c PROVE BlockOk(item(k), at + 3 + k, res, lim)
    <2> DEFINE i == (k + 1) \div 2
    <2>1. i \in Nat /\ i <= w - 1 /\ w \in Nat
      OBVIOUS
    <2>2. at + 2 + k \in Int /\ at + 3 + k \in Int /\ (at + 2 + k) + 1 >= at + 3 + k
      OBVIOUS
    <2>3. CASE k % 2 = 1
      <3>1. IsAddr(bus_add(ret, i))
        BY AddIsAddr, AtIsAddr DEF InResult
      <3>2. item(k) = EmitStridedWith(TRUE, Fld(at + 2 + k, 1, 0), bus_add(ret, i), 1, 1, 0, 0)
        BY <2>3
      <3> HIDE DEF i, item
      <3>3. BlockOk(EmitStridedWith(TRUE, Fld(at + 2 + k, 1, 0), bus_add(ret, i), 1, 1, 0, 0),
                    at + 3 + k, res, lim)
        BY <2>2, <3>1, SmallNumbers, PatchByteOk, Zenon
      <3>4. QED
        BY <3>2, <3>3
    <2>4. CASE k % 2 # 1
      <3>1. CarryLen(i, w) \in Nat /\ i + CarryLen(i, w) <= w
        BY <2>1, CarryFits
      <3>2. item(k) = EmitStridedWith(TRUE, bus_add(ret, i), At("HYPER", 0), 1, CarryLen(i, w), 0, 0)
        BY <2>4
      <3> HIDE DEF i, item
      <3>3. i + CarryLen(i, w) <= m
        BY <2>1, <3>1
      <3>4. BlockOk(EmitStridedWith(TRUE, bus_add(ret, i), At("HYPER", 0), 1, CarryLen(i, w), 0, 0),
                    at + 3 + k, res, lim)
        BY <2>1, <3>1, <3>3, SomeAddr, WriteOk, Zenon
      <3>5. QED
        BY <3>2, <3>4
    <2>5. QED
      BY <2>3, <2>4
  <1> HIDE DEF c
  <1>5. Emitted(loop, at + 3, c, res, lim)
    <2> HIDE DEF item
    <2>1. loop = [k \in 1 .. c |-> loop[k]] /\ \A k \in 1 .. c : loop[k] = item(k)
      OBVIOUS
    <2> HIDE DEF loop
    <2>2. LoopOk(loop, at + 3, c, res, lim)
      BY <1>4, <2>1, Zenon DEF LoopOk
    <2>3. QED
      BY <1>1, <2>1, <2>2, BlocksLoop, Zenon
  <1>6. Chain(at, w, ret, l, r, selector) = <<first, second, third>> \o loop
    BY DEF Chain, Emit, EmitStrided, c
  <1> HIDE DEF first, second, third, loop
  <1>7. Emitted(<<first, second, third>>, at, 3, res, lim)
    BY <1>2, <1>3, Blocks3, Zenon
  <1>8. Emitted(<<first, second, third>> \o loop, at, 3 + c, res, lim)
    BY <1>1, <1>5, <1>7, SmallNumbers, BlocksJoin, Zenon
  <1>9. QED
    BY <1>6, <1>8 DEF c

LEMMA Sll8Ok ==
    ASSUME NEW at \in Int, NEW w \in Nat \ {0}, NEW ret, NEW inp, IsAddr(inp), NEW shf, IsAddr(shf),
           NEW res, res # "blocks", NEW lim \in Int, InResult(ret, w, res, lim)
    PROVE  Emitted(Sll8(at, w, ret, inp, shf), at, 4 + w, res, lim)
  <1> DEFINE a == EmitStridedWith(TRUE, Fld(at, 5, 1), inp, w - 1, 2, 30, -1)
             b == EmitStridedWith(TRUE, Fld(at, 2, 0), shf, 1, 1, 0, 0)
             c == EmitStridedWith(FALSE, Fld(at, 4, 0), At("SLL_HYPER_SELECT", 0), w, 1, 31, 0)
             d == EmitStridedWith(TRUE, Fld(at, 4, 2), inp, 1, 1, 0, 0)
             loop == [k \in 1 .. w |->
                        EmitStridedWith(TRUE, bus_add(ret, k - 1), At("HYPER", 0), 1, 1, 0, 0)]
  <1>1. /\ w \in Int /\ w \in Nat /\ w <= w /\ w - 1 \in Int
        /\ at + 1 \in Int /\ at + 5 >= at + 1 /\ at + 2 \in Int /\ at + 2 >= at + 2
        /\ at + 3 \in Int /\ at + 4 >= at + 3 /\ at + 4 \in Int /\ at + 4 >= at + 4
    OBVIOUS
  <1>2. BlockOk(a, at + 1, res, lim) /\ BlockOk(b, at + 2, res, lim)
    BY <1>1, SmallNumbers, PatchOk, PatchByteOk, Zenon
  <1>3. BlockOk(c, at + 3, res, lim)
    BY <1>1, SmallNumbers, SomeAddr, PatchOk, Zenon
  <1>4. BlockOk(d, at + 4, res, lim)
    BY <1>1, SmallNumbers, PatchByteOk, Zenon
  <1>5. Emitted(loop, at + 4, w, res, lim)
    BY <1>1, SomeAddr, WriteLoop, Zenon
  <1>6. Sll8(at, w, ret, inp, shf) = <<a, b, c, d>> \o loop
    BY DEF Sll8, Emit, EmitStrided
  <1> HIDE DEF a, b, c, d, loop
  <1>7. Emitted(<<a, b, c, d>>, at, 4, res, lim)
    BY <1>2, <1>3, <1>4, Blocks4, Zenon
  <1>8. Emitted(<<a, b, c, d>> \o loop, at, 4 + w, res, lim)
    BY <1>1, <1>5, <1>7, SmallNumbers, BlocksJoin, Zenon
  <1>9. QED
    BY <1>6, <1>8

LEMMA Srl8Ok ==
    ASSUME NEW at \in Int, NEW w \in Nat \ {0}, NEW ret, NEW inp, IsAddr(inp), NEW shf, IsAddr(shf),
           NEW res, res # "blocks", NEW lim \in Int, InResult(ret, w, res, lim)
    PROVE  Emitted(Srl8(at, w, ret, inp, shf), at, 4 + w, res, lim)
  <1> DEFINE a == EmitStridedWith(TRUE, Fld(at, 5, 1), inp, w - 1, 2, 30, -1)
             b == EmitStridedWith(TRUE, Fld(at, 2, 0), shf, 1, 1, 0, 0)
             c == EmitStridedWith(FALSE, Fld(at, 4, 0), At("SRL_HYPER_SELECT", 0), w, 1, 31, 0)
             d == EmitStridedWith(TRUE, Fld(at, 4, 1), bus_add(inp, w - 1), 1, 1, 0, 0)
             e == EmitStridedWith(TRUE, bus_add(ret, w - 1), At("HYPER", 0), 1, 1, 0, 0)
             v == w - 1
             loop == [k \in 1 .. v |->
                        EmitStridedWith(TRUE, bus_add(ret, k - 1), At("HYPER", 0), 1, 1, 0, 0)]
  <1>1. /\ w \in Int /\ w \in Nat /\ v <= w /\ v \in Int /\ v \in Nat /\ v + 1 <= w /\ 4 + w = 5 + v
        /\ at + 1 \in Int /\ at + 5 >= at + 1 /\ at + 2 \in Int /\ at + 2 >= at + 2
        /\ at + 3 \in Int /\ at + 4 >= at + 3 /\ at + 4 \in Int /\ at + 4 >= at + 4
        /\ at + 5 \in Int
    OBVIOUS
  <1>2. IsAddr(bus_add(inp, w - 1))
    BY AddIsAddr
  <1>3. BlockOk(a, at + 1, res, lim) /\ BlockOk(b, at + 2, res, lim)
    BY <1>1, SmallNumbers, PatchOk, PatchByteOk, Zenon
  <1>4. BlockOk(c, at + 3, res, lim)
    BY <1>1, SmallNumbers, SomeAddr, PatchOk, Zenon
  <1>5. BlockOk(d, at + 4, res, lim)
    BY <1>1, <1>2, SmallNumbers, PatchByteOk, Zenon
  <1>6. BlockOk(e, at + 5, res, lim)
    BY <1>1, SmallNumbers, SomeAddr, WriteOk, Zenon
  <1>7. Srl8(at, w, ret, inp, shf) = <<a, b, c, d, e>> \o loop
    BY DEF Srl8, Emit, EmitStrided
  <1> HIDE DEF v
  <1>8. Emitted(loop, at + 5, v, res, lim)
    BY <1>1, SomeAddr, WriteLoop, Zenon
  <1> HIDE DEF a, b, c, d, e, loop
  <1>9. Emitted(<<a, b, c, d, e>>, at, 5, res, lim)
    BY <1>3, <1>4, <1>5, <1>6, Blocks5, Zenon
  <1>10. Emitted(<<a, b, c, d, e>> \o loop, at, 4 + w, res, lim)
    BY <1>1, <1>8, <1>9, SmallNumbers, BlocksJoin, Zenon
  <1>11. QED
    BY <1>7, <1>10

LEMMA Sra8Ok ==
    ASSUME NEW at \in Int, NEW w \in Nat \ {0}, NEW ret, NEW inp, IsAddr(inp), NEW shf, IsAddr(shf),
           NEW res, res # "blocks", NEW lim \in Int, InResult(ret, w, res, lim)
    PROVE  Emitted(Sra8(at, w, ret, inp, shf), at, 4 + w, res, lim)
  <1> DEFINE a == EmitStridedWith(TRUE, Fld(at, 5, 1), inp, w - 1, 2, 30, -1)
             b == EmitStridedWith(FALSE, Fld(at, 2, 0), shf, 2, 1, 63, 0)
             c == EmitStridedWith(FALSE, Fld(at, 5, 0), At("SRL_HYPER_SELECT", 0), w - 1, 1, 31, 0)
             d == EmitStridedWith(TRUE, Fld(at, 4, 1), bus_add(inp, w - 1), 1, 1, 0, 0)
             e == EmitStridedWith(TRUE, bus_add(ret, w - 1), At("SRA_HI", 0), 1, 1, 0, 0)
             v == w - 1
             loop == [k \in 1 .. v |->
                        EmitStridedWith(TRUE, bus_add(ret, k - 1), At("HYPER", 0), 1, 1, 0, 0)]
  <1>1. /\ w \in Int /\ w \in Nat /\ v <= w /\ v \in Int /\ v \in Nat /\ v + 1 <= w /\ 4 + w = 5 + v
        /\ at + 1 \in Int /\ at + 5 >= at + 1 /\ at + 2 \in Int /\ at + 2 >= at + 2
        /\ at + 3 \in Int /\ at + 5 >= at + 3 /\ at + 4 \in Int /\ at + 4 >= at + 4
        /\ at + 5 \in Int
    OBVIOUS
  <1>2. IsAddr(bus_add(inp, w - 1))
    BY AddIsAddr
  <1>3. BlockOk(a, at + 1, res, lim) /\ BlockOk(b, at + 2, res, lim)
    BY <1>1, SmallNumbers, PatchOk, Zenon
  <1>4. BlockOk(c, at + 3, res, lim)
    BY <1>1, SmallNumbers, SomeAddr, PatchOk, Zenon
  <1>5. BlockOk(d, at + 4, res, lim)
    BY <1>1, <1>2, SmallNumbers, PatchByteOk, Zenon
  <1>6. BlockOk(e, at + 5, res, lim)
    BY <1>1, SmallNumbers, SomeAddr, WriteOk, Zenon
  <1>7. Sra8(at, w, ret, inp, shf) = <<a, b, c, d, e>> \o loop
    BY DEF Sra8, Emit, EmitStrided
  <1> HIDE DEF v
  <1>8. Emitted(loop, at + 5, v, res, lim)
    BY <1>1, SomeAddr, WriteLoop, Zenon
  <1> HIDE DEF a, b, c, d, e, loop
  <1>9. Emitted(<<a, b, c, d, e>>, at, 5, res, lim)
    BY <1>3, <1>4, <1>5, <1>6, Blocks5, Zenon
  <1>10. Emitted(<<a, b, c, d, e>> \o loop, at, 4 + w, res, lim)
    BY <1>1, <1>8, <1>9, SmallNumbers, BlocksJoin, Zenon
  <1>11. QED
    BY <1>7, <1>10

\* The scratch buffer takes everything.
LEMMA InScratch ==
    ASSUME NEW lo \in Int, NEW w, NEW res, NEW lim
    PROVE  InResult(At("tmp", lo), w, res, lim)
  BY AtIs DEF InResult

LEMMA SelectOk ==
    ASSUME NEW at \in Int, NEW w \in Nat \ {0}, NEW ret, NEW shf, IsAddr(shf), NEW select,
           NEW res, res # "blocks", NEW lim \in Int, InResult(ret, w, res, lim)
    PROVE  Emitted(SelectBytes(at, w, ret, shf, select), at, 3, res, lim)
  <1> DEFINE a == EmitStridedWith(TRUE, Fld(at, 1, 0), shf, 1, 1, 0, 0)
             b == EmitStridedWith(TRUE, Fld(at, 2, 0), At(select, 0), 1, 1, 0, 0)
             c == EmitStridedWith(TRUE, ret, At("tmp", 0), 1, w, 0, 0)
  <1>1. /\ w \in Int /\ w \in Nat /\ w <= w
        /\ at + 1 \in Int /\ at + 1 >= at + 1 /\ at + 2 \in Int /\ at + 2 >= at + 2
    OBVIOUS
  <1>2. BlockOk(a, at + 1, res, lim)
    BY <1>1, SmallNumbers, PatchByteOk, Zenon
  <1>3. BlockOk(b, at + 2, res, lim)
    BY <1>1, SmallNumbers, SomeAddr, PatchByteOk, Zenon
  <1>4. BlockOk(c, at + 3, res, lim)
    BY <1>1, SmallNumbers, SomeAddr, WriteAtOk, Zenon
  <1>5. SelectBytes(at, w, ret, shf, select) = <<a, b, c>>
    BY DEF SelectBytes, Emit, EmitStrided
  <1> HIDE DEF a, b, c
  <1>6. Emitted(<<a, b, c>>, at, 3, res, lim)
    BY <1>2, <1>3, <1>4, Blocks3, Zenon
  <1>7. QED
    BY <1>5, <1>6

LEMMA NegOk ==
    ASSUME NEW at \in Int, NEW w \in Nat \ {0}, NEW ret, NEW inp, IsAddr(inp),
           NEW res, res # "blocks", NEW lim \in Int, InResult(ret, w, res, lim)
    PROVE  Emitted(Neg(at, w, ret, inp), at, 1 + 3 * w, res, lim)
  <1> DEFINE tmp == At("tmp", 0)
             p == Not(at, w, tmp, inp)
             q == Inc(at + w + 1, w, ret, tmp)
  <1>1. /\ 1 + w \in Nat /\ 2 * w \in Nat /\ at + w + 1 \in Int /\ at + w + 1 = at + (1 + w)
        /\ 1 + 3 * w = (1 + w) + 2 * w
    OBVIOUS
  <1>2. InResult(tmp, w, res, lim) /\ IsAddr(tmp)
    BY SmallNumbers, InScratch, SomeAddr, Zenon
  <1>3. Neg(at, w, ret, inp) = p \o q
    BY DEF Neg
  <1> HIDE DEF tmp
  <1>4. Emitted(p, at, 1 + w, res, lim)
    BY <1>2, NotOk, Zenon
  <1>5. Emitted(q, at + w + 1, 2 * w, res, lim)
    BY <1>1, <1>2, IncOk, Zenon
  <1> HIDE DEF p, q
  <1>6. Emitted(p \o q, at, 1 + 3 * w, res, lim)
    BY <1>1, <1>4, <1>5, BlocksJoin, Zenon
  <1>7. QED
    BY <1>3, <1>6

\* Sll and Srl: clear one half of the scratch buffer, shift by bits into the
\* other or the same half, then select.
LEMMA ShiftOk ==
    ASSUME NEW at \in Int, NEW w \in Nat \ {0}, NEW ret, NEW shf, IsAddr(shf), NEW select,
           NEW res, res # "blocks", NEW lim \in Int, InResult(ret, w, res, lim),
           NEW shift, Emitted(shift, at + 1, 4 + w, res, lim),
           NEW clear, clear = <<Emit(At("tmp", 0), At("ZERO", 0), w)>>
    PROVE  Emitted((clear \o shift) \o SelectBytes(at + Len(clear \o shift), w, ret, shf, select),
                   at, 8 + w, res, lim)
  <1> DEFINE a == EmitStridedWith(TRUE, At("tmp", 0), At("ZERO", 0), 1, w, 0, 0)
             n == at + (5 + w)
             end == SelectBytes(n, w, ret, shf, select)
  <1>1. /\ w \in Int /\ w \in Nat /\ w <= w /\ at + 1 \in Int /\ 4 + w \in Nat /\ 5 + w \in Nat
        /\ 5 + w = 1 + (4 + w) /\ n \in Int /\ 8 + w = (5 + w) + 3
    OBVIOUS
  <1>2. InResult(At("tmp", 0), w, res, lim)
    BY SmallNumbers, InScratch, Zenon
  <1>3. BlockOk(a, at + 1, res, lim)
    BY <1>1, <1>2, SmallNumbers, SomeAddr, WriteAtOk, Zenon
  <1>4. clear = <<a>>
    BY DEF Emit, EmitStrided
  <1> HIDE DEF a, n
  <1>5. Emitted(<<a>>, at, 1, res, lim)
    BY <1>3, Blocks1, Zenon
  <1>6. Emitted(clear, at, 1, res, lim)
    BY <1>4, <1>5
  <1>7. Emitted(clear \o shift, at, 5 + w, res, lim)
    BY <1>1, <1>6, SmallNumbers, BlocksJoin, Zenon
  <1>8. at + Len(clear \o shift) = n
    BY <1>7 DEF Emitted, n
  <1>9. Emitted(end, n, 3, res, lim)
    BY <1>1, SelectOk, Zenon
  <1>10. n = at + (5 + w)
    BY DEF n
  <1> HIDE DEF end
  <1>11. Emitted((clear \o shift) \o end, at, 8 + w, res, lim)
    BY <1>1, <1>7, <1>9, <1>10, SmallNumbers, BlocksJoin, Zenon
  <1>12. QED
    BY <1>8, <1>11 DEF end

LEMMA SllOk ==
    ASSUME NEW at \in Int, NEW w \in Nat \ {0}, NEW ret, NEW inp, IsAddr(inp), NEW shf, IsAddr(shf),
           NEW res, res # "blocks", NEW lim \in Int, InResult(ret, w, res, lim)
    PROVE  Emitted(Sll(at, w, ret, inp, shf), at, 8 + w, res, lim)
  <1> DEFINE shift == Sll8(at + 1, w, At("tmp", w), inp, shf)
             clear == <<Emit(At("tmp", 0), At("ZERO", 0), w)>>
  <1>1. at + 1 \in Int /\ w \in Int
    OBVIOUS
  <1>2. InResult(At("tmp", w), w, res, lim)
    BY <1>1, InScratch, Zenon
  <1>3. Emitted(shift, at + 1, 4 + w, res, lim)
    BY <1>1, <1>2, Sll8Ok, Zenon
  <1>4. Sll(at, w, ret, inp, shf)
          = (clear \o shift) \o SelectBytes(at + Len(clear \o shift), w, ret, shf, "SLL_SHIFT_SELECT")
    BY Zenon DEF Sll
  <1>5. clear = <<Emit(At("tmp", 0), At("ZERO", 0), w)>>
    OBVIOUS
  <1> HIDE DEF shift, clear
  <1>6. Emitted((clear \o shift) \o SelectBytes(at + Len(clear \o shift), w, ret, shf, "SLL_SHIFT_SELECT"),
                at, 8 + w, res, lim)
    BY <1>3, <1>5, ShiftOk, Zenon
  <1>7. QED
    BY <1>4, <1>6

LEMMA SrlOk ==
    ASSUME NEW at \in Int, NEW w \in Nat \ {0}, NEW ret, NEW inp, IsAddr(inp), NEW shf, IsAddr(shf),
           NEW res, res # "blocks", NEW lim \in Int, InResult(ret, w, res, lim)
    PROVE  Emitted(Srl(at, w, ret, inp, shf), at, 8 + w, res, lim)
  <1> DEFINE shift == Srl8(at + 1, w, At("tmp", 0), inp, shf)
             clear == <<Emit(At("tmp", 0), At("ZERO", 0), w)>>
  <1>1. at + 1 \in Int
    OBVIOUS
  <1>2. InResult(At("tmp", 0), w, res, lim)
    BY SmallNumbers, InScratch, Zenon
  <1>3. Emitted(shift, at + 1, 4 + w, res, lim)
    BY <1>1, <1>2, Srl8Ok, Zenon
  <1>4. Srl(at, w, ret, inp, shf)
          = (clear \o shift) \o SelectBytes(at + Len(clear \o shift), w, ret, shf, "SRL_SHIFT_SELECT")
    BY Zenon DEF Srl
  <1>5. clear = <<Emit(At("tmp", 0), At("ZERO", 0), w)>>
    OBVIOUS
  <1> HIDE DEF shift, clear
  <1>6. Emitted((clear \o shift) \o SelectBytes(at + Len(clear \o shift), w, ret, shf, "SRL_SHIFT_SELECT"),
                at, 8 + w, res, lim)
    BY <1>3, <1>5, ShiftOk, Zenon
  <1>7. QED
    BY <1>4, <1>6

LEMMA SraOk ==
    ASSUME NEW at \in Int, NEW w \in Nat \ {0}, NEW ret, NEW inp, IsAddr(inp), NEW shf, IsAddr(shf),
           NEW res, res # "blocks", NEW lim \in Int, InResult(ret, w, res, lim)
    PROVE  Emitted(Sra(at, w, ret, inp, shf), at, 10 + w, res, lim)
  <1> DEFINE a == EmitStridedWith(TRUE, Fld(at, 1, 0), bus_add(inp, w - 1), 1, 1, 0, 0)
             b == EmitStridedWith(TRUE, Fld(at, 2, 0), At("SEXT_WHICH", 0), 1, 1, 0, 0)
             c == EmitStridedWith(FALSE, At("tmp", w), At("SEXT_BUFS", 0), 1, w, 0, 0)
             shift == Sra8(at + 3, w, At("tmp", 0), inp, shf)
             n == at + (7 + w)
             end == SelectBytes(n, w, ret, shf, "SRL_SHIFT_SELECT")
  <1>1. /\ w \in Int /\ w \in Nat /\ w <= w /\ at + 3 \in Int /\ 4 + w \in Nat /\ 7 + w \in Nat
        /\ at + 1 \in Int /\ at + 1 >= at + 1 /\ at + 2 \in Int /\ at + 2 >= at + 2
        /\ 7 + w = 3 + (4 + w) /\ n \in Int /\ 10 + w = (7 + w) + 3
    OBVIOUS
  <1>2. IsAddr(bus_add(inp, w - 1))
    BY AddIsAddr
  <1>3. InResult(At("tmp", 0), w, res, lim) /\ InResult(At("tmp", w), w, res, lim)
    BY <1>1, SmallNumbers, InScratch, Zenon
  <1>4. BlockOk(a, at + 1, res, lim)
    BY <1>1, <1>2, SmallNumbers, PatchByteOk, Zenon
  <1>5. BlockOk(b, at + 2, res, lim)
    BY <1>1, SmallNumbers, SomeAddr, PatchByteOk, Zenon
  <1>6. BlockOk(c, at + 3, res, lim)
    BY <1>1, <1>3, SmallNumbers, SomeAddr, WriteAtOk, Zenon
  <1>7. Emitted(shift, at + 3, 4 + w, res, lim)
    BY <1>1, <1>3, Sra8Ok, Zenon
  <1>8. Sra(at, w, ret, inp, shf)
          = (<<a, b, c>> \o shift)
              \o SelectBytes(at + Len(<<a, b, c>> \o shift), w, ret, shf, "SRL_SHIFT_SELECT")
    BY Zenon DEF Sra, Emit, EmitWith, EmitStrided
  <1> HIDE DEF a, b, c, shift, n
  <1>9. Emitted(<<a, b, c>>, at, 3, res, lim)
    BY <1>4, <1>5, <1>6, Blocks3, Zenon
  <1>10. Emitted(<<a, b, c>> \o shift, at, 7 + w, res, lim)
    BY <1>1, <1>7, <1>9, SmallNumbers, BlocksJoin, Zenon
  <1>11. at + Len(<<a, b, c>> \o shift) = n
    BY <1>10 DEF Emitted, n
  <1>12. Emitted(end, n, 3, res, lim)
    BY <1>1, SelectOk, Zenon
  <1>13. n = at + (7 + w)
    BY DEF n
  <1> HIDE DEF end
  <1>14. Emitted((<<a, b, c>> \o shift) \o end, at, 10 + w, res, lim)
    BY <1>1, <1>10, <1>12, <1>13, SmallNumbers, BlocksJoin, Zenon
  <1>15. QED
    BY <1>8, <1>11, <1>14 DEF end

-----------------------------------------------------------------------------
(* The order of a program *)

\* When block n is executed: Ges takes the blocks of the bytes from the highest
\* byte down.
Turn(o, w, n) == IF o.name = "Ges" /\ n \in 3 .. w + 2 THEN w + 5 - n ELSE n

\* Where block b, the k-th, writes to the source address of a block, that block
\* is executed later.
PatchesLater(b, k, c, o, w) ==
    \A j \in 1 .. c, f \in 0 .. 2 :
      (\E p \in Places(b) : To(b, p) = Fld(0, j - 1, f)) => Turn(o, w, j) > Turn(o, w, k)

\* The block executed after it is the next in turn; the last one ends the program.
JumpsOn(b, k, c, o, w) ==
    IF k = c THEN b.jump = Halt
    ELSE /\ b.jump \in Int /\ k + b.jump \in 1 .. c
         /\ Turn(o, w, k + b.jump) = Turn(o, w, k) + 1

Fine(b, k, c, o, w, res, lim) ==
    Shape(b) /\ Lands(b, res, lim) /\ PatchesLater(b, k, c, o, w) /\ JumpsOn(b, k, c, o, w)

ProgramOk(q, c, o, w, res, lim) ==
    /\ c \in Nat \ {0} /\ (o.name = "Ges" => c = w + 3)
    /\ q = [k \in 1 .. c |-> q[k]]
    /\ \A k \in 1 .. c : Fine(q[k], k, c, o, w, res, lim)

\* The places a block writes to.
LEMMA ToIs ==
    ASSUME NEW b, Shape(b), NEW p, p \in Places(b)
    PROVE  \E n \in Nat : /\ To(b, p) = At(b.dst.reg, b.dst.lo + n)
                          /\ b.rows = 1 => n <= b.cols - 1
  <1> DEFINE u == b.cols + b.ds
             n == p[1] * u + p[2]
  <1>1. b.rows \in Int /\ b.cols \in Int /\ u \in Nat /\ IsAt(b.dst)
    BY DEF Shape
  <1>2. p[1] \in 0 .. b.rows - 1 /\ p[2] \in 0 .. b.cols - 1
    BY DEF Places
  <1>3. b.rows = 1 => p[1] = 0
    BY <1>1, <1>2
  <1>4. To(b, p) = bus_add(b.dst, n)
    BY DEF To
  <1>5. p[1] \in Nat /\ p[2] \in Nat /\ p[2] <= b.cols - 1
    BY <1>1, <1>2
  <1> HIDE DEF u
  <1>6. p[1] * u \in Nat /\ (p[1] = 0 => p[1] * u = 0)
    BY <1>1, <1>5
  <1>7. n \in Nat /\ (b.rows = 1 => n <= b.cols - 1)
    BY <1>1, <1>3, <1>5, <1>6
  <1> HIDE DEF n
  <1>8. bus_add(b.dst, n) = At(b.dst.reg, b.dst.lo + n)
    BY <1>1, <1>7 DEF IsAt, At, bus_add
  <1>9. QED
    BY <1>4, <1>7, <1>8

LEMMA AtEqual ==
    ASSUME NEW r, NEW s, NEW x, NEW y, At(r, x) = At(s, y) PROVE r = s /\ x = y
  BY AtIs

\* A straight block.
LEMMA StraightLater ==
    ASSUME NEW b, NEW k \in Nat, NEW res, NEW lim, BlockOk(b, k, res, lim), NEW c \in Nat,
           NEW o, o.name # "Ges", NEW w
    PROVE  PatchesLater(b, k, c, o, w)
  <1> SUFFICES ASSUME NEW j \in 1 .. c, NEW f \in 0 .. 2,
                      NEW p \in Places(b), To(b, p) = Fld(0, j - 1, f)
               PROVE  j > k
    BY DEF PatchesLater, Turn
  <1>1. Shape(b) /\ b.dst.lo \in Int /\ (b.dst.reg = "blocks" => b.dst.lo >= 32 * k + 4)
    BY DEF BlockOk, Shape, IsAt
  <1>2. PICK n \in Nat : To(b, p) = At(b.dst.reg, b.dst.lo + n)
    BY <1>1, ToIs
  <1>3. At(b.dst.reg, b.dst.lo + n) = At("blocks", 32 * (0 + (j - 1)) + 4 + f)
    BY <1>2 DEF Fld
  <1>4. b.dst.reg = "blocks" /\ b.dst.lo + n = 32 * (0 + (j - 1)) + 4 + f
    BY <1>3, AtEqual
  <1>5. QED
    BY <1>1, <1>4

LEMMA EndIs ==
    ASSUME NEW q, NEW c \in Nat \ {0}, Len(q) = c, \E S : q \in Seq(S)
    PROVE  /\ End(q) = [k \in 1 .. c |-> End(q)[k]]
           /\ \A k \in 1 .. c : End(q)[k] = IF k = c THEN [q[k] EXCEPT !.jump = Halt] ELSE q[k]
  <1>1. PICK S : q \in Seq(S)
    OBVIOUS
  <1>2. DOMAIN q = 1 .. c /\ q = [k \in 1 .. c |-> q[k]] /\ c \in 1 .. c
    BY <1>1
  <1> DEFINE e == [q[c] EXCEPT !.jump = Halt]
  <1>3. End(q) = [q EXCEPT ![c] = e]
    BY DEF End
  <1> HIDE DEF e
  <1>4. \A k \in 1 .. c : [q EXCEPT ![c] = e][k] = IF k = c THEN e ELSE q[k]
    BY <1>2
  <1>5. [q EXCEPT ![c] = e] = [k \in 1 .. c |-> [q EXCEPT ![c] = e][k]]
    BY <1>2
  <1>6. QED
    BY <1>3, <1>4, <1>5 DEF e

LEMMA StopShape ==
    ASSUME NEW b, Shape(b), NEW s, s = [b EXCEPT !.jump = Halt]
    PROVE  /\ Shape(s) /\ s.dst = b.dst /\ s.rows = b.rows /\ s.cols = b.cols /\ s.ds = b.ds
           /\ s.jump = Halt
  BY DEF Shape

LEMMA StopFine ==
    ASSUME NEW b, Shape(b), NEW s, s = [b EXCEPT !.jump = Halt], NEW c, NEW o, NEW w, NEW res, NEW lim,
           Lands(b, res, lim), PatchesLater(b, c, c, o, w)
    PROVE  Fine(s, c, c, o, w, res, lim)
  <1>1. /\ Shape(s) /\ s.dst = b.dst /\ s.rows = b.rows /\ s.cols = b.cols /\ s.ds = b.ds
        /\ s.jump = Halt
    BY StopShape
  <1>2. Places(s) = Places(b) /\ \A p : To(s, p) = To(b, p)
    BY <1>1, Zenon DEF Places, To
  <1>3. Lands(s, res, lim)
    BY <1>1, Zenon DEF Lands
  <1>4. PatchesLater(s, c, c, o, w)
    BY <1>2, Zenon DEF PatchesLater
  <1>5. JumpsOn(s, c, c, o, w)
    BY <1>1 DEF JumpsOn
  <1>6. QED
    BY <1>1, <1>3, <1>4, <1>5 DEF Fine

LEMMA StraightProgram ==
    ASSUME NEW q, NEW c \in Nat \ {0}, NEW res, NEW lim, Emitted(q, 0, c, res, lim),
           NEW o, o.name # "Ges", NEW w
    PROVE  ProgramOk(End(q), c, o, w, res, lim)
  <1>1. /\ End(q) = [k \in 1 .. c |-> End(q)[k]]
        /\ \A k \in 1 .. c : End(q)[k] = IF k = c THEN [q[k] EXCEPT !.jump = Halt] ELSE q[k]
    BY EndIs, Zenon DEF Emitted
  <1>2. ASSUME NEW k \in 1 .. c PROVE Fine(End(q)[k], k, c, o, w, res, lim)
    <2>1. k \in Nat /\ c \in Nat /\ 0 + k = k
      OBVIOUS
    <2>2. BlockOk(q[k], k, res, lim)
      BY <2>1 DEF Emitted, LoopOk
    <2>3. Shape(q[k]) /\ Lands(q[k], res, lim) /\ q[k].jump = 1
      BY <2>2 DEF BlockOk
    <2>4. PatchesLater(q[k], k, c, o, w)
      BY <2>1, <2>2, StraightLater, Zenon
    <2>5. CASE k = c
      <3>1. End(q)[k] = [q[k] EXCEPT !.jump = Halt]
        BY <1>1, <2>5
      <3>2. QED
        BY <2>3, <2>4, <2>5, <3>1, StopFine, Zenon
    <2>6. CASE k # c
      <3>1. End(q)[k] = q[k]
        BY <1>1, <2>6
      <3>2. k + 1 \in 1 .. c /\ 1 \in Int
        BY <2>6
      <3>3. JumpsOn(q[k], k, c, o, w)
        BY <2>3, <2>6, <3>2 DEF JumpsOn, Turn
      <3>4. QED
        BY <2>3, <2>4, <3>1, <3>3 DEF Fine
    <2>7. QED
      BY <2>5, <2>6
  <1>3. QED
    BY <1>1, <1>2, Zenon DEF ProgramOk

-----------------------------------------------------------------------------
(* Ges *)

LEMMA BranchShape ==
    ASSUME NEW b, Shape(b), NEW n, NEW s, s = Branch(b, n)
    PROVE  /\ Shape(s) /\ s.dst = b.dst /\ s.rows = b.rows /\ s.cols = b.cols /\ s.ds = b.ds
           /\ s.jump = n
  BY DEF Shape, Branch

\* The block of a byte patches one block, the one executed next.
LEMMA OnePatch ==
    ASSUME NEW b, Shape(b), NEW m \in Int, b.dst.reg = "blocks", b.dst.lo = 32 * m + 4,
           b.rows = 1, b.cols = 1,
           NEW c \in Nat, NEW o, NEW w, NEW k, Turn(o, w, m + 1) > Turn(o, w, k)
    PROVE  PatchesLater(b, k, c, o, w)
  <1> SUFFICES ASSUME NEW j \in 1 .. c, NEW f \in 0 .. 2,
                      NEW p \in Places(b), To(b, p) = Fld(0, j - 1, f)
               PROVE  Turn(o, w, j) > Turn(o, w, k)
    BY DEF PatchesLater
  <1>1. PICK n \in Nat : To(b, p) = At(b.dst.reg, b.dst.lo + n) /\ n <= 1 - 1
    BY ToIs
  <1>2. n = 0
    BY <1>1
  <1>4. At(b.dst.reg, b.dst.lo + n) = At("blocks", 32 * (0 + (j - 1)) + 4 + f)
    BY <1>1 DEF Fld
  <1>5. b.dst.lo + n = 32 * (0 + (j - 1)) + 4 + f
    BY <1>4, AtEqual
  <1>6. m + 1 = j
    BY <1>2, <1>5
  <1>7. QED
    BY <1>6

\* The first two blocks patch the blocks of the bytes, which are behind them.
LEMMA FirstPatches ==
    ASSUME NEW b, NEW k \in 1 .. 2, NEW res, NEW lim, BlockOk(b, 2, res, lim), NEW c \in Nat,
           NEW o, NEW w \in Nat
    PROVE  PatchesLater(b, k, c, o, w)
  <1> SUFFICES ASSUME NEW j \in 1 .. c, NEW f \in 0 .. 2,
                      NEW p \in Places(b), To(b, p) = Fld(0, j - 1, f)
               PROVE  Turn(o, w, j) > Turn(o, w, k)
    BY DEF PatchesLater
  <1>1. Shape(b) /\ b.dst.lo \in Int /\ (b.dst.reg = "blocks" => b.dst.lo >= 32 * 2 + 4)
    BY DEF BlockOk, Shape, IsAt
  <1>2. PICK n \in Nat : To(b, p) = At(b.dst.reg, b.dst.lo + n)
    BY <1>1, ToIs
  <1>3. At(b.dst.reg, b.dst.lo + n) = At("blocks", 32 * (0 + (j - 1)) + 4 + f)
    BY <1>2 DEF Fld
  <1>4. b.dst.reg = "blocks" /\ b.dst.lo + n = 32 * (0 + (j - 1)) + 4 + f
    BY <1>3, AtEqual
  <1>5. j >= 3
    BY <1>1, <1>4
  <1>6. QED
    BY <1>5 DEF Turn

IsSeq(q, S, c) == q \in Seq(S) /\ Len(q) = c
Joined(q, t, S, c, d) ==
    /\ IsSeq(q \o t, S, c + d)
    /\ \A i \in 1 .. c : (q \o t)[i] = q[i]
    /\ \A i \in 1 .. d : (q \o t)[c + i] = t[i]

LEMMA JoinIs ==
    ASSUME NEW S, NEW c \in Nat, NEW d \in Nat, NEW q, IsSeq(q, S, c), NEW t, IsSeq(t, S, d)
    PROVE  Joined(q, t, S, c, d)
  <1>1. q \in Seq(S) /\ t \in Seq(S) /\ Len(q) = c /\ Len(t) = d
    BY DEF IsSeq
  <1>2. /\ q \o t \in Seq(S) /\ Len(q \o t) = c + d
        /\ \A i \in 1 .. c + d : (q \o t)[i] = IF i <= c THEN q[i] ELSE t[i - c]
    BY <1>1, ConcatProperties
  <1>3. ASSUME NEW i \in 1 .. c PROVE (q \o t)[i] = q[i]
    BY <1>2
  <1>4. ASSUME NEW i \in 1 .. d PROVE (q \o t)[c + i] = t[i]
    <2>1. c + i \in 1 .. c + d /\ ~(c + i <= c) /\ (c + i) - c = i
      OBVIOUS
    <2>2. QED
      BY <1>2, <2>1
  <1>5. QED
    BY <1>2, <1>3, <1>4 DEF Joined, IsSeq

\* Two blocks, one for each byte, and the last.
GesLayout(q, a, b, z, f, w) ==
    /\ (\E S : q \in Seq(S)) /\ Len(q) = w + 3 /\ q[1] = a /\ q[2] = b /\ q[w + 3] = z
    /\ \A k \in 1 .. w : q[2 + k] = f[k]

LEMMA GesBlocks ==
    ASSUME NEW a, NEW b, NEW z, NEW w \in Nat, NEW f, f = [k \in 1 .. w |-> f[k]]
    PROVE  GesLayout(<<a, b>> \o f \o <<z>>, a, b, z, f, w)
  <1> DEFINE S == {a, b, z} \cup {f[k] : k \in 1 .. w}
             h == <<a, b>>
             t == <<z>>
             p == h \o f
             v == 2 + w
             q == p \o t
  <1>1. IsSeq(h, S, 2) /\ h[1] = a /\ h[2] = b /\ IsSeq(t, S, 1) /\ t[1] = z
    BY DEF IsSeq
  <1>2. \A k \in 1 .. w : f[k] \in S
    OBVIOUS
  <1> HIDE DEF S, h, t
  <1>3. IsSeq(f, S, w)
    BY <1>2 DEF IsSeq
  <1>4. Joined(h, f, S, 2, w)
    BY <1>1, <1>3, SmallNumbers, JoinIs, Zenon
  <1>5. IsSeq(p, S, v) /\ p[1] = a /\ p[2] = b /\ \A i \in 1 .. w : p[2 + i] = f[i]
    <2>1. 1 \in 1 .. 2 /\ 2 \in 1 .. 2
      OBVIOUS
    <2>2. QED
      BY <1>1, <1>4, <2>1 DEF Joined
  <1>6. v \in Nat /\ v + 1 = w + 3 /\ (\A i \in 1 .. w : 2 + i \in 1 .. v) /\ 1 \in 1 .. v /\ 2 \in 1 .. v
    OBVIOUS
  <1> HIDE DEF p, v
  <1>7. Joined(p, t, S, v, 1)
    BY <1>1, <1>5, <1>6, SmallNumbers, JoinIs, Zenon
  <1>8. IsSeq(q, S, v + 1) /\ q[v + 1] = z /\ \A i \in 1 .. v : q[i] = p[i]
    <2>1. 1 \in 1 .. 1
      OBVIOUS
    <2>2. QED
      BY <1>1, <1>7, <2>1 DEF Joined
  <1> HIDE DEF q
  <1>9. q[1] = a /\ q[2] = b
    BY <1>5, <1>6, <1>8
  <1>10. ASSUME NEW k \in 1 .. w PROVE q[2 + k] = f[k]
    BY <1>5, <1>6, <1>8
  <1>11. q \in Seq(S) /\ Len(q) = w + 3 /\ q[w + 3] = z
    BY <1>6, <1>8 DEF IsSeq
  <1>12. GesLayout(q, a, b, z, f, w)
    BY <1>9, <1>10, <1>11, Zenon DEF GesLayout
  <1>13. QED
    BY <1>12 DEF q, p, h, t

\* A block that copies one byte.
CopiesByte(b, dst) == Shape(b) /\ b.dst = dst /\ b.rows = 1 /\ b.cols = 1

LEMMA ByteShape ==
    ASSUME NEW i, NEW dst, IsAt(dst), NEW src, IsAddr(src)
    PROVE  CopiesByte(EmitStridedWith(i, dst, src, 1, 1, 0, 0), dst)
  BY DEF CopiesByte, EmitStridedWith, Shape

LEMMA GesProgram ==
    ASSUME NEW w \in Nat \ {0}, NEW ret, NEW l, IsAddr(l), NEW r, IsAddr(r),
           NEW res, res # "blocks", NEW lim \in Int, InResult(ret, 1, res, lim),
           NEW o, o.name = "Ges"
    PROVE  ProgramOk(End(Ges(0, w, ret, l, r)), w + 3, o, w, res, lim)
  <1> DEFINE a == EmitStridedWith(TRUE, Fld(0, 2, 1), r, w, 1, 31, 0)
             u == EmitStridedWith(TRUE, Fld(0, 2, 2), l, w, 1, 31, 0)
             b == Branch(u, w)
             next(k) == GesNext(k - 1, w)
             g(k) == EmitStridedWith(TRUE, Fld(0 + 1 + k, next(k), 0), At("HYPER", HYPER_GES), 1, 1, 0, 0)
             item(k) == Branch(g(k), next(k))
             f == [k \in 1 .. w |-> item(k)]
             z == EmitStridedWith(TRUE, ret, At("TRUTH", 0), 1, 1, 0, 0)
             q == <<a, b>> \o f \o <<z>>
             c == w + 3
  <1>1. Ges(0, w, ret, l, r) = q
    BY Zenon DEF Ges, Emit, EmitStrided
  <1>2. w \in Nat /\ w \in Int /\ c \in Nat \ {0} /\ c \in Nat /\ 0 + 2 >= 2 /\ 1 <= 1 /\ c \in 1 .. c
    OBVIOUS
  <1>3. BlockOk(a, 2, res, lim) /\ BlockOk(u, 2, res, lim)
    BY <1>2, SmallNumbers, PatchOk, Zenon
  <1>4. Fine(a, 1, c, o, w, res, lim)
    <2>1. Shape(a) /\ Lands(a, res, lim) /\ a.jump = 1
      BY <1>3 DEF BlockOk
    <2>2. 1 \in 1 .. 2
      OBVIOUS
    <2>3. PatchesLater(a, 1, c, o, w)
      BY <1>2, <1>3, <2>2, FirstPatches, Zenon
    <2> HIDE DEF a
    <2>4. JumpsOn(a, 1, c, o, w)
      BY <2>1 DEF JumpsOn, Turn
    <2>5. QED
      BY <2>1, <2>3, <2>4 DEF Fine
  <1>5. Fine(b, 2, c, o, w, res, lim)
    <2>1. Shape(u) /\ Lands(u, res, lim)
      BY <1>3 DEF BlockOk
    <2>2. 2 \in 1 .. 2
      OBVIOUS
    <2>3. PatchesLater(u, 2, c, o, w)
      BY <1>2, <1>3, <2>2, FirstPatches, Zenon
    <2> HIDE DEF u
    <2>4. /\ Shape(b) /\ b.dst = u.dst /\ b.rows = u.rows /\ b.cols = u.cols /\ b.ds = u.ds
          /\ b.jump = w
      BY <2>1, BranchShape
    <2> HIDE DEF b
    <2>5. Places(b) = Places(u) /\ \A p : To(b, p) = To(u, p)
      BY <2>4, Zenon DEF Places, To
    <2>6. PatchesLater(b, 2, c, o, w)
      BY <2>3, <2>5, Zenon DEF PatchesLater
    <2>7. Lands(b, res, lim)
      BY <2>1, <2>4, Zenon DEF Lands
    <2>8. JumpsOn(b, 2, c, o, w)
      BY <2>4 DEF JumpsOn, Turn
    <2>9. QED
      BY <2>4, <2>6, <2>7, <2>8 DEF Fine
  <1>6. ASSUME NEW k \in 1 .. w PROVE Fine(item(k), 2 + k, c, o, w, res, lim)
    <2>1. next(k) = IF k = 1 THEN w ELSE -1
      BY DEF GesNext
    <2>2. /\ next(k) \in Int /\ 2 + k + next(k) \in 1 .. c /\ 2 + k # c
          /\ Turn(o, w, 2 + k + next(k)) = Turn(o, w, 2 + k) + 1 /\ Turn(o, w, 2 + k) \in Int
      BY <2>1 DEF Turn
    <2> HIDE DEF next
    <2> DEFINE d == Fld(0 + 1 + k, next(k), 0)
               m == 1 + k + next(k)
    <2>3. 0 + 1 + k \in Int /\ m \in Int /\ m + 1 = 2 + k + next(k)
      BY <2>2
    <2>4. IsAt(d) /\ d.reg = "blocks" /\ d.lo = 32 * m + 4
      <3>1. /\ IsAt(d) /\ d.reg = "blocks" /\ d.lo = 32 * ((0 + 1 + k) + next(k)) + 4 + 0
        <4>1. next(k) \in Int /\ 0 \in Int
          BY <2>2
        <4>2. QED
          BY <2>3, <4>1, FldIs, Zenon
      <3> HIDE DEF d
      <3>2. QED
        BY <2>2, <3>1
    <2> HIDE DEF d, m
    <2>5. Shape(g(k)) /\ g(k).dst = d /\ g(k).rows = 1 /\ g(k).cols = 1
      <3>1. g(k) = EmitStridedWith(TRUE, d, At("HYPER", HYPER_GES), 1, 1, 0, 0)
        BY DEF d
      <3> HIDE DEF g
      <3>2. CopiesByte(EmitStridedWith(TRUE, d, At("HYPER", HYPER_GES), 1, 1, 0, 0), d)
        BY <2>4, SomeAddr, ByteShape, Zenon
      <3>3. QED
        BY <3>1, <3>2 DEF CopiesByte
    <2> HIDE DEF g
    <2>6. /\ Shape(item(k)) /\ item(k).dst = d /\ item(k).rows = 1 /\ item(k).cols = 1
          /\ item(k).jump = next(k)
      BY <2>5, BranchShape
    <2> HIDE DEF item
    <2>7. Turn(o, w, m + 1) > Turn(o, w, 2 + k)
      BY <2>2, <2>3
    <2>8. PatchesLater(item(k), 2 + k, c, o, w)
      BY <1>2, <2>3, <2>4, <2>6, <2>7, OnePatch
    <2>9. JumpsOn(item(k), 2 + k, c, o, w)
      BY <2>2, <2>6 DEF JumpsOn
    <2>10. Lands(item(k), res, lim)
      BY <2>4, <2>6 DEF Lands
    <2>11. QED
      BY <2>6, <2>8, <2>9, <2>10 DEF Fine
  <1>7. BlockOk(z, c, res, lim) /\ z.dst = ret
    <2>1. BlockOk(z, c, res, lim)
      BY <1>2, SmallNumbers, SomeAddr, WriteAtOk, Zenon
    <2>2. QED
      BY <2>1 DEF EmitStridedWith
  <1>8. Shape(z) /\ Lands(z, res, lim) /\ PatchesLater(z, c, c, o, w)
    <2>1. Shape(z) /\ Lands(z, res, lim) /\ z.dst.reg # "blocks"
      BY <1>7 DEF BlockOk, InResult
    <2> HIDE DEF z
    <2>2. ASSUME NEW j \in 1 .. c, NEW i \in 0 .. 2, NEW p \in Places(z), To(z, p) = Fld(0, j - 1, i)
          PROVE  FALSE
      <3>1. PICK n \in Nat : To(z, p) = At(z.dst.reg, z.dst.lo + n)
        BY <2>1, ToIs
      <3>2. At(z.dst.reg, z.dst.lo + n) = At("blocks", 32 * (0 + (j - 1)) + 4 + i)
        BY <2>2, <3>1 DEF Fld
      <3>3. QED
        BY <2>1, <3>2, AtEqual
    <2>3. QED
      BY <2>1, <2>2 DEF PatchesLater
  <1>9. f = [k \in 1 .. w |-> f[k]] /\ \A k \in 1 .. w : f[k] = item(k)
    <2> HIDE DEF item
    <2>1. QED
      OBVIOUS
  <1> HIDE DEF a, b, u, item, z, f
  <1>10. /\ (\E S : q \in Seq(S)) /\ Len(q) = c /\ q[1] = a /\ q[2] = b /\ q[c] = z
         /\ \A k \in 1 .. w : q[2 + k] = f[k]
    <2>1. GesLayout(q, a, b, z, f, w)
      BY <1>2, <1>9, GesBlocks, Zenon
    <2> HIDE DEF q
    <2>2. QED
      BY <2>1, Zenon DEF GesLayout
  <1> HIDE DEF q
  <1>11. /\ End(q) = [k \in 1 .. c |-> End(q)[k]]
         /\ \A k \in 1 .. c : End(q)[k] = IF k = c THEN [q[k] EXCEPT !.jump = Halt] ELSE q[k]
    BY <1>2, <1>10, EndIs, Zenon
  <1>12. ASSUME NEW k \in 1 .. c PROVE Fine(End(q)[k], k, c, o, w, res, lim)
    <2>1. CASE k = c
      <3>1. End(q)[c] = [z EXCEPT !.jump = Halt]
        BY <1>2, <1>10, <1>11
      <3>2. Fine(End(q)[c], c, c, o, w, res, lim)
        BY <1>8, <3>1, StopFine, Zenon
      <3>3. QED
        BY <2>1, <3>2
    <2>2. CASE k # c
      <3>1. End(q)[k] = q[k]
        BY <1>11, <2>2
      <3>2. k = 1 \/ k = 2 \/ (k - 2 \in 1 .. w /\ k = 2 + (k - 2))
        BY <2>2
      <3>3. CASE k = 1
        BY <1>4, <1>10, <3>1, <3>3
      <3>4. CASE k = 2
        BY <1>5, <1>10, <3>1, <3>4
      <3>5. CASE k - 2 \in 1 .. w /\ k = 2 + (k - 2)
        <4> DEFINE i == k - 2
        <4>1. i \in 1 .. w /\ k = 2 + i
          BY <3>5
        <4> HIDE DEF i
        <4>2. q[k] = item(i)
          BY <1>9, <1>10, <4>1
        <4>3. Fine(item(i), 2 + i, c, o, w, res, lim)
          BY <1>6, <4>1
        <4>4. QED
          BY <3>1, <4>1, <4>2, <4>3
      <3>6. QED
        BY <3>2, <3>3, <3>4, <3>5
    <2>3. QED
      BY <2>1, <2>2
  <1>13. ProgramOk(End(q), c, o, w, res, lim)
    BY <1>2, <1>11, <1>12, Zenon DEF ProgramOk
  <1>14. QED
    BY <1>1, <1>13

-----------------------------------------------------------------------------
(* All programs *)

\* How many bytes of the result a program may write: a comparison writes one,
\* and Add and Sub write the carry of their first byte even where it is the
\* only one.
Limit(o, w) == IF o.name \in Comparisons THEN 1
               ELSE IF o.name \in {"Add", "Sub"} /\ w = 1 THEN 2 ELSE w

LEMMA LimitFits ==
    ASSUME NEW o, NEW w \in Nat \ {0}, NEW res
    PROVE  /\ Limit(o, w) \in Int
           /\ o.name \in Comparisons => InResult(At(res, 0), 1, res, Limit(o, w))
           /\ o.name \notin Comparisons => InResult(At(res, 0), w, res, Limit(o, w))
           /\ o.name \in {"Add", "Sub"} => InResult(At(res, 0), IF w = 1 THEN 2 ELSE w, res, Limit(o, w))
  <1>1. IsAt(At(res, 0)) /\ At(res, 0).reg = res /\ At(res, 0).lo = 0
    BY AtIs
  <1>2. QED
    BY <1>1 DEF InResult, Limit, Comparisons

LEMMA Straight ==
    ASSUME NEW q, NEW c, c \in Nat \ {0}, NEW res, NEW o, o.name # "Ges", NEW w,
           Emitted(q, 0, c, res, Limit(o, w))
    PROVE  \E n : ProgramOk(End(q), n, o, w, res, Limit(o, w))
  BY StraightProgram, Zenon

LEMMA EveryProgram ==
    ASSUME NEW o \in Operation, NEW w \in Nat \ {0}, NEW res, res \in {"lhs", "ret"}
    PROVE  \E c : ProgramOk(End(Program(o, w, At(res, 0), At("lhs", 0), At("rhs", 0))),
                            c, o, w, res, Limit(o, w))
  <1> DEFINE ret == At(res, 0)
             l == At("lhs", 0)
             r == At("rhs", 0)
             lim == Limit(o, w)
             Good(q) == \E c : ProgramOk(End(q), c, o, w, res, Limit(o, w))
  <1>1. IsAddr(l) /\ IsAddr(r) /\ res # "blocks" /\ lim \in Int /\ 0 \in Int
    BY AtIs, LimitFits
  <1>2. o.name \notin Comparisons => InResult(ret, w, res, lim)
    BY LimitFits
  <1>3. o.name \in Comparisons => InResult(ret, 1, res, lim)
    BY LimitFits
  <1>4. o.name \in {"Add", "Sub"} => InResult(ret, IF w = 1 THEN 2 ELSE w, res, lim)
    BY LimitFits
  <1> HIDE DEF ret, l, r
  <1>5. CASE o.name = "Inc"
    <2>1. 2 * w \in Nat \ {0} /\ o.name # "Ges" /\ InResult(ret, w, res, lim)
      BY <1>2, <1>5 DEF Comparisons
    <2>2. Emitted(Inc(0, w, ret, l), 0, 2 * w, res, lim)
      BY <1>1, <2>1, IncOk, Zenon
    <2>3. Good(Inc(0, w, ret, l))
      BY <2>1, <2>2, Straight, Zenon
    <2>4. QED
      BY <1>5, <2>3, Zenon DEF Program, ret, l, r
  <1>6. CASE o.name = "Neg"
    <2>1. 1 + 3 * w \in Nat \ {0} /\ o.name # "Ges" /\ InResult(ret, w, res, lim)
      BY <1>2, <1>6 DEF Comparisons
    <2>2. Emitted(Neg(0, w, ret, l), 0, 1 + 3 * w, res, lim)
      BY <1>1, <2>1, NegOk, Zenon
    <2>3. Good(Neg(0, w, ret, l))
      BY <2>1, <2>2, Straight, Zenon
    <2>4. QED
      BY <1>6, <2>3, Zenon DEF Program, ret, l, r
  <1>7. CASE o.name = "Not"
    <2>1. 1 + w \in Nat \ {0} /\ o.name # "Ges" /\ InResult(ret, w, res, lim)
      BY <1>2, <1>7 DEF Comparisons
    <2>2. Emitted(Not(0, w, ret, l), 0, 1 + w, res, lim)
      BY <1>1, <2>1, NotOk, Zenon
    <2>3. Good(Not(0, w, ret, l))
      BY <2>1, <2>2, Straight, Zenon
    <2>4. QED
      BY <1>7, <2>3, Zenon DEF Program, ret, l, r
  <1>8. CASE o.name \in {"Add", "Sub"}
    <2> DEFINE m == IF w = 1 THEN 2 ELSE w
    <2>1. /\ 3 + 2 * (w - 1) \in Nat \ {0} /\ o.name # "Ges" /\ m \in Int /\ m >= w /\ m >= 2
          /\ InResult(ret, m, res, lim)
      BY <1>4, <1>8
    <2> HIDE DEF m
    <2>2. \A s : Emitted(Chain(0, w, ret, l, r, s), 0, 3 + 2 * (w - 1), res, lim)
      BY <1>1, <2>1, ChainOk, Zenon
    <2>3. \A s : Good(Chain(0, w, ret, l, r, s))
      BY <2>1, <2>2, Straight, Zenon
    <2>4. CASE o.name = "Add"
      BY <2>3, <2>4, Zenon DEF Program, Add, ret, l, r
    <2>5. CASE o.name = "Sub"
      BY <2>3, <2>5, Zenon DEF Program, Sub, ret, l, r
    <2>6. QED
      BY <1>8, <2>4, <2>5
  <1>9. CASE o.name \in {"And", "Or", "Xor"}
    <2>1. 2 + w \in Nat \ {0} /\ o.name # "Ges" /\ InResult(ret, w, res, lim)
      BY <1>2, <1>9 DEF Comparisons
    <2>2. \A s : Emitted(Bytewise(0, w, ret, l, r, s), 0, 2 + w, res, lim)
      BY <1>1, <2>1, BytewiseOk, Zenon
    <2>3. \A s : Good(Bytewise(0, w, ret, l, r, s))
      BY <2>1, <2>2, Straight, Zenon
    <2>4. CASE o.name = "And"
      BY <2>3, <2>4, Zenon DEF Program, And, ret, l, r
    <2>5. CASE o.name = "Or"
      BY <2>3, <2>5, Zenon DEF Program, Or, ret, l, r
    <2>6. CASE o.name = "Xor"
      BY <2>3, <2>6, Zenon DEF Program, Xor, ret, l, r
    <2>7. QED
      BY <1>9, <2>4, <2>5, <2>6
  <1>10. CASE o.name \in Shifts
    <2>1. /\ 8 + w \in Nat \ {0} /\ 10 + w \in Nat \ {0} /\ o.name # "Ges"
          /\ InResult(ret, w, res, lim)
      BY <1>2, <1>10 DEF Comparisons, Shifts
    <2>2. Emitted(Sll(0, w, ret, l, r), 0, 8 + w, res, lim)
      BY <1>1, <2>1, SllOk, Zenon
    <2>3. Emitted(Srl(0, w, ret, l, r), 0, 8 + w, res, lim)
      BY <1>1, <2>1, SrlOk, Zenon
    <2>4. Emitted(Sra(0, w, ret, l, r), 0, 10 + w, res, lim)
      BY <1>1, <2>1, SraOk, Zenon
    <2>5. Good(Sll(0, w, ret, l, r))
      BY <2>1, <2>2, Straight, Zenon
    <2>6. Good(Srl(0, w, ret, l, r))
      BY <2>1, <2>3, Straight, Zenon
    <2>7. Good(Sra(0, w, ret, l, r))
      BY <2>1, <2>4, Straight, Zenon
    <2>8. CASE o.name = "Sll"
      BY <2>5, <2>8, Zenon DEF Program, ret, l, r
    <2>9. CASE o.name = "Srl"
      BY <2>6, <2>9, Zenon DEF Program, ret, l, r
    <2>10. CASE o.name = "Sra"
      BY <2>7, <2>10, Zenon DEF Program, ret, l, r
    <2>11. QED
      BY <1>10, <2>8, <2>9, <2>10 DEF Shifts
  <1>11. CASE o.name \in {"Geu", "Equ"}
    <2>1. 3 + w \in Nat \ {0} /\ o.name # "Ges" /\ InResult(ret, 1, res, lim)
      BY <1>3, <1>11 DEF Comparisons
    <2>2. \A s : Emitted(Compare(0, w, ret, l, r, s), 0, 3 + w, res, lim)
      BY <1>1, <2>1, CompareOk, Zenon
    <2>3. \A s : Good(Compare(0, w, ret, l, r, s))
      BY <2>1, <2>2, Straight, Zenon
    <2>4. CASE o.name = "Geu"
      BY <2>3, <2>4, Zenon DEF Program, Geu, ret, l, r
    <2>5. CASE o.name = "Equ"
      BY <2>3, <2>5, Zenon DEF Program, Equ, ret, l, r
    <2>6. QED
      BY <1>11, <2>4, <2>5
  <1>12. CASE o.name = "Ges"
    <2>1. InResult(ret, 1, res, lim)
      BY <1>3, <1>12 DEF Comparisons
    <2>2. ProgramOk(End(Ges(0, w, ret, l, r)), w + 3, o, w, res, lim)
      BY <1>1, <1>12, <2>1, GesProgram, Zenon
    <2>3. Good(Ges(0, w, ret, l, r))
      BY <2>2, Zenon
    <2>4. QED
      BY <1>12, <2>3, Zenon DEF Program, ret, l, r
  <1>13. o.name \in {"Add", "Sub", "And", "Or", "Xor"} \cup Unary \cup Shifts \cup Comparisons
    BY DEF Operation
  <1>14. QED
    BY <1>5, <1>6, <1>7, <1>8, <1>9, <1>10, <1>11, <1>12, <1>13 DEF Unary, Comparisons

-----------------------------------------------------------------------------
(* One step of the controller *)

LEMMA NoHits ==
    ASSUME NEW b, NEW d, NEW old, ~ \E p \in Places(b) : To(b, p) = d
    PROVE  Copied(b, d, old) = old
  BY Zenon DEF Copied, Hits

\* A byte of memory that a block does not write: of another region, or behind
\* the first lim bytes of the result.
LEMMA ByteStays ==
    ASSUME NEW b, NEW res, NEW lim \in Int, Shape(b), Lands(b, res, lim), NEW reg,
           reg # "blocks", reg # "tmp", NEW i \in Int, reg = res => i >= lim, NEW old
    PROVE  Copied(b, At(reg, i), old) = old
  <1>1. ASSUME NEW p \in Places(b), To(b, p) = At(reg, i) PROVE FALSE
    <2>1. PICK n \in Nat : To(b, p) = At(b.dst.reg, b.dst.lo + n) /\ (b.rows = 1 => n <= b.cols - 1)
      BY ToIs
    <2>2. b.dst.reg = reg /\ b.dst.lo + n = i
      <3>1. At(b.dst.reg, b.dst.lo + n) = At(reg, i)
        BY <1>1, <2>1
      <3>2. QED
        BY <3>1, AtEqual
    <2>3. b.dst.lo \in Int /\ b.cols \in Int
      BY DEF Shape, IsAt
    <2>4. reg = res /\ b.rows = 1 /\ b.dst.lo + b.cols <= lim
      BY <2>2 DEF Lands
    <2>5. QED
      BY <2>1, <2>2, <2>3, <2>4
  <1>2. QED
    BY <1>1, NoHits, Zenon

LEMMA PatchedAddr ==
    ASSUME NEW b, NEW k, NEW a, IsAddr(a)
    PROVE  IsAddr(Patched(b, k, a))
  <1>1. \A x, y, z : IsAddr([a EXCEPT !.lo = x, !.mid = y, !.hi = z])
    <2>1. ASSUME NEW x, NEW y, NEW z PROVE IsAddr([a EXCEPT !.lo = x, !.mid = y, !.hi = z])
      <3> DEFINE e == [a EXCEPT !.lo = x]
                 f == [e EXCEPT !.mid = y]
                 g == [f EXCEPT !.hi = z]
      <3>1. PICK r, h, m, l : a = [reg |-> r, hi |-> h, mid |-> m, lo |-> l]
        BY DEF IsAddr
      <3>2. e = [reg |-> r, hi |-> h, mid |-> m, lo |-> x]
        BY <3>1
      <3> HIDE DEF e
      <3>3. f = [reg |-> r, hi |-> h, mid |-> y, lo |-> x]
        BY <3>2
      <3> HIDE DEF f
      <3>4. g = [reg |-> r, hi |-> z, mid |-> y, lo |-> x]
        BY <3>3
      <3> HIDE DEF g
      <3>5. IsAddr(g)
        BY <3>4 DEF IsAddr
      <3>6. QED
        BY <3>5 DEF e, f, g
    <2>2. QED
      BY <2>1
  <1>2. QED
    BY <1>1 DEF Patched

LEMMA Unpatched ==
    ASSUME NEW a, IsAddr(a), NEW b, NEW k,
           Copied(b, Fld(0, k - 1, 0), a.lo) = a.lo, Copied(b, Fld(0, k - 1, 1), a.mid) = a.mid,
           Copied(b, Fld(0, k - 1, 2), a.hi) = a.hi
    PROVE  Patched(b, k, a) = a
  BY DEF Patched, IsAddr

\* The addresses of the blocks executed before the one after b stay.
LEMMA AddressStays ==
    ASSUME NEW b, NEW k, NEW c \in Nat, NEW o, NEW w, PatchesLater(b, k, c, o, w),
           NEW j \in 1 .. c, ~(Turn(o, w, j) > Turn(o, w, k)), NEW a, IsAddr(a)
    PROVE  Patched(b, j, a) = a
  <1>1. ASSUME NEW f \in 0 .. 2, NEW old PROVE Copied(b, Fld(0, j - 1, f), old) = old
    <2>1. ~ \E p \in Places(b) : To(b, p) = Fld(0, j - 1, f)
      BY DEF PatchesLater
    <2>2. QED
      BY <2>1, NoHits, Zenon
  <1>2. 0 \in 0 .. 2 /\ 1 \in 0 .. 2 /\ 2 \in 0 .. 2
    OBVIOUS
  <1>3. /\ Copied(b, Fld(0, j - 1, 0), a.lo) = a.lo /\ Copied(b, Fld(0, j - 1, 1), a.mid) = a.mid
        /\ Copied(b, Fld(0, j - 1, 2), a.hi) = a.hi
    BY <1>1, <1>2, Zenon
  <1>4. QED
    BY <1>3, Unpatched, Zenon

LEMMA SrcShape ==
    ASSUME NEW b, Shape(b), NEW a, IsAddr(a), NEW s, s = [b EXCEPT !.src = a]
    PROVE  /\ Shape(s) /\ s.dst = b.dst /\ s.rows = b.rows /\ s.cols = b.cols /\ s.ds = b.ds
           /\ s.jump = b.jump
  BY DEF Shape

LEMMA SrcFine ==
    ASSUME NEW b, NEW a, IsAddr(a), NEW k, NEW c, NEW o, NEW w, NEW res, NEW lim,
           Fine(b, k, c, o, w, res, lim)
    PROVE  Fine([b EXCEPT !.src = a], k, c, o, w, res, lim)
  <1> DEFINE s == [b EXCEPT !.src = a]
  <1>1. Shape(b)
    BY DEF Fine
  <1>2. /\ Shape(s) /\ s.dst = b.dst /\ s.rows = b.rows /\ s.cols = b.cols /\ s.ds = b.ds
        /\ s.jump = b.jump
    BY <1>1, SrcShape
  <1> HIDE DEF s
  <1>3. Places(s) = Places(b) /\ \A p : To(s, p) = To(b, p)
    BY <1>2, Zenon DEF Places, To
  <1>4. Lands(s, res, lim)
    BY <1>2, Zenon DEF Lands, Fine
  <1>5. PatchesLater(s, k, c, o, w)
    BY <1>3, Zenon DEF PatchesLater, Fine
  <1>6. JumpsOn(s, k, c, o, w)
    BY <1>2, Zenon DEF JumpsOn, Fine
  <1>7. Fine(s, k, c, o, w, res, lim)
    BY <1>2, <1>4, <1>5, <1>6 DEF Fine
  <1>8. QED
    BY <1>7 DEF s

LEMMA SrcSame ==
    ASSUME NEW b, Shape(b) PROVE [b EXCEPT !.src = b.src] = b
  BY DEF Shape

\* No two blocks have the same turn, and the first block has the first.
LEMMA TurnFacts ==
    ASSUME NEW o, NEW w \in Nat \ {0}, NEW c \in Nat \ {0}, o.name = "Ges" => c = w + 3
    PROVE  /\ \A k \in 1 .. c : Turn(o, w, k) \in 1 .. c
           /\ \A j, k \in 1 .. c : Turn(o, w, j) = Turn(o, w, k) => j = k
           /\ Turn(o, w, 1) = 1
  BY DEF Turn

-----------------------------------------------------------------------------
(* The invariants *)

\* The program is one of the emitted ones, whatever addresses earlier blocks
\* and runs have left in it, and what was executed is what precedes in turn.
OrderInv ==
    /\ op \in Operation /\ width \in Nat \ {0} /\ inPlace \in BOOLEAN
    /\ ProgramOk(cb, Len(cb), op, width, Result, Limit(op, width))
    /\ \/ pc = Null
       \/ /\ pc + 1 \in 1 .. Len(cb) /\ pc \in Int
          /\ executed = {k \in 1 .. Len(cb) : Turn(op, width, k) < Turn(op, width, pc + 1)}

LEMMA FunLen ==
    ASSUME NEW q, NEW c \in Nat, q = [k \in 1 .. c |-> q[k]] PROVE Len(q) = c /\ DOMAIN q = 1 .. c
  OBVIOUS

LEMMA OrderInit == Init => OrderInv
  <1> SUFFICES ASSUME Init PROVE OrderInv
    OBVIOUS
  <1>1. op \in Operation /\ width \in Nat \ {0} /\ inPlace \in BOOLEAN /\ pc = Null
    BY SizesAssumption DEF Init
  <1>2. Result \in {"lhs", "ret"}
    BY DEF Result
  <1>3. \E c : ProgramOk(cb, c, op, width, Result, Limit(op, width))
    BY <1>1, <1>2, EveryProgram, Zenon DEF Init
  <1>4. PICK c : ProgramOk(cb, c, op, width, Result, Limit(op, width))
    BY <1>3
  <1>5. Len(cb) = c
    <2>1. c \in Nat /\ cb = [k \in 1 .. c |-> cb[k]]
      BY <1>4 DEF ProgramOk
    <2>2. QED
      BY <2>1, FunLen, Zenon
  <1>6. QED
    BY <1>1, <1>4, <1>5 DEF OrderInv

LEMMA RunOrder ==
    ASSUME OrderInv, NEW x, NEW y, Run(x, y) PROVE OrderInv'
  <1> DEFINE c == Len(cb)
  <1>1. /\ op' = op /\ width' = width /\ inPlace' = inPlace /\ cb' = cb /\ pc' = 0 /\ executed' = {}
    BY DEF Run
  <1>2. Result' = Result
    BY <1>1 DEF Result
  <1>3. /\ op \in Operation /\ width \in Nat \ {0} /\ inPlace \in BOOLEAN
        /\ ProgramOk(cb, c, op, width, Result, Limit(op, width))
    BY DEF OrderInv
  <1>4. c \in Nat \ {0} /\ (op.name = "Ges" => c = width + 3)
    BY <1>3 DEF ProgramOk
  <1>5. ProgramOk(cb, Len(cb), op, width, Result, Limit(op, width))'
    BY <1>1, <1>2, <1>3
  <1> HIDE DEF c
  <1>6. /\ \A k \in 1 .. c : Turn(op, width, k) \in 1 .. c
        /\ Turn(op, width, 1) = 1
    BY <1>3, <1>4, TurnFacts
  <1>7. {} = {k \in 1 .. c : Turn(op, width, k) < Turn(op, width, 0 + 1)}
    BY <1>6
  <1>8. 0 + 1 \in 1 .. c
    BY <1>4
  <1>9. QED
    BY <1>1, <1>3, <1>5, <1>7, <1>8 DEF OrderInv, c

\* What the block executed is and does.
LEMMA ExecuteFacts ==
    ASSUME OrderInv, Execute, NEW c, c = Len(cb), NEW b, b = cb[pc + 1]
    PROVE  /\ c \in Nat \ {0} /\ pc + 1 \in 1 .. c /\ pc \in Int
           /\ executed = {k \in 1 .. c : Turn(op, width, k) < Turn(op, width, pc + 1)}
           /\ executed' = executed \cup {pc + 1}
           /\ Fine(b, pc + 1, c, op, width, Result, Limit(op, width))
           /\ DOMAIN cb = 1 .. c
           /\ cb' = [k \in 1 .. c |-> [cb[k] EXCEPT !.src = Patched(b, k, cb[k].src)]]
           /\ pc' = IF b.jump = Halt /\ pc + 1 = c THEN Null ELSE pc + b.jump
           /\ op' = op /\ width' = width /\ inPlace' = inPlace
  <1>1. pc # Null
    BY DEF Execute
  <1>2. /\ ProgramOk(cb, c, op, width, Result, Limit(op, width))
        /\ pc + 1 \in 1 .. c /\ pc \in Int
        /\ executed = {k \in 1 .. c : Turn(op, width, k) < Turn(op, width, pc + 1)}
    BY <1>1 DEF OrderInv
  <1>3. c \in Nat \ {0} /\ c \in Nat /\ cb = [k \in 1 .. c |-> cb[k]]
    BY <1>2 DEF ProgramOk
  <1>4. Fine(b, pc + 1, c, op, width, Result, Limit(op, width))
    BY <1>2 DEF ProgramOk
  <1>5. DOMAIN cb = 1 .. c
    BY <1>3, FunLen, Zenon
  <1>6. /\ cb' = [k \in DOMAIN cb |-> [cb[k] EXCEPT !.src = Patched(b, k, cb[k].src)]]
        /\ pc' = IF b.jump = Halt /\ pc + 1 = Len(cb) THEN Null ELSE pc + b.jump
        /\ executed' = executed \cup {pc + 1}
        /\ op' = op /\ width' = width /\ inPlace' = inPlace
    BY DEF Execute
  <1>7. QED
    BY <1>2, <1>3, <1>4, <1>5, <1>6

\* Every block keeps its target, its jump and the shape of its address.
LEMMA ExecuteBlock ==
    ASSUME OrderInv, Execute, NEW c, c = Len(cb), NEW b, b = cb[pc + 1], NEW k \in 1 .. c
    PROVE  /\ Fine(cb[k], k, c, op, width, Result, Limit(op, width))
           /\ IsAddr(cb[k].src) /\ Shape(cb[k])
           /\ cb'[k] = [cb[k] EXCEPT !.src = Patched(b, k, cb[k].src)]
           /\ Fine(cb'[k], k, c, op, width, Result, Limit(op, width))
  <1>1. Fine(cb[k], k, c, op, width, Result, Limit(op, width))
    BY DEF OrderInv, ProgramOk
  <1>2. Shape(cb[k]) /\ IsAddr(cb[k].src)
    BY <1>1 DEF Fine, Shape
  <1>3. IsAddr(Patched(b, k, cb[k].src))
    BY <1>2, PatchedAddr, Zenon
  <1>4. cb'[k] = [cb[k] EXCEPT !.src = Patched(b, k, cb[k].src)]
    <2>1. cb' = [i \in DOMAIN cb |-> [cb[i] EXCEPT !.src = Patched(b, i, cb[i].src)]]
      BY DEF Execute
    <2>2. DOMAIN cb = 1 .. c
      BY ExecuteFacts, Zenon
    <2>3. QED
      BY <2>1, <2>2
  <1>5. Fine([cb[k] EXCEPT !.src = Patched(b, k, cb[k].src)], k, c, op, width, Result, Limit(op, width))
    BY <1>1, <1>3, SrcFine, Zenon
  <1>6. QED
    BY <1>1, <1>2, <1>4, <1>5

LEMMA ExecuteOrder ==
    ASSUME OrderInv, Execute PROVE OrderInv'
  <1> DEFINE c == Len(cb)
             b == cb[pc + 1]
             t(k) == Turn(op, width, k)
  <1>1. /\ c \in Nat \ {0} /\ pc + 1 \in 1 .. c /\ pc \in Int
        /\ executed = {k \in 1 .. c : t(k) < t(pc + 1)}
        /\ executed' = executed \cup {pc + 1}
        /\ Fine(b, pc + 1, c, op, width, Result, Limit(op, width))
        /\ cb' = [k \in 1 .. c |-> [cb[k] EXCEPT !.src = Patched(b, k, cb[k].src)]]
        /\ pc' = IF b.jump = Halt /\ pc + 1 = c THEN Null ELSE pc + b.jump
        /\ op' = op /\ width' = width /\ inPlace' = inPlace
    BY ExecuteFacts, Zenon
  <1>2. /\ op \in Operation /\ width \in Nat \ {0} /\ inPlace \in BOOLEAN
        /\ ProgramOk(cb, c, op, width, Result, Limit(op, width))
    BY DEF OrderInv
  <1>3. op.name = "Ges" => c = width + 3
    BY <1>2 DEF ProgramOk
  <1>4. \A k \in 1 .. c : Fine(cb'[k], k, c, op, width, Result, Limit(op, width))
    BY ExecuteBlock, Zenon
  <1> HIDE DEF b
  <1>5. cb' = [k \in 1 .. c |-> cb'[k]] /\ Len(cb') = c
    <2> HIDE DEF c
    <2>1. cb' = [k \in 1 .. c |-> cb'[k]]
      BY <1>1
    <2>2. QED
      BY <1>1, <2>1, FunLen
  <1> HIDE DEF c
  <1>6. Result' = Result
    BY <1>1 DEF Result
  <1>7. ProgramOk(cb', c, op, width, Result, Limit(op, width))
    BY <1>1, <1>3, <1>4, <1>5, Zenon DEF ProgramOk
  <1>8. ProgramOk(cb, Len(cb), op, width, Result, Limit(op, width))'
    BY <1>1, <1>5, <1>6, <1>7
  <1>9. JumpsOn(b, pc + 1, c, op, width)
    BY <1>1 DEF Fine
  <1>10. /\ \A k \in 1 .. c : t(k) \in 1 .. c
         /\ \A j, k \in 1 .. c : t(j) = t(k) => j = k
    BY <1>1, <1>2, <1>3, TurnFacts
  <1>11. CASE pc + 1 = c
    <2>1. pc' = Null
      BY <1>1, <1>9, <1>11 DEF JumpsOn
    <2>2. QED
      BY <1>1, <1>2, <1>8, <2>1 DEF OrderInv
  <1>12. CASE pc + 1 # c
    <2>1. /\ b.jump \in Int /\ pc + 1 + b.jump \in 1 .. c /\ t(pc + 1 + b.jump) = t(pc + 1) + 1
          /\ pc' = pc + b.jump
      BY <1>1, <1>9, <1>12 DEF JumpsOn
    <2>2. pc' \in Int /\ pc' + 1 \in 1 .. c /\ pc' + 1 = pc + 1 + b.jump
      BY <1>1, <2>1
    <2>3. t(pc' + 1) = t(pc + 1) + 1
      BY <2>1, <2>2
    <2> DEFINE n == pc' + 1
               m == pc + 1
    <2>4. m \in 1 .. c /\ n \in 1 .. c /\ t(n) = t(m) + 1 /\ executed' = {k \in 1 .. c : t(k) < t(m)} \cup {m}
      BY <1>1, <2>2, <2>3
    <2> HIDE DEF n, m, t
    <2>5. executed' = {k \in 1 .. c : t(k) < t(n)}
      <3>1. \A k \in 1 .. c : t(k) < t(n) <=> (t(k) < t(m) \/ k = m)
        BY <1>10, <2>4
      <3>2. QED
        BY <2>4, <3>1
    <2>6. executed' = {k \in 1 .. Len(cb') : Turn(op', width', k) < Turn(op', width', pc' + 1)}
      BY <1>1, <1>5, <2>5 DEF n, t
    <2>7. QED
      BY <1>1, <1>2, <1>5, <1>8, <2>2, <2>6 DEF OrderInv
  <1>13. QED
    BY <1>11, <1>12

\* In every behaviour the program keeps what the emitters gave it but the source
\* addresses, and its blocks are executed in turn, Ges from the highest byte down.
THEOREM OrderInvariant == Spec => []OrderInv
  <1>1. Init => OrderInv
    BY OrderInit
  <1>2. OrderInv /\ [Next]_vars => OrderInv'
    <2> SUFFICES ASSUME OrderInv, [Next]_vars PROVE OrderInv'
      OBVIOUS
    <2>1. ASSUME NEW xy \in Inputs(runs + 1, width), Run(xy[1], xy[2]) PROVE OrderInv'
      BY <2>1, RunOrder
    <2>2. CASE Execute
      BY <2>2, ExecuteOrder
    <2>3. CASE UNCHANGED vars
      BY <2>3 DEF vars, OrderInv, Result
    <2>4. QED
      BY <2>1, <2>2, <2>3 DEF Next
  <1>3. QED
    BY <1>1, <1>2, PTL DEF Spec

\* The step of a block changes no block that has been executed.
LEMMA StepAhead ==
    ASSUME OrderInv, Execute, NEW k \in 1 .. Len(cb), k \in executed' PROVE cb'[k] = cb[k]
  <1> DEFINE c == Len(cb)
             b == cb[pc + 1]
  <1>1. /\ c \in Nat \ {0} /\ pc + 1 \in 1 .. c
        /\ executed = {i \in 1 .. c : Turn(op, width, i) < Turn(op, width, pc + 1)}
        /\ executed' = executed \cup {pc + 1}
        /\ Fine(b, pc + 1, c, op, width, Result, Limit(op, width))
    BY ExecuteFacts, Zenon
  <1>2. /\ IsAddr(cb[k].src) /\ Shape(cb[k])
        /\ cb'[k] = [cb[k] EXCEPT !.src = Patched(b, k, cb[k].src)]
    <2>1. IsAddr(cb[k].src) /\ Shape(cb[k])
      BY ExecuteBlock, Zenon
    <2>2. cb' = [i \in DOMAIN cb |-> [cb[i] EXCEPT !.src = Patched(b, i, cb[i].src)]]
      BY DEF Execute
    <2>3. DOMAIN cb = 1 .. c
      BY ExecuteFacts, Zenon
    <2>4. QED
      BY <2>1, <2>2, <2>3
  <1>3. PatchesLater(b, pc + 1, c, op, width)
    BY <1>1 DEF Fine
  <1>4. /\ width \in Nat \ {0} /\ (op.name = "Ges" => c = width + 3)
    BY DEF OrderInv, ProgramOk
  <1> HIDE DEF b, c
  <1>5. \A i \in 1 .. c : Turn(op, width, i) \in 1 .. c
    BY <1>1, <1>4, TurnFacts
  <1>6. k \in 1 .. c
    BY DEF c
  <1>7. ~(Turn(op, width, k) > Turn(op, width, pc + 1))
    BY <1>1, <1>5, <1>6
  <1>8. Patched(b, k, cb[k].src) = cb[k].src
    <2>1. c \in Nat
      BY <1>1
    <2>2. \A a : IsAddr(a) => Patched(b, k, a) = a
      BY <1>3, <1>6, <1>7, <2>1, AddressStays, Zenon
    <2>3. QED
      BY <1>2, <2>2
  <1>9. QED
    BY <1>2, <1>8, SrcSame

\* A block modifies only blocks that are still to be executed in the run: no run
\* depends on an address it has already used (the bus_rel_fld targets of all
\* emitters of arith_int.c, arith_bit.c, arith_sxx.c and arith_cmp.c).
THEOREM PatchedBlocksAreAhead == Spec => PatchesAhead
  <1>1. OrderInv /\ [Next]_vars => [\A k \in 1 .. Len(cb) : cb'[k] # cb[k] => k \notin executed']_vars
    <2> SUFFICES ASSUME OrderInv, Next PROVE \A k \in 1 .. Len(cb) : cb'[k] # cb[k] => k \notin executed'
      OBVIOUS
    <2>1. ASSUME NEW xy \in Inputs(runs + 1, width), Run(xy[1], xy[2])
          PROVE  \A k \in 1 .. Len(cb) : cb'[k] # cb[k] => k \notin executed'
      BY <2>1 DEF Run
    <2>2. CASE Execute
      BY <2>2, StepAhead
    <2>3. QED
      BY <2>1, <2>2 DEF Next
  <1>2. QED
    BY <1>1, OrderInvariant, PTL DEF Spec, PatchesAhead

-----------------------------------------------------------------------------
(* What a program writes *)

\* The operands are in memory, except where a result replaces the left one, and
\* behind the bytes a program may write the result is what the run was started
\* with.
MemInv ==
    /\ mem = [lhs |-> mem.lhs, rhs |-> mem.rhs, ret |-> mem.ret, tmp |-> mem.tmp]
    /\ DOMAIN mem.lhs = 0 .. width /\ DOMAIN mem.ret = 0 .. width
    /\ mem.rhs = Digits(rhs, width)
    /\ ~inPlace => mem.lhs = Digits(lhs, width)
    /\ \A i \in 0 .. width : i >= Limit(op, width) =>
         mem[Result][i] = Digits(IF inPlace THEN lhs ELSE 0, width)[i]

LEMMA DigitsFacts ==
    ASSUME NEW n, NEW w \in Nat
    PROVE  /\ DOMAIN Digits(n, w) = 0 .. w /\ Digits(n, w)[w] = Guard
           /\ Digits(n, w) = [i \in 0 .. w |-> Digits(n, w)[i]]
  BY DEF Digits

LEMMA MemInit == Init => MemInv
  <1> SUFFICES ASSUME Init PROVE MemInv
    OBVIOUS
  <1> DEFINE z == Digits(0, width)
             t == Digits(0, 2 * width)
  <1>1. /\ mem = [lhs |-> z, rhs |-> z, ret |-> z, tmp |-> t]
        /\ lhs = 0 /\ rhs = 0 /\ inPlace \in BOOLEAN /\ width \in Nat
    BY SizesAssumption DEF Init
  <1>2. DOMAIN z = 0 .. width
    BY <1>1, DigitsFacts
  <1> HIDE DEF z, t
  <1>3. mem.lhs = z /\ mem.rhs = z /\ mem.ret = z /\ mem.tmp = t
    BY <1>1
  <1>4. mem[Result] = z
    BY <1>1, <1>3 DEF Result
  <1>5. z = Digits(lhs, width) /\ z = Digits(rhs, width) /\ z = Digits(IF inPlace THEN lhs ELSE 0, width)
    BY <1>1 DEF z
  <1>6. QED
    BY <1>1, <1>2, <1>3, <1>4, <1>5 DEF MemInv

LEMMA RunMem ==
    ASSUME OrderInv, MemInv, NEW x, NEW y, Run(x, y) PROVE MemInv'
  <1> DEFINE l == Digits(x, width)
             r == Digits(y, width)
             z == Digits(0, width)
             t == mem.tmp
  <1>1. /\ op' = op /\ width' = width /\ inPlace' = inPlace /\ lhs' = x /\ rhs' = y
        /\ mem' = [mem EXCEPT !.lhs = l, !.rhs = r, !.ret = z]
    BY DEF Run
  <1>2. width \in Nat /\ inPlace \in BOOLEAN
    BY DEF OrderInv
  <1>3. DOMAIN l = 0 .. width /\ DOMAIN z = 0 .. width
    BY <1>2, DigitsFacts
  <1>4. mem = [lhs |-> mem.lhs, rhs |-> mem.rhs, ret |-> mem.ret, tmp |-> t]
    BY DEF MemInv
  <1>5. /\ l = Digits(lhs, width)' /\ r = Digits(rhs, width)'
        /\ Digits(IF inPlace THEN lhs ELSE 0, width)' = IF inPlace THEN l ELSE z
    BY <1>1 DEF Digits
  <1> HIDE DEF l, r, z, t
  <1>6. mem' = [lhs |-> l, rhs |-> r, ret |-> z, tmp |-> t]
    <2>1. PICK a, b, c : mem = [lhs |-> a, rhs |-> b, ret |-> c, tmp |-> t]
      BY <1>4
    <2>2. QED
      BY <1>1, <2>1
  <1>7. mem'.lhs = l /\ mem'.rhs = r /\ mem'.ret = z /\ mem'.tmp = t
    BY <1>6
  <1>8. mem'[Result'] = IF inPlace THEN l ELSE z
    BY <1>1, <1>2, <1>7 DEF Result
  <1>9. QED
    BY <1>1, <1>3, <1>5, <1>6, <1>7, <1>8 DEF MemInv

\* A region that is not the scratch buffer, after a block was executed.
LEMMA ExecuteRegion ==
    ASSUME OrderInv, Execute, NEW reg \in DOMAIN mem, reg # "tmp", reg # "blocks",
           DOMAIN mem[reg] = 0 .. width
    PROVE  /\ DOMAIN mem'[reg] = 0 .. width
           /\ mem'[reg] = [i \in 0 .. width |-> mem'[reg][i]]
           /\ \A i \in 0 .. width : (reg = Result => i >= Limit(op, width)) => mem'[reg][i] = mem[reg][i]
  <1> DEFINE b == cb[pc + 1]
             c == Len(cb)
             lim == Limit(op, width)
  <1>1. Fine(b, pc + 1, c, op, width, Result, lim)
    BY ExecuteFacts, Zenon
  <1>2. Shape(b) /\ Lands(b, Result, lim)
    BY <1>1 DEF Fine
  <1>3. lim \in Int /\ width \in Nat
    BY DEF OrderInv, Limit
  <1>4. mem' = [g \in DOMAIN mem |-> [i \in DOMAIN mem[g] |-> Copied(b, At(g, i), mem[g][i])]]
    BY DEF Execute
  <1>5. mem'[reg] = [i \in 0 .. width |-> Copied(b, At(reg, i), mem[reg][i])]
    BY <1>4
  <1> HIDE DEF b, lim
  <1>6. ASSUME NEW i \in 0 .. width, reg = Result => i >= lim PROVE mem'[reg][i] = mem[reg][i]
    <2>1. i \in Int
      BY <1>3
    <2>2. \A old : Copied(b, At(reg, i), old) = old
      <3>1. Shape(b) /\ Lands(b, Result, lim) /\ lim \in Int /\ i \in Int
        BY <1>2, <1>3, <2>1
      <3>2. reg # Result \/ i >= lim
        BY <1>6
      <3>3. QED
        BY <3>1, <3>2, ByteStays
    <2>3. QED
      BY <1>5, <2>2
  <1>7. QED
    BY <1>5, <1>6 DEF lim

LEMMA ExecuteMem ==
    ASSUME OrderInv, MemInv, Execute PROVE MemInv'
  <1>1. /\ op' = op /\ width' = width /\ inPlace' = inPlace /\ lhs' = lhs /\ rhs' = rhs
        /\ DOMAIN mem' = DOMAIN mem
    BY DEF Execute
  <1>2. width \in Nat /\ inPlace \in BOOLEAN /\ Result' = Result
    BY <1>1 DEF OrderInv, Result
  <1>3. DOMAIN mem = {"lhs", "rhs", "ret", "tmp"}
    BY DEF MemInv
  <1>4. DOMAIN mem.lhs = 0 .. width /\ DOMAIN mem.rhs = 0 .. width /\ DOMAIN mem.ret = 0 .. width
    BY <1>2, DigitsFacts DEF MemInv
  <1>5. mem' = [lhs |-> mem'.lhs, rhs |-> mem'.rhs, ret |-> mem'.ret, tmp |-> mem'.tmp]
    <2>1. mem' = [g \in DOMAIN mem |-> [i \in DOMAIN mem[g] |-> Copied(cb[pc + 1], At(g, i), mem[g][i])]]
      BY DEF Execute
    <2>2. mem' = [g \in {"lhs", "rhs", "ret", "tmp"} |-> mem'[g]]
      BY <1>3, <2>1
    <2>3. QED
      BY <2>2
  <1>6. ASSUME NEW reg \in {"lhs", "rhs", "ret"}
        PROVE  /\ DOMAIN mem'[reg] = 0 .. width /\ mem'[reg] = [i \in 0 .. width |-> mem'[reg][i]]
               /\ \A i \in 0 .. width : (reg = Result => i >= Limit(op, width)) => mem'[reg][i] = mem[reg][i]
    <2>1. reg \in DOMAIN mem /\ reg # "tmp" /\ reg # "blocks" /\ DOMAIN mem[reg] = 0 .. width
      BY <1>3, <1>4
    <2>2. QED
      BY <2>1, ExecuteRegion, Zenon
  <1>7. ASSUME NEW reg \in {"lhs", "rhs", "ret"}, reg # Result, NEW n, mem[reg] = Digits(n, width)
        PROVE  mem'[reg] = Digits(n, width)
    <2>1. Digits(n, width) = [i \in 0 .. width |-> Digits(n, width)[i]]
      BY <1>2, DigitsFacts
    <2>2. \A i \in 0 .. width : mem'[reg][i] = Digits(n, width)[i]
      BY <1>6, <1>7
    <2>3. mem'[reg] = [i \in 0 .. width |-> mem'[reg][i]]
      BY <1>6
    <2>4. QED
      BY <2>1, <2>2, <2>3
  <1>8. mem'.rhs = Digits(rhs, width) /\ (~inPlace => mem'.lhs = Digits(lhs, width))
    BY <1>7 DEF MemInv, Result
  <1>9. Result \in {"lhs", "rhs", "ret"}
    BY DEF Result
  <1>10. \A i \in 0 .. width : i >= Limit(op, width) =>
           mem'[Result][i] = Digits(IF inPlace THEN lhs ELSE 0, width)[i]
    BY <1>6, <1>9 DEF MemInv
  <1>11. /\ Digits(rhs, width)' = Digits(rhs, width) /\ Digits(lhs, width)' = Digits(lhs, width)
         /\ Digits(IF inPlace THEN lhs ELSE 0, width)' = Digits(IF inPlace THEN lhs ELSE 0, width)
         /\ Limit(op, width)' = Limit(op, width)
    BY <1>1
  <1>12. DOMAIN mem'.lhs = 0 .. width /\ DOMAIN mem'.ret = 0 .. width
    BY <1>6
  <1>13. QED
    BY <1>1, <1>2, <1>5, <1>8, <1>10, <1>11, <1>12 DEF MemInv

\* In every behaviour a program writes to the first Limit bytes of its result, to
\* the scratch buffer and to control blocks, and nowhere else.
THEOREM MemInvariant == Spec => []MemInv
  <1>1. Init => MemInv
    BY MemInit
  <1>2. OrderInv /\ MemInv /\ [Next]_vars => MemInv'
    <2> SUFFICES ASSUME OrderInv, MemInv, [Next]_vars PROVE MemInv'
      OBVIOUS
    <2>1. ASSUME NEW xy \in Inputs(runs + 1, width), Run(xy[1], xy[2]) PROVE MemInv'
      BY <2>1, RunMem
    <2>2. CASE Execute
      BY <2>2, ExecuteMem
    <2>3. CASE UNCHANGED vars
      BY <2>3 DEF vars, MemInv, Result
    <2>4. QED
      BY <2>1, <2>2, <2>3 DEF Next
  <1>3. QED
    BY <1>1, <1>2, OrderInvariant, PTL DEF Spec

\* Add and Sub copy the lowest byte of the result with its carry ("Emit(ctx,
\* bus_add(ret, 0), bus_(HYPER, HYPER_ADD), 2)"), which goes behind the result
\* where that byte is the only one.
WideEnough == width = 1 => op.name \notin {"Add", "Sub"}

\* While a program runs its operands are only read, no byte behind the result is
\* written, and a comparison writes one byte (the emitters' targets, and the
\* assertions of 2-arith-test.c on the operands and all four bytes of the result),
\* except where Add or Sub has operands of one byte.
THEOREM OperandsOnlyRead == Spec => [](WideEnough => NothingElseWritten)
  <1>1. OrderInv /\ MemInv => (WideEnough => NothingElseWritten)
    <2> SUFFICES ASSUME OrderInv, MemInv, WideEnough PROVE NothingElseWritten
      OBVIOUS
    <2>1. width \in Nat \ {0}
      BY DEF OrderInv
    <2>2. /\ Limit(op, width) <= width /\ (op.name \in Comparisons => Limit(op, width) = 1)
      BY <2>1 DEF Limit, WideEnough
    <2>3. \A i \in 0 .. width : i >= Limit(op, width) =>
            mem[Result][i] = Digits(IF inPlace THEN lhs ELSE 0, width)[i]
      BY DEF MemInv
    <2>4. \A n : Digits(n, width)[width] = Guard
      BY <2>1, DigitsFacts
    <2>5. mem[Result][width] = Guard
      BY <2>1, <2>2, <2>3, <2>4
    <2>6. op.name \in Comparisons =>
            \A i \in 1 .. width - 1 : mem[Result][i] = Digits(IF inPlace THEN lhs ELSE 0, width)[i]
      BY <2>1, <2>2, <2>3
    <2>7. QED
      BY <2>5, <2>6 DEF NothingElseWritten, MemInv
  <1>2. QED
    BY <1>1, OrderInvariant, MemInvariant, PTL
=============================================================================
