------------------------------ MODULE DmaArith ------------------------------
(***************************************************************************)
(* The arithmetic of bcm2835/dma: programs for a DMA controller, which can *)
(* only copy bytes.  An operation is a chain of control blocks that modify *)
(* the source addresses of later blocks: operand bytes and carries become  *)
(* the low three bytes of an address inside a large table (HYPER, SUPER    *)
(* and smaller ones), so that the byte copied from there is the result.    *)
(*                                                                         *)
(* A byte has Bits bits.  The selectors of the tables keep their values.   *)
(* Multiplication (UmulWide) is unfinished in the source and left out.     *)
(***************************************************************************)
EXTENDS Integers, Sequences, FiniteSetsExt

CONSTANTS
    Bits,          \* bits of a byte
    Operations,    \* operations a program may be emitted for
    Widths,        \* operand widths, in bytes
    Inputs(_, _),  \* Inputs(n, w): the operands of run n at width w
    MaxRuns        \* how often a program is run

Radix == 2 ^ Bits

Comparisons == {"Geu", "Equ", "Ges"}
Shifts == {"Sll", "Srl", "Sra"}
Unary == {"Inc", "Neg", "Not"}
Operation == [name : {"Add", "Sub", "And", "Or", "Xor"} \cup Unary \cup Shifts \cup Comparisons,
              x4 : BOOLEAN, inv : BOOLEAN]

ASSUME SizesAssumption ==
    /\ Bits \in Nat \ {0} /\ MaxRuns \in Nat
    /\ Operations \subseteq Operation
    /\ Widths \subseteq 1 .. 15   \* assert(width), assert(width < 16)

\* "assert(width >= 2)" of Sll8, Srl8 and Sra8; Neg's buffer is aligned to
\* min(min(width, 4), 16), which arena_alloc asserts to be a power of two.
Emittable(o, w) ==
    /\ o.name \in Shifts => w >= 2
    /\ o.name = "Neg" => w # 3

VARIABLES
    op, width,  \* what the program was emitted for
    inPlace,    \* the result replaces the left operand
    cb,         \* the control blocks
    pc,         \* the block the controller executes next (conblk_ad), or Null
    executed,   \* history: blocks executed in this run
    runs,       \* runs so far
    lhs, rhs,   \* history: the operands of this run, as numbers
    mem         \* the operands, the result and the scratch buffer, in bytes

vars == <<op, width, inPlace, cb, pc, executed, runs, lhs, rhs, mem>>

-----------------------------------------------------------------------------
(* Tables *)

HYPER_ADD == 4
HYPER_SUB == 8
HYPER_AND == 12
HYPER_OR  == 13
HYPER_XOR == 14
HYPER_SLL == 20
HYPER_SRL == 36
HYPER_GEU == 44
HYPER_EQU == 46
HYPER_GES == 52
SUPER_INC == 0

GES_HIGH  == HYPER_GES
GES_FALSE == HYPER_GES + 1
GES_TRUE  == HYPER_GES + 2
GES_EQU   == HYPER_GES + 3

Signed(i) == IF i < Radix \div 2 THEN i ELSE i - Radix

\* A number as the set of its bits, for &, | and ^.
BitsOf(n) == {b \in 0 .. Bits * Max(Widths) : (n \div 2 ^ b) % 2 = 1}
OfBits(S) == MapThenSumSet(LAMBDA b : 2 ^ b, S)
BitAnd(i, j) == OfBits(BitsOf(i) \cap BitsOf(j))
BitOr(i, j)  == OfBits(BitsOf(i) \cup BitsOf(j))
BitXor(i, j) == OfBits(SymDiff(BitsOf(i), BitsOf(j)))

\* Mutant: the byte of a difference is not reduced.
PairUnreduced(base, k, r) ==
    IF k % 2 = 0 THEN r ELSE IF r < 0 \/ r >= Radix THEN base + 2 ELSE base

\* Entry k of a table of pairs: the byte of r, or the selector that carries.
Pair(base, k, r) ==
    IF k % 2 = 0 THEN r % Radix
    ELSE IF r < 0 \/ r >= Radix THEN base + 2 ELSE base

\* Mutant: the incoming carry is dropped.
AddEntryNoCarry(i, j, k) == Pair(HYPER_ADD, k, i + j)

AddEntry(i, j, k) == Pair(HYPER_ADD, k, i + j + (k \div 2))
SubEntry(i, j, k) == Pair(HYPER_SUB, k, i - j - (k \div 2))
IncEntry(i, k)    == Pair(SUPER_INC, k, i + (k \div 2))

SllEntry(i, j, s) == (((i * Radix + j) * 2 ^ s) \div Radix) % Radix
SrlEntry(i, j, s) == ((i * Radix + j) \div 2 ^ s) % Radix

GeuEntry(i, j, l) == IF i - j - l < 0 THEN HYPER_GEU + 1 ELSE HYPER_GEU
EquEntry(i, j, l) == IF i = j /\ l = 1 THEN HYPER_EQU + 1 ELSE HYPER_EQU

Order(i, j) == IF i < j THEN GES_FALSE ELSE IF i > j THEN GES_TRUE ELSE GES_EQU
GesEntry(i, j, state) ==
    CASE state = GES_HIGH -> Order(Signed(i), Signed(j))
      [] state = GES_EQU  -> Order(i, j)
      [] OTHER            -> state

\* HYPER[i << 16 | j << 8 | s], as the initializers leave it.
Hyper(i, j, s) ==
    CASE s \in HYPER_ADD .. HYPER_ADD + 3        -> AddEntry(i, j, s - HYPER_ADD)
      [] s \in HYPER_SUB .. HYPER_SUB + 3        -> SubEntry(i, j, s - HYPER_SUB)
      [] s = HYPER_AND                           -> BitAnd(i, j)
      [] s = HYPER_OR                            -> BitOr(i, j)
      [] s = HYPER_XOR                           -> BitXor(i, j)
      [] s \in HYPER_SLL .. HYPER_SLL + Bits - 1 -> SllEntry(i, j, s - HYPER_SLL)
      [] s \in HYPER_SRL .. HYPER_SRL + Bits - 1 -> SrlEntry(i, j, s - HYPER_SRL)
      [] s \in HYPER_GEU .. HYPER_GEU + 1        -> GeuEntry(i, j, s - HYPER_GEU)
      [] s \in HYPER_EQU .. HYPER_EQU + 1        -> EquEntry(i, j, s - HYPER_EQU)
      [] s \in HYPER_GES .. HYPER_GES + 3        -> GesEntry(i, j, s)
      [] OTHER                                   -> 0

\* SET_TRUTH_TABLES(hyper, b0, b1), entry hyper + k.
SetTruth(b0, b1, k, x4, inv) ==
    LET t == <<b0, b1>> IN
    CASE ~x4 /\ ~inv -> t[k + 1]
      [] ~x4 /\ inv  -> t[2 - k]
      [] x4 /\ ~inv  -> IF k = 0 THEN b0 ELSE 4 * b1
      [] x4 /\ inv   -> 4 * t[2 - k]

\* (ANTI)POLAR_TRUTH_X1 and _X4
Truth(s, x4, inv) ==
    CASE s \in HYPER_GEU .. HYPER_GEU + 1 -> SetTruth(1, 0, s - HYPER_GEU, x4, inv)
      [] s \in HYPER_EQU .. HYPER_EQU + 1 -> SetTruth(0, 1, s - HYPER_EQU, x4, inv)
      [] s \in HYPER_GES .. HYPER_GES + 3 ->
           IF (s \in {GES_TRUE, GES_EQU}) # inv THEN IF x4 THEN 4 ELSE 1 ELSE 0
      [] OTHER -> 0

-----------------------------------------------------------------------------
(* Addresses: a region and three bytes; offsets never carry into the second *)

At(reg, lo) == [reg |-> reg, hi |-> 0, mid |-> 0, lo |-> lo]
bus_add(a, n) == [a EXCEPT !.lo = @ + n]

\* Byte o of the source address of the block k after block `at`.
Fld(at, k, o) == At("blocks", 32 * (at + k) + 4 + o)

\* The byte at address a.
Fetch(a) ==
    CASE a.reg \in DOMAIN mem -> mem[a.reg][a.lo]
      [] a.reg = "HYPER" -> Hyper(a.hi, a.mid, a.lo)
      [] a.reg = "SUPER" -> IncEntry(a.mid, a.lo - SUPER_INC)
      [] a.reg = "ZERO" -> 0
      [] a.reg = "NOT" -> Radix - 1 - a.lo
      [] a.reg = "TRUTH" -> Truth(a.lo, op.x4, op.inv)
      [] a.reg = "SLL_HYPER_SELECT" -> HYPER_SLL + (a.lo % Bits)
      [] a.reg = "SRL_HYPER_SELECT" -> HYPER_SRL + (a.lo % Bits)
      [] a.reg = "SLL_SHIFT_SELECT" -> width - ((a.lo \div Bits) % width)
      [] a.reg = "SRL_SHIFT_SELECT" -> (a.lo \div Bits) % width
      [] a.reg = "SEXT_WHICH" -> IF a.lo >= Radix \div 2 THEN 16 ELSE 0
      [] a.reg = "SEXT_BUFS" -> IF a.lo < 16 THEN 0 ELSE Radix - 1
      [] a.reg = "SRA_HI" -> (Signed(a.mid) \div 2 ^ (a.lo % Bits)) % Radix

-----------------------------------------------------------------------------
(* Emission.  An emitter returns its blocks; `at` is where they will be.    *)

EmitStridedWith(srcInc, dst, src, rows, cols, ds, ss) ==
    [dst |-> dst, src |-> src, srcInc |-> srcInc, rows |-> rows, cols |-> cols,
     ds |-> ds, ss |-> ss, jump |-> 1]
EmitStrided(dst, src, rows, cols, ds, ss) ==
    EmitStridedWith(TRUE, dst, src, rows, cols, ds, ss)
Emit(dst, src, n) == EmitStrided(dst, src, 1, n, 0, 0)
EmitWith(srcInc, dst, src, n) == EmitStridedWith(srcInc, dst, src, 1, n, 0, 0)

\* Branch, relative to the last block; End.
Branch(b, offset) == [b EXCEPT !.jump = offset]
Halt == 0
End(blocks) == [blocks EXCEPT ![Len(blocks)].jump = Halt]

\* Mutant: the last byte is copied with a carry, too.
CarryLenTwo(i, w) == 2

\* A byte of the result is copied with its carry, except the last.
CarryLen(i, w) == IF i < w - 1 THEN 2 ELSE 1

\* The carry of byte i is in byte i + 1 of the result: it selects the entry
\* for the next byte.
Inc(at, w, ret, inp) ==
    <<EmitStrided(Fld(at, 1, 1), inp, w, 1, 63, 0)>>
      \o [k \in 1 .. 2 * w - 1 |->
            LET i == (k - 1) \div 2 IN
            IF k % 2 = 1 THEN Emit(bus_add(ret, i), At("SUPER", SUPER_INC + 2), CarryLen(i, w))
                         ELSE Emit(Fld(at + k - 1, 2, 0), bus_add(ret, i + 1), 1)]

\* The common form of Add and Sub.
Chain(at, w, ret, l, r, selector) ==
    <<EmitStrided(Fld(at, 2, 1), r, w, 1, 63, 0),
      EmitStrided(Fld(at, 2, 2), l, w, 1, 63, 0),
      Emit(ret, At("HYPER", selector), 2)>>
      \o [k \in 1 .. 2 * (w - 1) |->
            LET i == (k + 1) \div 2 IN
            IF k % 2 = 1 THEN Emit(Fld(at + 2 + k, 1, 0), bus_add(ret, i), 1)
                         ELSE Emit(bus_add(ret, i), At("HYPER", 0), CarryLen(i, w))]

Add(at, w, ret, l, r) == Chain(at, w, ret, l, r, HYPER_ADD)
Sub(at, w, ret, l, r) == Chain(at, w, ret, l, r, HYPER_SUB)

Not(at, w, ret, inp) ==
    <<EmitStrided(Fld(at, 1, 0), inp, w, 1, 31, 0)>>
      \o [k \in 1 .. w |-> Emit(bus_add(ret, k - 1), At("NOT", 0), 1)]

Neg(at, w, ret, inp) ==
    LET tmp == At("tmp", 0) IN Not(at, w, tmp, inp) \o Inc(at + w + 1, w, ret, tmp)

\* The common form of And, Or and Xor.
Bytewise(at, w, ret, l, r, selector) ==
    <<EmitStrided(Fld(at, 2, 1), l, w, 1, 31, 0),
      EmitStrided(Fld(at, 2, 2), r, w, 1, 31, 0)>>
      \o [k \in 1 .. w |-> Emit(bus_add(ret, k - 1), At("HYPER", selector), 1)]

And(at, w, ret, l, r) == Bytewise(at, w, ret, l, r, HYPER_AND)
Or(at, w, ret, l, r)  == Bytewise(at, w, ret, l, r, HYPER_OR)
Xor(at, w, ret, l, r) == Bytewise(at, w, ret, l, r, HYPER_XOR)

Sll8(at, w, ret, inp, shf) ==
    <<EmitStrided(Fld(at, 5, 1), inp, w - 1, 2, 30, -1),
      Emit(Fld(at, 2, 0), shf, 1),
      EmitStridedWith(FALSE, Fld(at, 4, 0), At("SLL_HYPER_SELECT", 0), w, 1, 31, 0),
      Emit(Fld(at, 4, 2), inp, 1)>>
      \o [k \in 1 .. w |-> Emit(bus_add(ret, k - 1), At("HYPER", 0), 1)]

Srl8(at, w, ret, inp, shf) ==
    <<EmitStrided(Fld(at, 5, 1), inp, w - 1, 2, 30, -1),
      Emit(Fld(at, 2, 0), shf, 1),
      EmitStridedWith(FALSE, Fld(at, 4, 0), At("SRL_HYPER_SELECT", 0), w, 1, 31, 0),
      Emit(Fld(at, 4, 1), bus_add(inp, w - 1), 1),
      Emit(bus_add(ret, w - 1), At("HYPER", 0), 1)>>
      \o [k \in 1 .. w - 1 |-> Emit(bus_add(ret, k - 1), At("HYPER", 0), 1)]

Sra8(at, w, ret, inp, shf) ==
    <<EmitStrided(Fld(at, 5, 1), inp, w - 1, 2, 30, -1),
      EmitStridedWith(FALSE, Fld(at, 2, 0), shf, 2, 1, 63, 0),
      EmitStridedWith(FALSE, Fld(at, 5, 0), At("SRL_HYPER_SELECT", 0), w - 1, 1, 31, 0),
      Emit(Fld(at, 4, 1), bus_add(inp, w - 1), 1),
      Emit(bus_add(ret, w - 1), At("SRA_HI", 0), 1)>>
      \o [k \in 1 .. w - 1 |-> Emit(bus_add(ret, k - 1), At("HYPER", 0), 1)]

\* The last three blocks of Sll, Srl and Sra: shift by whole bytes.
SelectBytes(at, w, ret, shf, select) ==
    <<Emit(Fld(at, 1, 0), shf, 1),
      Emit(Fld(at, 2, 0), At(select, 0), 1),
      Emit(ret, At("tmp", 0), w)>>

Sll(at, w, ret, inp, shf) ==
    LET head == <<Emit(At("tmp", 0), At("ZERO", 0), w)>>
                  \o Sll8(at + 1, w, At("tmp", w), inp, shf)
    IN  head \o SelectBytes(at + Len(head), w, ret, shf, "SLL_SHIFT_SELECT")

Srl(at, w, ret, inp, shf) ==
    LET head == <<Emit(At("tmp", 0), At("ZERO", 0), w)>>
                  \o Srl8(at + 1, w, At("tmp", 0), inp, shf)
    IN  head \o SelectBytes(at + Len(head), w, ret, shf, "SRL_SHIFT_SELECT")

Sra(at, w, ret, inp, shf) ==
    LET head == <<Emit(Fld(at, 1, 0), bus_add(inp, w - 1), 1),
                  Emit(Fld(at, 2, 0), At("SEXT_WHICH", 0), 1),
                  EmitWith(FALSE, At("tmp", w), At("SEXT_BUFS", 0), w)>>
                  \o Sra8(at + 3, w, At("tmp", 0), inp, shf)
    IN  head \o SelectBytes(at + Len(head), w, ret, shf, "SRL_SHIFT_SELECT")

\* Mutant: the borrow goes to the block that computed it.
ComparePatchesSelf(at, w, ret, l, r, selector) ==
    <<EmitStrided(Fld(at, 2, 1), r, w, 1, 31, 0),
      EmitStrided(Fld(at, 2, 2), l, w, 1, 31, 0)>>
      \o [k \in 1 .. w |-> Emit(Fld(at + 1 + k, 0, 0), At("HYPER", selector), 1)]
      \o <<Emit(ret, At("TRUTH", 0), 1)>>

\* The common form of Geu and Equ: from the lowest byte up.
Compare(at, w, ret, l, r, selector) ==
    <<EmitStrided(Fld(at, 2, 1), r, w, 1, 31, 0),
      EmitStrided(Fld(at, 2, 2), l, w, 1, 31, 0)>>
      \o [k \in 1 .. w |-> Emit(Fld(at + 1 + k, 1, 0), At("HYPER", selector), 1)]
      \o <<Emit(ret, At("TRUTH", 0), 1)>>

Geu(at, w, ret, l, r) == Compare(at, w, ret, l, r, HYPER_GEU)
Equ(at, w, ret, l, r) == Compare(at, w, ret, l, r, HYPER_EQU + 1)

\* Mutant: the lowest byte does not lead to the result.
GesNextStuck(i, w) == IF i = 0 THEN 0 ELSE -1

\* The block after the one for byte i, relative to it.
GesNext(i, w) == IF i = 0 THEN w ELSE -1

\* Ges: from the highest byte down, then to the block behind all of them.
Ges(at, w, ret, l, r) ==
    <<EmitStrided(Fld(at, 2, 1), r, w, 1, 31, 0),
      Branch(EmitStrided(Fld(at, 2, 2), l, w, 1, 31, 0), w)>>
      \o [k \in 1 .. w |->
            LET next == GesNext(k - 1, w)
            IN  Branch(Emit(Fld(at + 1 + k, next, 0), At("HYPER", HYPER_GES), 1), next)]
      \o <<Emit(ret, At("TRUTH", 0), 1)>>

Program(o, w, ret, l, r) ==
    CASE o.name = "Inc" -> Inc(0, w, ret, l)
      [] o.name = "Neg" -> Neg(0, w, ret, l)
      [] o.name = "Not" -> Not(0, w, ret, l)
      [] o.name = "Add" -> Add(0, w, ret, l, r)
      [] o.name = "Sub" -> Sub(0, w, ret, l, r)
      [] o.name = "And" -> And(0, w, ret, l, r)
      [] o.name = "Or"  -> Or(0, w, ret, l, r)
      [] o.name = "Xor" -> Xor(0, w, ret, l, r)
      [] o.name = "Sll" -> Sll(0, w, ret, l, r)
      [] o.name = "Srl" -> Srl(0, w, ret, l, r)
      [] o.name = "Sra" -> Sra(0, w, ret, l, r)
      [] o.name = "Geu" -> Geu(0, w, ret, l, r)
      [] o.name = "Equ" -> Equ(0, w, ret, l, r)
      [] o.name = "Ges" -> Ges(0, w, ret, l, r)

-----------------------------------------------------------------------------
(* Running a program *)

Null == -1
Guard == -1   \* the byte behind a number belongs to somebody else

Digits(n, w) == [i \in 0 .. w |-> IF i < w THEN (n \div Radix ^ i) % Radix ELSE Guard]
Result == IF inPlace THEN "lhs" ELSE "ret"

\* The program is emitted and ended; the scratch buffer is fresh.
Init ==
    /\ op \in Operations /\ width \in {w \in Widths : Emittable(op, w)}
    /\ inPlace \in BOOLEAN
    /\ cb = End(Program(op, width, At(Result, 0), At("lhs", 0), At("rhs", 0)))
    /\ pc = Null /\ executed = {} /\ runs = 0
    /\ lhs = 0 /\ rhs = 0
    /\ mem = [lhs |-> Digits(0, width), rhs |-> Digits(0, width),
              ret |-> Digits(0, width), tmp |-> Digits(0, 2 * width)]

\* __dma_timed_run, with new operands in memory and the result cleared.
Run(x, y) ==
    /\ pc = Null
    /\ runs < MaxRuns
    /\ runs' = runs + 1
    /\ pc' = 0
    /\ executed' = {}
    /\ lhs' = x /\ rhs' = y
    /\ mem' = [mem EXCEPT !.lhs = Digits(x, width), !.rhs = Digits(y, width),
                          !.ret = Digits(0, width)]
    /\ UNCHANGED <<op, width, inPlace, cb>>

\* The byte that the block copies to address d, if any: in row r and column c.
Places(b) == (0 .. b.rows - 1) \X (0 .. b.cols - 1)
To(b, p) == bus_add(b.dst, p[1] * (b.cols + b.ds) + p[2])
From(b, p) == bus_add(b.src, IF b.srcInc THEN p[1] * (b.cols + b.ss) + p[2] ELSE 0)
Hits(b, d) == {p \in Places(b) : To(b, p) = d}
Copied(b, d, old) ==
    LET hits == Hits(b, d)
    IN  IF hits = {} THEN old ELSE Fetch(From(b, CHOOSE p \in hits : TRUE))

\* The source address a of block k after b was executed.
Patched(b, k, a) ==
    [a EXCEPT !.lo  = Copied(b, Fld(0, k - 1, 0), @),
              !.mid = Copied(b, Fld(0, k - 1, 1), @),
              !.hi  = Copied(b, Fld(0, k - 1, 2), @)]

\* The controller executes one control block.
Execute ==
    /\ pc # Null
    /\ LET b == cb[pc + 1] IN
         /\ mem' = [reg \in DOMAIN mem |->
                     [i \in DOMAIN mem[reg] |-> Copied(b, At(reg, i), mem[reg][i])]]
         /\ cb' = [k \in DOMAIN cb |-> [cb[k] EXCEPT !.src = Patched(b, k, @)]]
         /\ pc' = IF b.jump = Halt /\ pc + 1 = Len(cb) THEN Null ELSE pc + b.jump
         /\ executed' = executed \cup {pc + 1}
    /\ UNCHANGED <<op, width, inPlace, runs, lhs, rhs>>

Next ==
    \/ \E xy \in Inputs(runs + 1, width) : Run(xy[1], xy[2])
    \/ Execute

\* The controller does not stop before the end of the chain.
Spec == Init /\ [][Next]_vars /\ WF_vars(Execute)

-----------------------------------------------------------------------------
(* Reference *)

Modulus == Radix ^ width
TwosComplement(n) == IF n < Modulus \div 2 THEN n ELSE n - Modulus
Shift == (rhs % Radix) % (width * Bits)

Holds ==
    CASE op.name = "Geu" -> lhs >= rhs
      [] op.name = "Equ" -> lhs = rhs
      [] op.name = "Ges" -> TwosComplement(lhs) >= TwosComplement(rhs)

Expected ==
    CASE op.name = "Inc" -> (lhs + 1) % Modulus
      [] op.name = "Neg" -> (0 - lhs) % Modulus
      [] op.name = "Not" -> Modulus - 1 - lhs
      [] op.name = "Add" -> (lhs + rhs) % Modulus
      [] op.name = "Sub" -> (lhs - rhs) % Modulus
      [] op.name = "And" -> BitAnd(lhs, rhs)
      [] op.name = "Or"  -> BitOr(lhs, rhs)
      [] op.name = "Xor" -> BitXor(lhs, rhs)
      [] op.name = "Sll" -> (lhs * 2 ^ Shift) % Modulus
      [] op.name = "Srl" -> lhs \div 2 ^ Shift
      [] op.name = "Sra" -> (TwosComplement(lhs) \div 2 ^ Shift) % Modulus
      [] OTHER -> IF Holds # op.inv THEN IF op.x4 THEN 4 ELSE 1 ELSE 0

\* The number in the bytes of a region.
Number(reg) ==
    LET sum[k \in 0 .. width] ==
          IF k = 0 THEN 0 ELSE sum[k - 1] + mem[reg][k - 1] * Radix ^ (k - 1)
    IN  sum[width]

Finished == pc = Null /\ runs > 0

-----------------------------------------------------------------------------
(* Properties *)

Byte == 0 .. 255

\* Blocks, addresses and memory bytes are what the controller can hold.
TypeOK ==
    /\ op \in Operation /\ width \in Widths /\ inPlace \in BOOLEAN
    /\ pc \in {Null} \cup 0 .. Len(cb) - 1
    /\ executed \subseteq 1 .. Len(cb)
    /\ \A k \in 1 .. Len(cb) :
         cb[k].src.hi \in Byte /\ cb[k].src.mid \in Byte /\ cb[k].src.lo \in Byte
    /\ \A reg \in DOMAIN mem : \A i \in DOMAIN mem[reg] : mem[reg][i] \in Byte \cup {Guard}

\* Ges with ICF_INV, arith.h:142.
Lts == op.name = "Ges" /\ op.inv

\* A program that has ended has computed what its name says, in every run: the
\* addresses earlier runs left in its blocks do not matter, and neither does a
\* result that replaces an operand (arith_int.c, arith_bit.c, arith_sxx.c,
\* arith_cmp.c; the assertions of 2-arith-test.c).  Nothing is claimed of Lts,
\* of which the code and the test say opposite things (see TestedLts).
ResultRight ==
    Finished /\ ~Lts => IF op.name \in Comparisons THEN mem[Result][0] = Expected
                        ELSE Number(Result) = Expected

\* What 2-arith-test.c:373-377 asserts of Lts: "(int32_t)a >= (int32_t)b".  The
\* code inverts the table of Ges (arith.h:144) and computes a < b.
TestedLts ==
    Finished /\ Lts /\ ~op.x4 =>
      mem[Result][0] = IF TwosComplement(lhs) >= TwosComplement(rhs) THEN 1 ELSE 0

\* While a program runs, the carries of Inc, Add and Sub travel through the
\* result, but no byte behind it is written, the operands are only read, and a
\* comparison leaves all but its one byte alone ("assert(a == VALUES[i][0])" and
\* the comparison of all four bytes of c in 2-arith-test.c).
NothingElseWritten ==
    /\ mem.rhs = Digits(rhs, width)
    /\ ~inPlace => mem.lhs = Digits(lhs, width)
    /\ mem[Result][width] = Guard
    /\ op.name \in Comparisons =>
         \A i \in 1 .. width - 1 :
           mem[Result][i] = Digits(IF inPlace THEN lhs ELSE 0, width)[i]

\* A block only ever modifies blocks that are still to be executed in the run
\* (the bus_rel_fld targets of all emitters), so that no run depends on an
\* address it has already used, also where Ges goes backwards.
PatchesAhead ==
    [][\A k \in 1 .. Len(cb) : cb'[k] # cb[k] => k \notin executed']_vars

\* A started chain reaches the block with next_cb = 0, also where it jumps
\* backwards and then over itself (Ges): __dma_timed_run busy-waits for it.
Halts == pc # Null ~> pc = Null

\* A comparison emitted with ICF_X4 yields 4 or 0 ("one wants T=4, F=0 for
\* various reasons", arith.h); for Geu the table POLAR_TRUTH_X4 holds 1.
TruthTimesFour == Finished /\ op.x4 => mem[Result][0] \in {0, 4}

=============================================================================
