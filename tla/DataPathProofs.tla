---------------------------- MODULE DataPathProofs ----------------------------
(***************************************************************************)
(* Proofs about the framing and the layers of the XZ decoder, for every    *)
(* value of the constants of DataPath.                                     *)
(***************************************************************************)
EXTENDS DataPath, NumberFacts, SequenceTheorems, TLAPS

(***************************************************************************)
(* The BCJ filter.                                                         *)
(***************************************************************************)
BcjByte == Nat \X BOOLEAN \X Nat
Verdicts == {"OK", "STREAM_END", "DATA_ERROR"}

\* What the variables of the filter hold.
BcjTypes ==
    /\ data \in Seq(BcjByte) /\ given \in 0 .. Len(data) /\ ended \in {"no", "end", "bad"}
    /\ out \in Seq(BcjByte) /\ room \in Nat /\ pc \in {"idle", "buffer", "temp"}
    /\ ret \in Verdicts
    /\ bcj \in [ret : Verdicts, pos : Nat, filtered : Nat, temp : Seq(BcjByte), taken : Nat]
    /\ bcj.taken <= given /\ bcj.filtered <= Len(bcj.temp) /\ Len(bcj.temp) <= TempSize

\* The bytes o and t follow each other in the block; o and the first f of t are
\* filtered and the others not.
Matches(o, t, f) ==
    /\ \A i \in 1 .. Len(o) : o[i] = B!Filtered[i]
    /\ \A j \in 1 .. Len(t) :
         t[j] = IF j <= f THEN B!Filtered[Len(o) + j] ELSE data[Len(o) + j]

\* What was written and what temp holds are the first bytes that LZMA2 gave,
\* filtered as far as whole instructions go.
BcjContent ==
    /\ Len(out) + Len(bcj.temp) = bcj.taken
    /\ bcj.pos % Unit = 0
    /\ Matches(out, bcj.temp, bcj.filtered)
    /\ bcj.ret # "DATA_ERROR"
    /\ bcj.ret = "OK" => Len(out) + bcj.filtered = bcj.pos
    /\ bcj.ret = "STREAM_END" => bcj.taken = Len(data) /\ bcj.filtered = Len(bcj.temp)

BcjControl ==
    /\ pc # "idle" => ret = "OK" /\ bcj.ret = "OK" /\ bcj.filtered = 0
    /\ pc = "buffer" => Len(bcj.temp) <= room
    /\ ret = "OK" /\ bcj.ret = "STREAM_END" => bcj.filtered > 0
    /\ ret = "STREAM_END" => bcj.temp = <<>> /\ bcj.ret = "STREAM_END"

BcjInv == BcjTypes /\ BcjControl /\ (ret # "DATA_ERROR" => BcjContent)

BcjPart == part = "bcj" => BcjInv

\* Where the instruction of a byte begins: the same in a piece of the block that
\* begins with an instruction, and inside it if its byte is among the whole ones.
LEMMA InstructionStart ==
    ASSUME NEW u \in Nat \ {0}, NEW p \in Nat, p % u = 0, NEW n \in Nat, NEW i \in 1 .. n
    PROVE  /\ ((i - 1) \div u) * u \in Nat
           /\ ((i - 1) \div u) * u < i /\ i <= ((i - 1) \div u) * u + u
           /\ ((p + i - 1) \div u) * u = p + ((i - 1) \div u) * u
           /\ i <= n - (n % u) => ((i - 1) \div u) * u + u <= n
           /\ i > n - (n % u) => ((i - 1) \div u) * u + u > n
  <1> DEFINE a == p \div u
             b == (i - 1) \div u
             r == (i - 1) % u
             c == n \div u
             m == n % u
  <1>1. /\ a \in Nat /\ p = u * a
        /\ b \in Nat /\ r \in Nat /\ r < u /\ i - 1 = u * b + r
        /\ c \in Nat /\ m \in Nat /\ m < u /\ n = u * c + m
    <2>1. i - 1 \in Nat
      OBVIOUS
    <2>2. QED
      BY <2>1, DivMod
  <1> HIDE DEF a, b, r, c, m
  <1>2. u * (a + b) + r = p + i - 1 /\ a + b \in Nat
    <2>1. u * (a + b) = u * a + u * b
      BY <1>1
    <2>2. u * a \in Nat /\ u * b \in Nat
      BY <1>1
    <2>3. QED
      BY <1>1, <2>1, <2>2
  <1>3. (p + i - 1) \div u = a + b
    BY <1>1, <1>2, DivUnique
  <1>4. b * u = u * b /\ u * b \in Nat /\ (a + b) * u = u * a + u * b
    BY <1>1
  <1>5. ((p + i - 1) \div u) * u = p + b * u
    BY <1>1, <1>3, <1>4
  <1>6. i <= n - m => b * u + u <= n
    <2> SUFFICES ASSUME i <= n - m PROVE b * u + u <= n
      OBVIOUS
    <2>1. b < c
      <3> SUFFICES ASSUME c <= b PROVE FALSE
        BY <1>1
      <3>1. u * c <= u * b
        <4>1. CASE c = b
          BY <1>1, <4>1
        <4>2. CASE c < b
          BY <1>1, <4>2, MulStep
        <4>3. QED
          BY <1>1, <4>1, <4>2
      <3>2. u * c \in Nat
        BY <1>1
      <3>3. QED
        BY <1>1, <1>4, <3>1, <3>2
    <2>2. u * b + u <= u * c /\ u * c \in Nat
      BY <1>1, <2>1, MulStep
    <2>3. QED
      BY <1>1, <1>4, <2>2
  <1>7. b * u \in Nat /\ b * u < i /\ i <= b * u + u
    BY <1>1, <1>4
  <1>8. i > n - m => b * u + u > n
    <2> SUFFICES ASSUME i > n - m PROVE b * u + u > n
      OBVIOUS
    <2>1. u * c \in Nat
      BY <1>1
    <2>2. ~(b < c)
      <3> SUFFICES ASSUME b < c PROVE FALSE
        OBVIOUS
      <3>1. u * b + u <= u * c
        BY <1>1, MulStep
      <3>2. QED
        BY <1>1, <1>4, <2>1, <3>1
    <2>3. u * c <= u * b
      <3>1. CASE c = b
        BY <1>1, <3>1
      <3>2. CASE c < b
        BY <1>1, <3>2, MulStep
      <3>3. QED
        BY <1>1, <2>2, <3>1, <3>2
    <2>4. QED
      BY <1>1, <1>4, <2>1, <2>3
  <1>9. QED
    BY <1>5, <1>6, <1>7, <1>8 DEF b, m

\* bcj_arm changes bytes, not how many there are.
LEMMA ArmType ==
    ASSUME NEW buf \in Seq(BcjByte), NEW p \in Nat
    PROVE  /\ B!BcjArm(buf, p) \in Seq(BcjByte)
           /\ Len(B!BcjArm(buf, p)) = Len(buf)
  <1>1. ASSUME NEW i \in 1 .. Len(buf) PROVE B!BcjArm(buf, p)[i] \in BcjByte
    <2> DEFINE f == ((i - 1) \div Unit) * Unit
    <2>1. f \in Nat
      BY BcjAssumption
    <2>2. buf[i] \in BcjByte
      OBVIOUS
    <2>3. p + f + Lead \in Nat
      BY <2>1, BcjAssumption
    <2>4. B!BcjArm(buf, p)[i] = IF f + Unit <= Len(buf) /\ buf[f + Unit][2]
                                THEN <<buf[i][1], buf[i][2], p + f + Lead>> ELSE buf[i]
      BY DEF B!BcjArm
    <2> HIDE DEF f
    <2>5. <<buf[i][1], buf[i][2], p + f + Lead>> \in BcjByte
      BY <2>2, <2>3 DEF BcjByte
    <2>6. QED
      BY <2>2, <2>4, <2>5
  <1>2. B!BcjArm(buf, p) = [i \in 1 .. Len(buf) |-> B!BcjArm(buf, p)[i]]
    BY DEF B!BcjArm
  <1>3. B!BcjArm(buf, p) \in [1 .. Len(buf) -> BcjByte]
    BY <1>1, <1>2
  <1>4. Len(buf) \in Nat
    OBVIOUS
  <1>5. QED
    BY <1>3, <1>4

\* A piece of the block that begins with an instruction is filtered like the
\* block: its whole instructions, and the rest if the block ends with it.
LEMMA ArmAgrees ==
    ASSUME data \in Seq(BcjByte), NEW buf \in Seq(BcjByte), NEW p \in Nat, p % Unit = 0,
           p + Len(buf) <= Len(data), \A i \in 1 .. Len(buf) : buf[i] = data[p + i],
           NEW i \in 1 .. Len(buf), i <= B!Whole(Len(buf)) \/ p + Len(buf) = Len(data)
    PROVE  B!BcjArm(buf, p)[i] = B!Filtered[p + i]
  <1> DEFINE f == ((i - 1) \div Unit) * Unit
             g == ((p + i - 1) \div Unit) * Unit
  <1>1. Unit \in Nat \ {0} /\ Lead \in Nat /\ Len(buf) \in Nat /\ Len(data) \in Nat
    BY BcjAssumption
  <1>2. /\ f \in Nat /\ f < i /\ i <= f + Unit /\ g = p + f
        /\ i <= Len(buf) - (Len(buf) % Unit) => f + Unit <= Len(buf)
    <2> DEFINE n == Len(buf)
    <2>1. n \in Nat /\ i \in 1 .. n
      BY <1>1
    <2> HIDE DEF n
    <2>2. /\ f \in Nat /\ f < i /\ i <= f + Unit /\ g = p + f
          /\ i <= n - (n % Unit) => f + Unit <= n
      <3>1. /\ ((i - 1) \div Unit) * Unit \in Nat
            /\ ((i - 1) \div Unit) * Unit < i /\ i <= ((i - 1) \div Unit) * Unit + Unit
            /\ ((p + i - 1) \div Unit) * Unit = p + ((i - 1) \div Unit) * Unit
            /\ i <= n - (n % Unit) => ((i - 1) \div Unit) * Unit + Unit <= n
            /\ i > n - (n % Unit) => ((i - 1) \div Unit) * Unit + Unit > n
        <4> HIDE DEF f, g
        <4> QED BY <1>1, <2>1, InstructionStart, Zenon
      <3>2. QED
        BY <3>1
    <2>3. QED
      BY <2>2 DEF n
  <1>3. B!BcjArm(buf, p)[i] = IF f + Unit <= Len(buf) /\ buf[f + Unit][2]
                              THEN <<buf[i][1], buf[i][2], p + f + Lead>> ELSE buf[i]
    BY DEF B!BcjArm
  <1>4. p + i \in 1 .. Len(data)
    BY <1>1
  <1>5. B!Filtered[p + i] = IF g + Unit <= Len(data) /\ data[g + Unit][2]
                            THEN <<data[p + i][1], data[p + i][2], 0 + g + Lead>> ELSE data[p + i]
    BY <1>4 DEF B!Filtered, B!BcjArm
  <1> HIDE DEF f, g
  <1>6. buf[i] = data[p + i]
    OBVIOUS
  <1>7. CASE f + Unit <= Len(buf)
    <2>1. f + Unit \in 1 .. Len(buf)
      BY <1>1, <1>2, <1>7
    <2>2. buf[f + Unit] = data[p + (f + Unit)]
      BY <2>1
    <2>3. g + Unit = p + (f + Unit) /\ g + Unit <= Len(data) /\ 0 + g + Lead = p + f + Lead
      BY <1>1, <1>2, <1>7
    <2>4. QED
      BY <1>3, <1>5, <1>6, <1>7, <2>2, <2>3
  <1>8. CASE ~(f + Unit <= Len(buf))
    <2>1. p + Len(buf) = Len(data)
      BY <1>2, <1>8 DEF B!Whole
    <2>2. ~(g + Unit <= Len(data))
      BY <1>1, <1>2, <1>8, <2>1
    <2>3. QED
      BY <1>3, <1>5, <1>6, <1>8, <2>2
  <1>9. QED
    BY <1>7, <1>8

\* What is not a whole instruction stays as it is.
LEMMA ArmLeaves ==
    ASSUME NEW buf \in Seq(BcjByte), NEW p \in Nat,
           NEW i \in 1 .. Len(buf), i > B!Whole(Len(buf))
    PROVE  B!BcjArm(buf, p)[i] = buf[i]
  <1> DEFINE f == ((i - 1) \div Unit) * Unit
             n == Len(buf)
  <1>1. Unit \in Nat \ {0} /\ n \in Nat /\ i \in 1 .. n /\ 0 % Unit = 0 /\ i > n - (n % Unit)
    BY BcjAssumption DEF B!Whole
  <1>2. B!BcjArm(buf, p)[i] = IF f + Unit <= n /\ buf[f + Unit][2]
                              THEN <<buf[i][1], buf[i][2], p + f + Lead>> ELSE buf[i]
    BY DEF B!BcjArm
  <1> HIDE DEF n
  <1>3. f + Unit > n /\ f \in Nat
    <2>1. /\ ((i - 1) \div Unit) * Unit \in Nat
          /\ i > n - (n % Unit) => ((i - 1) \div Unit) * Unit + Unit > n
      <3> HIDE DEF f
      <3> QED BY <1>1, InstructionStart, Zenon
    <2>2. QED
      BY <1>1, <2>1
  <1> HIDE DEF f
  <1>4. QED
    BY <1>1, <1>2, <1>3

LEMMA WholeFacts ==
    ASSUME NEW n \in Nat, NEW p \in Nat, p % Unit = 0
    PROVE  /\ B!Whole(n) \in 0 .. n /\ n - B!Whole(n) < Unit
           /\ (p + B!Whole(n)) % Unit = 0
  <1> DEFINE a == p \div Unit
             c == n \div Unit
             m == n % Unit
  <1>1. Unit \in Nat \ {0}
    BY BcjAssumption
  <1>2. /\ a \in Nat /\ p = Unit * a /\ c \in Nat /\ m \in Nat /\ m < Unit /\ n = Unit * c + m
        /\ B!Whole(n) = n - m
    BY <1>1, DivMod DEF B!Whole
  <1> HIDE DEF a, c, m
  <1>3. Unit * c \in Nat /\ Unit * a \in Nat /\ Unit * (a + c) = Unit * a + Unit * c /\ a + c \in Nat
    BY <1>1, <1>2
  <1>4. p + (n - m) = Unit * (a + c) + 0
    BY <1>1, <1>2, <1>3
  <1>5. (Unit * (a + c) + 0) % Unit = 0
    BY <1>1, <1>3, DivUnique
  <1>6. n - m \in 0 .. n /\ n - (n - m) < Unit
    BY <1>1, <1>2, <1>3
  <1>7. QED
    BY <1>2, <1>4, <1>5, <1>6

\* bcj_flush moves filtered bytes.
Flushes(o, t, f, k) ==
    /\ SubSeq(t, 1, k) \in Seq(BcjByte) /\ Len(SubSeq(t, 1, k)) = k
    /\ SubSeq(t, k + 1, Len(t)) \in Seq(BcjByte)
    /\ Len(SubSeq(t, k + 1, Len(t))) = Len(t) - k
    /\ Len(o \o SubSeq(t, 1, k)) = Len(o) + k /\ o \o SubSeq(t, 1, k) \in Seq(BcjByte)
    /\ Matches(o \o SubSeq(t, 1, k), SubSeq(t, k + 1, Len(t)), f - k)

LEMMA FlushMatches ==
    ASSUME NEW o \in Seq(BcjByte), NEW t \in Seq(BcjByte), NEW f \in 0 .. Len(t),
           Matches(o, t, f), NEW k \in 0 .. f
    PROVE  Flushes(o, t, f, k)
  <1> DEFINE x == SubSeq(t, 1, k)
             y == SubSeq(t, k + 1, Len(t))
  <1>1. /\ Len(t) \in Nat /\ k \in Nat /\ k <= Len(t) /\ f \in Nat /\ k <= f
        /\ x \in Seq(BcjByte) /\ Len(x) = k /\ \A i \in 1 .. k : x[i] = t[i]
    OBVIOUS
  <1>2. y \in Seq(BcjByte) /\ Len(y) = Len(t) - k /\ \A j \in 1 .. Len(t) - k : y[j] = t[k + j]
    BY <1>1
  <1> HIDE DEF x, y
  <1>3. /\ o \o x \in Seq(BcjByte) /\ Len(o \o x) = Len(o) + k
        /\ \A i \in 1 .. Len(o) + k : (o \o x)[i] = IF i <= Len(o) THEN o[i] ELSE x[i - Len(o)]
    BY <1>1
  <1> DEFINE ox == o \o x
  <1> HIDE DEF ox
  <1>4. ASSUME NEW i \in 1 .. Len(ox) PROVE ox[i] = B!Filtered[i]
    <2>1. Len(o) \in Nat /\ i \in 1 .. Len(o) + k
      BY <1>3 DEF ox
    <2>2. CASE i <= Len(o)
      BY <1>3, <2>1, <2>2 DEF ox, Matches
    <2>3. CASE i > Len(o)
      <3>1. i - Len(o) \in 1 .. k /\ i - Len(o) <= f /\ i - Len(o) \in 1 .. Len(t)
            /\ Len(o) + (i - Len(o)) = i
        BY <1>1, <2>1, <2>3
      <3>2. t[i - Len(o)] = B!Filtered[Len(o) + (i - Len(o))]
        BY <3>1 DEF Matches
      <3>3. ox[i] = t[i - Len(o)]
        BY <1>1, <1>3, <2>1, <2>3, <3>1 DEF ox
      <3>4. QED
        BY <3>1, <3>2, <3>3
    <2>4. QED
      BY <2>1, <2>2, <2>3
  <1>5. ASSUME NEW j \in 1 .. Len(y)
        PROVE  y[j] = IF j <= f - k THEN B!Filtered[Len(ox) + j] ELSE data[Len(ox) + j]
    <2>1. j \in 1 .. Len(t) - k /\ k + j \in 1 .. Len(t) /\ Len(ox) = Len(o) + k /\ Len(o) \in Nat
      BY <1>1, <1>2, <1>3 DEF ox
    <2>2. y[j] = t[k + j] /\ Len(ox) + j = Len(o) + (k + j) /\ (j <= f - k <=> k + j <= f)
      BY <1>1, <1>2, <2>1
    <2>3. t[k + j] = IF k + j <= f THEN B!Filtered[Len(o) + (k + j)] ELSE data[Len(o) + (k + j)]
      BY <2>1 DEF Matches
    <2>4. QED
      BY <2>2, <2>3
  <1>6. Matches(ox, y, f - k)
    BY <1>4, <1>5 DEF Matches
  <1>7. QED
    BY <1>1, <1>2, <1>3, <1>6 DEF Flushes, x, y, ox

\* LZMA2 adds bytes of the block.
Decodes(o, t, f, k, new) ==
    /\ new \in Seq(BcjByte) /\ Len(new) = k
    /\ t \o new \in Seq(BcjByte) /\ Len(t \o new) = Len(t) + k
    /\ Matches(o, t \o new, f)

LEMMA DecodeMatches ==
    ASSUME data \in Seq(BcjByte), NEW o \in Seq(BcjByte), NEW t \in Seq(BcjByte),
           NEW f \in 0 .. Len(t), Matches(o, t, f), NEW k \in Nat,
           Len(o) + Len(t) + k <= Len(data),
           NEW new, new = SubSeq(data, Len(o) + Len(t) + 1, Len(o) + Len(t) + k)
    PROVE  Decodes(o, t, f, k, new)
  <1>1. Len(o) \in Nat /\ Len(t) \in Nat /\ Len(data) \in Nat
    OBVIOUS
  <1>2. /\ new \in Seq(BcjByte) /\ Len(new) = k
        /\ \A i \in 1 .. k : new[i] = data[Len(o) + Len(t) + i]
    BY <1>1
  <1>3. /\ t \o new \in Seq(BcjByte) /\ Len(t \o new) = Len(t) + k
        /\ \A i \in 1 .. Len(t) + k : (t \o new)[i] = IF i <= Len(t) THEN t[i] ELSE new[i - Len(t)]
    BY <1>2
  <1> DEFINE tn == t \o new
  <1> HIDE DEF tn
  <1>4. ASSUME NEW j \in 1 .. Len(tn)
        PROVE  tn[j] = IF j <= f THEN B!Filtered[Len(o) + j] ELSE data[Len(o) + j]
    <2>1. j \in 1 .. Len(t) + k /\ tn[j] = IF j <= Len(t) THEN t[j] ELSE new[j - Len(t)]
      BY <1>3 DEF tn
    <2>2. CASE j <= Len(t)
      BY <1>1, <2>1, <2>2 DEF Matches
    <2>3. CASE j > Len(t)
      <3>1. j - Len(t) \in 1 .. k /\ Len(o) + Len(t) + (j - Len(t)) = Len(o) + j /\ ~(j <= f)
        <4> DEFINE x == Len(t)
                   y == Len(o)
        <4>1. /\ x \in Nat /\ y \in Nat /\ j \in 1 .. x + k /\ j > x /\ f \in 0 .. x
          BY <1>1, <2>1, <2>3
        <4> HIDE DEF x, y
        <4>2. j - x \in 1 .. k /\ y + x + (j - x) = y + j /\ ~(j <= f)
          BY <4>1
        <4>3. QED
          BY <4>2 DEF x, y
      <3>2. new[j - Len(t)] = data[Len(o) + Len(t) + (j - Len(t))]
        BY <1>2, <3>1
      <3>3. QED
        BY <1>1, <2>1, <2>3, <3>1, <3>2
    <2>4. QED
      BY <1>1, <2>1, <2>2, <2>3
  <1>5. Matches(o, tn, f)
    BY <1>4 DEF Matches
  <1>6. QED
    BY <1>2, <1>3, <1>5 DEF Decodes, tn

\* bcj_apply filters d of the bytes a behind o: the whole instructions, or all
\* of them at the end of the block.
Arms(o, a, p, d) ==
    /\ d \in 0 .. Len(a)
    /\ B!BcjArm(a, p) \in Seq(BcjByte) /\ Len(B!BcjArm(a, p)) = Len(a)
    /\ Matches(o, B!BcjArm(a, p), d)

LEMMA ArmMatches ==
    ASSUME data \in Seq(BcjByte), NEW o \in Seq(BcjByte), NEW a \in Seq(BcjByte),
           Matches(o, a, 0), Len(o) % Unit = 0, Len(o) + Len(a) <= Len(data),
           NEW d, d = B!Whole(Len(a)) \/ (d = Len(a) /\ Len(o) + Len(a) = Len(data)),
           NEW p, p = Len(o)
    PROVE  Arms(o, a, p, d)
  <1> DEFINE arm == B!BcjArm(a, p)
  <1>1. Len(o) \in Nat /\ Len(a) \in Nat /\ Len(data) \in Nat /\ p \in Nat
    OBVIOUS
  <1>2. arm \in Seq(BcjByte) /\ Len(arm) = Len(a)
    BY <1>1, ArmType
  <1>3. B!Whole(Len(a)) \in 0 .. Len(a)
    BY <1>1, WholeFacts
  <1>4. d \in 0 .. Len(a)
    BY <1>1, <1>3
  <1>5. \A i \in 1 .. Len(a) : a[i] = data[p + i]
    BY <1>1 DEF Matches
  <1>6. ASSUME NEW j \in 1 .. Len(a)
        PROVE  arm[j] = IF j <= d THEN B!Filtered[Len(o) + j] ELSE data[Len(o) + j]
    <2>1. CASE j <= d
      <3>1. j <= B!Whole(Len(a)) \/ p + Len(a) = Len(data)
        BY <2>1
      <3>2. p % Unit = 0 /\ p + Len(a) <= Len(data)
        OBVIOUS
      <3> HIDE DEF arm
      <3>3. B!BcjArm(a, p)[j] = B!Filtered[p + j]
        BY <1>1, <1>5, <3>1, <3>2, ArmAgrees
      <3>4. QED
        BY <2>1, <3>3 DEF arm
    <2>2. CASE ~(j <= d)
      <3>1. d = B!Whole(Len(a)) /\ j > B!Whole(Len(a))
        BY <1>1, <1>3, <1>4, <2>2
      <3>2. arm[j] = a[j]
        BY <1>1, <3>1, ArmLeaves
      <3>3. QED
        BY <1>5, <2>2, <3>2
    <2>3. QED
      BY <2>1, <2>2
  <1> HIDE DEF arm
  <1>7. Matches(o, arm, d)
    BY <1>2, <1>6 DEF Matches
  <1>8. QED
    BY <1>2, <1>4, <1>7 DEF Arms, arm

LEMMA MatchesNext ==
    ASSUME data' = data, Matches(out', bcj'.temp, bcj'.filtered)
    PROVE  Matches(out, bcj.temp, bcj.filtered)'
  <1>1. B!Filtered' = B!Filtered
    BY DEF B!Filtered, B!BcjArm
  <1>2. QED
    BY <1>1 DEF Matches

LEMMA BcjInitHolds == B!Init => BcjInv
  <1> SUFFICES ASSUME B!Init PROVE BcjInv
    OBVIOUS
  <1>1. PICK f \in Blocks : data = [i \in 1 .. Len(f) |-> <<i, f[i], 0>>]
    BY DEF B!Init
  <1>2. f \in Seq(BOOLEAN) /\ Len(f) \in Nat
    BY BcjAssumption
  <1>3. data \in Seq(BcjByte)
    <2>1. ASSUME NEW i \in 1 .. Len(f) PROVE <<i, f[i], 0>> \in BcjByte
      BY <1>2 DEF BcjByte
    <2>2. data \in [1 .. Len(f) -> BcjByte]
      BY <1>1, <2>1
    <2>3. QED
      BY <1>2, <2>2
  <1>4. /\ bcj = [ret |-> "OK", pos |-> 0, filtered |-> 0, temp |-> <<>>, taken |-> 0]
        /\ given = 0 /\ ended = "no" /\ out = <<>> /\ room = 0 /\ pc = "idle" /\ ret = "OK"
    BY DEF B!Init
  <1>5. Len(data) \in Nat /\ <<>> \in Seq(BcjByte) /\ Len(<<>>) = 0
    BY <1>3
  <1>6. BcjTypes
    BY <1>3, <1>4, <1>5, BcjAssumption DEF BcjTypes, Verdicts
  <1>7. BcjControl
    BY <1>4 DEF BcjControl
  <1>8. BcjContent
    <2>1. Matches(<<>>, <<>>, 0)
      BY DEF Matches
    <2>2. 0 % Unit = 0
      BY BcjAssumption
    <2>3. QED
      BY <1>4, <2>1, <2>2 DEF BcjContent
  <1>9. QED
    BY <1>6, <1>7, <1>8 DEF BcjInv

LEMMA BcjGiveKeeps ==
    ASSUME BcjInv, B!Give
    PROVE  BcjInv'
  <1>1. /\ data' = data /\ bcj' = bcj /\ out' = out /\ room' = room /\ pc' = pc /\ ret' = ret
        /\ ended' \in {"no", "end", "bad"} /\ ret = "OK"
    BY DEF B!Give, BcjInv, BcjTypes
  <1>2. given' \in 0 .. Len(data) /\ given <= given'
    <2>1. PICK k \in 0 .. MaxGive : given' = B!Min2(given + k, Len(data))
      BY DEF B!Give
    <2>2. given \in 0 .. Len(data) /\ Len(data) \in Nat
      BY DEF BcjInv, BcjTypes
    <2>3. QED
      BY <2>1, <2>2, BcjAssumption DEF B!Min2
  <1>3. BcjTypes'
    BY <1>1, <1>2 DEF BcjInv, BcjTypes
  <1>4. BcjControl'
    BY <1>1 DEF BcjInv, BcjControl
  <1>5. BcjContent'
    <2>1. BcjContent
      BY <1>1 DEF BcjInv
    <2>2. Matches(out, bcj.temp, bcj.filtered)'
      BY <1>1, <2>1, MatchesNext DEF BcjContent
    <2>3. QED
      BY <1>1, <2>1, <2>2 DEF BcjContent
  <1>6. QED
    BY <1>3, <1>4, <1>5 DEF BcjInv

LEMMA BcjFlushKeeps ==
    ASSUME BcjInv, B!RunFlush
    PROVE  BcjInv'
  <1>1. BcjTypes /\ BcjControl /\ BcjContent /\ pc = "idle" /\ ret = "OK"
        /\ data' = data /\ given' = given /\ ended' = ended
    BY DEF BcjInv, B!RunFlush
  <1>2. PICK n \in 1 .. MaxRoom :
         LET left == n - Len(B!FlushOut(bcj, n)) IN
         /\ out' = out \o B!FlushOut(bcj, n)
         /\ bcj' = B!BcjFlush(bcj, n)
         /\ IF bcj.filtered > 0 /\ bcj'.filtered > 0 THEN B!Return("OK")
            ELSE IF bcj.filtered > 0 /\ bcj.ret = "STREAM_END" THEN B!Return("STREAM_END")
            ELSE /\ room' = left
                 /\ pc' = IF Len(bcj'.temp) < left \/ bcj'.temp = <<>> THEN "buffer" ELSE "temp"
                 /\ UNCHANGED ret
    BY DEF B!RunFlush
  <1> DEFINE k == B!Min2(bcj.filtered, n)
             left == n - k
  <1>3. /\ bcj \in [ret : Verdicts, pos : Nat, filtered : Nat, temp : Seq(BcjByte), taken : Nat]
        /\ bcj.filtered \in 0 .. Len(bcj.temp) /\ out \in Seq(BcjByte) /\ n \in Nat
        /\ bcj.temp \in Seq(BcjByte) /\ Len(bcj.temp) \in Nat /\ Len(out) \in Nat
    BY <1>1, BcjAssumption DEF BcjTypes
  <1>4. k \in 0 .. bcj.filtered /\ k <= n /\ (k < n => k = bcj.filtered)
    BY <1>3 DEF B!Min2
  <1>5. /\ out' = out \o SubSeq(bcj.temp, 1, k)
        /\ bcj' = [bcj EXCEPT !.filtered = @ - k, !.temp = SubSeq(@, k + 1, Len(@))]
    BY <1>2 DEF B!FlushOut, B!BcjFlush
  <1>6. Matches(out, bcj.temp, bcj.filtered)
    BY <1>1 DEF BcjContent
  <1> DEFINE x == SubSeq(bcj.temp, 1, k)
             y == SubSeq(bcj.temp, k + 1, Len(bcj.temp))
  <1>7. /\ x \in Seq(BcjByte) /\ Len(x) = k /\ y \in Seq(BcjByte) /\ Len(y) = Len(bcj.temp) - k
        /\ Len(out \o x) = Len(out) + k /\ out \o x \in Seq(BcjByte)
        /\ Matches(out \o x, y, bcj.filtered - k)
    <2> DEFINE t == bcj.temp
               f == bcj.filtered
    <2>1. t \in Seq(BcjByte) /\ f \in 0 .. Len(t) /\ Matches(out, t, f) /\ k \in 0 .. f
      BY <1>3, <1>4, <1>6
    <2>2. x = SubSeq(t, 1, k) /\ y = SubSeq(t, k + 1, Len(t))
      OBVIOUS
    <2> HIDE DEF k, t, f, x, y
    <2>3. Flushes(out, t, f, k)
      BY <1>3, <2>1, FlushMatches
    <2>4. QED
      BY <2>2, <2>3 DEF Flushes, t, f
  <1>8. B!FlushOut(bcj, n) = x
    BY DEF B!FlushOut
  <1> HIDE DEF k, x, y
  <1>9. /\ bcj'.filtered = bcj.filtered - k /\ bcj'.temp = y /\ bcj'.taken = bcj.taken
        /\ bcj'.ret = bcj.ret /\ bcj'.pos = bcj.pos
        /\ bcj' \in [ret : Verdicts, pos : Nat, filtered : Nat, temp : Seq(BcjByte), taken : Nat]
        /\ out' = out \o x
    <2>1. /\ bcj' = [bcj EXCEPT !.filtered = bcj.filtered - k, !.temp = y]
          /\ out' = out \o x
      BY <1>5 DEF x, y
    <2>2. bcj.filtered - k \in Nat /\ y \in Seq(BcjByte)
      BY <1>3, <1>4, <1>7
    <2> DEFINE g == bcj.filtered - k
    <2> HIDE DEF g
    <2>3. bcj' = [bcj EXCEPT !.filtered = g, !.temp = y] /\ g \in Nat /\ y \in Seq(BcjByte)
      BY <2>1, <2>2 DEF g
    <2>4. /\ bcj'.filtered = g /\ bcj'.temp = y /\ bcj'.taken = bcj.taken
          /\ bcj'.ret = bcj.ret /\ bcj'.pos = bcj.pos
          /\ bcj' \in [ret : Verdicts, pos : Nat, filtered : Nat, temp : Seq(BcjByte), taken : Nat]
      BY <1>3, <2>3
    <2>5. QED
      BY <2>1, <2>4 DEF g
  <1>10. /\ IF bcj.filtered > 0 /\ bcj'.filtered > 0
            THEN pc' = "idle" /\ ret' = "OK" /\ room' = 0
            ELSE IF bcj.filtered > 0 /\ bcj.ret = "STREAM_END"
            THEN pc' = "idle" /\ ret' = "STREAM_END" /\ room' = 0
            ELSE /\ room' = left
                 /\ pc' = IF Len(y) < left \/ y = <<>> THEN "buffer" ELSE "temp"
                 /\ ret' = ret
    BY <1>2, <1>7, <1>8, <1>9 DEF B!Return
  <1>11. left \in Nat
    BY <1>3, <1>4
  <1> HIDE DEF left
  <1>12. BcjTypes'
    <2>1. room' \in Nat /\ pc' \in {"idle", "buffer", "temp"} /\ ret' \in Verdicts
      BY <1>1, <1>10, <1>11 DEF Verdicts
    <2>2. bcj'.filtered <= Len(bcj'.temp) /\ Len(bcj'.temp) <= TempSize /\ bcj'.taken <= given'
      BY <1>1, <1>3, <1>4, <1>7, <1>9, BcjAssumption DEF BcjTypes
    <2>3. QED
      BY <1>1, <1>7, <1>9, <2>1, <2>2 DEF BcjTypes
  <1>13. BcjControl'
    <2>1. CASE bcj.filtered > 0 /\ bcj'.filtered > 0
      BY <1>10, <2>1 DEF BcjControl
    <2>2. CASE bcj.filtered > 0 /\ ~(bcj'.filtered > 0) /\ bcj.ret = "STREAM_END"
      <3>1. bcj.filtered = Len(bcj.temp) /\ k = bcj.filtered
        BY <1>1, <1>3, <1>4, <1>9, <2>2 DEF BcjContent
      <3>2. Len(y) = 0
        BY <1>3, <1>7, <3>1
      <3>3. y = <<>>
        BY <1>7, <3>2, EmptySeq
      <3>4. QED
        BY <1>9, <1>10, <2>2, <3>3 DEF BcjControl
    <2>3. CASE ~(bcj.filtered > 0 /\ bcj'.filtered > 0) /\ ~(bcj.filtered > 0 /\ bcj.ret = "STREAM_END")
      <3>1. bcj.ret = "OK"
        BY <1>1, <1>3, <2>3 DEF BcjControl, BcjContent, Verdicts
      <3>2. bcj'.filtered = 0
        BY <1>3, <1>4, <1>9, <2>3
      <3>3. pc' = "buffer" => Len(y) <= room'
        <4>1. CASE Len(y) < left
          BY <1>7, <1>10, <1>11, <2>3, <4>1
        <4>2. CASE y = <<>>
          BY <1>10, <1>11, <2>3, <4>2
        <4>3. QED
          BY <1>10, <2>3, <4>1, <4>2
      <3>4. QED
        BY <1>1, <1>9, <1>10, <2>3, <3>1, <3>2, <3>3 DEF BcjControl
    <2>4. QED
      BY <2>1, <2>2, <2>3
  <1>14. BcjContent'
    <2>1. Matches(out, bcj.temp, bcj.filtered)'
      BY <1>1, <1>7, <1>9, MatchesNext
    <2>2. Len(out') + Len(bcj'.temp) = bcj'.taken
      <3>1. Len(out') = Len(out) + k /\ Len(bcj'.temp) = Len(bcj.temp) - k /\ bcj'.taken = bcj.taken
        BY <1>7, <1>9
      <3>2. k \in Nat /\ Len(out) + Len(bcj.temp) = bcj.taken
        BY <1>1, <1>3, <1>4 DEF BcjContent
      <3>3. QED
        BY <1>3, <3>1, <3>2
    <2>3. bcj'.ret = "OK" => Len(out') + bcj'.filtered = bcj'.pos
      BY <1>1, <1>3, <1>4, <1>7, <1>9 DEF BcjContent
    <2>4. bcj'.ret = "STREAM_END" => bcj'.taken = Len(data') /\ bcj'.filtered = Len(bcj'.temp)
      BY <1>1, <1>3, <1>4, <1>7, <1>9 DEF BcjContent
    <2>5. bcj'.pos % Unit = 0 /\ bcj'.ret # "DATA_ERROR"
      BY <1>1, <1>9 DEF BcjContent
    <2>6. QED
      BY <2>1, <2>2, <2>3, <2>4, <2>5 DEF BcjContent
  <1>15. QED
    BY <1>12, <1>13, <1>14 DEF BcjInv

\* Of the bytes a filtered in the caller's buffer, d stay there and the others
\* are taken back.
TakesBack(o, a, p, d) ==
    LET x == SubSeq(B!BcjArm(a, p), 1, d)
        y == SubSeq(a, d + 1, Len(a))
    IN  /\ y \in Seq(BcjByte) /\ Len(y) = Len(a) - d
        /\ o \o x \in Seq(BcjByte) /\ Len(o \o x) = Len(o) + d
        /\ Matches(o \o x, y, 0)

LEMMA TakeBackMatches ==
    ASSUME NEW o \in Seq(BcjByte), NEW a \in Seq(BcjByte), Matches(o, a, 0),
           NEW p, NEW d, Arms(o, a, p, d)
    PROVE  TakesBack(o, a, p, d)
  <1> DEFINE arm == B!BcjArm(a, p)
             x == SubSeq(arm, 1, d)
             y == SubSeq(a, d + 1, Len(a))
             ox == o \o x
  <1>1. /\ arm \in Seq(BcjByte) /\ d \in 0 .. Len(arm) /\ Matches(o, arm, d) /\ d \in 0 .. d
        /\ Len(arm) = Len(a) /\ d \in Nat /\ Len(a) \in Nat /\ Len(o) \in Nat /\ d <= Len(a)
    BY DEF Arms
  <1> HIDE DEF arm
  <1>2. Flushes(o, arm, d, d)
    BY <1>1, FlushMatches
  <1>3. /\ ox \in Seq(BcjByte) /\ Len(ox) = Len(o) + d
        /\ \A i \in 1 .. Len(ox) : ox[i] = B!Filtered[i]
    BY <1>2 DEF Flushes, Matches
  <1> HIDE DEF x
  <1>4. y \in Seq(BcjByte) /\ Len(y) = Len(a) - d /\ \A j \in 1 .. Len(a) - d : y[j] = a[d + j]
    BY <1>1
  <1> HIDE DEF y, ox
  <1>5. ASSUME NEW j \in 1 .. Len(y)
        PROVE  y[j] = IF j <= 0 THEN B!Filtered[Len(ox) + j] ELSE data[Len(ox) + j]
    <2>1. d + j \in 1 .. Len(a) /\ Len(ox) + j = Len(o) + (d + j) /\ ~(j <= 0)
          /\ ~(d + j <= 0) /\ j \in 1 .. Len(a) - d
      BY <1>1, <1>3, <1>4
    <2>2. a[d + j] = data[Len(o) + (d + j)]
      BY <2>1 DEF Matches
    <2>3. QED
      BY <1>4, <2>1, <2>2
  <1>6. Matches(ox, y, 0)
    BY <1>3, <1>5 DEF Matches
  <1>7. QED
    BY <1>3, <1>4, <1>6 DEF TakesBack, arm, x, y, ox

\* What LZMA2 writes for a call, and the answer.
LEMMA DecodeFacts ==
    ASSUME BcjInv, ret = "OK", NEW n \in Nat, NEW new, new = B!Lzma2Writes(bcj.taken, n)
    PROVE  /\ Len(new) \in 0 .. n /\ bcj.taken + Len(new) \in 0 .. given
           /\ Decodes(out, bcj.temp, bcj.filtered, Len(new), new)
           /\ B!Lzma2Ret(bcj.taken + Len(new)) \in Verdicts
           /\ B!Lzma2Ret(bcj.taken + Len(new)) = "STREAM_END" =>
                bcj.taken + Len(new) = Len(data)
  <1> DEFINE k == B!Min2(n, given - bcj.taken)
             t == bcj.temp
             f == bcj.filtered
  <1>1. /\ data \in Seq(BcjByte) /\ given \in 0 .. Len(data) /\ Len(data) \in Nat
        /\ bcj.taken \in Nat /\ bcj.taken <= given /\ out \in Seq(BcjByte)
        /\ t \in Seq(BcjByte) /\ f \in 0 .. Len(t) /\ Len(out) \in Nat /\ Len(t) \in Nat
    BY DEF BcjInv, BcjTypes
  <1>2. Matches(out, t, f) /\ Len(out) + Len(t) = bcj.taken
    BY DEF BcjInv, BcjContent
  <1>3. k \in 0 .. n /\ bcj.taken + k \in 0 .. given
    BY <1>1 DEF B!Min2
  <1>4. new = SubSeq(data, bcj.taken + 1, bcj.taken + k)
    BY DEF B!Lzma2Writes
  <1> HIDE DEF k, t, f
  <1>5. Len(out) + Len(t) + k <= Len(data) /\ k \in Nat
        /\ new = SubSeq(data, Len(out) + Len(t) + 1, Len(out) + Len(t) + k)
    <2>1. Len(out) + Len(t) = bcj.taken /\ k \in Nat /\ bcj.taken + k <= Len(data)
      BY <1>1, <1>2, <1>3
    <2>2. QED
      BY <1>4, <2>1
  <1>6. Decodes(out, t, f, k, new)
    BY <1>1, <1>2, <1>5, DecodeMatches
  <1>7. Len(new) = k
    BY <1>6 DEF Decodes
  <1>8. B!Lzma2Ret(bcj.taken + k) \in Verdicts
    BY DEF B!Lzma2Ret, Verdicts
  <1>9. B!Lzma2Ret(bcj.taken + k) = "STREAM_END" => bcj.taken + k = Len(data)
    BY <1>1, <1>3 DEF B!Lzma2Ret
  <1>10. QED
    BY <1>3, <1>6, <1>7, <1>8, <1>9 DEF t, f

LEMMA BcjBufferKeeps ==
    ASSUME BcjInv, B!IntoBuffer
    PROVE  BcjInv'
  <1> DEFINE new == B!Lzma2Writes(bcj.taken, room - Len(bcj.temp))
             a == bcj.temp \o new
             r == B!Lzma2Ret(bcj.taken + Len(new))
             done == IF r = "STREAM_END" THEN Len(a) ELSE B!Whole(Len(a))
             arm == B!BcjArm(a, bcj.pos)
             back == SubSeq(a, done + 1, Len(a))
  <1>1. /\ BcjTypes /\ BcjControl /\ BcjContent /\ pc = "buffer" /\ ret = "OK" /\ bcj.ret = "OK"
        /\ bcj.filtered = 0 /\ Len(bcj.temp) <= room
        /\ data' = data /\ given' = given /\ ended' = ended
    BY DEF BcjInv, B!IntoBuffer, BcjControl
  <1>2. /\ IF r = "DATA_ERROR"
             THEN /\ bcj' = [bcj EXCEPT !.taken = @ + Len(new), !.ret = r]
                  /\ out' = out \o a
             ELSE /\ bcj' = [bcj EXCEPT !.taken = @ + Len(new), !.ret = r,
                                        !.pos = @ + B!Whole(Len(a)), !.temp = back]
                  /\ out' = out \o SubSeq(arm, 1, done)
        /\ IF r # "OK" THEN pc' = "idle" /\ ret' = r /\ room' = 0
           ELSE IF Len(a) < room THEN pc' = "idle" /\ ret' = "OK" /\ room' = 0
           ELSE room' = room - done /\ pc' = "temp" /\ ret' = ret
    BY DEF B!IntoBuffer, B!Return
  <1>3. /\ data \in Seq(BcjByte) /\ given \in 0 .. Len(data) /\ Len(data) \in Nat
        /\ bcj.taken \in Nat /\ bcj.taken <= given /\ out \in Seq(BcjByte) /\ room \in Nat
        /\ bcj.temp \in Seq(BcjByte) /\ Len(out) \in Nat /\ Len(bcj.temp) \in Nat
        /\ Len(bcj.temp) <= TempSize /\ TempSize \in Nat /\ Unit \in Nat /\ Unit <= TempSize
        /\ bcj.pos \in Nat /\ bcj.pos % Unit = 0 /\ Len(out) = bcj.pos
        /\ Len(out) + Len(bcj.temp) = bcj.taken
        /\ bcj \in [ret : Verdicts, pos : Nat, filtered : Nat, temp : Seq(BcjByte), taken : Nat]
    BY <1>1, BcjAssumption DEF BcjTypes, BcjContent
  <1>4. /\ Len(new) \in 0 .. room - Len(bcj.temp) /\ bcj.taken + Len(new) \in 0 .. given
        /\ Decodes(out, bcj.temp, bcj.filtered, Len(new), new)
        /\ r \in Verdicts /\ (r = "STREAM_END" => bcj.taken + Len(new) = Len(data))
    <2>1. room - Len(bcj.temp) \in Nat
      BY <1>1, <1>3
    <2> QED
      BY <1>1, <2>1, DecodeFacts
  <1> HIDE DEF new, r
  <1>5. /\ a \in Seq(BcjByte) /\ Len(a) = Len(bcj.temp) + Len(new) /\ Len(a) \in Nat
        /\ Matches(out, a, 0) /\ Len(a) <= room
    <2>1. a \in Seq(BcjByte) /\ Len(a) = Len(bcj.temp) + Len(new) /\ Matches(out, a, 0)
      BY <1>1, <1>4 DEF Decodes
    <2>2. QED
      BY <1>3, <1>4, <2>1
  <1> HIDE DEF a
  <1>6. /\ Len(out) % Unit = 0 /\ Len(out) + Len(a) = bcj.taken + Len(new)
        /\ Len(out) + Len(a) <= Len(data)
        /\ done = B!Whole(Len(a)) \/ (done = Len(a) /\ Len(out) + Len(a) = Len(data))
    BY <1>3, <1>4, <1>5
  <1>7. /\ B!Whole(Len(a)) \in 0 .. Len(a) /\ Len(a) - B!Whole(Len(a)) < Unit
        /\ (bcj.pos + B!Whole(Len(a))) % Unit = 0
    BY <1>3, <1>5, WholeFacts
  <1>8. done = Len(a) \/ done = B!Whole(Len(a))
    OBVIOUS
  <1>9. r = "STREAM_END" => done = Len(a)
    OBVIOUS
  <1>10. r # "STREAM_END" => done = B!Whole(Len(a))
    OBVIOUS
  <1> HIDE DEF done
  <1>11. Arms(out, a, bcj.pos, done)
    BY <1>3, <1>5, <1>6, ArmMatches
  <1>12. TakesBack(out, a, bcj.pos, done)
    BY <1>3, <1>5, <1>11, TakeBackMatches
  <1>13. /\ done \in 0 .. Len(a) /\ back \in Seq(BcjByte) /\ Len(back) = Len(a) - done
         /\ out \o SubSeq(arm, 1, done) \in Seq(BcjByte)
         /\ Len(out \o SubSeq(arm, 1, done)) = Len(out) + done
         /\ Matches(out \o SubSeq(arm, 1, done), back, 0)
    BY <1>11, <1>12 DEF Arms, TakesBack
  <1> HIDE DEF back, arm
  <1> DEFINE w == B!Whole(Len(a))
             tk == bcj.taken + Len(new)
  <1>14. w \in Nat /\ bcj.pos + w \in Nat /\ tk \in Nat /\ tk <= given
    <2>1. bcj.pos \in Nat /\ given \in Nat /\ Len(a) \in Nat /\ w \in 0 .. Len(a) /\ tk \in 0 .. given
      BY <1>3, <1>4, <1>5, <1>7
    <2> HIDE DEF w, tk
    <2>2. QED
      BY <2>1
  <1>15. CASE r = "DATA_ERROR"
    <2> HIDE DEF tk
    <2>1. /\ bcj' = [bcj EXCEPT !.taken = tk, !.ret = r] /\ out' = out \o a
          /\ pc' = "idle" /\ ret' = "DATA_ERROR" /\ room' = 0
      BY <1>2, <1>15 DEF tk
    <2>2. /\ bcj' \in [ret : Verdicts, pos : Nat, filtered : Nat, temp : Seq(BcjByte), taken : Nat]
          /\ bcj'.taken = tk /\ bcj'.temp = bcj.temp /\ bcj'.filtered = bcj.filtered
          /\ bcj'.ret = r
      BY <1>3, <1>4, <1>14, <2>1
    <2>3. out' \in Seq(BcjByte)
      BY <1>3, <1>5, <2>1
    <2>4. bcj'.filtered <= Len(bcj'.temp)
      BY <1>1, <1>3, <2>2
    <2>5. BcjTypes'
      BY <1>1, <1>3, <1>14, <2>1, <2>2, <2>3, <2>4 DEF BcjTypes, Verdicts
    <2>6. BcjControl'
      BY <1>15, <2>1, <2>2 DEF BcjControl
    <2>7. QED
      BY <2>1, <2>5, <2>6 DEF BcjInv
  <1>16. CASE r # "DATA_ERROR"
    <2>0. /\ bcj' = [bcj EXCEPT !.taken = @ + Len(new), !.ret = r, !.pos = @ + w, !.temp = back]
          /\ out' = out \o SubSeq(arm, 1, done)
      BY <1>2, <1>16
    <2> DEFINE q == bcj.pos + w
    <2> HIDE DEF tk, w, q
    <2>1. bcj' = [bcj EXCEPT !.taken = tk, !.ret = r, !.pos = q, !.temp = back]
      BY <2>0 DEF tk, q
    <2>2. /\ bcj' \in [ret : Verdicts, pos : Nat, filtered : Nat, temp : Seq(BcjByte), taken : Nat]
          /\ bcj'.taken = tk /\ bcj'.temp = back /\ bcj'.filtered = bcj.filtered
          /\ bcj'.ret = r /\ bcj'.pos = q
      BY <1>3, <1>4, <1>13, <1>14, <2>1 DEF q
    <2>3. out' \in Seq(BcjByte) /\ Len(out') = Len(out) + done /\ Matches(out', back, 0)
      BY <1>13, <2>0
    <2>4. Len(back) <= TempSize /\ Len(back) \in Nat
      <3>1. /\ Len(a) \in Nat /\ w \in 0 .. Len(a) /\ Len(a) - w < Unit /\ Unit \in Nat
            /\ TempSize \in Nat /\ Unit <= TempSize /\ Len(back) = Len(a) - done
            /\ done = Len(a) \/ done = w
        BY <1>3, <1>5, <1>7, <1>8, <1>13 DEF w
      <3>2. QED
        BY <3>1
    <2>5. room' \in Nat /\ pc' \in {"idle", "temp"} /\ ret' \in Verdicts
      <3>1. room \in Nat /\ Len(a) \in Nat /\ done \in 0 .. Len(a) /\ Len(a) <= room
        BY <1>3, <1>5, <1>13
      <3>2. room - done \in Nat
        BY <3>1
      <3>3. QED
        BY <1>1, <1>2, <1>4, <3>2 DEF Verdicts
    <2>6. BcjTypes'
      BY <1>1, <1>3, <1>14, <2>2, <2>3, <2>4, <2>5 DEF BcjTypes
    <2>7. r = "STREAM_END" => back = <<>>
      BY <1>5, <1>9, <1>13, EmptySeq
    <2>8. BcjControl'
      <3>1. CASE r = "OK"
        BY <1>1, <1>2, <2>2, <3>1 DEF BcjControl
      <3>2. CASE r = "STREAM_END"
        BY <1>2, <2>2, <2>7, <3>2 DEF BcjControl
      <3>3. QED
        BY <1>4, <1>16, <3>1, <3>2 DEF Verdicts
    <2>9. BcjContent'
      <3>1. Matches(out, bcj.temp, bcj.filtered)'
        BY <1>1, <2>2, <2>3, MatchesNext
      <3>2. Len(out') + Len(bcj'.temp) = bcj'.taken
        <4>1. Len(out') = Len(out) + done /\ Len(bcj'.temp) = Len(a) - done /\ bcj'.taken = tk
          BY <1>13, <2>2, <2>3
        <4>2. Len(out) + Len(a) = tk /\ done \in Nat
          BY <1>5, <1>6, <1>13 DEF tk
        <4>3. QED
          BY <1>3, <1>5, <4>1, <4>2
      <3>3. bcj'.ret = "OK" => Len(out') + bcj'.filtered = bcj'.pos
        BY <1>1, <1>3, <1>7, <1>10, <2>2, <2>3 DEF q, w
      <3>4. bcj'.ret = "STREAM_END" => bcj'.taken = Len(data') /\ bcj'.filtered = Len(bcj'.temp)
        BY <1>1, <1>4, <2>2, <2>7 DEF tk
      <3>5. bcj'.pos % Unit = 0 /\ bcj'.ret # "DATA_ERROR"
        BY <1>7, <1>16, <2>2 DEF q, w
      <3>6. QED
        BY <3>1, <3>2, <3>3, <3>4, <3>5 DEF BcjContent
    <2>10. QED
      BY <2>6, <2>8, <2>9 DEF BcjInv
  <1>17. QED
    BY <1>15, <1>16

LEMMA BcjTempKeeps ==
    ASSUME BcjInv, B!IntoTemp
    PROVE  BcjInv'
  <1> DEFINE new == B!Lzma2Writes(bcj.taken, TempSize - Len(bcj.temp))
             a == bcj.temp \o new
             r == B!Lzma2Ret(bcj.taken + Len(new))
             rst == SubSeq(a, bcj.filtered + 1, Len(a))
             b == [bcj EXCEPT !.taken = @ + Len(new), !.ret = r, !.pos = @ + B!Whole(Len(rst)),
                              !.temp = SubSeq(a, 1, bcj.filtered) \o B!BcjArm(rst, bcj.pos),
                              !.filtered = IF r = "STREAM_END" THEN Len(a)
                                           ELSE @ + B!Whole(Len(rst))]
  <1>1. /\ BcjTypes /\ BcjControl /\ BcjContent /\ pc = "temp" /\ ret = "OK" /\ bcj.ret = "OK"
        /\ bcj.filtered = 0
        /\ data' = data /\ given' = given /\ ended' = ended
    BY DEF BcjInv, B!IntoTemp, BcjControl
  <1>2. CASE room = 0
    <2>1. /\ bcj' = bcj /\ out' = out /\ pc' = "idle" /\ ret' = "OK" /\ room' = 0
      BY <1>1, <1>2 DEF B!IntoTemp, B!Return
    <2>2. BcjTypes'
      BY <1>1, <2>1 DEF BcjTypes, Verdicts
    <2>3. BcjControl'
      BY <1>1, <2>1 DEF BcjControl
    <2>4. Matches(out, bcj.temp, bcj.filtered)'
      BY <1>1, <2>1, MatchesNext DEF BcjContent
    <2>5. BcjContent'
      BY <1>1, <2>1, <2>4 DEF BcjContent
    <2>6. QED
      BY <2>2, <2>3, <2>5 DEF BcjInv
  <1>3. CASE room # 0
    <2>1. IF r = "DATA_ERROR"
          THEN /\ bcj' = [bcj EXCEPT !.taken = @ + Len(new), !.ret = r, !.temp = a]
               /\ pc' = "idle" /\ ret' = r /\ room' = 0 /\ out' = out
          ELSE /\ bcj' = B!BcjFlush(b, room)
               /\ out' = out \o B!FlushOut(b, room)
               /\ pc' = "idle" /\ room' = 0 /\ ret' = IF bcj'.filtered > 0 THEN "OK" ELSE r
      BY <1>3 DEF B!IntoTemp, B!Return
    <2>2. /\ data \in Seq(BcjByte) /\ out \in Seq(BcjByte) /\ bcj.temp \in Seq(BcjByte)
          /\ bcj \in [ret : Verdicts, pos : Nat, filtered : Nat, temp : Seq(BcjByte), taken : Nat]
      BY <1>1 DEF BcjTypes
    <2>3. /\ given \in 0 .. Len(data) /\ Len(data) \in Nat
          /\ bcj.taken \in Nat /\ bcj.taken <= given /\ room \in Nat
          /\ Len(out) \in Nat /\ Len(bcj.temp) \in Nat
          /\ Len(bcj.temp) <= TempSize /\ TempSize \in Nat
          /\ bcj.pos \in Nat /\ bcj.pos % Unit = 0 /\ Len(out) = bcj.pos
          /\ Len(out) + Len(bcj.temp) = bcj.taken
      BY <1>1, <2>2, BcjAssumption DEF BcjTypes, BcjContent
    <2>4. /\ Len(new) \in 0 .. TempSize - Len(bcj.temp) /\ bcj.taken + Len(new) \in 0 .. given
          /\ Decodes(out, bcj.temp, bcj.filtered, Len(new), new)
          /\ r \in Verdicts /\ (r = "STREAM_END" => bcj.taken + Len(new) = Len(data))
      <3>1. TempSize - Len(bcj.temp) \in Nat
        BY <2>3
      <3> QED
        BY <1>1, <3>1, DecodeFacts
    <2> HIDE DEF new, r
    <2>5. a \in Seq(BcjByte) /\ Len(a) = Len(bcj.temp) + Len(new) /\ Matches(out, a, 0)
      BY <1>1, <2>4 DEF Decodes
    <2>6. Len(a) \in Nat /\ Len(a) <= TempSize
      BY <2>3, <2>4, <2>5
    <2>7. rst = a /\ SubSeq(a, 1, bcj.filtered) = <<>>
      <3>1. SubSeq(a, 1, 0) = <<>> /\ SubSeq(a, 0 + 1, Len(a)) = a
        BY <2>5, <2>6
      <3>2. QED
        BY <1>1, <3>1
    <2> DEFINE w == B!Whole(Len(a))
               d == IF r = "STREAM_END" THEN Len(a) ELSE w
               arm == B!BcjArm(a, bcj.pos)
               tk == bcj.taken + Len(new)
               q == bcj.pos + w
    <2>8. w \in 0 .. Len(a) /\ (bcj.pos + w) % Unit = 0
      BY <2>3, <2>6, WholeFacts
    <2>9. /\ Len(out) % Unit = 0 /\ Len(out) + Len(a) = tk /\ Len(out) + Len(a) <= Len(data)
          /\ tk \in Nat /\ tk <= given /\ (r = "STREAM_END" => tk = Len(data))
      BY <2>3, <2>4, <2>5
    <2>10. d = w \/ (d = Len(a) /\ Len(out) + Len(a) = Len(data))
      BY <2>9
    <2>11. Arms(out, a, bcj.pos, d)
      <3> HIDE DEF d
      <3> QED BY <2>2, <2>3, <2>5, <2>9, <2>10, ArmMatches
    <2>12. d \in 0 .. Len(a) /\ arm \in Seq(BcjByte) /\ Len(arm) = Len(a) /\ Matches(out, arm, d)
      <3> HIDE DEF d
      <3> QED BY <2>11 DEF Arms
    <2>13. <<>> \o arm = arm
      BY <2>12, ConcatEmptySeq
    <2>14. b = [bcj EXCEPT !.taken = tk, !.ret = r, !.pos = q, !.temp = arm, !.filtered = d]
      <3>1. bcj.filtered + w = w
        BY <1>1, <2>6, <2>8
      <3> HIDE DEF arm, w
      <3>2. B!Whole(Len(rst)) = w /\ B!BcjArm(rst, bcj.pos) = arm
        BY <2>7 DEF arm, w
      <3>3. SubSeq(a, 1, bcj.filtered) \o B!BcjArm(rst, bcj.pos) = arm
        BY <2>7, <2>13, <3>2
      <3> HIDE DEF rst, a
      <3>4. QED
        BY <3>1, <3>2, <3>3
    <2>15. q \in Nat /\ d \in Nat
      <3>1. bcj.pos \in Nat /\ w \in 0 .. Len(a) /\ d \in 0 .. Len(a) /\ Len(a) \in Nat
        BY <2>3, <2>6, <2>8, <2>12
      <3> HIDE DEF w, d, a
      <3>2. QED
        BY <3>1
    <2>16. r = "STREAM_END" => d = Len(a)
      OBVIOUS
    <2>17. r # "STREAM_END" => d = w
      OBVIOUS
    <2>18. q % Unit = 0
      BY <2>8
    <2>19. q = Len(out) + w
      BY <2>3
    <2> HIDE DEF b, w, d, arm, tk, q, a
    <2>20. CASE r = "DATA_ERROR"
      <3>1. /\ bcj' = [bcj EXCEPT !.taken = tk, !.ret = r, !.temp = a] /\ out' = out
            /\ pc' = "idle" /\ ret' = "DATA_ERROR" /\ room' = 0
        BY <2>1, <2>20 DEF tk
      <3>2. /\ bcj' \in [ret : Verdicts, pos : Nat, filtered : Nat, temp : Seq(BcjByte), taken : Nat]
            /\ bcj'.taken = tk /\ bcj'.temp = a /\ bcj'.filtered = 0 /\ bcj'.ret = r
        BY <1>1, <2>2, <2>4, <2>5, <2>9, <3>1
      <3>3. BcjTypes'
        BY <1>1, <2>2, <2>3, <2>6, <2>9, <3>1, <3>2 DEF BcjTypes, Verdicts
      <3>4. BcjControl'
        BY <2>20, <3>1, <3>2 DEF BcjControl
      <3>5. QED
        BY <3>1, <3>3, <3>4 DEF BcjInv
    <2>21. CASE r # "DATA_ERROR"
      <3>1. /\ b \in [ret : Verdicts, pos : Nat, filtered : Nat, temp : Seq(BcjByte), taken : Nat]
            /\ b.taken = tk /\ b.temp = arm /\ b.filtered = d /\ b.ret = r /\ b.pos = q
        BY <2>2, <2>4, <2>9, <2>12, <2>14, <2>15
      <3> DEFINE k == B!Min2(d, room)
                 x == SubSeq(arm, 1, k)
                 y == SubSeq(arm, k + 1, Len(arm))
                 e == d - k
      <3>2. k \in 0 .. d
        BY <2>3, <2>15 DEF B!Min2
      <3>3. Flushes(out, arm, d, k)
        <4>1. d \in 0 .. Len(arm)
          BY <2>12
        <4> HIDE DEF k
        <4>2. QED
          BY <2>2, <2>12, <3>2, <4>1, FlushMatches
      <3>4. B!FlushOut(b, room) = x /\ B!BcjFlush(b, room) = [b EXCEPT !.filtered = e, !.temp = y]
        BY <3>1 DEF B!FlushOut, B!BcjFlush
      <3>5. /\ x \in Seq(BcjByte) /\ y \in Seq(BcjByte) /\ Len(y) = Len(arm) - k
            /\ Len(out \o x) = Len(out) + k /\ out \o x \in Seq(BcjByte)
            /\ Matches(out \o x, y, e)
        <4> HIDE DEF k
        <4> QED BY <3>3 DEF Flushes
      <3>6. k \in Nat /\ e \in Nat /\ k + e = d
        BY <2>15, <3>2
      <3> HIDE DEF k, x, y, e
      <3>7. /\ bcj' = [b EXCEPT !.filtered = e, !.temp = y] /\ out' = out \o x
            /\ pc' = "idle" /\ room' = 0 /\ ret' = IF bcj'.filtered > 0 THEN "OK" ELSE r
        BY <2>1, <2>21, <3>4
      <3>8. /\ bcj' \in [ret : Verdicts, pos : Nat, filtered : Nat, temp : Seq(BcjByte), taken : Nat]
            /\ bcj'.taken = tk /\ bcj'.temp = y /\ bcj'.filtered = e /\ bcj'.ret = r /\ bcj'.pos = q
        BY <3>1, <3>5, <3>6, <3>7
      <3>9. Len(y) = Len(a) - k /\ Len(out') = Len(out) + k /\ d <= Len(a) /\ d \in Nat
        BY <2>6, <2>12, <2>15, <3>5, <3>7
      <3>10. e <= Len(y) /\ Len(y) <= TempSize /\ Len(y) \in Nat
        BY <2>3, <2>6, <3>6, <3>9
      <3>11. BcjTypes'
        <4>1. ret' \in Verdicts
          BY <2>4, <3>7 DEF Verdicts
        <4>2. QED
          BY <1>1, <2>2, <2>3, <2>9, <3>5, <3>7, <3>8, <3>10, <4>1 DEF BcjTypes
      <3>12. r = "STREAM_END" => Len(y) = e
        BY <2>6, <2>16, <3>6, <3>9
      <3>13. r = "STREAM_END" /\ e = 0 => y = <<>>
        BY <3>5, <3>12, EmptySeq
      <3>14. BcjControl'
        <4>1. CASE r = "OK"
          BY <3>7, <3>8, <4>1 DEF BcjControl
        <4>2. CASE r = "STREAM_END" /\ e > 0
          BY <3>7, <3>8, <4>2 DEF BcjControl
        <4>3. CASE r = "STREAM_END" /\ e = 0
          BY <3>7, <3>8, <3>13, <4>3 DEF BcjControl
        <4>4. QED
          BY <2>4, <2>21, <3>6, <4>1, <4>2, <4>3 DEF Verdicts
      <3>15. BcjContent'
        <4>1. Matches(out, bcj.temp, bcj.filtered)'
          BY <1>1, <3>5, <3>7, <3>8, MatchesNext
        <4>2. Len(out') + Len(bcj'.temp) = bcj'.taken
          BY <2>3, <2>6, <2>9, <3>6, <3>8, <3>9
        <4>3. bcj'.ret = "OK" => Len(out') + bcj'.filtered = bcj'.pos
          <5> DEFINE u == Len(out)
                     v == Len(out')
          <5>1. r = "OK" => d = w
            BY <2>17
          <5>2. /\ u \in Nat /\ v = u + k /\ q = u + w
                /\ k \in Nat /\ e \in Nat /\ k + e = d
            BY <2>3, <2>19, <3>6, <3>9
          <5> HIDE DEF u, v
          <5>3. r = "OK" => v + e = q
            BY <5>1, <5>2
          <5>4. QED
            BY <3>8, <5>3 DEF v
        <4>4. bcj'.ret = "STREAM_END" => bcj'.taken = Len(data') /\ bcj'.filtered = Len(bcj'.temp)
          BY <1>1, <2>9, <3>8, <3>12
        <4>5. bcj'.pos % Unit = 0 /\ bcj'.ret # "DATA_ERROR"
          BY <2>18, <2>21, <3>8
        <4>6. QED
          BY <4>1, <4>2, <4>3, <4>4, <4>5 DEF BcjContent
      <3>16. QED
        BY <3>11, <3>14, <3>15 DEF BcjInv
    <2>22. QED
      BY <2>20, <2>21
  <1>4. QED
    BY <1>2, <1>3

LEMMA BcjKeeps ==
    ASSUME BcjInv, B!Next \/ UNCHANGED <<out, pc, ret, bcjOnly>>
    PROVE  BcjInv'
  <1>1. CASE B!Next
    BY <1>1, BcjGiveKeeps, BcjFlushKeeps, BcjBufferKeeps, BcjTempKeeps DEF B!Next, B!Run
  <1>2. CASE UNCHANGED <<out, pc, ret, bcjOnly>>
    <2>1. /\ data' = data /\ given' = given /\ ended' = ended /\ bcj' = bcj /\ out' = out
          /\ room' = room /\ pc' = pc /\ ret' = ret
      BY <1>2 DEF bcjOnly
    <2>2. BcjTypes' /\ BcjControl'
      BY <2>1 DEF BcjInv, BcjTypes, BcjControl
    <2>3. ASSUME ret # "DATA_ERROR" PROVE BcjContent'
      <3>1. BcjContent
        BY <2>3 DEF BcjInv
      <3>2. Matches(out, bcj.temp, bcj.filtered)'
        BY <2>1, <3>1, MatchesNext DEF BcjContent
      <3>3. QED
        BY <2>1, <3>1, <3>2 DEF BcjContent
    <2>4. QED
      BY <2>1, <2>2, <2>3 DEF BcjInv
  <1>3. QED
    BY <1>1, <1>2

LEMMA BcjImplies == BcjInv => B!TypeOK /\ B!FilteredOnce
  <1> SUFFICES ASSUME BcjInv PROVE B!TypeOK /\ B!FilteredOnce
    OBVIOUS
  <1>1. B!TypeOK
    <2>1. bcj.taken \in Nat /\ given \in Nat
      BY DEF BcjInv, BcjTypes
    <2>2. QED
      BY <2>1 DEF BcjInv, BcjTypes, B!TypeOK, Verdicts
  <1>2. ASSUME ret # "DATA_ERROR"
        PROVE  B!IsPrefix(out, B!Filtered) /\ (ret = "STREAM_END" => out = B!Filtered)
    <2>1. BcjTypes /\ BcjContent /\ BcjControl
      BY <1>2 DEF BcjInv
    <2>2. /\ out \in Seq(BcjByte) /\ data \in Seq(BcjByte) /\ Len(out) \in Nat
          /\ Len(bcj.temp) \in Nat /\ bcj.taken <= Len(data) /\ bcj.taken \in Nat /\ Len(data) \in Nat
      BY <2>1 DEF BcjTypes
    <2>3. B!Filtered \in Seq(BcjByte) /\ Len(B!Filtered) = Len(data)
      BY <2>2, ArmType DEF B!Filtered
    <2>4. Len(out) <= Len(data) /\ \A i \in 1 .. Len(out) : out[i] = B!Filtered[i]
      BY <2>1, <2>2 DEF BcjContent, Matches
    <2> DEFINE F == B!Filtered
    <2> HIDE DEF F
    <2>5. F \in Seq(BcjByte) /\ Len(out) <= Len(F) /\ \A i \in 1 .. Len(out) : out[i] = F[i]
      BY <2>3, <2>4 DEF F
    <2>6. SubSeq(out, 1, Len(out)) = SubSeq(F, 1, Len(out))
      BY <2>2, <2>5
    <2>7. B!IsPrefix(out, F)
      BY <2>5, <2>6 DEF B!IsPrefix
    <2>8. ASSUME ret = "STREAM_END" PROVE out = F
      <3>1. Len(out) = Len(F)
        BY <2>1, <2>2, <2>3, <2>8 DEF BcjContent, BcjControl, F
      <3>2. QED
        BY <2>2, <2>5, <3>1
    <2>9. QED
      BY <2>7, <2>8 DEF F
  <1>3. QED
    BY <1>1, <1>2 DEF B!FilteredOnce

(***************************************************************************)
(* The framing.                                                            *)
(***************************************************************************)
WireBytes == PlainBytes \cup ({"lo", "hi"} \X Seq(PlainBytes))
Receivers == [pc : Pcs, call : Transmissions, hdr : Seq(WireBytes), body : Seq(WireBytes)]

FrameTypes ==
    /\ script \in Seq(Transmissions) /\ cur \in Transmissions /\ got \in Seq(Transmissions)
    /\ rest \in Seq(WireBytes) /\ line \in Seq(WireBytes) /\ Len(line) <= MaxLine
    /\ faults \in 0 .. MaxFaults /\ due \in BOOLEAN /\ clean \in BOOLEAN
    /\ rx \in Receivers

\* What the receiver holds in each of its loops.
IsFrame == rx.call.kind = "frame"
RxShape ==
    /\ rx.pc \in {"idle", "start"} => rx.hdr = <<>> /\ rx.body = <<>>
    /\ rx.pc = "hdr" => Len(rx.hdr) < HeaderSize /\ rx.body = <<>>
    /\ rx.pc \in {"stx", "body", "etx"} => IsFrame
    /\ rx.pc \in {"stx", "body", "etx", "eot"} => Len(rx.hdr) = HeaderSize
    /\ rx.pc \in {"stx", "body", "etx", "eot"} /\ IsFrame => FcsOk(rx.hdr)
    /\ rx.pc = "stx" => rx.body = <<>>
    /\ rx.pc = "body" => Len(rx.body) < BodySize
    /\ rx.pc = "etx" \/ (rx.pc = "eot" /\ IsFrame) => Len(rx.body) = BodySize
    /\ rx.pc = "eot" /\ ~IsFrame => rx.body = <<>>

\* How many bytes of the frame the receiver has read.
Position ==
    IF rx.pc \in {"idle", "start"} THEN 0
    ELSE IF rx.pc = "hdr" THEN 1 + Len(rx.hdr)
    ELSE IF rx.pc = "stx" THEN 5
    ELSE IF rx.pc \in {"body", "etx"} THEN 6 + Len(rx.body)
    ELSE IF IsFrame THEN 7 + Len(rx.body) ELSE 4

\* The receiver is in the middle of cur: it holds what it has read, the line
\* and the peer the bytes after that, and behind them only chatter.
Underway ==
    /\ Expects(cur)
    /\ Position < Len(BytesOf(cur))
    /\ \A i \in 1 .. Len(rx.hdr) : rx.hdr[i] = BytesOf(cur)[1 + i]
    /\ \A i \in 1 .. Len(rx.body) : rx.body[i] = BytesOf(cur)[6 + i]
    /\ IF rest = <<>> THEN Position + Len(line) >= Len(BytesOf(cur))
       ELSE Position + Len(line) + Len(rest) = Len(BytesOf(cur))
    /\ \A i \in 1 .. Len(line) :
         IF Position + i <= Len(BytesOf(cur)) THEN line[i] = BytesOf(cur)[Position + i]
         ELSE line[i] \in PlainBytes
    /\ \A i \in 1 .. Len(rest) : rest[i] = BytesOf(cur)[Position + Len(line) + i]

\* cur was delivered, and since then there was only chatter, which the receiver
\* never takes for a frame.
Arrived ==
    /\ got # <<>> /\ got[Len(got)] = cur /\ rest = <<>>
    /\ \A i \in 1 .. Len(line) : line[i] \in PlainBytes
    /\ \A i \in 1 .. Len(rx.hdr) : rx.hdr[i] \in PlainBytes

FrameInv == FrameTypes /\ RxShape /\ (clean => Underway \/ Arrived)
FramePart == part = "frames" => FrameInv

LEMMA PlainByte ==
    /\ \A n \in Nat : <<n>> \in PlainBytes /\ <<n>>[1] = n
    /\ \A b \in PlainBytes : b[1] \in Nat
    /\ \A t, c : <<t, c>> \notin PlainBytes
  BY DEF PlainBytes

LEMMA PlainOnWire == PlainBytes \subseteq WireBytes
  BY DEF WireBytes

LEMMA CheckOnWire ==
    ASSUME NEW c \in Seq(PlainBytes)
    PROVE  <<"lo", c>> \in WireBytes /\ <<"hi", c>> \in WireBytes
  BY DEF WireBytes

\* The elements of u, which is s followed by t.
Joins(s1, t1, u, n, k, S1) ==
    /\ n \in Nat /\ k \in Nat /\ u \in Seq(S1) /\ Len(u) = n + k
    /\ \A i \in 1 .. n : u[i] = s1[i]
    /\ \A i \in 1 .. k : u[n + i] = t1[i]

LEMMA JoinFacts ==
    ASSUME NEW S1, NEW s1 \in Seq(S1), NEW t1 \in Seq(S1), NEW n, n = Len(s1), NEW k, k = Len(t1),
           NEW u, u = s1 \o t1
    PROVE  Joins(s1, t1, u, n, k, S1)
  <1>1. n \in Nat /\ k \in Nat /\ s1 \o t1 \in Seq(S1) /\ Len(s1 \o t1) = n + k
    OBVIOUS
  <1>2. \A i \in 1 .. n : (s1 \o t1)[i] = s1[i]
    OBVIOUS
  <1>3. ASSUME NEW i \in 1 .. k PROVE (s1 \o t1)[n + i] = t1[i]
    <2>1. n + i \in 1 .. n + k /\ ~(n + i <= n) /\ (n + i) - n = i
      BY <1>1
    <2>2. (s1 \o t1)[n + i] = t1[(n + i) - n]
      BY <1>1, <2>1
    <2>3. QED
      BY <2>1, <2>2
  <1>4. QED
    BY <1>1, <1>2, <1>3 DEF Joins

\* What a good check sequence says of the bytes before it.
LEMMA FcsOkFacts ==
    ASSUME NEW buf \in Seq(WireBytes), FcsOk(buf)
    PROVE  /\ Len(buf) >= 2 /\ Len(buf) \in Nat
           /\ SubSeq(buf, 1, Len(buf) - 2) \in Seq(PlainBytes)
           /\ buf[Len(buf) - 1] = <<"lo", SubSeq(buf, 1, Len(buf) - 2)>>
           /\ \A i \in 1 .. Len(buf) - 2 : buf[i] \in PlainBytes
  <1> DEFINE n == Len(buf)
             c == SubSeq(buf, 1, n - 2)
             f == SubSeq(buf, n - 1, n)
  <1>1. n >= 2 /\ n \in Nat /\ f = fcs16(c)
    BY DEF FcsOk
  <1>2. c \in Seq(WireBytes) /\ Len(c) = n - 2 /\ \A i \in 1 .. n - 2 : c[i] = buf[i]
    BY <1>1
  <1>3. f[1] = buf[n - 1]
    BY <1>1
  <1> HIDE DEF c, f
  <1>4. f[1] = <<"lo", c>>
    BY <1>1 DEF fcs16
  <1>5. buf[n - 1] \in WireBytes
    BY <1>1
  <1>6. <<"lo", c>> \in {"lo", "hi"} \X Seq(PlainBytes)
    BY <1>3, <1>4, <1>5, PlainByte DEF WireBytes
  <1>7. c \in Seq(PlainBytes)
    BY <1>6
  <1>8. \A i \in 1 .. n - 2 : buf[i] \in PlainBytes
    BY <1>1, <1>2, <1>7
  <1>9. QED
    BY <1>1, <1>3, <1>4, <1>7, <1>8 DEF c

\* Bytes followed by their check sequence are good.
LEMMA FcsOkHolds ==
    ASSUME NEW buf \in Seq(WireBytes), NEW c \in Seq(PlainBytes), Len(buf) = Len(c) + 2,
           \A i \in 1 .. Len(c) : buf[i] = c[i],
           buf[Len(c) + 1] = <<"lo", c>>, buf[Len(c) + 2] = <<"hi", c>>
    PROVE  FcsOk(buf) /\ SubSeq(buf, 1, Len(buf) - 2) = c
  <1> DEFINE n == Len(c)
             cov == SubSeq(buf, 1, n)
             f == SubSeq(buf, n + 1, n + 2)
  <1>1. n \in Nat /\ Len(buf) = n + 2 /\ Len(buf) - 2 = n /\ Len(buf) - 1 = n + 1
    OBVIOUS
  <1>2. cov \in Seq(WireBytes) /\ Len(cov) = n /\ \A i \in 1 .. n : cov[i] = buf[i]
    BY <1>1
  <1>3. c \in Seq(WireBytes)
    BY PlainOnWire
  <1>4. cov = c
    BY <1>1, <1>2, <1>3
  <1>5. f = <<buf[n + 1], buf[n + 2]>>
    <2>1. f \in Seq(WireBytes) /\ Len(f) = 2 /\ f[1] = buf[n + 1] /\ f[2] = buf[n + 2]
      BY <1>1
    <2> DEFINE x == buf[n + 1]
               y == buf[n + 2]
    <2>2. x \in WireBytes /\ y \in WireBytes /\ f[1] = x /\ f[2] = y
      BY <1>1, <2>1
    <2> HIDE DEF f, x, y
    <2>3. f = <<x, y>>
      <3> DEFINE g == <<x, y>>
      <3>1. g \in Seq(WireBytes) /\ Len(g) = 2 /\ g[1] = x /\ g[2] = y
        BY <2>2
      <3> HIDE DEF g
      <3>2. \A i \in 1 .. 2 : f[i] = g[i]
        BY <2>2, <3>1
      <3>3. f = g
        BY <2>1, <3>1, <3>2
      <3>4. QED
        BY <3>3 DEF g
    <2>4. QED
      BY <2>3 DEF x, y
  <1>6. f = fcs16(cov)
    BY <1>4, <1>5 DEF fcs16
  <1>7. QED
    BY <1>1, <1>4, <1>6 DEF FcsOk

\* The bytes of a frame and of an acknowledgement, by their places.
FrameLayout(f, w, m) ==
    /\ m \in Nat /\ w \in Seq(WireBytes) /\ Len(w) = m + 10
    /\ w[1] = ASC_SOH /\ w[2] = <<f.iden>> /\ w[3] = <<m>>
    /\ w[4] = <<"lo", <<w[2], w[3]>>>> /\ w[5] = <<"hi", <<w[2], w[3]>>>> /\ w[6] = ASC_STX
    /\ \A i \in 1 .. m : w[6 + i] = f.body[i]
    /\ w[6 + m + 1] = <<"lo", f.body>> /\ w[6 + m + 2] = <<"hi", f.body>>
    /\ w[6 + m + 3] = ASC_ETX /\ w[6 + m + 4] = ASC_EOT

AckLayout(f, w) ==
    /\ w \in Seq(WireBytes) /\ Len(w) = 5
    /\ w[1] = ASC_ACK /\ w[2] = <<f.iden>>
    /\ w[3] = <<"lo", << w[2] >> >> /\ w[4] = <<"hi", << w[2] >> >> /\ w[5] = ASC_EOT

LEMMA FrameBytes ==
    ASSUME NEW f \in Transmissions, f.kind = "frame", NEW w, w = BytesOf(f),
           NEW m, m = Len(f.body)
    PROVE  FrameLayout(f, w, m)
  <1> DEFINE h == HeaderOf(f)
             b == f.body
             fh == << <<"lo", h>>, <<"hi", h>> >>
             a == <<ASC_SOH>> \o h \o fh \o <<ASC_STX>>
             c == << <<"lo", b>>, <<"hi", b>> >>
             e == <<ASC_ETX, ASC_EOT>>
  <1>1. f.iden \in Nat /\ b \in Seq(PlainBytes) /\ m \in Nat
    BY DEF Transmissions
  <1>2. <<f.iden>> \in PlainBytes /\ <<m>> \in PlainBytes
    BY <1>1, PlainByte
  <1>3. h = << <<f.iden>>, <<m>> >> /\ h \in Seq(PlainBytes)
    BY <1>2 DEF HeaderOf
  <1>4. ASC_SOH \in PlainBytes /\ ASC_STX \in PlainBytes /\ ASC_ETX \in PlainBytes /\ ASC_EOT \in PlainBytes
    BY PlainByte DEF ASC_SOH, ASC_STX, ASC_ETX, ASC_EOT
  <1>5. w = a \o b \o c \o e
    BY DEF BytesOf, fsm_send, fcs16
  <1>6. /\ a \in Seq(WireBytes) /\ Len(a) = 6 /\ b \in Seq(WireBytes)
        /\ c \in Seq(WireBytes) /\ Len(c) = 2 /\ e \in Seq(WireBytes) /\ Len(e) = 2
        /\ a[1] = ASC_SOH /\ a[2] = h[1] /\ a[3] = h[2] /\ a[4] = <<"lo", h>>
        /\ a[5] = <<"hi", h>> /\ a[6] = ASC_STX
    <2>1. /\ <<"lo", h>> \in WireBytes /\ <<"hi", h>> \in WireBytes
          /\ <<"lo", b>> \in WireBytes /\ <<"hi", b>> \in WireBytes
      BY <1>1, <1>3, CheckOnWire
    <2>2. b \in Seq(WireBytes)
      BY <1>1, PlainOnWire
    <2>3. h \in Seq(WireBytes) /\ Len(h) = 2
      BY <1>3, PlainOnWire
    <2> HIDE DEF h, b
    <2>4. fh \in Seq(WireBytes) /\ Len(fh) = 2 /\ fh[1] = <<"lo", h>> /\ fh[2] = <<"hi", h>>
      BY <2>1
    <2> HIDE DEF fh
    <2>5. c \in Seq(WireBytes) /\ Len(c) = 2 /\ e \in Seq(WireBytes) /\ Len(e) = 2
      BY <1>4, <2>1, PlainOnWire
    <2> DEFINE x == <<ASC_SOH>>
               y == <<ASC_STX>>
               u == x \o h
               v == u \o fh
    <2>6. /\ x \in Seq(WireBytes) /\ Len(x) = 1 /\ x[1] = ASC_SOH
          /\ y \in Seq(WireBytes) /\ Len(y) = 1 /\ y[1] = ASC_STX
      BY <1>4, PlainOnWire
    <2> HIDE DEF x, y
    <2>7. Joins(x, h, u, 1, 2, WireBytes)
      BY <2>3, <2>6, JoinFacts
    <2>8. u \in Seq(WireBytes) /\ Len(u) = 3 /\ u[1] = ASC_SOH /\ u[2] = h[1] /\ u[3] = h[2]
      BY <2>6, <2>7 DEF Joins
    <2> HIDE DEF u
    <2>9. Joins(u, fh, v, 3, 2, WireBytes)
      BY <2>4, <2>8, JoinFacts
    <2>10. /\ v \in Seq(WireBytes) /\ Len(v) = 5 /\ v[1] = ASC_SOH /\ v[2] = h[1] /\ v[3] = h[2]
           /\ v[4] = <<"lo", h>> /\ v[5] = <<"hi", h>>
      BY <2>4, <2>8, <2>9 DEF Joins
    <2> HIDE DEF v
    <2>11. a = v \o y
      BY DEF a, v, u, x, y
    <2> HIDE DEF a
    <2>12. Joins(v, y, a, 5, 1, WireBytes)
      BY <2>6, <2>10, <2>11, JoinFacts
    <2>13. /\ a \in Seq(WireBytes) /\ Len(a) = 6 /\ a[1] = ASC_SOH /\ a[2] = h[1] /\ a[3] = h[2]
           /\ a[4] = <<"lo", h>> /\ a[5] = <<"hi", h>> /\ a[6] = ASC_STX
      BY <2>6, <2>10, <2>12 DEF Joins
    <2>14. QED
      BY <2>2, <2>5, <2>13
  <1>7. c[1] = <<"lo", b>> /\ c[2] = <<"hi", b>> /\ e[1] = ASC_ETX /\ e[2] = ASC_EOT
    OBVIOUS
  <1> DEFINE p == a \o b
             q == p \o c
  <1> HIDE DEF a, c, e
  <1>8. Len(b) = m /\ h[1] = <<f.iden>> /\ h[2] = <<m>>
    BY <1>3
  <1> HIDE DEF b, h
  <1>9. Joins(a, b, p, 6, m, WireBytes)
    BY <1>6, <1>8, JoinFacts
  <1>10. p \in Seq(WireBytes) /\ Len(p) = 6 + m
    BY <1>9 DEF Joins
  <1> HIDE DEF p
  <1>11. Joins(p, c, q, 6 + m, 2, WireBytes)
    BY <1>6, <1>10, JoinFacts
  <1>12. q \in Seq(WireBytes) /\ Len(q) = 6 + m + 2
    BY <1>11 DEF Joins
  <1> HIDE DEF q
  <1>13. w = q \o e
    BY <1>5 DEF p, q
  <1>14. Joins(q, e, w, 6 + m + 2, 2, WireBytes)
    BY <1>6, <1>12, <1>13, JoinFacts
  <1>15. ASSUME NEW i \in 1 .. 6 PROVE w[i] = a[i]
    <2>1. i \in 1 .. 6 + m /\ i \in 1 .. 6 + m + 2
      BY <1>1
    <2>2. w[i] = q[i]
      BY <1>14, <2>1 DEF Joins
    <2>3. q[i] = p[i]
      BY <1>11, <2>1 DEF Joins
    <2>4. p[i] = a[i]
      BY <1>9 DEF Joins
    <2>5. QED
      BY <2>2, <2>3, <2>4
  <1>16. ASSUME NEW i \in 1 .. m PROVE w[6 + i] = b[i]
    <2>1. 6 + i \in 1 .. 6 + m /\ 6 + i \in 1 .. 6 + m + 2
      BY <1>1
    <2>2. w[6 + i] = q[6 + i]
      BY <1>14, <2>1 DEF Joins
    <2>3. q[6 + i] = p[6 + i]
      BY <1>11, <2>1 DEF Joins
    <2>4. p[6 + i] = b[i]
      BY <1>9 DEF Joins
    <2>5. QED
      BY <2>2, <2>3, <2>4
  <1>17. w[6 + m + 1] = c[1] /\ w[6 + m + 2] = c[2]
    <2>1. q[(6 + m) + 1] = c[1] /\ q[(6 + m) + 2] = c[2]
      BY <1>11 DEF Joins
    <2>2. 6 + m + 1 \in 1 .. 6 + m + 2 /\ 6 + m + 2 \in 1 .. 6 + m + 2
      BY <1>1
    <2>3. w[6 + m + 1] = q[6 + m + 1] /\ w[6 + m + 2] = q[6 + m + 2]
      BY <1>14, <2>2 DEF Joins
    <2>4. QED
      BY <2>1, <2>3
  <1>18. w[6 + m + 3] = e[1] /\ w[6 + m + 4] = e[2] /\ w \in Seq(WireBytes) /\ Len(w) = m + 10
    <2>1. /\ w[(6 + m + 2) + 1] = e[1] /\ w[(6 + m + 2) + 2] = e[2]
          /\ w \in Seq(WireBytes) /\ Len(w) = (6 + m + 2) + 2
      BY <1>14 DEF Joins
    <2>2. (6 + m + 2) + 1 = 6 + m + 3 /\ (6 + m + 2) + 2 = 6 + m + 4 /\ (6 + m + 2) + 2 = m + 10
      BY <1>1
    <2>3. QED
      BY <2>1, <2>2
  <1>19. w[1] = a[1] /\ w[2] = a[2] /\ w[3] = a[3] /\ w[4] = a[4] /\ w[5] = a[5] /\ w[6] = a[6]
    BY <1>15
  <1>20. h = <<w[2], w[3]>>
    BY <1>3, <1>6, <1>8, <1>19
  <1>21. QED
    BY <1>1, <1>6, <1>7, <1>8, <1>16, <1>17, <1>18, <1>19, <1>20 DEF b, FrameLayout

LEMMA AckBytes ==
    ASSUME NEW f \in Transmissions, f.kind # "frame", NEW w, w = BytesOf(f)
    PROVE  AckLayout(f, w)
  <1> DEFINE x == <<f.iden>>
             lo == <<"lo", <<x>> >>
             hi == <<"hi", <<x>> >>
  <1>1. f.iden \in Nat
    BY DEF Transmissions
  <1>2. x \in PlainBytes /\ ASC_ACK \in PlainBytes /\ ASC_EOT \in PlainBytes
    BY <1>1, PlainByte DEF ASC_ACK, ASC_EOT
  <1>3. lo \in WireBytes /\ hi \in WireBytes
    <2>1. <<x>> \in Seq(PlainBytes)
      BY <1>2
    <2>2. QED
      BY <2>1, CheckOnWire
  <1>4. w = <<ASC_ACK>> \o <<x>> \o <<lo, hi>> \o <<ASC_EOT>>
    BY DEF BytesOf, fsm_send_ack, fcs16
  <1> HIDE DEF x, lo, hi
  <1> DEFINE a == <<ASC_ACK>>
             b == <<x>>
             c == <<lo, hi>>
             e == <<ASC_EOT>>
             u == a \o b
             v == u \o c
  <1>5. /\ a \in Seq(WireBytes) /\ Len(a) = 1 /\ a[1] = ASC_ACK
        /\ b \in Seq(WireBytes) /\ Len(b) = 1 /\ b[1] = x
        /\ c \in Seq(WireBytes) /\ Len(c) = 2 /\ c[1] = lo /\ c[2] = hi
        /\ e \in Seq(WireBytes) /\ Len(e) = 1 /\ e[1] = ASC_EOT
    BY <1>2, <1>3, PlainOnWire
  <1> HIDE DEF a, b, c, e
  <1>6. Joins(a, b, u, 1, 1, WireBytes)
    BY <1>5, JoinFacts
  <1>7. u \in Seq(WireBytes) /\ Len(u) = 2 /\ u[1] = ASC_ACK /\ u[2] = x
    BY <1>5, <1>6 DEF Joins
  <1> HIDE DEF u
  <1>8. Joins(u, c, v, 2, 2, WireBytes)
    BY <1>5, <1>7, JoinFacts
  <1>9. /\ v \in Seq(WireBytes) /\ Len(v) = 4 /\ v[1] = ASC_ACK /\ v[2] = x
        /\ v[3] = lo /\ v[4] = hi
    BY <1>5, <1>7, <1>8 DEF Joins
  <1> HIDE DEF v
  <1>10. w = v \o e
    BY <1>4 DEF a, b, c, e, u, v
  <1>11. Joins(v, e, w, 4, 1, WireBytes)
    BY <1>5, <1>9, <1>10, JoinFacts
  <1>12. /\ w \in Seq(WireBytes) /\ Len(w) = 5
         /\ w[1] = ASC_ACK /\ w[2] = x /\ w[3] = lo /\ w[4] = hi /\ w[5] = ASC_EOT
    BY <1>5, <1>9, <1>11 DEF Joins
  <1>13. QED
    BY <1>12 DEF x, lo, hi, AckLayout

LEMMA SentBytes ==
    ASSUME NEW f \in Transmissions, NEW w, w = BytesOf(f)
    PROVE  w \in Seq(WireBytes) /\ Len(w) \in Nat /\ Len(w) >= 5
  <1>1. CASE f.kind = "frame"
    <2>1. FrameLayout(f, w, Len(f.body))
      BY <1>1, FrameBytes
    <2> DEFINE m == Len(f.body)
    <2> HIDE DEF m
    <2>2. m \in Nat /\ w \in Seq(WireBytes) /\ Len(w) = m + 10
      BY <2>1 DEF FrameLayout, m
    <2>3. QED
      BY <2>2
  <1>2. CASE f.kind # "frame"
    BY <1>2, AckBytes DEF AckLayout
  <1>3. QED
    BY <1>1, <1>2

LEMMA ReceiverFields ==
    ASSUME NEW r \in Receivers
    PROVE  /\ r.pc \in Pcs /\ r.call \in Transmissions /\ r.hdr \in Seq(WireBytes)
           /\ r.body \in Seq(WireBytes) /\ Len(r.hdr) \in Nat /\ Len(r.body) \in Nat
           /\ r.call.kind \in {"frame", "ack"} /\ r.call.iden \in Nat
  BY DEF Receivers, Transmissions

LEMMA WaitingFacts ==
    ASSUME NEW r \in Receivers, NEW w, w = Waiting(r)
    PROVE  /\ w \in Receivers /\ w.pc = "start" /\ w.hdr = <<>> /\ w.body = <<>>
           /\ w.call = r.call
  BY EmptySeq DEF Receivers, Waiting, Pcs

\* A receiver that waits holds nothing, so it is in shape and has read nothing.
LEMMA WaitsInShape ==
    ASSUME rx'.pc \in {"idle", "start"}, rx'.hdr = <<>>, rx'.body = <<>>
    PROVE  RxShape' /\ Position' = 0
  BY DEF RxShape, Position

\* What stays true of cur while its next byte is read.
LEMMA StaysUnderway ==
    ASSUME FrameTypes, Underway, line # <<>>, line' = Tail(line), rest' = rest, cur' = cur,
           rx'.call = rx.call, Position \in Nat, Position' = Position + 1,
           Position' < Len(BytesOf(cur)),
           \A i \in 1 .. Len(rx'.hdr) : rx'.hdr[i] = BytesOf(cur)[1 + i],
           \A i \in 1 .. Len(rx'.body) : rx'.body[i] = BytesOf(cur)[6 + i]
    PROVE  Underway'
  <1> DEFINE w == BytesOf(cur)
             n == Position
             k == Len(line)
  <1>1. BytesOf(cur)' = w
    BY DEF BytesOf, fsm_send, fsm_send_ack, HeaderOf
  <1>2. Expects(cur)'
    BY DEF Underway, Expects
  <1>3. w \in Seq(WireBytes) /\ Len(w) \in Nat
    BY SentBytes DEF FrameTypes
  <1>4. /\ line \in Seq(WireBytes) /\ k \in Nat /\ k >= 1 /\ Len(line') = k - 1
        /\ \A i \in 1 .. k - 1 : line'[i] = line[i + 1]
    BY DEF FrameTypes
  <1>5. rest \in Seq(WireBytes) /\ Len(rest) \in Nat
    BY DEF FrameTypes
  <1> DEFINE r == Len(rest)
             v == Len(w)
  <1>6. /\ IF rest = <<>> THEN n + k >= v ELSE n + k + r = v
        /\ \A i \in 1 .. k : IF n + i <= v THEN line[i] = w[n + i] ELSE line[i] \in PlainBytes
        /\ \A i \in 1 .. r : rest[i] = w[n + k + i]
    BY DEF Underway
  <1>7. n \in Nat /\ Position' = n + 1 /\ v \in Nat
    BY <1>3
  <1> HIDE DEF w, n, k, r, v
  <1>8. IF rest = <<>> THEN (n + 1) + (k - 1) >= v ELSE (n + 1) + (k - 1) + r = v
    <2>1. n \in Nat /\ k \in Nat /\ v \in Nat /\ r \in Nat
      BY <1>4, <1>5, <1>7 DEF r
    <2>2. (n + 1) + (k - 1) = n + k /\ (n + 1) + (k - 1) + r = n + k + r
      BY <2>1
    <2>3. QED
      BY <1>6, <2>2
  <1>9. ASSUME NEW i \in 1 .. k - 1
        PROVE  IF (n + 1) + i <= v THEN line'[i] = w[(n + 1) + i] ELSE line'[i] \in PlainBytes
    <2>1. i + 1 \in 1 .. k /\ (n + 1) + i = n + (i + 1) /\ line'[i] = line[i + 1]
      BY <1>4, <1>7
    <2>2. QED
      BY <1>6, <2>1
  <1>10. ASSUME NEW i \in 1 .. r PROVE rest[i] = w[(n + 1) + (k - 1) + i]
    <2>1. (n + 1) + (k - 1) + i = n + k + i
      BY <1>4, <1>5, <1>7 DEF r
    <2>2. QED
      BY <1>6, <2>1
  <1>11. Len(line') = k - 1 /\ Position' = n + 1 /\ rest' = rest /\ Len(rest') = r
    BY <1>4, <1>7 DEF r
  <1>12. /\ IF rest' = <<>> THEN Position' + Len(line') >= v ELSE Position' + Len(line') + Len(rest') = v
         /\ \A i \in 1 .. Len(line') : IF Position' + i <= v THEN line'[i] = w[Position' + i]
                                       ELSE line'[i] \in PlainBytes
         /\ \A i \in 1 .. Len(rest') : rest'[i] = w[Position' + Len(line') + i]
    BY <1>8, <1>9, <1>10, <1>11
  <1>13. QED
    BY <1>1, <1>2, <1>12 DEF Underway, w, v

LEMMA StaysArrived ==
    ASSUME FrameTypes, Arrived, line # <<>>, line' = Tail(line), rest' = rest, cur' = cur,
           got' = got, \A i \in 1 .. Len(rx'.hdr) : rx'.hdr[i] \in PlainBytes
    PROVE  Arrived'
  <1>1. /\ line \in Seq(WireBytes) /\ Len(line) \in Nat /\ Len(line') = Len(line) - 1
        /\ \A i \in 1 .. Len(line) - 1 : line'[i] = line[i + 1]
    BY DEF FrameTypes
  <1>2. \A i \in 1 .. Len(line) - 1 : line[i + 1] \in PlainBytes
    BY <1>1 DEF Arrived
  <1>3. QED
    BY <1>1, <1>2 DEF Arrived

LEMMA RxStays ==
    ASSUME rx' = rx
    PROVE  (RxShape => RxShape') /\ Position' = Position
  BY DEF RxShape, Position, IsFrame, HeaderSize, BodySize

LEMMA BytesStay ==
    ASSUME cur' = cur
    PROVE  BytesOf(cur)' = BytesOf(cur)
  BY DEF BytesOf, fsm_send, fsm_send_ack, HeaderOf

LEMMA FrameInitHolds == Init => FrameInv
  <1> SUFFICES ASSUME Init PROVE FrameInv
    OBVIOUS
  <1>1. Frame(0, <<>>) \in Transmissions
    BY EmptySeq DEF Frame, Transmissions
  <1>2. Idle \in Receivers /\ Idle.pc = "idle" /\ Idle.hdr = <<>> /\ Idle.body = <<>>
    BY <1>1, EmptySeq DEF Idle, Receivers, Pcs
  <1>3. FrameTypes
    <2>1. 0 \in 0 .. MaxFaults /\ Len(<<>>) <= MaxLine
      BY BoundsAssumption
    <2>2. script \in Seq(Transmissions)
      BY LineAssumption DEF Init
    <2>3. <<>> \in Seq(WireBytes) /\ <<>> \in Seq(Transmissions)
      BY EmptySeq
    <2>4. QED
      BY <1>1, <1>2, <2>1, <2>2, <2>3 DEF Init, FrameTypes
  <1>4. RxShape
    BY <1>2 DEF Init, RxShape
  <1>5. QED
    BY <1>3, <1>4 DEF Init, FrameInv

LEMMA StartKeeps ==
    ASSUME FrameInv, Start
    PROVE  FrameInv'
  <1>1. FrameTypes /\ RxShape
    BY DEF FrameInv
  <1>2. /\ cur' = Head(script) /\ script' = Tail(script) /\ rest' = BytesOf(cur')
        /\ clean' = (line = <<>> /\ rx.pc = "start" /\ Expects(cur'))
        /\ line' = line /\ faults' = faults /\ rx' = rx /\ due' = due /\ got' = got
        /\ script # <<>>
    BY DEF Start
  <1>3. cur' \in Transmissions /\ script' \in Seq(Transmissions)
    BY <1>1, <1>2 DEF FrameTypes
  <1> DEFINE w == BytesOf(cur')
  <1>4. w \in Seq(WireBytes) /\ Len(w) \in Nat /\ Len(w) >= 5
    BY <1>3, SentBytes
  <1>5. BytesOf(cur)' = w
    BY DEF BytesOf, fsm_send, fsm_send_ack, HeaderOf
  <1> HIDE DEF w
  <1>6. rest' = w
    BY <1>2 DEF w
  <1>7. FrameTypes'
    BY <1>1, <1>2, <1>3, <1>4, <1>6 DEF FrameTypes
  <1>8. RxShape' /\ Position' = Position
    BY <1>1, <1>2, RxStays
  <1>9. ASSUME clean' PROVE Underway'
    <2>1. line' = <<>> /\ rx.pc = "start" /\ rx'.hdr = <<>> /\ rx'.body = <<>>
      BY <1>1, <1>2, <1>9 DEF RxShape
    <2>2. Position' = 0
      BY <1>8, <2>1 DEF Position
    <2>3. Expects(cur)'
      BY <1>2, <1>9 DEF Expects
    <2>4. Len(rx'.hdr) = 0 /\ Len(rx'.body) = 0 /\ Len(line') = 0
      BY <2>1
    <2>5. rest' # <<>> /\ Len(rest') = Len(w)
      BY <1>4, <1>6
    <2>6. \A i \in 1 .. Len(rest') : 0 + 0 + i = i
      BY <1>4, <2>5
    <2>7. 0 < Len(w) /\ 0 + 0 + Len(w) = Len(w)
      BY <1>4
    <2>8. \A i \in 1 .. Len(rest') : rest'[i] = w[Position' + Len(line') + i]
      BY <1>6, <2>2, <2>4, <2>6
    <2>9. Position' < Len(w) /\ Position' + Len(line') + Len(rest') = Len(w)
      BY <2>2, <2>4, <2>5, <2>7
    <2>10. /\ \A i \in 1 .. Len(rx'.hdr) : rx'.hdr[i] = w[1 + i]
           /\ \A i \in 1 .. Len(rx'.body) : rx'.body[i] = w[6 + i]
           /\ \A i \in 1 .. Len(line') :
                IF Position' + i <= Len(w) THEN line'[i] = w[Position' + i]
                ELSE line'[i] \in PlainBytes
      BY <2>4
    <2>11. QED
      BY <1>5, <2>3, <2>5, <2>8, <2>9, <2>10 DEF Underway
  <1>10. QED
    BY <1>7, <1>8, <1>9 DEF FrameInv

LEMMA PutKeeps ==
    ASSUME FrameInv, Put
    PROVE  FrameInv'
  <1>1. FrameTypes /\ RxShape /\ (clean => Underway \/ Arrived)
    BY DEF FrameInv
  <1>2. /\ rest # <<>> /\ Len(line) < MaxLine
        /\ line' = Append(line, Head(rest)) /\ rest' = Tail(rest)
        /\ script' = script /\ cur' = cur /\ faults' = faults /\ rx' = rx /\ due' = due
        /\ got' = got /\ clean' = clean
    BY DEF Put
  <1> DEFINE w == BytesOf(cur)
             n == Position
             k == Len(line)
             r == Len(rest)
             v == Len(w)
  <1>3. w \in Seq(WireBytes) /\ v \in Nat /\ v >= 5
    BY <1>1, SentBytes DEF FrameTypes
  <1>4. /\ line \in Seq(WireBytes) /\ k \in Nat /\ rest \in Seq(WireBytes) /\ r \in Nat /\ r >= 1
        /\ line' \in Seq(WireBytes) /\ Len(line') = k + 1
        /\ \A i \in 1 .. k : line'[i] = line[i]
        /\ line'[k + 1] = rest[1]
    BY <1>1, <1>2 DEF FrameTypes
  <1>5. rest' \in Seq(WireBytes) /\ Len(rest') = r - 1 /\ \A i \in 1 .. r - 1 : rest'[i] = rest[i + 1]
    BY <1>1, <1>2 DEF FrameTypes
  <1>6. FrameTypes'
    <2>1. Len(line') <= MaxLine
      BY <1>2, <1>4, BoundsAssumption
    <2>2. QED
      BY <1>1, <1>2, <1>4, <1>5, <2>1 DEF FrameTypes
  <1>7. RxShape' /\ Position' = Position
    BY <1>1, <1>2, RxStays
  <1>8. BytesOf(cur)' = w
    BY <1>2, BytesStay
  <1>9. ASSUME clean' PROVE Underway'
    <2>1. Underway
      BY <1>1, <1>2, <1>9 DEF Arrived
    <2>2. /\ Expects(cur) /\ n < v
          /\ \A i \in 1 .. Len(rx.hdr) : rx.hdr[i] = w[1 + i]
          /\ \A i \in 1 .. Len(rx.body) : rx.body[i] = w[6 + i]
          /\ n + k + r = v
          /\ \A i \in 1 .. k : IF n + i <= v THEN line[i] = w[n + i] ELSE line[i] \in PlainBytes
          /\ \A i \in 1 .. r : rest[i] = w[n + k + i]
      BY <1>2, <2>1 DEF Underway
    <2>3. n \in Nat
      BY <1>1, ReceiverFields DEF Position, FrameTypes
    <2> HIDE DEF w, n, k, r, v
    <2>4. Position' = n /\ Len(line') = k + 1 /\ Len(rest') = r - 1
      BY <1>4, <1>5, <1>7 DEF n
    <2>5. n + (k + 1) + (r - 1) = v /\ n + (k + 1) <= v /\ n + (k + 1) = n + k + 1
      <3>1. n \in Nat /\ k \in Nat /\ r \in Nat /\ r >= 1 /\ n + k + r = v
        BY <1>4, <2>2, <2>3
      <3>2. QED
        BY <3>1
    <2>6. ASSUME rest' = <<>> PROVE n + (k + 1) >= v
      <3>1. r - 1 = 0
        BY <2>4, <2>6
      <3>2. n \in Nat /\ k \in Nat /\ r \in Nat
        BY <1>4, <2>3
      <3>3. QED
        BY <2>5, <3>1, <3>2
    <2>7. ASSUME NEW i \in 1 .. k + 1
          PROVE  IF n + i <= v THEN line'[i] = w[n + i] ELSE line'[i] \in PlainBytes
      <3>1. CASE i \in 1 .. k
        BY <1>4, <2>2, <3>1
      <3>2. CASE i = k + 1
        <4>1. rest[1] = w[n + k + 1]
          BY <1>4, <2>2
        <4>2. QED
          BY <1>4, <2>5, <3>2, <4>1
      <3>3. QED
        BY <1>4, <3>1, <3>2
    <2>8. ASSUME NEW i \in 1 .. r - 1 PROVE rest'[i] = w[n + (k + 1) + i]
      <3>1. n \in Nat /\ k \in Nat /\ r \in Nat
        BY <1>4, <2>3
      <3>2. i + 1 \in 1 .. r /\ n + (k + 1) + i = n + k + (i + 1)
        BY <3>1
      <3>3. QED
        BY <1>5, <2>2, <3>2
    <2>9. Expects(cur)'
      BY <1>2, <2>2 DEF Expects
    <2>10. /\ IF rest' = <<>> THEN Position' + Len(line') >= v ELSE Position' + Len(line') + Len(rest') = v
           /\ \A i \in 1 .. Len(line') : IF Position' + i <= v THEN line'[i] = w[Position' + i]
                                         ELSE line'[i] \in PlainBytes
           /\ \A i \in 1 .. Len(rest') : rest'[i] = w[Position' + Len(line') + i]
      BY <2>4, <2>5, <2>6, <2>7, <2>8
    <2>11. /\ Position' < v
           /\ \A i \in 1 .. Len(rx'.hdr) : rx'.hdr[i] = w[1 + i]
           /\ \A i \in 1 .. Len(rx'.body) : rx'.body[i] = w[6 + i]
      BY <1>2, <2>2, <2>4
    <2>12. QED
      BY <1>8, <2>9, <2>10, <2>11 DEF Underway, v
  <1>10. QED
    BY <1>6, <1>7, <1>9 DEF FrameInv

\* A disturbed transmission is owed nothing.
LEMMA DisturbedKeeps ==
    ASSUME FrameInv, Lose \/ Damage \/ SymbolTimeout
    PROVE  FrameInv'
  <1>1. FrameTypes /\ RxShape
    BY DEF FrameInv
  <1>2. CASE Lose
    <2>1. FrameTypes'
      <3>1. faults \in Nat /\ faults' = faults + 1 /\ faults < MaxFaults
        BY <1>1, <1>2 DEF Lose, FrameTypes
      <3>2. faults' \in 0 .. MaxFaults
        BY <3>1, BoundsAssumption
      <3>3. rest' \in Seq(WireBytes)
        BY <1>1, <1>2 DEF Lose, FrameTypes
      <3>4. QED
        BY <1>1, <1>2, <3>2, <3>3 DEF Lose, FrameTypes
    <2>2. RxShape'
      BY <1>1, <1>2, RxStays DEF Lose
    <2>3. QED
      BY <1>2, <2>1, <2>2 DEF Lose, FrameInv
  <1>3. CASE Damage
    <2>1. PICK b \in Garbled : line' = Append(line, b)
      BY <1>3 DEF Damage
    <2>2. b \in WireBytes
      BY LineAssumption, PlainOnWire
    <2>3. line \in Seq(WireBytes) /\ line' \in Seq(WireBytes) /\ Len(line') = Len(line) + 1
      BY <1>1, <2>1, <2>2 DEF FrameTypes
    <2>4. Len(line') <= MaxLine
      BY <1>3, <2>3, BoundsAssumption DEF Damage
    <2>5. FrameTypes'
      <3>1. faults \in Nat /\ faults' = faults + 1 /\ faults < MaxFaults
        BY <1>1, <1>3 DEF Damage, FrameTypes
      <3>2. faults' \in 0 .. MaxFaults
        BY <3>1, BoundsAssumption
      <3>3. rest' \in Seq(WireBytes)
        BY <1>1, <1>3 DEF Damage, FrameTypes
      <3>4. QED
        BY <1>1, <1>3, <2>3, <2>4, <3>2, <3>3 DEF Damage, FrameTypes
    <2>6. RxShape'
      BY <1>1, <1>3, RxStays DEF Damage
    <2>7. QED
      BY <1>3, <2>5, <2>6 DEF Damage, FrameInv
  <1>4. CASE SymbolTimeout
    <2>1. rx \in Receivers /\ rx' = Waiting(rx) /\ clean' = FALSE
      BY <1>1, <1>4 DEF SymbolTimeout, FrameTypes
    <2>2. rx' \in Receivers /\ rx'.pc = "start" /\ rx'.hdr = <<>> /\ rx'.body = <<>>
      BY <2>1, WaitingFacts
    <2>3. RxShape'
      BY <2>2, WaitsInShape
    <2>4. FrameTypes'
      BY <1>1, <1>4, <2>1, <2>2 DEF SymbolTimeout, FrameTypes
    <2>5. QED
      BY <2>1, <2>3, <2>4 DEF FrameInv
  <1>5. QED
    BY <1>2, <1>3, <1>4

LEMMA ChatterKeeps ==
    ASSUME FrameInv, Chatter
    PROVE  FrameInv'
  <1>1. FrameTypes /\ RxShape /\ (clean => Underway \/ Arrived)
    BY DEF FrameInv
  <1>2. PICK b \in Noise : line' = Append(line, b)
    BY DEF Chatter
  <1>3. /\ rest = <<>> /\ rest' = rest /\ Len(line) < MaxLine
        /\ script' = script /\ cur' = cur /\ faults' = faults /\ rx' = rx /\ due' = due
        /\ got' = got /\ clean' = clean
    BY DEF Chatter
  <1>4. b \in PlainBytes /\ b \in WireBytes
    BY LineAssumption, PlainOnWire
  <1> DEFINE w == BytesOf(cur)
             n == Position
             k == Len(line)
             v == Len(w)
  <1>5. w \in Seq(WireBytes) /\ v \in Nat /\ v >= 5
    BY <1>1, SentBytes DEF FrameTypes
  <1>6. /\ line \in Seq(WireBytes) /\ k \in Nat
        /\ line' \in Seq(WireBytes) /\ Len(line') = k + 1
        /\ \A i \in 1 .. k : line'[i] = line[i]
        /\ line'[k + 1] = b
    BY <1>1, <1>2, <1>4 DEF FrameTypes
  <1>7. FrameTypes'
    <2>1. Len(line') <= MaxLine
      BY <1>3, <1>6, BoundsAssumption
    <2>2. QED
      BY <1>1, <1>3, <1>6, <2>1 DEF FrameTypes
  <1>8. RxShape' /\ Position' = Position
    BY <1>1, <1>3, RxStays
  <1>9. BytesOf(cur)' = w
    BY <1>3, BytesStay
  <1>10. \A i \in 1 .. k + 1 : i \in 1 .. k \/ i = k + 1
    BY <1>6
  <1>11. ASSUME Underway PROVE Underway'
    <2>1. /\ Expects(cur) /\ n < v
          /\ \A i \in 1 .. Len(rx.hdr) : rx.hdr[i] = w[1 + i]
          /\ \A i \in 1 .. Len(rx.body) : rx.body[i] = w[6 + i]
          /\ n + k >= v
          /\ \A i \in 1 .. k : IF n + i <= v THEN line[i] = w[n + i] ELSE line[i] \in PlainBytes
      BY <1>3, <1>11 DEF Underway
    <2>2. n \in Nat
      BY <1>1, ReceiverFields DEF Position, FrameTypes
    <2> HIDE DEF w, n, k, v
    <2>3. n + (k + 1) >= v /\ ~(n + (k + 1) <= v)
      <3>1. n \in Nat /\ k \in Nat /\ v \in Nat /\ n + k >= v
        BY <1>5, <1>6, <2>1, <2>2
      <3>2. QED
        BY <3>1
    <2>4. ASSUME NEW i \in 1 .. k + 1
          PROVE  IF n + i <= v THEN line'[i] = w[n + i] ELSE line'[i] \in PlainBytes
      BY <1>4, <1>6, <1>10, <2>1, <2>3
    <2>5. Position' = n /\ Len(line') = k + 1 /\ rest' = <<>>
      BY <1>3, <1>6, <1>8 DEF n
    <2>6. Expects(cur)'
      BY <1>3, <2>1 DEF Expects
    <2>7. /\ Position' < v /\ Position' + Len(line') >= v
          /\ \A i \in 1 .. Len(line') : IF Position' + i <= v THEN line'[i] = w[Position' + i]
                                         ELSE line'[i] \in PlainBytes
          /\ \A i \in 1 .. Len(rx'.hdr) : rx'.hdr[i] = w[1 + i]
          /\ \A i \in 1 .. Len(rx'.body) : rx'.body[i] = w[6 + i]
      BY <1>3, <2>1, <2>3, <2>4, <2>5
    <2>8. \A i \in 1 .. Len(rest') : rest'[i] = w[Position' + Len(line') + i]
      BY <2>5
    <2>9. QED
      BY <1>9, <2>5, <2>6, <2>7, <2>8 DEF Underway, v
  <1>12. ASSUME Arrived PROVE Arrived'
    <2>1. \A i \in 1 .. Len(line') : line'[i] \in PlainBytes
      BY <1>4, <1>6, <1>10, <1>12 DEF Arrived
    <2>2. QED
      BY <1>3, <1>12, <2>1 DEF Arrived
  <1>13. QED
    BY <1>1, <1>3, <1>7, <1>8, <1>11, <1>12 DEF FrameInv

\* A call that begins, ends or waits has read nothing of what comes.
LEMMA WaitsUnderway ==
    ASSUME cur' = cur, rest' = rest, line' = line, got' = got,
           rx.pc \in {"idle", "start"}, rx'.pc \in {"idle", "start"},
           rx'.hdr = <<>>, rx'.body = <<>>, rx'.call.kind = rx.call.kind,
           rx'.call.iden = rx.call.iden, Underway \/ Arrived
    PROVE  (Underway \/ Arrived)'
  <1> DEFINE w == BytesOf(cur)
  <1>1. Position = 0 /\ Position' = 0
    BY WaitsInShape DEF Position
  <1>2. BytesOf(cur)' = w
    BY BytesStay
  <1>3. Len(rx'.hdr) = 0 /\ Len(rx'.body) = 0
    OBVIOUS
  <1>4. CASE Underway
    <2>1. Expects(cur)'
      BY <1>4 DEF Underway, Expects
    <2> HIDE DEF w
    <2>2. /\ Position' < Len(w)
          /\ \A i \in 1 .. Len(rx'.hdr) : rx'.hdr[i] = w[1 + i]
          /\ \A i \in 1 .. Len(rx'.body) : rx'.body[i] = w[6 + i]
          /\ IF rest' = <<>> THEN Position' + Len(line') >= Len(w)
             ELSE Position' + Len(line') + Len(rest') = Len(w)
          /\ \A i \in 1 .. Len(line') :
               IF Position' + i <= Len(w) THEN line'[i] = w[Position' + i]
               ELSE line'[i] \in PlainBytes
          /\ \A i \in 1 .. Len(rest') : rest'[i] = w[Position' + Len(line') + i]
      BY <1>1, <1>3, <1>4 DEF Underway, w
    <2>3. QED
      BY <1>2, <2>1, <2>2 DEF Underway
  <1>5. CASE Arrived
    BY <1>3, <1>5 DEF Arrived
  <1>6. QED
    BY <1>4, <1>5

LEMMA CallKeeps ==
    ASSUME FrameInv, Call \/ ReturnTimer
    PROVE  FrameInv'
  <1>1. FrameTypes /\ RxShape /\ (clean => Underway \/ Arrived) /\ rx \in Receivers
    BY DEF FrameInv, FrameTypes
  <1>2. /\ script' = script /\ cur' = cur /\ rest' = rest /\ line' = line /\ faults' = faults
        /\ got' = got /\ due' \in BOOLEAN /\ clean' \in BOOLEAN
    BY <1>1 DEF Call, ReturnTimer, FrameTypes
  <1>3. /\ rx.pc \in {"idle", "start"} /\ rx' \in Receivers /\ rx'.pc \in {"idle", "start"}
        /\ rx'.hdr = <<>> /\ rx'.body = <<>>
        /\ clean' => clean /\ rx'.call.kind = rx.call.kind /\ rx'.call.iden = rx.call.iden
    <2>1. CASE Call
      <3>1. PICK c \in Calls :
              /\ rx' = Waiting([rx EXCEPT !.call = c])
              /\ clean' = (clean /\ c.kind = rx.call.kind /\ c.iden = rx.call.iden)
        BY <2>1 DEF Call
      <3> DEFINE q == [rx EXCEPT !.call = c]
      <3>2. c \in Transmissions
        BY LineAssumption
      <3>3. q \in Receivers /\ q.call = c
        BY <1>1, <3>2 DEF Receivers
      <3> HIDE DEF q
      <3>4. /\ rx' \in Receivers /\ rx'.pc = "start" /\ rx'.hdr = <<>> /\ rx'.body = <<>>
            /\ rx'.call = q.call
        BY <3>1, <3>3, WaitingFacts DEF q
      <3>5. QED
        BY <2>1, <3>1, <3>3, <3>4 DEF Call
    <2>2. CASE ReturnTimer
      <3>1. rx.pc = "start" /\ rx' = [rx EXCEPT !.pc = "idle"] /\ clean' = clean
        BY <2>2 DEF ReturnTimer
      <3>2. rx' \in Receivers /\ rx'.pc = "idle" /\ rx'.hdr = rx.hdr /\ rx'.body = rx.body /\ rx'.call = rx.call
        BY <1>1, <3>1 DEF Receivers, Pcs
      <3>3. QED
        BY <1>1, <3>1, <3>2 DEF RxShape
    <2>3. QED
      BY <2>1, <2>2
  <1>4. FrameTypes'
    BY <1>1, <1>2, <1>3 DEF FrameTypes
  <1>5. RxShape'
    BY <1>3, WaitsInShape
  <1>6. ASSUME clean' PROVE (Underway \/ Arrived)'
    BY <1>1, <1>2, <1>3, <1>6, WaitsUnderway
  <1>7. QED
    BY <1>4, <1>5, <1>6 DEF FrameInv

LEMMA TimerKeeps ==
    ASSUME FrameInv, TimerExpires \/ UNCHANGED vars
    PROVE  FrameInv'
  <1>1. FrameTypes /\ RxShape /\ (clean => Underway \/ Arrived)
    BY DEF FrameInv
  <1>2. /\ script' = script /\ cur' = cur /\ rest' = rest /\ line' = line /\ faults' = faults
        /\ got' = got /\ due' \in BOOLEAN /\ clean' = clean /\ rx' = rx
    BY <1>1 DEF TimerExpires, FrameTypes, vars
  <1>3. FrameTypes'
    BY <1>1, <1>2 DEF FrameTypes
  <1>4. RxShape' /\ Position' = Position
    BY <1>1, <1>2, RxStays
  <1>5. BytesOf(cur)' = BytesOf(cur)
    BY <1>2, BytesStay
  <1>6. ASSUME Underway PROVE Underway'
    <2>1. Expects(cur)'
      BY <1>2, <1>6 DEF Underway, Expects
    <2> DEFINE w == BytesOf(cur)
    <2> HIDE DEF w
    <2>2. /\ Position' < Len(w)
          /\ \A i \in 1 .. Len(rx'.hdr) : rx'.hdr[i] = w[1 + i]
          /\ \A i \in 1 .. Len(rx'.body) : rx'.body[i] = w[6 + i]
          /\ IF rest' = <<>> THEN Position' + Len(line') >= Len(w)
             ELSE Position' + Len(line') + Len(rest') = Len(w)
          /\ \A i \in 1 .. Len(line') :
               IF Position' + i <= Len(w) THEN line'[i] = w[Position' + i]
               ELSE line'[i] \in PlainBytes
          /\ \A i \in 1 .. Len(rest') : rest'[i] = w[Position' + Len(line') + i]
      BY <1>2, <1>4, <1>6 DEF Underway, w
    <2>3. QED
      BY <1>5, <2>1, <2>2 DEF Underway, w
  <1>7. ASSUME Arrived PROVE Arrived'
    BY <1>2, <1>7 DEF Arrived
  <1>8. QED
    BY <1>1, <1>2, <1>3, <1>4, <1>6, <1>7 DEF FrameInv

\* The byte the receiver reads next.
LEMMA NextByte ==
    ASSUME FrameTypes, line # <<>>
    PROVE  /\ Head(line) \in WireBytes /\ Position \in Nat
           /\ Underway => Head(line) = BytesOf(cur)[Position + 1]
           /\ Arrived => Head(line) \in PlainBytes
  <1>1. line \in Seq(WireBytes) /\ Len(line) \in Nat /\ Len(line) >= 1 /\ Head(line) = line[1]
    BY DEF FrameTypes
  <1>2. Position \in Nat
    BY ReceiverFields DEF Position, FrameTypes
  <1>3. ASSUME Underway PROVE line[1] = BytesOf(cur)[Position + 1]
    <2> DEFINE v == Len(BytesOf(cur))
    <2>1. v \in Nat /\ Position < v
      BY <1>3, SentBytes DEF FrameTypes, Underway
    <2> HIDE DEF v
    <2>2. Position + 1 <= v
      BY <1>2, <2>1
    <2>3. QED
      BY <1>1, <1>3, <2>2 DEF Underway, v
  <1>4. QED
    BY <1>1, <1>2, <1>3 DEF Arrived

\* What cur looks like on the line when the receiver waits for it.
LEMMA CurLayout ==
    ASSUME FrameTypes, Underway
    PROVE  /\ IsFrame => cur.kind = "frame" /\ FrameLayout(cur, BytesOf(cur), Len(cur.body))
           /\ ~IsFrame => /\ cur.kind = "ack" /\ AckLayout(cur, BytesOf(cur))
                          /\ cur.body = <<>> /\ rx.call.iden = cur.iden
  <1>1. cur \in Transmissions /\ rx.call.kind = cur.kind /\ cur.kind \in {"frame", "ack"}
        /\ (cur.kind = "ack" => rx.call.iden = cur.iden)
    BY DEF FrameTypes, Underway, Expects, Transmissions
  <1>2. ASSUME IsFrame PROVE cur.kind = "frame" /\ FrameLayout(cur, BytesOf(cur), Len(cur.body))
    BY <1>1, <1>2, FrameBytes DEF IsFrame
  <1>3. ASSUME ~IsFrame
        PROVE  /\ cur.kind = "ack" /\ AckLayout(cur, BytesOf(cur)) /\ cur.body = <<>>
               /\ rx.call.iden = cur.iden
    <2>1. cur.kind = "ack" /\ rx.call.iden = cur.iden
      BY <1>1, <1>3 DEF IsFrame
    <2>2. AckLayout(cur, BytesOf(cur))
      BY <1>1, <2>1, AckBytes
    <2>3. cur.body = <<>>
      BY <1>1, <2>1 DEF Transmissions
    <2>4. QED
      BY <2>1, <2>2, <2>3
  <1>4. QED
    BY <1>2, <1>3

\* Reading a byte that does not end a frame.
LEMMA ReadKeeps ==
    ASSUME FrameInv, line # <<>>, line' = Tail(line), got' = got,
           script' = script, cur' = cur, rest' = rest, faults' = faults, due' = due, clean' = clean,
           rx' \in Receivers, RxShape', rx'.call = rx.call,
           Underway => /\ Position' = Position + 1 /\ Position' < Len(BytesOf(cur))
                       /\ \A i \in 1 .. Len(rx'.hdr) : rx'.hdr[i] = BytesOf(cur)[1 + i]
                       /\ \A i \in 1 .. Len(rx'.body) : rx'.body[i] = BytesOf(cur)[6 + i],
           Arrived => \A i \in 1 .. Len(rx'.hdr) : rx'.hdr[i] \in PlainBytes
    PROVE  FrameInv'
  <1>1. FrameTypes /\ (clean => Underway \/ Arrived)
    BY DEF FrameInv
  <1>2. FrameTypes'
    <2>1. /\ line \in Seq(WireBytes) /\ line' \in Seq(WireBytes) /\ Len(line') = Len(line) - 1
          /\ Len(line) \in Nat /\ Len(line) <= MaxLine
      BY <1>1 DEF FrameTypes
    <2>2. Len(line') <= MaxLine
      BY <2>1, BoundsAssumption
    <2>3. QED
      BY <1>1, <2>1, <2>2 DEF FrameTypes
  <1>3. Position \in Nat
    BY <1>1, NextByte
  <1>4. Underway => Underway'
    BY <1>1, <1>3, StaysUnderway
  <1>5. Arrived => Arrived'
    BY <1>1, StaysArrived
  <1>6. QED
    BY <1>1, <1>2, <1>4, <1>5 DEF FrameInv

LEMMA ReadStartKeeps ==
    ASSUME FrameInv, ReadStart
    PROVE  FrameInv'
  <1>1. FrameTypes /\ RxShape /\ rx \in Receivers
    BY DEF FrameInv, FrameTypes
  <1>2. /\ rx.pc = "start" /\ line # <<>> /\ rx' = AfterStart(Head(line)) /\ line' = Tail(line)
        /\ script' = script /\ cur' = cur /\ rest' = rest /\ faults' = faults /\ due' = due
        /\ got' = got /\ clean' = clean
    BY DEF ReadStart
  <1>3. rx.hdr = <<>> /\ rx.body = <<>> /\ Position = 0
    BY <1>1, <1>2 DEF RxShape, Position
  <1>4. /\ rx' \in Receivers /\ rx'.hdr = <<>> /\ rx'.body = <<>> /\ rx'.call = rx.call
        /\ rx'.pc = IF Head(line) = StartByte THEN "hdr" ELSE "start"
    BY <1>1, <1>2, <1>3 DEF AfterStart, Receivers, Pcs, Silent
  <1>5. RxShape'
    <2>1. Len(rx'.hdr) < HeaderSize'
      BY <1>4 DEF HeaderSize
    <2>2. QED
      BY <1>4, <2>1 DEF RxShape
  <1>6. ASSUME Underway
        PROVE  /\ Position' = Position + 1 /\ Position' < Len(BytesOf(cur))
               /\ \A i \in 1 .. Len(rx'.hdr) : rx'.hdr[i] = BytesOf(cur)[1 + i]
               /\ \A i \in 1 .. Len(rx'.body) : rx'.body[i] = BytesOf(cur)[6 + i]
    <2>1. Head(line) = BytesOf(cur)[1]
      BY <1>1, <1>2, <1>3, <1>6, NextByte
    <2>2. Head(line) = StartByte
      BY <1>1, <1>6, <2>1, CurLayout DEF StartByte, IsFrame, FrameLayout, AckLayout
    <2>3. Position' = 1
      BY <1>4, <2>2 DEF Position
    <2>4. Len(BytesOf(cur)) \in Nat /\ Len(BytesOf(cur)) >= 5
      BY <1>1, SentBytes DEF FrameTypes
    <2>5. Len(rx'.hdr) = 0 /\ Len(rx'.body) = 0
      BY <1>4
    <2> DEFINE v == Len(BytesOf(cur))
    <2> HIDE DEF v
    <2>6. 1 < v
      BY <2>4 DEF v
    <2>7. QED
      BY <1>3, <2>3, <2>5, <2>6 DEF v
  <1>7. \A i \in 1 .. Len(rx'.hdr) : rx'.hdr[i] \in PlainBytes
    BY <1>4
  <1>8. QED
    BY <1>2, <1>4, <1>5, <1>6, <1>7, ReadKeeps

\* Bytes appended to a buffer, which holds a stretch of w.
Appends(S1, s1, b, t1, w, d) ==
    /\ t1 \in Seq(S1) /\ Len(t1) = Len(s1) + 1 /\ t1[Len(s1) + 1] = b /\ Len(s1) \in Nat
    /\ \A i \in 1 .. Len(s1) : t1[i] = s1[i]
    /\ (\A i \in 1 .. Len(s1) : s1[i] = w[d + i]) /\ b = w[d + Len(s1) + 1]
         => \A i \in 1 .. Len(t1) : t1[i] = w[d + i]
    /\ (\A i \in 1 .. Len(s1) : s1[i] \in PlainBytes) /\ b \in PlainBytes
         => \A i \in 1 .. Len(t1) : t1[i] \in PlainBytes

LEMMA AppendMatches ==
    ASSUME NEW S1, NEW s1 \in Seq(S1), NEW b \in S1, NEW w, NEW d \in Nat, NEW t1, t1 = Append(s1, b)
    PROVE  Appends(S1, s1, b, t1, w, d)
  <1>1. t1 \in Seq(S1) /\ Len(t1) = Len(s1) + 1 /\ t1[Len(s1) + 1] = b /\ Len(s1) \in Nat
    OBVIOUS
  <1>2. \A i \in 1 .. Len(s1) : t1[i] = s1[i]
    OBVIOUS
  <1> DEFINE n == Len(s1)
  <1> HIDE DEF n
  <1>3. n \in Nat /\ Len(t1) = n + 1 /\ t1[n + 1] = b /\ \A i \in 1 .. n : t1[i] = s1[i]
    BY <1>1, <1>2 DEF n
  <1>4. \A i \in 1 .. n + 1 : i \in 1 .. n \/ i = n + 1
    BY <1>3
  <1>5. d + n + 1 = d + (n + 1)
    BY <1>3
  <1>6. ASSUME \A i \in 1 .. n : s1[i] = w[d + i], b = w[d + n + 1], NEW i \in 1 .. n + 1
        PROVE  t1[i] = w[d + i]
    BY <1>3, <1>4, <1>5, <1>6
  <1>7. ASSUME \A i \in 1 .. n : s1[i] \in PlainBytes, b \in PlainBytes, NEW i \in 1 .. n + 1
        PROVE  t1[i] \in PlainBytes
    BY <1>3, <1>4, <1>7
  <1>8. QED
    BY <1>1, <1>2, <1>3, <1>6, <1>7 DEF n, Appends

\* The header, with its check sequence, is good when it is cur's.
HoldsHeader(h, w) == Len(h) = 4 /\ \A i \in 1 .. 4 : h[i] = w[1 + i]

LEMMA HeaderGood ==
    ASSUME NEW f, NEW w, NEW m, FrameLayout(f, w, m), f.iden \in Nat,
           NEW h \in Seq(WireBytes), HoldsHeader(h, w)
    PROVE  FcsOk(h) /\ h[2][1] = m /\ h[1][1] = f.iden
  <1>1. /\ h[1] = <<f.iden>> /\ h[2] = <<m>> /\ m \in Nat
        /\ h[3] = <<"lo", <<w[2], w[3]>>>> /\ h[4] = <<"hi", <<w[2], w[3]>>>>
        /\ w[2] = <<f.iden>> /\ w[3] = <<m>> /\ Len(h) = 4
    BY DEF FrameLayout, HoldsHeader
  <1> DEFINE x == w[2]
             y == w[3]
             c == <<x, y>>
  <1>2. x \in PlainBytes /\ y \in PlainBytes
    BY <1>1, PlainByte
  <1>3. h[1] = x /\ h[2] = y /\ h[3] = <<"lo", c>> /\ h[4] = <<"hi", c>>
    BY <1>1
  <1> HIDE DEF x, y
  <1>4. c \in Seq(PlainBytes) /\ Len(c) = 2 /\ c[1] = x /\ c[2] = y
    BY <1>2
  <1> HIDE DEF c
  <1>5. \A i \in 1 .. Len(c) : h[i] = c[i]
    BY <1>3, <1>4
  <1>6. Len(h) = Len(c) + 2 /\ h[Len(c) + 1] = <<"lo", c>> /\ h[Len(c) + 2] = <<"hi", c>>
    BY <1>1, <1>3, <1>4
  <1>7. FcsOk(h)
    BY <1>4, <1>5, <1>6, FcsOkHolds
  <1>8. QED
    BY <1>1, <1>7, PlainByte

\* The size of the body, in a good header.
LEMMA BodySizeType ==
    ASSUME rx \in Receivers, FcsOk(rx.hdr), Len(rx.hdr) = 4
    PROVE  BodySize \in Nat /\ BodySize >= 2
  <1>1. rx.hdr[2] \in PlainBytes
    <2> DEFINE h == rx.hdr
    <2>1. h \in Seq(WireBytes) /\ FcsOk(h) /\ Len(h) = 4
      BY ReceiverFields
    <2> HIDE DEF h
    <2>2. \A i \in 1 .. Len(h) - 2 : h[i] \in PlainBytes
      BY <2>1, FcsOkFacts
    <2>3. 2 \in 1 .. Len(h) - 2
      BY <2>1
    <2>4. QED
      BY <2>2, <2>3 DEF h
  <1>2. rx.hdr[2][1] \in Nat
    BY <1>1, PlainByte
  <1>3. QED
    BY <1>2 DEF BodySize

LEMMA ReadHeaderKeeps ==
    ASSUME FrameInv, line # <<>>, line' = Tail(line), got' = got,
           script' = script, cur' = cur, rest' = rest, faults' = faults, due' = due, clean' = clean,
           rx.pc = "hdr", rx' = AfterHeader(Head(line))
    PROVE  FrameInv'
  <1>1. FrameTypes /\ RxShape /\ rx \in Receivers
    BY DEF FrameInv, FrameTypes
  <1> DEFINE b == Head(line)
             h == Append(rx.hdr, b)
             w == BytesOf(cur)
             k == Len(rx.hdr)
  <1>2. b \in WireBytes /\ rx.hdr \in Seq(WireBytes) /\ k \in Nat /\ k < HeaderSize /\ rx.body = <<>>
    BY <1>1, NextByte, ReceiverFields DEF RxShape
  <1>3. /\ h \in Seq(WireBytes) /\ Len(h) = k + 1
        /\ (\A i \in 1 .. k : rx.hdr[i] = w[1 + i]) /\ b = w[1 + k + 1]
             => \A i \in 1 .. Len(h) : h[i] = w[1 + i]
        /\ (\A i \in 1 .. k : rx.hdr[i] \in PlainBytes) /\ b \in PlainBytes
             => \A i \in 1 .. Len(h) : h[i] \in PlainBytes
    <2>1. Appends(WireBytes, rx.hdr, b, h, w, 1)
      BY <1>2, AppendMatches
    <2> HIDE DEF h, b, w
    <2>2. QED
      BY <2>1 DEF Appends
  <1>4. rx' = IF Len(h) < HeaderSize THEN [rx EXCEPT !.hdr = h]
              ELSE IF rx.call.kind = "ack" THEN [rx EXCEPT !.hdr = h, !.pc = "eot"]
              ELSE IF FcsOk(h) THEN [rx EXCEPT !.hdr = h, !.pc = "stx"]
              ELSE Waiting(rx)
    BY DEF AfterHeader
  <1>5. HeaderSize = IF IsFrame THEN 4 ELSE 3
    BY DEF HeaderSize, IsFrame
  <1>6. rx.call.kind = "ack" <=> ~IsFrame
    BY <1>1, ReceiverFields DEF IsFrame
  <1>7. Position = 1 + k /\ k + 1 <= HeaderSize /\ (k + 1 < HeaderSize \/ k + 1 = HeaderSize)
    BY <1>2, <1>5 DEF Position
  <1> HIDE DEF b, h, w, k
  <1>8. ASSUME Underway
        PROVE  /\ \A i \in 1 .. Len(h) : h[i] = w[1 + i]
               /\ IsFrame => /\ FrameLayout(cur, w, Len(cur.body)) /\ Len(w) >= 10
                             /\ Len(w) \in Nat /\ cur.iden \in Nat
               /\ ~IsFrame => Len(w) = 5
    <2>1. b = w[Position + 1] /\ \A i \in 1 .. k : rx.hdr[i] = w[1 + i]
      BY <1>1, <1>8, NextByte DEF Underway, b, w, k
    <2>2. Position + 1 = 1 + k + 1
      BY <1>2, <1>7
    <2>3. \A i \in 1 .. Len(h) : h[i] = w[1 + i]
      BY <1>3, <2>1, <2>2
    <2>4. ASSUME IsFrame
          PROVE FrameLayout(cur, w, Len(cur.body)) /\ Len(w) >= 10 /\ Len(w) \in Nat /\ cur.iden \in Nat
      <3>1. FrameLayout(cur, w, Len(cur.body))
        BY <1>1, <1>8, <2>4, CurLayout DEF w
      <3> DEFINE m == Len(cur.body)
      <3> HIDE DEF m
      <3>2. m \in Nat /\ Len(w) = m + 10
        BY <3>1 DEF FrameLayout, m
      <3>3. Len(w) >= 10 /\ Len(w) \in Nat
        BY <3>2
      <3>4. QED
        BY <1>1, <3>1, <3>3 DEF FrameTypes, Transmissions
    <2>5. ASSUME ~IsFrame PROVE Len(w) = 5
      BY <1>1, <1>8, <2>5, CurLayout DEF w, AckLayout
    <2>6. QED
      BY <2>3, <2>4, <2>5
  <1>9. ASSUME Arrived PROVE \A i \in 1 .. Len(h) : h[i] \in PlainBytes
    <2>1. b \in PlainBytes /\ \A i \in 1 .. k : rx.hdr[i] \in PlainBytes
      BY <1>1, <1>9, NextByte DEF Arrived, b, k
    <2>2. QED
      BY <1>3, <2>1
  <1>10. CASE k + 1 < HeaderSize
    <2>1. rx' = [rx EXCEPT !.hdr = h]
      BY <1>3, <1>4, <1>10
    <2>2. /\ rx' \in Receivers /\ rx'.pc = "hdr" /\ rx'.hdr = h /\ rx'.body = <<>> /\ rx'.call = rx.call
      BY <1>1, <1>2, <1>3, <2>1 DEF Receivers
    <2>3. HeaderSize' = HeaderSize /\ Position' = 1 + Len(h)
      BY <2>2 DEF HeaderSize, Position
    <2>4. RxShape'
      BY <1>3, <1>10, <2>2, <2>3 DEF RxShape
    <2>5. ASSUME Underway
          PROVE  /\ Position' = Position + 1 /\ Position' < Len(w)
                 /\ \A i \in 1 .. Len(rx'.hdr) : rx'.hdr[i] = w[1 + i]
                 /\ \A i \in 1 .. Len(rx'.body) : rx'.body[i] = w[6 + i]
      <3>1. k \in Nat /\ Len(h) = k + 1 /\ Position = 1 + k /\ Position' = 1 + Len(h)
        BY <1>2, <1>3, <1>7, <2>3
      <3>2. IsFrame => k + 1 < 4 /\ Len(w) >= 10 /\ Len(w) \in Nat
        BY <1>5, <1>8, <1>10, <2>5
      <3>3. ~IsFrame => k + 1 < 3 /\ Len(w) = 5
        BY <1>5, <1>8, <1>10, <2>5
      <3> DEFINE v == Len(w)
      <3> HIDE DEF v
      <3>4. (k + 1 < 4 /\ v >= 10 /\ v \in Nat) \/ (k + 1 < 3 /\ v = 5)
        BY <3>2, <3>3 DEF v
      <3>5. Position' = Position + 1 /\ Position' < v
        BY <3>1, <3>4
      <3>6. QED
        BY <1>8, <2>2, <2>5, <3>5 DEF v
    <2>6. Arrived => \A i \in 1 .. Len(rx'.hdr) : rx'.hdr[i] \in PlainBytes
      BY <1>9, <2>2
    <2>7. QED
      BY <2>2, <2>4, <2>5, <2>6, ReadKeeps DEF w
  <1>11. CASE k + 1 = HeaderSize /\ ~IsFrame
    <2>1. rx' = [rx EXCEPT !.hdr = h, !.pc = "eot"] /\ Len(h) = 3
      BY <1>3, <1>4, <1>5, <1>6, <1>11
    <2>2. /\ rx' \in Receivers /\ rx'.pc = "eot" /\ rx'.hdr = h /\ rx'.body = <<>> /\ rx'.call = rx.call
      BY <1>1, <1>2, <1>3, <2>1 DEF Receivers, Pcs, Silent
    <2>3. HeaderSize' = 3 /\ Position' = 4 /\ ~IsFrame'
      BY <1>11, <2>2 DEF HeaderSize, Position, IsFrame
    <2>4. RxShape'
      BY <2>1, <2>2, <2>3 DEF RxShape
    <2>5. k = 2 /\ Position = 3
      BY <1>2, <1>5, <1>7, <1>11
    <2>6. Underway =>
                 /\ Position' = Position + 1 /\ Position' < Len(w)
                 /\ \A i \in 1 .. Len(rx'.hdr) : rx'.hdr[i] = w[1 + i]
                 /\ \A i \in 1 .. Len(rx'.body) : rx'.body[i] = w[6 + i]
      <3>1. Underway => Len(w) = 5
        BY <1>8, <1>11
      <3>2. Underway => Position' = Position + 1 /\ Position' < Len(w)
        <4>1. Position' = 4 /\ Position = 3
          BY <2>3, <2>5
        <4>2. Position' = Position + 1 /\ Position' < 5
          BY <4>1
        <4>3. QED
          BY <3>1, <4>2
      <3>3. Len(rx'.body) = 0
        BY <2>2
      <3>4. \A i \in 1 .. Len(rx'.body) : rx'.body[i] = w[6 + i]
        BY <3>3
      <3>5. Underway => \A i \in 1 .. Len(rx'.hdr) : rx'.hdr[i] = w[1 + i]
        BY <1>8, <2>2
      <3>6. QED
        BY <3>2, <3>4, <3>5
    <2>7. Arrived => \A i \in 1 .. Len(rx'.hdr) : rx'.hdr[i] \in PlainBytes
      BY <1>9, <2>2
    <2>8. QED
      BY <2>2, <2>4, <2>6, <2>7, ReadKeeps DEF w
  <1>12. CASE k + 1 = HeaderSize /\ IsFrame /\ FcsOk(h)
    <2>1. rx' = [rx EXCEPT !.hdr = h, !.pc = "stx"] /\ Len(h) = 4
      BY <1>3, <1>4, <1>5, <1>6, <1>12
    <2>2. /\ rx' \in Receivers /\ rx'.pc = "stx" /\ rx'.hdr = h /\ rx'.body = <<>> /\ rx'.call = rx.call
      BY <1>1, <1>2, <1>3, <2>1 DEF Receivers, Pcs, Silent
    <2>3. HeaderSize' = 4 /\ Position' = 5 /\ IsFrame'
      BY <1>12, <2>2 DEF HeaderSize, Position, IsFrame
    <2>4. RxShape'
      <3>1. FcsOk(rx.hdr)'
        BY <1>12, <2>2 DEF FcsOk, fcs16
      <3>2. QED
        BY <2>1, <2>2, <2>3, <3>1 DEF RxShape
    <2>5. k = 3 /\ Position = 4
      BY <1>2, <1>5, <1>7, <1>12
    <2>6. Underway =>
                 /\ Position' = Position + 1 /\ Position' < Len(w)
                 /\ \A i \in 1 .. Len(rx'.hdr) : rx'.hdr[i] = w[1 + i]
                 /\ \A i \in 1 .. Len(rx'.body) : rx'.body[i] = w[6 + i]
      BY <1>8, <1>12, <2>2, <2>3, <2>5
    <2>7. Arrived => \A i \in 1 .. Len(rx'.hdr) : rx'.hdr[i] \in PlainBytes
      BY <1>9, <2>2
    <2>8. QED
      BY <2>2, <2>4, <2>6, <2>7, ReadKeeps DEF w
  <1>13. CASE k + 1 = HeaderSize /\ IsFrame /\ ~FcsOk(h)
    <2>1. rx' = Waiting(rx) /\ Len(h) = 4
      BY <1>3, <1>4, <1>5, <1>6, <1>13
    <2>2. rx' \in Receivers /\ rx'.pc = "start" /\ rx'.hdr = <<>> /\ rx'.body = <<>> /\ rx'.call = rx.call
      BY <1>1, <2>1, WaitingFacts
    <2>3. RxShape'
      BY <2>2, WaitsInShape
    <2>4. ~Underway
      <3>1. ASSUME Underway PROVE FALSE
        <4>1. HoldsHeader(h, w)
          BY <1>8, <2>1, <3>1 DEF HoldsHeader
        <4>2. FrameLayout(cur, w, Len(cur.body)) /\ cur.iden \in Nat
          BY <1>8, <1>13, <3>1
        <4>3. FcsOk(h)
          BY <1>3, <4>1, <4>2, HeaderGood
        <4>4. QED
          BY <1>13, <4>3
      <3>2. QED
        BY <3>1
    <2>5. \A i \in 1 .. Len(rx'.hdr) : rx'.hdr[i] \in PlainBytes
      BY <2>2
    <2>6. QED
      BY <2>2, <2>3, <2>4, <2>5, ReadKeeps
  <1>14. QED
    BY <1>7, <1>10, <1>11, <1>12, <1>13

LEMMA ReadStxKeeps ==
    ASSUME FrameInv, line # <<>>, line' = Tail(line), got' = got,
           script' = script, cur' = cur, rest' = rest, faults' = faults, due' = due, clean' = clean,
           rx.pc = "stx", rx' = AfterStx(Head(line))
    PROVE  FrameInv'
  <1>1. FrameTypes /\ RxShape /\ rx \in Receivers
    BY DEF FrameInv, FrameTypes
  <1> DEFINE w == BytesOf(cur)
  <1>2. IsFrame /\ Len(rx.hdr) = 4 /\ FcsOk(rx.hdr) /\ rx.body = <<>> /\ Position = 5
    BY <1>1 DEF RxShape, IsFrame, HeaderSize, Position
  <1>3. ASSUME Underway PROVE Head(line) = ASC_STX /\ Len(w) > 6
    <2>1. FrameLayout(cur, w, Len(cur.body)) /\ Head(line) = w[6]
      BY <1>1, <1>2, <1>3, CurLayout, NextByte
    <2> DEFINE m == Len(cur.body)
    <2> HIDE DEF m, w
    <2>2. m \in Nat /\ Len(w) = m + 10 /\ w[6] = ASC_STX
      BY <2>1 DEF FrameLayout, m
    <2>3. Len(w) > 6
      BY <2>2
    <2>4. QED
      BY <2>1, <2>2, <2>3
  <1> HIDE DEF w
  <1>4. CASE Head(line) = ASC_STX
    <2>1. rx' = [rx EXCEPT !.pc = "body"]
      BY <1>4 DEF AfterStx
    <2>2. /\ rx' \in Receivers /\ rx'.pc = "body" /\ rx'.hdr = rx.hdr /\ rx'.body = <<>> /\ rx'.call = rx.call
      BY <1>1, <1>2, <2>1 DEF Receivers, Pcs, Silent
    <2>3. HeaderSize' = 4 /\ Position' = 6 /\ IsFrame' /\ BodySize' = BodySize
      BY <1>2, <2>2 DEF HeaderSize, Position, IsFrame, BodySize
    <2>4. BodySize \in Nat /\ BodySize >= 2
      BY <1>1, <1>2, BodySizeType
    <2>5. FcsOk(rx.hdr)' /\ Len(rx'.body) < BodySize'
      <3>1. FcsOk(rx.hdr)'
        BY <1>2, <2>2 DEF FcsOk, fcs16
      <3>2. Len(rx'.body) = 0
        BY <2>2
      <3>3. QED
        BY <2>3, <2>4, <3>1, <3>2
    <2>6. RxShape'
      BY <1>2, <2>2, <2>3, <2>5 DEF RxShape
    <2>7. Underway =>
                 /\ Position' = Position + 1 /\ Position' < Len(w)
                 /\ \A i \in 1 .. Len(rx'.hdr) : rx'.hdr[i] = w[1 + i]
                 /\ \A i \in 1 .. Len(rx'.body) : rx'.body[i] = w[6 + i]
      <3>1. Underway => Position' = Position + 1 /\ Position' < Len(w)
        BY <1>2, <1>3, <2>3
      <3>2. Len(rx'.body) = 0
        BY <2>2
      <3>3. \A i \in 1 .. Len(rx'.body) : rx'.body[i] = w[6 + i]
        BY <3>2
      <3>4. Underway => \A i \in 1 .. Len(rx'.hdr) : rx'.hdr[i] = w[1 + i]
        BY <2>2 DEF Underway, w
      <3>5. QED
        BY <3>1, <3>3, <3>4
    <2>8. Arrived => \A i \in 1 .. Len(rx'.hdr) : rx'.hdr[i] \in PlainBytes
      BY <2>2 DEF Arrived
    <2>9. QED
      BY <2>2, <2>6, <2>7, <2>8, ReadKeeps DEF w
  <1>5. CASE Head(line) # ASC_STX
    <2>1. rx' = Waiting(rx)
      BY <1>5 DEF AfterStx
    <2>2. rx' \in Receivers /\ rx'.pc = "start" /\ rx'.hdr = <<>> /\ rx'.body = <<>> /\ rx'.call = rx.call
      BY <1>1, <2>1, WaitingFacts
    <2>3. RxShape' /\ ~Underway /\ \A i \in 1 .. Len(rx'.hdr) : rx'.hdr[i] \in PlainBytes
      BY <1>3, <1>5, <2>2, WaitsInShape
    <2>4. QED
      BY <2>2, <2>3, ReadKeeps
  <1>6. QED
    BY <1>4, <1>5

\* Where the receiver is once the header has told the size of the body.
LEMMA BodyOfCur ==
    ASSUME FrameTypes, Underway, IsFrame, Len(rx.hdr) = 4, NEW m, m = Len(cur.body)
    PROVE  FrameLayout(cur, BytesOf(cur), m) /\ BodySize = m + 2 /\ rx.hdr[1][1] = cur.iden
  <1> DEFINE w == BytesOf(cur)
  <1>1. FrameLayout(cur, w, m) /\ cur.iden \in Nat /\ rx.hdr \in Seq(WireBytes)
    BY CurLayout, ReceiverFields DEF FrameTypes, Transmissions
  <1>2. HoldsHeader(rx.hdr, w)
    BY DEF Underway, HoldsHeader
  <1> HIDE DEF w
  <1>3. rx.hdr[2][1] = m /\ rx.hdr[1][1] = cur.iden
    BY <1>1, <1>2, HeaderGood
  <1>4. QED
    BY <1>1, <1>3 DEF BodySize, w

LEMMA ReadBodyKeeps ==
    ASSUME FrameInv, line # <<>>, line' = Tail(line), got' = got,
           script' = script, cur' = cur, rest' = rest, faults' = faults, due' = due, clean' = clean,
           rx.pc = "body", rx' = AfterBody(Head(line))
    PROVE  FrameInv'
  <1>1. FrameTypes /\ RxShape /\ rx \in Receivers
    BY DEF FrameInv, FrameTypes
  <1> DEFINE w == BytesOf(cur)
             b == Head(line)
             k == Len(rx.body)
             d == Append(rx.body, b)
             z == IF Len(d) = BodySize THEN "etx" ELSE "body"
  <1>2. IsFrame /\ Len(rx.hdr) = 4 /\ FcsOk(rx.hdr) /\ k < BodySize /\ Position = 6 + k
    BY <1>1 DEF RxShape, IsFrame, HeaderSize, Position
  <1>3. BodySize \in Nat /\ b \in WireBytes /\ rx.body \in Seq(WireBytes) /\ k \in Nat
    BY <1>1, <1>2, BodySizeType, NextByte, ReceiverFields
  <1>4. Appends(WireBytes, rx.body, b, d, w, 6)
    BY <1>3, AppendMatches
  <1>5. rx' = [rx EXCEPT !.body = d, !.pc = z]
    BY DEF AfterBody
  <1> HIDE DEF w, b, d
  <1>6. /\ d \in Seq(WireBytes) /\ Len(d) = k + 1
        /\ (\A i \in 1 .. k : rx.body[i] = w[6 + i]) /\ b = w[6 + k + 1]
              => \A i \in 1 .. Len(d) : d[i] = w[6 + i]
    BY <1>4 DEF Appends
  <1> HIDE DEF k
  <1>7. z \in {"etx", "body"} /\ (z = "etx" => Len(d) = BodySize) /\ (z = "body" => Len(d) < BodySize)
    <2>1. k \in Nat /\ BodySize \in Nat /\ Len(d) = k + 1 /\ k < BodySize
      BY <1>2, <1>3, <1>6
    <2>2. Len(d) = BodySize \/ Len(d) < BodySize
      BY <2>1
    <2>3. QED
      BY <2>2
  <1> HIDE DEF z
  <1>8. /\ rx' \in Receivers /\ rx'.pc = z /\ rx'.hdr = rx.hdr /\ rx'.body = d /\ rx'.call = rx.call
    BY <1>1, <1>5, <1>6, <1>7 DEF Receivers, Pcs, Silent
  <1>9. HeaderSize' = 4 /\ IsFrame' /\ BodySize' = BodySize /\ Position' = 6 + Len(d)
    BY <1>2, <1>7, <1>8 DEF HeaderSize, Position, IsFrame, BodySize
  <1>10. FcsOk(rx.hdr)'
    BY <1>2, <1>8 DEF FcsOk, fcs16
  <1>11. RxShape'
    BY <1>2, <1>7, <1>8, <1>9, <1>10 DEF RxShape
  <1>12. ASSUME Underway
         PROVE  /\ Position' = Position + 1 /\ Position' < Len(w)
                /\ \A i \in 1 .. Len(rx'.hdr) : rx'.hdr[i] = w[1 + i]
                /\ \A i \in 1 .. Len(rx'.body) : rx'.body[i] = w[6 + i]
    <2> DEFINE m == Len(cur.body)
    <2>1. FrameLayout(cur, w, m) /\ BodySize = m + 2
      BY <1>1, <1>2, <1>12, BodyOfCur DEF w
    <2> HIDE DEF m
    <2>2. m \in Nat /\ Len(w) = m + 10
      BY <2>1 DEF FrameLayout
    <2>3. b = w[Position + 1] /\ (\A i \in 1 .. k : rx.body[i] = w[6 + i])
          /\ \A i \in 1 .. Len(rx.hdr) : rx.hdr[i] = w[1 + i]
      BY <1>1, <1>12, NextByte DEF b, w, k, Underway
    <2>4. Position + 1 = 6 + k + 1
      BY <1>2, <1>3
    <2>5. \A i \in 1 .. Len(d) : d[i] = w[6 + i]
      BY <1>6, <2>3, <2>4
    <2>6. Position' = Position + 1 /\ Position' < Len(w)
      <3>1. k \in Nat /\ m \in Nat /\ k < m + 2 /\ Len(w) = m + 10 /\ Position = 6 + k /\ Position' = 6 + (k + 1)
        BY <1>2, <1>3, <1>6, <1>9, <2>1, <2>2
      <3>2. QED
        BY <3>1
    <2>7. QED
      BY <1>8, <2>3, <2>5, <2>6
  <1>13. Arrived => \A i \in 1 .. Len(rx'.hdr) : rx'.hdr[i] \in PlainBytes
    BY <1>8 DEF Arrived
  <1>14. QED
    BY <1>8, <1>11, <1>12, <1>13, ReadKeeps DEF w

LEMMA ReadEtxKeeps ==
    ASSUME FrameInv, line # <<>>, line' = Tail(line), got' = got,
           script' = script, cur' = cur, rest' = rest, faults' = faults, due' = due, clean' = clean,
           rx.pc = "etx", rx' = AfterEtx(Head(line))
    PROVE  FrameInv'
  <1>1. FrameTypes /\ RxShape /\ rx \in Receivers
    BY DEF FrameInv, FrameTypes
  <1> DEFINE w == BytesOf(cur)
             k == Len(rx.body)
  <1>2. IsFrame /\ Len(rx.hdr) = 4 /\ FcsOk(rx.hdr) /\ k = BodySize /\ Position = 6 + k
    BY <1>1 DEF RxShape, IsFrame, HeaderSize, Position
  <1>3. k \in Nat
    BY <1>1, ReceiverFields
  <1> HIDE DEF w, k
  <1>4. ASSUME Underway PROVE Head(line) = ASC_ETX /\ 7 + k < Len(w)
    <2> DEFINE m == Len(cur.body)
    <2>1. FrameLayout(cur, w, m) /\ BodySize = m + 2
      BY <1>1, <1>2, <1>4, BodyOfCur DEF w
    <2> HIDE DEF m
    <2>2. m \in Nat /\ Len(w) = m + 10 /\ w[6 + m + 3] = ASC_ETX
      BY <2>1 DEF FrameLayout
    <2>3. Head(line) = w[Position + 1]
      BY <1>1, <1>4, NextByte DEF w
    <2>4. Position + 1 = 6 + m + 3 /\ 7 + k < m + 10
      BY <1>2, <2>1, <2>2
    <2>5. QED
      BY <2>2, <2>3, <2>4
  <1>5. CASE Head(line) = ASC_ETX
    <2>1. rx' = [rx EXCEPT !.pc = "eot"]
      BY <1>5 DEF AfterEtx
    <2>2. /\ rx' \in Receivers /\ rx'.pc = "eot" /\ rx'.hdr = rx.hdr /\ rx'.body = rx.body /\ rx'.call = rx.call
      BY <1>1, <1>2, <2>1 DEF Receivers, Pcs, Silent
    <2>3. HeaderSize' = 4 /\ Position' = 7 + k /\ IsFrame' /\ BodySize' = BodySize
      BY <1>2, <2>2 DEF HeaderSize, Position, IsFrame, BodySize, k
    <2>4. FcsOk(rx.hdr)' /\ Len(rx'.body) = BodySize'
      BY <1>2, <2>2, <2>3 DEF FcsOk, fcs16, k
    <2>5. RxShape'
      BY <1>2, <2>2, <2>3, <2>4 DEF RxShape
    <2>6. Underway =>
                 /\ Position' = Position + 1 /\ Position' < Len(w)
                 /\ \A i \in 1 .. Len(rx'.hdr) : rx'.hdr[i] = w[1 + i]
                 /\ \A i \in 1 .. Len(rx'.body) : rx'.body[i] = w[6 + i]
      <3>1. Underway => Position' < Len(w)
        BY <1>4, <2>3
      <3>2. Position' = Position + 1
        BY <1>2, <1>3, <2>3
      <3>3. Underway => /\ \A i \in 1 .. Len(rx'.hdr) : rx'.hdr[i] = w[1 + i]
                        /\ \A i \in 1 .. Len(rx'.body) : rx'.body[i] = w[6 + i]
        BY <2>2 DEF Underway, w
      <3>4. QED
        BY <3>1, <3>2, <3>3
    <2>7. Arrived => \A i \in 1 .. Len(rx'.hdr) : rx'.hdr[i] \in PlainBytes
      BY <2>2 DEF Arrived
    <2>8. QED
      BY <2>2, <2>5, <2>6, <2>7, ReadKeeps DEF w
  <1>6. CASE Head(line) # ASC_ETX
    <2>1. rx' = Waiting(rx)
      BY <1>6 DEF AfterEtx
    <2>2. rx' \in Receivers /\ rx'.pc = "start" /\ rx'.hdr = <<>> /\ rx'.body = <<>> /\ rx'.call = rx.call
      BY <1>1, <2>1, WaitingFacts
    <2>3. RxShape' /\ ~Underway /\ \A i \in 1 .. Len(rx'.hdr) : rx'.hdr[i] \in PlainBytes
      BY <1>4, <1>6, <2>2, WaitsInShape
    <2>4. QED
      BY <2>2, <2>3, ReadKeeps
  <1>7. QED
    BY <1>5, <1>6

\* What a good frame or acknowledgement hands to the caller.
LEMMA ReceivedType ==
    ASSUME FrameTypes, RxShape, rx.pc = "eot", NEW b, Accepts(b)
    PROVE  /\ Received \in Transmissions
           /\ ~Arrived \/ IsFrame
  <1>1. rx \in Receivers /\ rx.hdr \in Seq(WireBytes) /\ rx.body \in Seq(WireBytes)
        /\ rx.call \in Transmissions
    BY ReceiverFields DEF FrameTypes
  <1>2. CASE IsFrame
    <2> DEFINE c == SubSeq(rx.body, 1, Len(rx.body) - 2)
               x == rx.hdr[1][1]
    <2>1. FcsOk(rx.hdr) /\ Len(rx.hdr) = 4 /\ FcsOk(rx.body)
      BY <1>2 DEF RxShape, HeaderSize, IsFrame, Accepts
    <2>2. c \in Seq(PlainBytes)
      BY <1>1, <2>1, FcsOkFacts
    <2>3. x \in Nat
      <3> DEFINE h == rx.hdr
      <3> HIDE DEF h
      <3>1. h \in Seq(WireBytes) /\ FcsOk(h) /\ Len(h) = 4
        BY <1>1, <2>1 DEF h
      <3>2. \A i \in 1 .. Len(h) - 2 : h[i] \in PlainBytes
        BY <3>1, FcsOkFacts
      <3>3. 1 \in 1 .. Len(h) - 2
        BY <3>1
      <3>4. h[1] \in PlainBytes
        BY <3>2, <3>3
      <3>5. QED
        BY <3>4, PlainByte DEF h
    <2>4. Received = [kind |-> "frame", iden |-> x, body |-> c]
      BY <1>2 DEF Received, Frame, IsFrame
    <2> HIDE DEF c, x
    <2>5. QED
      BY <1>2, <2>2, <2>3, <2>4 DEF Transmissions
  <1>3. CASE ~IsFrame
    <2>1. FcsOk(rx.hdr) /\ Len(rx.hdr) = 3 /\ rx.hdr[1] = <<rx.call.iden>> /\ rx.call.kind = "ack"
      BY <1>1, <1>3 DEF RxShape, HeaderSize, IsFrame, Accepts, Transmissions
    <2>2. rx.call.iden \in Nat
      BY <1>1 DEF Transmissions
    <2> DEFINE x == rx.hdr[1][1]
    <2>3. x \in Nat
      BY <2>1, <2>2
    <2>4. Received = [kind |-> "ack", iden |-> x, body |-> <<>>]
      BY <1>3 DEF Received, Ack, IsFrame
    <2> HIDE DEF x
    <2>5. Received \in Transmissions
      BY <2>3, <2>4, EmptySeq DEF Transmissions
    <2>6. ~Arrived
      <3> DEFINE h == rx.hdr
      <3> HIDE DEF h
      <3>1. h \in Seq(WireBytes) /\ FcsOk(h) /\ Len(h) = 3
        BY <1>1, <2>1 DEF h
      <3>2. h[Len(h) - 1] = <<"lo", SubSeq(h, 1, Len(h) - 2)>>
        BY <3>1, FcsOkFacts
      <3>3. Len(h) - 1 = 2 /\ 2 \in 1 .. Len(h)
        BY <3>1
      <3>4. h[2] \notin PlainBytes
        <4>1. h[2] = <<"lo", SubSeq(h, 1, Len(h) - 2)>>
          BY <3>2, <3>3
        <4>2. QED
          BY <4>1, PlainByte
      <3>5. ASSUME Arrived PROVE h[2] \in PlainBytes
        BY <3>3, <3>5 DEF Arrived, h
      <3>6. QED
        BY <3>4, <3>5
    <2>7. QED
      BY <2>5, <2>6
  <1>4. QED
    BY <1>2, <1>3

\* In Arrived the receiver holds no header of a frame either.
LEMMA ArrivedNoFrame ==
    ASSUME FrameTypes, RxShape, rx.pc = "eot", Arrived
    PROVE  ~IsFrame
  <1> SUFFICES ASSUME IsFrame PROVE FALSE
    OBVIOUS
  <1> DEFINE h == rx.hdr
  <1>1. FcsOk(h) /\ Len(h) = 4 /\ h \in Seq(WireBytes)
    BY ReceiverFields DEF RxShape, HeaderSize, IsFrame, FrameTypes
  <1>2. \A i \in 1 .. Len(h) : h[i] \in PlainBytes
    BY DEF Arrived
  <1> HIDE DEF h
  <1>3. h[Len(h) - 1] = <<"lo", SubSeq(h, 1, Len(h) - 2)>>
    BY <1>1, FcsOkFacts
  <1>4. Len(h) - 1 = 3 /\ 3 \in 1 .. Len(h)
    BY <1>1
  <1>5. QED
    BY <1>2, <1>3, <1>4, PlainByte

\* The last byte of cur makes the receiver hand it on.
LEMMA LastByte ==
    ASSUME FrameTypes, RxShape, rx.pc = "eot", Underway, line # <<>>
    PROVE  Accepts(Head(line)) /\ Received = cur /\ Position + 1 = Len(BytesOf(cur))
  <1>1. /\ rx \in Receivers /\ rx.hdr \in Seq(WireBytes) /\ rx.body \in Seq(WireBytes)
        /\ rx.call.kind \in {"frame", "ack"}
        /\ cur \in [kind : {"frame", "ack"}, iden : Nat, body : Seq(PlainBytes)]
    BY ReceiverFields DEF FrameTypes, Transmissions
  <1>2. Head(line) = BytesOf(cur)[Position + 1]
    BY NextByte
  <1>3. CASE IsFrame
    <2> DEFINE w == BytesOf(cur)
               m == Len(cur.body)
               d == rx.body
    <2>1. Len(rx.hdr) = 4 /\ Len(d) = BodySize /\ Position = 7 + Len(d)
      BY <1>3 DEF RxShape, HeaderSize, IsFrame, Position
    <2>2. FrameLayout(cur, w, m) /\ BodySize = m + 2 /\ rx.hdr[1][1] = cur.iden /\ cur.kind = "frame"
      BY <1>3, <2>1, BodyOfCur, CurLayout
    <2>3. (\A i \in 1 .. Len(d) : d[i] = w[6 + i]) /\ Head(line) = w[Position + 1] /\ d \in Seq(WireBytes)
      BY <1>1, <1>2 DEF Underway
    <2> DEFINE c == cur.body
    <2>4. c \in Seq(PlainBytes) /\ Len(c) = m
      BY <1>1
    <2> HIDE DEF w, d, m
    <2>5. /\ m \in Nat /\ Len(w) = m + 10 /\ w[6 + m + 4] = ASC_EOT
          /\ \A i \in 1 .. m : w[6 + i] = c[i]
          /\ w[6 + m + 1] = <<"lo", c>> /\ w[6 + m + 2] = <<"hi", c>>
      BY <2>2 DEF FrameLayout
    <2> HIDE DEF c
    <2>6. Len(d) = m + 2 /\ Position + 1 = 6 + m + 4 /\ Position + 1 = m + 10
      BY <2>1, <2>2, <2>5
    <2>7. Head(line) = ASC_EOT
      BY <2>3, <2>5, <2>6
    <2>8. /\ \A i \in 1 .. m : d[i] = c[i]
          /\ d[m + 1] = <<"lo", c>> /\ d[m + 2] = <<"hi", c>>
      <3>1. \A i \in 1 .. m : i \in 1 .. m + 2
        BY <2>5
      <3>2. m + 1 \in 1 .. m + 2 /\ m + 2 \in 1 .. m + 2 /\ 6 + (m + 1) = 6 + m + 1 /\ 6 + (m + 2) = 6 + m + 2
        BY <2>5
      <3>3. QED
        BY <2>3, <2>5, <2>6, <3>1, <3>2
    <2>9. FcsOk(d) /\ SubSeq(d, 1, Len(d) - 2) = c
      <3>1. Len(d) = Len(c) + 2 /\ (\A i \in 1 .. Len(c) : d[i] = c[i])
            /\ d[Len(c) + 1] = <<"lo", c>> /\ d[Len(c) + 2] = <<"hi", c>>
        BY <2>4, <2>6, <2>8
      <3>2. QED
        BY <2>3, <2>4, <3>1, FcsOkHolds
    <2>10. Accepts(Head(line))
      BY <1>3, <2>7, <2>9 DEF Accepts, IsFrame, d
    <2>11. Received = [kind |-> "frame", iden |-> cur.iden, body |-> c]
      BY <1>3, <2>2, <2>9 DEF Received, Frame, IsFrame, d
    <2>12. Received = cur
      BY <1>1, <2>2, <2>11 DEF c
    <2>13. QED
      BY <2>5, <2>6, <2>10, <2>12 DEF w
  <1>4. CASE ~IsFrame
    <2> DEFINE w == BytesOf(cur)
               h == rx.hdr
    <2>1. Len(h) = 3 /\ Position = 4 /\ rx.call.kind = "ack"
      BY <1>1, <1>4 DEF RxShape, HeaderSize, IsFrame, Position
    <2>2. AckLayout(cur, w) /\ cur.kind = "ack" /\ cur.body = <<>> /\ rx.call.iden = cur.iden
      BY <1>4, CurLayout
    <2>3. (\A i \in 1 .. Len(h) : h[i] = w[1 + i]) /\ Head(line) = w[Position + 1] /\ h \in Seq(WireBytes)
      BY <1>1, <1>2 DEF Underway
    <2> HIDE DEF w, h
    <2> DEFINE x == w[2]
               c == <<x>>
    <2>4. /\ Len(w) = 5 /\ w[5] = ASC_EOT /\ x = <<cur.iden>> /\ w[3] = <<"lo", c>> /\ w[4] = <<"hi", c>>
      BY <2>2 DEF AckLayout
    <2>5. x \in PlainBytes
      BY <1>1, <2>4, PlainByte
    <2>6. h[1] = x /\ h[2] = w[3] /\ h[3] = w[4]
      BY <2>1, <2>3
    <2>7. Head(line) = ASC_EOT /\ Position + 1 = Len(w)
      BY <2>1, <2>3, <2>4
    <2> HIDE DEF x
    <2>8. c \in Seq(PlainBytes) /\ Len(c) = 1 /\ c[1] = x
      BY <2>5
    <2> HIDE DEF c
    <2>9. FcsOk(h)
      <3>1. Len(h) = Len(c) + 2 /\ (\A i \in 1 .. Len(c) : h[i] = c[i])
            /\ h[Len(c) + 1] = <<"lo", c>> /\ h[Len(c) + 2] = <<"hi", c>>
        BY <2>1, <2>4, <2>6, <2>8
      <3>2. QED
        BY <2>3, <2>8, <3>1, FcsOkHolds
    <2>10. h[1] = <<cur.iden>> /\ h[1][1] = cur.iden
      BY <2>4, <2>6
    <2>11. Accepts(Head(line))
      BY <2>1, <2>2, <2>7, <2>9, <2>10 DEF Accepts, h
    <2>12. Received = [kind |-> "ack", iden |-> cur.iden, body |-> <<>>]
      BY <2>1, <2>10 DEF Received, Ack, h
    <2>13. Received = cur
      BY <1>1, <2>2, <2>12
    <2>14. QED
      BY <2>7, <2>11, <2>13 DEF w
  <1>5. QED
    BY <1>3, <1>4

LEMMA ReadLastKeeps ==
    ASSUME FrameInv, ReadLast
    PROVE  FrameInv'
  <1>1. FrameTypes /\ RxShape /\ rx \in Receivers /\ (clean => Underway \/ Arrived)
    BY DEF FrameInv, FrameTypes
  <1>2. /\ rx.pc = "eot" /\ line # <<>> /\ line' = Tail(line)
        /\ script' = script /\ cur' = cur /\ rest' = rest /\ faults' = faults /\ due' = due
        /\ clean' = clean
    BY DEF ReadLast
  <1>3. /\ Waiting(rx) \in Receivers /\ Waiting(rx).pc = "start" /\ Waiting(rx).hdr = <<>>
        /\ Waiting(rx).body = <<>> /\ Waiting(rx).call = rx.call
    BY <1>1, WaitingFacts
  <1>4. CASE ~Accepts(Head(line))
    <2>1. got' = got /\ rx' = Waiting(rx)
      BY <1>4 DEF ReadLast
    <2>2. RxShape' /\ ~Underway /\ \A i \in 1 .. Len(rx'.hdr) : rx'.hdr[i] \in PlainBytes
      BY <1>1, <1>2, <1>3, <1>4, <2>1, WaitsInShape, LastByte
    <2>3. QED
      BY <1>2, <1>3, <2>1, <2>2, ReadKeeps
  <1>5. CASE Accepts(Head(line))
    <2>1. got' = Append(got, Received) /\ rx' = [Waiting(rx) EXCEPT !.pc = "idle"]
      BY <1>5 DEF ReadLast
    <2> DEFINE q == Waiting(rx)
    <2> HIDE DEF q
    <2>2. rx' \in Receivers /\ rx'.pc = "idle" /\ rx'.hdr = <<>> /\ rx'.body = <<>>
      <3>1. q \in Receivers /\ q.hdr = <<>> /\ q.body = <<>> /\ rx' = [q EXCEPT !.pc = "idle"]
        BY <1>3, <2>1 DEF q
      <3>2. QED
        BY <3>1 DEF Receivers, Pcs
    <2>3. RxShape'
      BY <2>2, WaitsInShape
    <2>4. Received \in Transmissions /\ ~Arrived
      BY <1>1, <1>2, <1>5, ReceivedType, ArrivedNoFrame
    <2> DEFINE k == Len(line)
               g == Len(got)
               u == Received
    <2>5. /\ line \in Seq(WireBytes) /\ line' \in Seq(WireBytes) /\ Len(line') = k - 1
          /\ k \in Nat /\ k >= 1 /\ k <= MaxLine
          /\ \A i \in 1 .. k - 1 : line'[i] = line[i + 1]
      BY <1>1, <1>2 DEF FrameTypes
    <2> HIDE DEF u
    <2>6. /\ got' \in Seq(Transmissions) /\ Len(got') = g + 1 /\ g \in Nat
          /\ got'[Len(got')] = u /\ got' # <<>>
      <3>1. got \in Seq(Transmissions) /\ u \in Transmissions /\ got' = Append(got, u)
        BY <1>1, <2>1, <2>4 DEF FrameTypes, u
      <3>2. /\ Append(got, u) \in Seq(Transmissions) /\ Len(Append(got, u)) = Len(got) + 1
            /\ Append(got, u)[Len(got) + 1] = u /\ Len(got) \in Nat
        BY <3>1, AppendProperties
      <3>3. Append(got, u) # <<>>
        BY <3>2
      <3>4. QED
        BY <3>1, <3>2, <3>3
    <2> HIDE DEF k, g
    <2>7. Len(line') <= MaxLine
      BY <2>5, BoundsAssumption
    <2>8. FrameTypes'
      BY <1>1, <1>2, <2>2, <2>5, <2>6, <2>7 DEF FrameTypes
    <2>9. ASSUME clean' PROVE Arrived'
      <3>1. Underway
        BY <1>1, <1>2, <2>4, <2>9
      <3> DEFINE n == Position
                 v == Len(BytesOf(cur))
                 r == Len(rest)
      <3>2. u = cur /\ n + 1 = v /\ n \in Nat
        BY <1>1, <1>2, <3>1, LastByte, NextByte DEF u
      <3>3. r \in Nat /\ rest \in Seq(WireBytes) /\ v \in Nat
        BY <1>1, SentBytes DEF FrameTypes
      <3>4. /\ rest # <<>> => n + k + r = v
            /\ \A i \in 1 .. k : ~(n + i <= v) => line[i] \in PlainBytes
        BY <3>1 DEF Underway, k
      <3>5. rest # <<>> => r >= 1
        BY <3>3
      <3> HIDE DEF n, v, r
      <3>6. rest = <<>>
        <4>1. n \in Nat /\ k \in Nat /\ k >= 1 /\ r \in Nat /\ n + 1 = v
          BY <2>5, <3>2, <3>3
        <4>2. ~(r >= 1 /\ n + k + r = v)
          BY <4>1
        <4>3. QED
          BY <3>4, <3>5, <4>2
      <3>7. ASSUME NEW i \in 1 .. k - 1 PROVE line'[i] \in PlainBytes
        <4>1. n \in Nat /\ k \in Nat /\ n + 1 = v
          BY <2>5, <3>2
        <4>2. i + 1 \in 1 .. k /\ ~(n + (i + 1) <= v)
          BY <4>1
        <4>3. QED
          BY <2>5, <3>4, <4>2
      <3>8. \A i \in 1 .. Len(rx'.hdr) : rx'.hdr[i] \in PlainBytes
        BY <2>2
      <3>9. QED
        BY <1>2, <2>5, <2>6, <3>2, <3>6, <3>7, <3>8 DEF Arrived
    <2>10. QED
      BY <2>3, <2>8, <2>9 DEF FrameInv
  <1>6. QED
    BY <1>4, <1>5

\* Every step of the line and of the receiver keeps the invariant.
LEMMA FrameKeeps ==
    ASSUME FrameInv, Next \/ UNCHANGED vars
    PROVE  FrameInv'
  <1>1. CASE ReadInside
    BY <1>1, ReadHeaderKeeps, ReadStxKeeps, ReadBodyKeeps, ReadEtxKeeps DEF ReadInside
  <1>2. QED
    BY <1>1, StartKeeps, PutKeeps, DisturbedKeeps, ChatterKeeps, CallKeeps, TimerKeeps,
       ReadStartKeeps, ReadLastKeeps DEF Next, Receiver

LEMMA FrameImplies == FrameInv => TypeOK /\ IntactDelivered
  <1> SUFFICES ASSUME FrameInv PROVE TypeOK /\ IntactDelivered
    OBVIOUS
  <1>1. FrameTypes /\ RxShape /\ rx \in Receivers
    BY DEF FrameInv, FrameTypes
  <1>2. rx.pc \in Pcs /\ Len(rx.hdr) \in Nat /\ Len(rx.body) \in Nat
    BY <1>1, ReceiverFields
  <1>3. Len(rx.hdr) <= HeaderSize
    <2>1. HeaderSize \in {3, 4}
      BY DEF HeaderSize
    <2>2. CASE rx.pc \in {"idle", "start"}
      <3>1. Len(rx.hdr) = 0
        BY <1>1, <2>2 DEF RxShape
      <3>2. QED
        BY <2>1, <3>1
    <2>3. CASE rx.pc = "hdr"
      <3>1. Len(rx.hdr) < HeaderSize
        BY <1>1, <2>3 DEF RxShape
      <3>2. QED
        BY <1>2, <2>1, <3>1
    <2>4. CASE rx.pc \in {"stx", "body", "etx", "eot"}
      <3>1. Len(rx.hdr) = HeaderSize
        BY <1>1, <2>4 DEF RxShape
      <3>2. QED
        BY <1>2, <3>1
    <2>5. QED
      BY <1>2, <2>2, <2>3, <2>4 DEF Pcs, Silent
  <1>4. ASSUME rx.body # <<>> PROVE Len(rx.body) <= BodySize
    <2>1. rx.pc \in {"body", "etx"} \/ (rx.pc = "eot" /\ IsFrame)
      BY <1>1, <1>2, <1>4 DEF RxShape, Pcs, Silent
    <2>2. IsFrame /\ FcsOk(rx.hdr) /\ Len(rx.hdr) = 4 /\ (Len(rx.body) < BodySize \/ Len(rx.body) = BodySize)
      BY <1>1, <2>1 DEF RxShape, HeaderSize, IsFrame
    <2>3. BodySize \in Nat
      BY <1>1, <2>2, BodySizeType
    <2>4. QED
      BY <1>2, <2>2, <2>3
  <1>5. TypeOK
    BY <1>1, <1>2, <1>3, <1>4 DEF TypeOK, FrameTypes
  <1>6. ASSUME clean, rest = <<>>, line = <<>> PROVE ~Underway
    <2>1. ASSUME Underway PROVE FALSE
      <3>1. Position < Len(BytesOf(cur)) /\ Position + Len(line) >= Len(BytesOf(cur)) /\ Len(line) = 0
        BY <1>6, <2>1 DEF Underway
      <3>2. Position \in Nat /\ Len(BytesOf(cur)) \in Nat
        BY <1>1, ReceiverFields, SentBytes DEF Position, FrameTypes
      <3>3. QED
        BY <3>1, <3>2
    <2>2. QED
      BY <2>1
  <1>7. IntactDelivered
    BY <1>6 DEF FrameInv, IntactDelivered, Arrived
  <1>8. QED
    BY <1>5, <1>7

(***************************************************************************)
(* The whole data path.                                                    *)
(***************************************************************************)

streamVars == <<inPos, pc, ret, streamOnly>>
lzma2Vars == <<shared, lzma2Only>>

\* A step of one part is no step of another.
LEMMA OnePart ==
    ASSUME [DataNext]_all
    PROVE  /\ part' = part
           /\ part = "frames" => Next \/ UNCHANGED vars
           /\ part = "bcj" => B!Next \/ UNCHANGED <<out, pc, ret, bcjOnly>>
           /\ part = "stream" => S!Next \/ UNCHANGED streamVars
           /\ part = "lzma2" => L!Next \/ UNCHANGED lzma2Vars
  <1>1. CASE UNCHANGED all
    BY <1>1 DEF all, shared, streamVars, lzma2Vars
  <1>2. CASE DataNext
    BY <1>2 DEF DataNext, FrameReceiver, FrameTimer, FrameLine, Lzma2Step, StreamStep, BcjGive,
                BcjRun, Next, B!Next
  <1>3. QED
    BY <1>1, <1>2

\* The line and the receiver stay in step, whatever the bytes, the frames, the
\* calls and the number of faults (fsm_send, fsm_recv, fsm_recv_ack).
THEOREM FramesInvariant == DataSpec => []FramePart
  <1>1. DataInit => FramePart
    BY FrameInitHolds DEF DataInit, FramePart
  <1>2. FramePart /\ [DataNext]_all => FramePart'
    BY OnePart, FrameKeeps DEF FramePart
  <1>3. QED
    BY <1>1, <1>2, PTL DEF DataSpec

\* Whatever was lost, damaged or misread before, in whatever frames with
\* whatever bodies: one that starts when the line is drained and the receiver
\* looks for it, and is not itself disturbed, is delivered (fsm_recv).
THEOREM IntactIsDelivered == DataSpec => []IntactFrameDelivered
  <1>1. FramePart => IntactFrameDelivered
    BY FrameImplies DEF FramePart, IntactFrameDelivered
  <1>2. QED
    BY <1>1, FramesInvariant, PTL

\* The BCJ filter's registers, its temporary buffer and what it has put out
\* belong together after every call of xz_dec_bcj_run.
THEOREM BcjInvariant == DataSpec => []BcjPart
  <1>1. DataInit => BcjPart
    BY BcjInitHolds DEF DataInit, BcjPart
  <1>2. BcjPart /\ [DataNext]_all => BcjPart'
    BY OnePart, BcjKeeps DEF BcjPart
  <1>3. QED
    BY <1>1, <1>2, PTL DEF DataSpec

\* Whatever the instruction size, the size of temp.buf, the block and the way
\* it is cut: xz_dec_bcj_run converts the same instructions at the same
\* addresses as one pass over the whole block, and no byte is lost or repeated.
THEOREM BlockFilteredOnce == DataSpec => []FilteredOnce
  <1>1. BcjPart => FilteredOnce
    BY BcjImplies DEF BcjPart, FilteredOnce
  <1>2. QED
    BY <1>1, BcjInvariant, PTL
==============================================================================
