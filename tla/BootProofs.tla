------------------------------ MODULE BootProofs ------------------------------
(***************************************************************************)
(* The boot loader never overwrites itself, and every byte of a flat image *)
(* gets where it was meant to be, for every memory layout and every image  *)
(* a host may announce: feed_impl puts it in place or in the buffer, a     *)
(* good verdict is about those bytes, and the stub moves the buffer        *)
(* without reaching itself.  So it does with the bytes of another file     *)
(* that is received in place of a compressed image.                        *)
(***************************************************************************)
EXTENDS BootImage, TLAPS

\* What platform_init_meta leaves behind: the relocation was planned for the
\* image, and the feed has got no further than the chunks fed allow.
Planned ==
    phase \in {"feed", "verdict"} =>
        /\ reloc = Reloc(image)
        /\ image.end = image.start + META.size
        /\ image.start <= feed
        /\ META.compression = "NONE" => feed <= image.start + chunks * ChunkSize
        /\ META.compression = "XZ" /\ ~swapped => feed <= image.end

\* The coarse loop of the stub counts blocks.
CountsBlocks == phase = "stub" /\ stub.loop = "coarse" => \E k \in Nat : stub.r8 = 16 * k

\* The inductive invariant behind BootLoaderIntact.
IntactInv == TypeOK /\ Planned /\ CountsBlocks /\ BootLoaderIntact

-----------------------------------------------------------------------------
(* Operators *)

\* Lesser and Greater are the minimum and the maximum.
LEMMA MinMax ==
    ASSUME NEW a \in Int, NEW b \in Int
    PROVE  /\ Lesser(a, b) \in Int /\ Greater(a, b) \in Int
           /\ Lesser(a, b) <= a /\ Lesser(a, b) <= b
           /\ Lesser(a, b) = a \/ Lesser(a, b) = b
           /\ Greater(a, b) >= a /\ Greater(a, b) >= b
           /\ Greater(a, b) = a \/ Greater(a, b) = b
  BY DEF Lesser, Greater

\* The image of acceptable metadata is a range of natural numbers.
LEMMA ImageType ==
    ASSUME NEW m \in MetaType
    PROVE  /\ ImageOf(m) \in [start : Nat, end : Nat]
           /\ ImageOf(m).start <= ImageOf(m).end
           /\ ImageOf(m).end = ImageOf(m).start + m.size
  BY LayoutAssumption DEF ImageOf, MetaType

\* The part of an image that is relocated is exactly its overlap with the boot
\* loader, and the buffer is behind both.
LEMMA RelocFacts ==
    ASSUME NEW img \in [start : Nat, end : Nat], img.start <= img.end
    PROVE  LET r == Reloc(img) IN
           /\ r.size \in Nat /\ r.tgt \in Nat /\ r.tgtEnd \in Nat /\ r.buf \in Nat
           /\ r.size = 0 => \A a \in img.start .. img.end - 1 : a < ProgStart \/ a >= ProgEnd
           /\ r.size > 0 => /\ r.tgt = Greater(img.start, ProgStart)
                            /\ r.tgtEnd = Lesser(img.end, ProgEnd)
                            /\ r.buf >= ProgEnd
  <1> DEFINE n == RelocSize(img)
             s == img.start
             e == img.end
  <1>0. s \in Nat /\ e \in Nat /\ s <= e /\ ProgStart \in Nat /\ ProgEnd \in Nat
        /\ ProgStart < ProgEnd
    BY LayoutAssumption
  <1>1. CASE Overlaps(img)
    <2>1. n = Lesser(e, ProgEnd) - Greater(s, ProgStart)
      BY <1>1 DEF RelocSize
    <2>2. n \in Nat /\ (n = 0 => s = e)
      BY <1>0, <1>1, <2>1 DEF Overlaps, Lesser, Greater
    <2>3. BufStart(img) \in Nat /\ BufStart(img) >= ProgEnd
      BY <1>0 DEF BufStart, Greater
    <2>4. Greater(s, ProgStart) \in Nat
      BY <1>0 DEF Greater
    <2>5. Greater(s, ProgStart) + n = Lesser(e, ProgEnd)
      BY <1>0, <2>1 DEF Lesser, Greater
    <2> HIDE DEF n
    <2>6. CASE n = 0
      BY <1>0, <2>2, <2>6 DEF Reloc, n
    <2>7. CASE n # 0
      <3> DEFINE r == Reloc(img)
      <3>1. /\ r.tgt = Greater(s, ProgStart) /\ r.tgtEnd = Greater(s, ProgStart) + n
            /\ r.buf = BufStart(img) /\ r.size = n
        BY <2>7 DEF Reloc, n
      <3> HIDE DEF r
      <3>2. QED
        BY <3>1, <2>2, <2>3, <2>4, <2>5, <2>7 DEF r
    <2>8. QED
      BY <2>6, <2>7
  <1>2. CASE ~Overlaps(img)
    <2>1. n = 0
      BY <1>2 DEF RelocSize
    <2>2. \A a \in s .. e - 1 : a < ProgStart \/ a >= ProgEnd
      BY <1>0, <1>2 DEF Overlaps
    <2>3. QED
      BY <2>1, <2>2 DEF Reloc
  <1>3. QED
    BY <1>1, <1>2

\* memcpy yields memory, and leaves what is outside its destination alone.
LEMMA WriteFacts ==
    ASSUME NEW m \in [Addr -> Int], NEW dst \in Int, NEW n \in Int, NEW from \in Nat,
           NEW data, \A j \in from .. from + n - 1 : data[j] \in Int
    PROVE  /\ Write(m, dst, n, data, from) \in [Addr -> Int]
           /\ \A a \in Addr : a < dst \/ a >= dst + n =>
                Write(m, dst, n, data, from)[a] = m[a]
  <1>1. ASSUME NEW a \in Addr, dst <= a, a < dst + n
        PROVE  data[from + (a - dst)] \in Int
    BY <1>1 DEF Addr
  <1>2. QED
    BY <1>1 DEF Write, Addr

\* The last chunk starts inside the image.
LEMMA ChunkInside ==
    ASSUME TypeOK, Planned, phase = "feed", META.compression = "NONE",
           chunks < ChunkCount
    PROVE  /\ chunks * ChunkSize \in Nat
           /\ chunks * ChunkSize < META.size
           /\ feed <= image.end
           /\ (chunks + 1) * ChunkSize = chunks * ChunkSize + ChunkSize
  <1> DEFINE q == ChunkCount
             t == META.size + ChunkSize - 1
  <1>1. /\ ChunkSize \in Nat \ {0} /\ META.size \in Nat /\ chunks \in Nat
        /\ image.start \in Nat /\ feed \in Nat
    BY InputAssumption DEF TypeOK, MetaType
  <1>2. t \in Nat /\ q = t \div ChunkSize
    BY <1>1 DEF ChunkCount
  <1>3. q \in Nat /\ q * ChunkSize <= t
    <2> HIDE DEF t, q
    <2>1. QED
      BY <1>1, <1>2
  <1>4. chunks + 1 <= q
    BY <1>1, <1>3
  <1> HIDE DEF q
  <1>5. (chunks + 1) * ChunkSize <= q * ChunkSize
    BY <1>1, <1>3, <1>4
  <1>6. (chunks + 1) * ChunkSize = chunks * ChunkSize + ChunkSize
        /\ chunks * ChunkSize \in Nat
    BY <1>1
  <1>7. chunks * ChunkSize < META.size
    <2> DEFINE x == chunks * ChunkSize
               y == (chunks + 1) * ChunkSize
               z == q * ChunkSize
    <2>1. x \in Nat /\ y = x + ChunkSize /\ y <= z /\ z <= META.size + ChunkSize - 1
      BY <1>3, <1>5, <1>6
    <2>2. z \in Int
      BY <1>1, <1>3
    <2> HIDE DEF x, y, z
    <2>3. x < META.size
      BY <2>1, <2>2, <1>1
    <2>4. QED
      BY <2>3 DEF x
  <1>8. feed <= image.end
    <2> DEFINE x == chunks * ChunkSize
    <2>1. feed <= image.start + x /\ image.end = image.start + META.size
      BY DEF Planned
    <2>2. x \in Nat /\ x < META.size
      BY <1>6, <1>7
    <2> HIDE DEF x
    <2>3. QED
      BY <2>1, <2>2, <1>1
  <1>9. QED
    BY <1>6, <1>7, <1>8

\* feed_impl leaves memory memory and the boot loader alone, unless it is given
\* so much that it runs over the end of the image and into it.
LEMMA FeedFacts ==
    ASSUME TypeOK, Planned, phase = "feed", NEW n \in Nat,
           NEW data, \A j \in 0 .. n - 1 : data[j] \in Int, FeedImpl(n, data)
    PROVE  /\ mem' \in [Addr -> Int]
           /\ ~Escapes(n) => \A a \in ProgStart .. ProgEnd - 1 : mem'[a] = mem[a]
           /\ feed' \in Nat /\ feed' = feed + n
  <1> DEFINE c1 == IF reloc.size > 0 /\ feed < reloc.tgt /\ feed + n > reloc.tgt
                   THEN reloc.tgt - feed ELSE 0
             f1 == feed + c1
             c2 == IF reloc.size > 0 /\ f1 >= reloc.tgt /\ f1 < reloc.tgtEnd
                   THEN Lesser(reloc.tgtEnd - f1, n - c1) ELSE 0
             f2 == f1 + c2
             m1 == Write(mem, feed, c1, data, 0)
             m2 == Write(m1, reloc.buf + (f1 - reloc.tgt), c2, data, c1)
  <1>1. mem' = Write(m2, f2, n - c1 - c2, data, c1 + c2) /\ feed' = feed + n
    BY DEF FeedImpl
  <1>2. /\ image \in [start : Nat, end : Nat] /\ feed \in Nat /\ mem \in [Addr -> Int]
        /\ image.start <= feed /\ image.start <= image.end /\ reloc = Reloc(image)
    BY DEF TypeOK, Planned, MetaType
  <1>3. /\ reloc.size \in Nat /\ reloc.tgt \in Nat /\ reloc.tgtEnd \in Nat /\ reloc.buf \in Nat
        /\ reloc.size = 0 => \A a \in image.start .. image.end - 1 :
                                a < ProgStart \/ a >= ProgEnd
        /\ reloc.size > 0 => /\ reloc.tgt = Greater(image.start, ProgStart)
                             /\ reloc.tgtEnd = Lesser(image.end, ProgEnd)
                             /\ reloc.buf >= ProgEnd
    BY <1>2, RelocFacts
  <1>4. ProgStart \in Nat /\ ProgEnd \in Nat /\ ProgStart < ProgEnd /\ ProgEnd < DRAM_LIMIT
        /\ DRAM_LIMIT \in Nat
    BY LayoutAssumption
  <1>5. c1 \in Nat /\ c1 <= n /\ (c1 > 0 => reloc.size > 0 /\ f1 = reloc.tgt)
    BY <1>2, <1>3
  <1>6. c2 \in Nat /\ c1 + c2 <= n /\ (c2 > 0 => reloc.size > 0 /\ f1 >= reloc.tgt)
    BY <1>2, <1>3, <1>5 DEF Lesser
  <1>7. ASSUME ~Escapes(n), NEW a \in ProgStart .. ProgEnd - 1
        PROVE  /\ a < feed \/ a >= feed + c1
               /\ LET b == reloc.buf + (f1 - reloc.tgt) IN a < b \/ a >= b + c2
               /\ a < f2 \/ a >= f2 + (n - c1 - c2)
    <2>1. a < feed \/ a >= feed + c1
      BY <1>2, <1>3, <1>4, <1>5 DEF Greater
    <2>2. LET b == reloc.buf + (f1 - reloc.tgt) IN a < b \/ a >= b + c2
      <3>1. CASE c2 > 0
        BY <3>1, <1>2, <1>3, <1>4, <1>5, <1>6
      <3>2. CASE c2 = 0
        BY <3>2, <1>2, <1>3, <1>4, <1>5
      <3>3. QED
        BY <3>1, <3>2, <1>6
    <2>3. a < f2 \/ a >= f2 + (n - c1 - c2)
      <3>0. feed + n <= image.end \/ image.end >= ProgEnd \/ feed + n <= ProgStart
        BY <1>2, <1>4, <1>7 DEF Escapes
      <3>1. CASE reloc.size = 0
        <4>1. c1 = 0 /\ c2 = 0
          BY <3>1
        <4>2. n = 0 \/ image.start < image.end
              \/ image.end >= ProgEnd \/ feed + n <= ProgStart
          BY <3>0, <1>2, <1>4
        <4>3. QED
          BY <4>1, <4>2, <3>0, <3>1, <1>2, <1>3, <1>4
      <3>2. CASE reloc.size > 0
        BY <3>0, <3>2, <1>2, <1>3, <1>4 DEF Lesser, Greater
      <3>3. QED
        BY <3>1, <3>2, <1>3
    <2>4. QED
      BY <2>1, <2>2, <2>3
  <1> HIDE DEF c1, c2
  <1>8. /\ m1 \in [Addr -> Int]
        /\ ~Escapes(n) => \A a \in ProgStart .. ProgEnd - 1 : m1[a] = mem[a]
    <2>1. \A j \in 0 .. 0 + c1 - 1 : data[j] \in Int
      BY <1>5
    <2>2. /\ m1 \in [Addr -> Int]
          /\ \A a \in Addr : a < feed \/ a >= feed + c1 => m1[a] = mem[a]
      BY <2>1, <1>2, <1>5, WriteFacts
    <2> HIDE DEF m1
    <2>3. QED
      BY <2>2, <1>4, <1>7 DEF Addr
  <1>9. /\ m2 \in [Addr -> Int]
        /\ ~Escapes(n) => \A a \in ProgStart .. ProgEnd - 1 : m2[a] = mem[a]
    <2>1. \A j \in c1 .. c1 + c2 - 1 : data[j] \in Int
      BY <1>5, <1>6
    <2>2. reloc.buf + (f1 - reloc.tgt) \in Int
      BY <1>2, <1>3, <1>5
    <2> HIDE DEF m1
    <2>3. /\ m2 \in [Addr -> Int]
          /\ \A a \in Addr : LET b == reloc.buf + (f1 - reloc.tgt)
                            IN  a < b \/ a >= b + c2 => m2[a] = m1[a]
      BY <2>1, <2>2, <1>5, <1>6, <1>8, WriteFacts
    <2> HIDE DEF m2
    <2>4. QED
      BY <2>3, <1>4, <1>7, <1>8 DEF Addr
  <1>10. /\ mem' \in [Addr -> Int]
         /\ ~Escapes(n) => \A a \in ProgStart .. ProgEnd - 1 : mem'[a] = mem[a]
    <2>1. \A j \in c1 + c2 .. (c1 + c2) + (n - c1 - c2) - 1 : data[j] \in Int
      BY <1>5, <1>6
    <2>2. f2 \in Int /\ c1 + c2 \in Nat /\ n - c1 - c2 \in Int
      BY <1>2, <1>5, <1>6
    <2> HIDE DEF m1, m2, f2
    <2>3. /\ mem' \in [Addr -> Int]
          /\ \A a \in Addr : a < f2 \/ a >= f2 + (n - c1 - c2) => mem'[a] = m2[a]
      BY <2>1, <2>2, <1>1, <1>9, WriteFacts
    <2>4. QED
      BY <2>3, <1>4, <1>7, <1>9 DEF Addr
  <1>11. QED
    BY <1>1, <1>2, <1>10

-----------------------------------------------------------------------------
(* Steps *)

\* Every step that feeds a piece keeps the invariant.
LEMMA FeedStep ==
    ASSUME IntactInv, FeedChunk \/ FeedAlien \/ FeedInflated \/ FeedSwapped
    PROVE  IntactInv'
  <1>t. /\ TypeOK /\ Planned /\ BootLoaderIntact /\ phase = "feed"
        /\ feed \in Nat /\ chunks \in Nat /\ META.size \in Nat
        /\ image.end \in Nat /\ image.start \in Nat /\ image.start <= feed
        /\ image.end = image.start + META.size
        /\ ChunkSize \in Nat \ {0} /\ OutSize \in Nat
    BY InputAssumption
       DEF IntactInv, TypeOK, MetaType, Planned, FeedChunk, FeedAlien, FeedInflated,
           FeedSwapped
  <1>1. PICK n, data :
             /\ n \in Nat
             /\ \A j \in 0 .. n - 1 : data[j] \in Int
             /\ FeedImpl(n, data)
             /\ phase' = IF Escapes(n) THEN "lost" ELSE "feed"
             /\ META.compression = "NONE" => feed + n <= image.start + chunks' * ChunkSize
             /\ META.compression = "XZ" /\ ~swapped' => feed + n <= image.end
             /\ chunks' \in Nat /\ swapped' \in BOOLEAN
    <2>0. swapped \in BOOLEAN
      BY <1>t DEF TypeOK
    <2>1. ASSUME META.compression = "NONE", chunks < ChunkCount, chunks' = chunks + 1,
                 NEW n \in Nat, n <= ChunkSize
          PROVE  feed + n <= image.start + chunks' * ChunkSize
      <3> DEFINE x == chunks * ChunkSize
      <3>1. x \in Nat /\ chunks' * ChunkSize = x + ChunkSize
        BY <1>t, <2>1, ChunkInside
      <3>2. feed <= image.start + x
        BY <1>t, <2>1 DEF Planned
      <3> HIDE DEF x
      <3>3. QED
        BY <3>1, <3>2, <1>t, <2>1
    <2>2. CASE FeedChunk
      <3> DEFINE n == ChunkLen(chunks)
                 x == chunks * ChunkSize
      <3>1. /\ META.compression = "NONE" /\ chunks < ChunkCount
            /\ FeedImpl(n, ChunkBytes(chunks)) /\ chunks' = chunks + 1 /\ phase' = phase
            /\ swapped' = swapped
        BY <2>2 DEF FeedChunk
      <3>2. /\ x \in Nat /\ x < META.size /\ feed <= image.end
            /\ feed <= image.start + x
        BY <3>1, <1>t, ChunkInside DEF Planned
      <3>3. n = Lesser(ChunkSize, META.size - x)
        BY DEF ChunkLen
      <3> HIDE DEF n, x
      <3>4. n \in Nat /\ n <= ChunkSize /\ feed + n <= image.end
        BY <3>2, <3>3, <1>t DEF Lesser
      <3>5. \A j \in 0 .. n - 1 : ChunkBytes(chunks)[j] \in Int
        BY <3>2, <3>4 DEF ChunkBytes, n, x
      <3>6. ~Escapes(n)
        BY <3>4, <1>t DEF Escapes
      <3>7. feed + n <= image.start + chunks' * ChunkSize
        BY <2>1, <3>1, <3>4
      <3>8. QED
        BY <2>0, <3>1, <3>2, <3>4, <3>5, <3>6, <3>7, <1>t
    <2>3. CASE FeedAlien
      <3>1. /\ META.compression = "NONE" /\ chunks < ChunkCount /\ chunks' = chunks + 1
            /\ swapped' = TRUE
            /\ \E n \in 1 .. ChunkSize :
                 /\ FeedImpl(n, AlienBytes(n))
                 /\ phase' = IF Escapes(n) THEN "lost" ELSE phase
        BY <2>3 DEF FeedAlien
      <3>2. PICK n \in 1 .. ChunkSize :
                 /\ FeedImpl(n, AlienBytes(n))
                 /\ phase' = IF Escapes(n) THEN "lost" ELSE phase
        BY <3>1
      <3>3. n \in Nat /\ n <= ChunkSize
        BY <1>t
      <3>4. \A j \in 0 .. n - 1 : AlienBytes(n)[j] \in Int
        BY <1>t DEF AlienBytes, Alien
      <3>5. feed + n <= image.start + chunks' * ChunkSize
        BY <2>1, <3>1, <3>3
      <3>6. QED
        BY <3>1, <3>2, <3>3, <3>4, <3>5, <1>t
    <2>4. CASE FeedInflated
      <3>1. /\ META.compression = "XZ" /\ chunks' = chunks /\ phase' = phase
            /\ ~swapped /\ swapped' = swapped
            /\ \E n \in 1 .. Lesser(OutSize, Remaining) : FeedImpl(n, ImageBytes(n))
        BY <2>4 DEF FeedInflated
      <3>2. PICK n \in 1 .. Lesser(OutSize, Remaining) : FeedImpl(n, ImageBytes(n))
        BY <3>1
      <3>3. feed <= image.end
        BY <3>1, <1>t DEF Planned
      <3>4. n \in Nat /\ feed + n <= image.end
        BY <1>t, <3>3 DEF Lesser, Remaining
      <3>5. \A j \in 0 .. n - 1 : ImageBytes(n)[j] \in Int
        BY <1>t DEF ImageBytes
      <3>6. ~Escapes(n)
        BY <3>4, <1>t DEF Escapes
      <3>7. QED
        BY <2>0, <3>1, <3>2, <3>3, <3>4, <3>5, <3>6, <1>t
    <2>5. CASE FeedSwapped
      <3>1. /\ META.compression = "XZ" /\ chunks' = chunks /\ swapped' = TRUE
            /\ \E n \in 1 .. OutSize :
                 /\ FeedImpl(n, AlienBytes(n))
                 /\ phase' = IF Escapes(n) THEN "lost" ELSE phase
        BY <2>5 DEF FeedSwapped
      <3>2. PICK n \in 1 .. OutSize :
                 /\ FeedImpl(n, AlienBytes(n))
                 /\ phase' = IF Escapes(n) THEN "lost" ELSE phase
        BY <3>1
      <3>3. n \in Nat
        BY <1>t
      <3>4. \A j \in 0 .. n - 1 : AlienBytes(n)[j] \in Int
        BY <1>t DEF AlienBytes, Alien
      <3>5. QED
        BY <3>1, <3>2, <3>3, <3>4, <1>t
    <2>6. QED
      BY <2>2, <2>3, <2>4, <2>5
  <1>2. /\ mem' \in [Addr -> Int]
        /\ ~Escapes(n) => \A a \in ProgStart .. ProgEnd - 1 : mem'[a] = mem[a]
        /\ feed' \in Nat /\ feed' = feed + n
    <2>1. /\ TypeOK /\ Planned /\ phase = "feed" /\ n \in Nat
          /\ \A j \in 0 .. n - 1 : data[j] \in Int
          /\ FeedImpl(n, data)
      BY <1>1, <1>t
    <2>2. QED
      BY <2>1, FeedFacts
  <1>3. UNCHANGED <<META, image, reloc, ok, stub>>
    BY DEF FeedChunk, FeedAlien, FeedInflated, FeedSwapped
  <1>4. TypeOK'
    BY <1>1, <1>2, <1>3, <1>t DEF TypeOK
  <1>5. Planned'
    BY <1>1, <1>2, <1>3, <1>t DEF Planned
  <1>6. BootLoaderIntact'
    BY <1>1, <1>2, <1>t DEF BootLoaderIntact
  <1>7. QED
    BY <1>1, <1>4, <1>5, <1>6 DEF IntactInv, CountsBlocks

\* The relocation record has its type.
LEMMA RelocType ==
    ASSUME NEW img \in [start : Nat, end : Nat], img.start <= img.end
    PROVE  Reloc(img) \in [tgt : Nat, tgtEnd : Nat, buf : Nat, stub : Nat, size : Nat]
  <1>1. RelocSize(img) \in Nat
    BY LayoutAssumption DEF RelocSize, Overlaps, Lesser, Greater
  <1>2. BufStart(img) \in Nat /\ Greater(img.start, ProgStart) \in Nat
    BY LayoutAssumption DEF BufStart, Greater
  <1>3. \A x \in Nat : StubStart(x) \in Nat
    BY DEF StubStart
  <1>4. StubStart(BufStart(img) + RelocSize(img)) \in Nat
    BY <1>1, <1>2, <1>3
  <1>5. QED
    BY <1>1, <1>2, <1>4 DEF Reloc

\* Accepting metadata plans the relocation and keeps the boot loader.
LEMMA InitMetaStep ==
    ASSUME IntactInv, NEW m \in Metas, InitMeta(m)
    PROVE  IntactInv'
  <1>1. m \in MetaType
    BY InputAssumption
  <1>2. /\ ImageOf(m) \in [start : Nat, end : Nat]
        /\ ImageOf(m).start <= ImageOf(m).end
        /\ ImageOf(m).end = ImageOf(m).start + m.size
    BY <1>1, ImageType
  <1>3. Reloc(ImageOf(m)) \in [tgt : Nat, tgtEnd : Nat, buf : Nat, stub : Nat, size : Nat]
    BY <1>2, RelocType
  <1>4. TypeOK'
    <2>1. mem' \in [Addr -> Int]
      BY DEF InitMeta, IntactInv, TypeOK, Prog, Junk
    <2>2. QED
      BY <1>1, <1>2, <1>3, <2>1 DEF InitMeta, IntactInv, TypeOK
  <1>5. Planned'
    <2>1. 0 * ChunkSize = 0
      BY InputAssumption
    <2>2. QED
      BY <1>2, <2>1 DEF InitMeta, Planned
  <1>6. BootLoaderIntact'
    BY LayoutAssumption DEF InitMeta, IntactInv, BootLoaderIntact, Addr
  <1>7. QED
    BY <1>4, <1>5, <1>6 DEF IntactInv, InitMeta, CountsBlocks

\* The trampoline and the stub: the boot loader no longer runs.
LEMMA StubStep ==
    ASSUME IntactInv, Trampoline \/ StubRuns
    PROVE  IntactInv'
  <1>t. /\ TypeOK /\ stub \in [r0 : Nat, r1 : Nat, r8 : Nat, loop : {"coarse", "fine"}]
        /\ reloc \in [tgt : Nat, tgtEnd : Nat, buf : Nat, stub : Nat, size : Nat]
        /\ mem \in [Addr -> Int]
    BY DEF IntactInv, TypeOK
  <1>w. WordMod \in Nat \ {0}
    BY InputAssumption
  <1>1. phase' \in {"stub", "started", "lost"}
    BY DEF Trampoline, StubRuns, CopyCoarse, StartFine, CopyFine, Jump
  <1>2. ASSUME NEW n \in {4, 16}, Move(n) PROVE mem' \in [Addr -> Int]
    <2> DEFINE loaded == [j \in 0 .. n - 1 |-> IF stub.r1 + j \in Addr
                                             THEN mem[stub.r1 + j] ELSE Junk]
    <2>1. mem' = Write(mem, stub.r0, n, loaded, 0)
      BY <1>2 DEF Move
    <2>2. \A j \in 0 .. n - 1 : loaded[j] \in Int
      BY <1>t DEF Junk
    <2>3. n \in Int /\ stub.r0 \in Int /\ 0 + n - 1 = n - 1
      BY <1>t
    <2> HIDE DEF loaded
    <2>4. QED
      BY <2>1, <2>2, <2>3, <1>t, WriteFacts
  <1>3. CASE Trampoline
    <2>0. \A j \in 0 .. 0 + StubSize - 1 : StubBytes[j] \in Int
      BY LayoutAssumption DEF StubBytes, Stub
    <2>1. mem' \in [Addr -> Int]
      BY <1>3, <1>t, <2>0, LayoutAssumption, WriteFacts DEF Trampoline
    <2>2. \E k \in Nat : Coarse(reloc.size) = 16 * k
      BY <1>t DEF Coarse
    <2>3. stub' \in [r0 : Nat, r1 : Nat, r8 : Nat, loop : {"coarse", "fine"}]
          /\ \E k \in Nat : stub'.r8 = 16 * k
      BY <1>3, <1>t, <2>2 DEF Trampoline
    <2>4. QED
      BY <1>3, <1>1, <1>t, <2>1, <2>3
         DEF Trampoline, IntactInv, TypeOK, Planned, CountsBlocks, BootLoaderIntact
  <1>4. CASE CopyCoarse
    <2>1. PICK k \in Nat : stub.r8 = 16 * k
      BY <1>4 DEF CopyCoarse, IntactInv, CountsBlocks
    <2>2. k - 1 \in Nat /\ stub.r8 - 16 = 16 * (k - 1) /\ stub.r8 - 16 \in Nat
      BY <1>4, <2>1 DEF CopyCoarse
    <2>3. /\ stub' \in [r0 : Nat, r1 : Nat, r8 : Nat, loop : {"coarse", "fine"}]
          /\ stub'.r8 = stub.r8 - 16
      <3>1. stub' = [stub EXCEPT !.r0 = @ + 16, !.r1 = @ + 16, !.r8 = @ - 16]
        BY <1>4 DEF CopyCoarse
      <3>2. stub' = [r0 |-> stub.r0 + 16, r1 |-> stub.r1 + 16,
                     r8 |-> stub.r8 - 16, loop |-> stub.loop]
        BY <3>1, <1>t
      <3>3. stub.r0 + 16 \in Nat /\ stub.r1 + 16 \in Nat
        BY <1>t
      <3>4. QED
        BY <3>2, <3>3, <1>t, <2>2
    <2>4. mem' \in [Addr -> Int]
      BY <1>4, <1>2 DEF CopyCoarse
    <2>5. QED
      BY <1>4, <1>1, <1>t, <2>2, <2>3, <2>4
         DEF CopyCoarse, IntactInv, TypeOK, Planned, CountsBlocks, BootLoaderIntact
  <1>5. CASE StartFine
    <2>1. stub' \in [r0 : Nat, r1 : Nat, r8 : Nat, loop : {"coarse", "fine"}] /\ stub'.loop = "fine"
      <3>1. stub' = [stub EXCEPT !.r8 = reloc.size % 16, !.loop = "fine"]
        BY <1>5 DEF StartFine
      <3>2. reloc.size % 16 \in Nat
        BY <1>t
      <3>3. QED
        BY <3>1, <3>2, <1>t
    <2>2. QED
      BY <1>5, <1>1, <1>t, <2>1
         DEF StartFine, IntactInv, TypeOK, Planned, CountsBlocks, BootLoaderIntact
  <1>6. CASE CopyFine
    <2>1. LessWord(stub.r8) \in Nat
      BY <1>t, <1>w DEF LessWord
    <2>2. stub' \in [r0 : Nat, r1 : Nat, r8 : Nat, loop : {"coarse", "fine"}] /\ stub'.loop = "fine"
      <3>1. /\ stub' = [stub EXCEPT !.r0 = @ + 4, !.r1 = @ + 4, !.r8 = LessWord(@)]
            /\ stub.loop = "fine"
        BY <1>6 DEF CopyFine
      <3>2. stub' = [r0 |-> stub.r0 + 4, r1 |-> stub.r1 + 4,
                     r8 |-> LessWord(stub.r8), loop |-> stub.loop]
        BY <3>1, <1>t
      <3>3. stub.r0 + 4 \in Nat /\ stub.r1 + 4 \in Nat
        BY <1>t
      <3>4. QED
        BY <3>1, <3>2, <3>3, <1>t, <2>1
    <2>3. mem' \in [Addr -> Int]
      BY <1>6, <1>2 DEF CopyFine
    <2>4. QED
      BY <1>6, <1>1, <1>t, <2>2, <2>3
         DEF CopyFine, IntactInv, TypeOK, Planned, CountsBlocks, BootLoaderIntact
  <1>7. CASE Jump
    BY <1>7, <1>1, <1>t
       DEF Jump, IntactInv, TypeOK, Planned, CountsBlocks, BootLoaderIntact
  <1>8. QED
    BY <1>3, <1>4, <1>5, <1>6, <1>7 DEF StubRuns

\* The other steps write no memory.
LEMMA QuietStep ==
    ASSUME IntactInv,
           \/ \E m \in Metas : NoRoomForMeta(m)
           \/ LoadImage \/ Abandon \/ UNCHANGED vars
    PROVE  IntactInv'
  <1>1. CASE \E m \in Metas : NoRoomForMeta(m)
    <2>1. PICK m \in Metas : NoRoomForMeta(m)
      BY <1>1
    <2>2. m \in MetaType /\ ImageOf(m) \in [start : Nat, end : Nat]
      BY InputAssumption, ImageType
    <2>3. QED
      BY <2>1, <2>2
         DEF NoRoomForMeta, IntactInv, TypeOK, Planned, CountsBlocks, BootLoaderIntact
  <1>2. CASE LoadImage
    <2>1. ok' \in BOOLEAN
      BY <1>2 DEF LoadImage
    <2>2. QED
      BY <1>2, <2>1
         DEF LoadImage, IntactInv, TypeOK, Planned, CountsBlocks, BootLoaderIntact
  <1>3. CASE Abandon
    BY <1>3 DEF Abandon, IntactInv, TypeOK, Planned, CountsBlocks, BootLoaderIntact
  <1>4. CASE UNCHANGED vars
    BY <1>4 DEF vars, IntactInv, TypeOK, Planned, CountsBlocks, BootLoaderIntact
  <1>5. QED
    BY <1>1, <1>2, <1>3, <1>4

\* The inductive invariant holds in every reachable state.
LEMMA IntactInvariant == Spec => []IntactInv
  <1>1. Init => IntactInv
    <2> SUFFICES ASSUME Init PROVE IntactInv
      OBVIOUS
    <2>1. META \in MetaType /\ ImageOf(META) \in [start : Nat, end : Nat]
      BY InputAssumption, ImageType DEF Init
    <2>a. mem \in [Addr -> Int]
      BY DEF Init, Prog, Junk
    <2>b. stub \in [r0 : Nat, r1 : Nat, r8 : Nat, loop : {"coarse", "fine"}]
      BY DEF Init
    <2>2. TypeOK
      BY <2>1, <2>a, <2>b DEF Init, TypeOK
    <2>3. BootLoaderIntact
      BY LayoutAssumption DEF Init, BootLoaderIntact, Addr
    <2>4. QED
      BY <2>2, <2>3 DEF Init, IntactInv, Planned, CountsBlocks
  <1>2. IntactInv /\ [Next]_vars => IntactInv'
    BY FeedStep, InitMetaStep, StubStep, QuietStep DEF Next
  <1>3. QED
    BY <1>1, <1>2, PTL DEF Spec

\* The types of BootImage, for every layout and every set of metadata.
THEOREM BootTypes == Spec => []TypeOK
  <1>1. IntactInv => TypeOK
    BY DEF IntactInv
  <1>2. QED
    BY <1>1, IntactInvariant, PTL

\* feed_impl and the relocation planned by platform_init_meta never overwrite
\* the running boot loader, wherever an image is loaded and however it is cut
\* into pieces.
THEOREM BootLoaderSurvives == Spec => []BootLoaderIntact
  <1>1. IntactInv => BootLoaderIntact
    BY DEF IntactInv
  <1>2. QED
    BY <1>1, IntactInvariant, PTL

-----------------------------------------------------------------------------
(* The bytes of the image *)

\* From platform_init_meta to the started image, the relocation is the one
\* planned for the image, buffer and stub fit into memory, and so does a flat
\* image; only a flat image is left to the stub.
Fits ==
    phase \in {"feed", "verdict", "stub", "started"} =>
        /\ reloc = Reloc(image)
        /\ image.end = image.start + META.size
        /\ ~NoRoom(image)
        /\ META.compression # "unknown"
        /\ META.format = "BIN" => image.end < DRAM_LIMIT
        /\ phase \in {"stub", "started"} => META.format = "BIN"

\* What has been inflated is kept where it belongs, until more is fed than the
\* image has.
Inflated ==
    phase = "feed" /\ META.compression = "XZ" /\ META.format = "BIN"
                   /\ feed <= image.end =>
        \A a \in image.start .. feed - 1 : mem[Kept(a)] \in Contents(a - image.start)

\* How far the stub is.  Whole words are counted down to zero; anything else
\* is not, and the stub never leaves its second loop.
Counted ==
    phase = "stub" =>
        /\ reloc.size % 4 = 0 =>
             /\ stub.r0 - reloc.tgt = stub.r1 - reloc.buf
             /\ reloc.tgt <= stub.r0
             /\ stub.loop = "coarse" => stub.r0 + stub.r8 = reloc.tgt + Coarse(reloc.size)
             /\ stub.loop = "fine" => /\ stub.r0 + stub.r8 = reloc.tgt + reloc.size
                                      /\ stub.r8 \in {0, 4, 8, 12}
        /\ reloc.size % 4 # 0 /\ stub.loop = "fine" => stub.r8 % 4 # 0

\* Where byte a of the image is while the stub runs.
Now(a) == IF stub.r0 <= a /\ a < reloc.tgtEnd THEN reloc.buf + (a - reloc.tgt) ELSE a

\* The stub has every byte of a good image in place or still before it.
Moving ==
    phase = "stub" /\ ok /\ reloc.size % 4 = 0 =>
        \A a \in image.start .. image.end - 1 : mem[Now(a)] \in Contents(a - image.start)

\* The inductive invariant behind VerdictSound, StubIntact and StartedComplete.
CopyInv ==
    /\ Fits /\ Inflated /\ Counted /\ Moving
    /\ VerdictSound /\ StubIntact /\ StartedComplete

-----------------------------------------------------------------------------
(* Layout and memcpy *)

\* Rounding up to a word: at most three bytes more, and not past a word.
LEMMA StubStartFacts ==
    ASSUME NEW x \in Nat
    PROVE  /\ StubStart(x) \in Nat /\ x <= StubStart(x)
           /\ \A y \in Nat : y % 4 = 0 /\ x <= y => StubStart(x) <= y
  BY DEF StubStart

\* The plan for an image that has room: target, buffer and stub follow each
\* other in memory.
LEMMA Layout ==
    ASSUME NEW img \in [start : Nat, end : Nat], img.start <= img.end, ~NoRoom(img)
    PROVE  LET r == Reloc(img) IN
           /\ r.size \in Nat /\ r.tgt \in Nat /\ r.tgtEnd \in Nat /\ r.buf \in Nat
           /\ r.stub \in Nat /\ r.tgtEnd = r.tgt + r.size
           /\ r.size = 0 => /\ r.tgt = 0 /\ r.buf = 0
                            /\ \A a \in img.start .. img.end - 1 : a < ProgStart \/ a >= ProgEnd
           /\ r.size > 0 => /\ r.tgt = Greater(img.start, ProgStart)
                            /\ r.tgtEnd = Lesser(img.end, ProgEnd)
                            /\ r.buf >= ProgEnd /\ r.buf >= img.end
                            /\ r.buf + r.size <= r.stub
                            /\ r.stub + StubSize <= DRAM_LIMIT
  <1> DEFINE r == Reloc(img)
             b == BufStart(img)
             n == RelocSize(img)
  <1>1. /\ r \in [tgt : Nat, tgtEnd : Nat, buf : Nat, stub : Nat, size : Nat]
    BY RelocType
  <1>2. /\ r.size = 0 => \A a \in img.start .. img.end - 1 : a < ProgStart \/ a >= ProgEnd
        /\ r.size > 0 => /\ r.tgt = Greater(img.start, ProgStart)
                         /\ r.tgtEnd = Lesser(img.end, ProgEnd)
                         /\ r.buf >= ProgEnd
    BY RelocFacts
  <1>3. r.size = n /\ (n = 0 => r.tgt = 0 /\ r.buf = 0) /\ r.tgtEnd = r.tgt + n
    <2>1. CASE n = 0
      BY <2>1 DEF Reloc
    <2>2. CASE n # 0
      BY <2>2 DEF Reloc
    <2>3. QED
      BY <2>1, <2>2
  <1>4. n > 0 => r.buf = b /\ r.stub = StubStart(b + n)
    BY DEF Reloc
  <1>5. b \in Nat /\ b >= img.end
    BY LayoutAssumption DEF BufStart, Greater
  <1>6. n > 0 => b + n + StubSize < DRAM_LIMIT
    BY <1>1, <1>3, <1>5, LayoutAssumption DEF NoRoom
  <1> HIDE DEF r, b, n
  <1>7. n > 0 => b + n <= r.stub /\ r.stub + StubSize <= DRAM_LIMIT
    <2> SUFFICES ASSUME n > 0 PROVE b + n <= r.stub /\ r.stub + StubSize <= DRAM_LIMIT
      OBVIOUS
    <2> DEFINE y == DRAM_LIMIT - StubSize
    <2>1. y \in Nat /\ y % 4 = 0 /\ b + n <= y /\ b + n \in Nat
      BY <1>1, <1>3, <1>5, <1>6, LayoutAssumption
    <2>2. b + n <= StubStart(b + n) /\ StubStart(b + n) <= y
      BY <2>1, StubStartFacts
    <2>3. QED
      BY <2>2, <1>1, <1>4, LayoutAssumption
  <1>8. QED
    BY <1>1, <1>2, <1>3, <1>4, <1>5, <1>7 DEF r

\* A flat image is kept inside memory, and no two of its bytes in one place.
LEMMA KeptFacts ==
    ASSUME TypeOK, Fits, phase \in {"feed", "verdict"}, META.format = "BIN",
           NEW a \in image.start .. image.end - 1
    PROVE  /\ Kept(a) \in Addr
           /\ a < ProgStart \/ a >= ProgEnd => Kept(a) = a
           /\ a >= ProgStart /\ a < ProgEnd =>
                /\ reloc.size > 0 /\ reloc.tgt <= a /\ a < reloc.tgtEnd
                /\ Kept(a) = reloc.buf + (a - reloc.tgt)
  <1>1. /\ image \in [start : Nat, end : Nat] /\ image.start <= image.end
        /\ reloc = Reloc(image) /\ ~NoRoom(image) /\ image.end < DRAM_LIMIT
    BY DEF TypeOK, Fits, MetaType
  <1>2. /\ reloc.size \in Nat /\ reloc.tgt \in Nat /\ reloc.buf \in Nat
        /\ reloc.tgtEnd = reloc.tgt + reloc.size /\ reloc.stub \in Nat
        /\ reloc.size = 0 => \A x \in image.start .. image.end - 1 : x < ProgStart \/ x >= ProgEnd
        /\ reloc.size > 0 => /\ reloc.tgt = Greater(image.start, ProgStart)
                             /\ reloc.tgtEnd = Lesser(image.end, ProgEnd)
                             /\ reloc.buf + reloc.size <= reloc.stub
                             /\ reloc.stub + StubSize <= DRAM_LIMIT
    BY <1>1, Layout
  <1>3. /\ a \in Nat /\ a < image.end
        /\ DRAM_LIMIT \in Nat /\ ProgStart \in Nat /\ ProgEnd \in Nat /\ StubSize \in Nat
    BY <1>1, LayoutAssumption
  <1>4. CASE a >= ProgStart /\ a < ProgEnd
    <2>1. reloc.size > 0
      BY <1>2, <1>3, <1>4
    <2>2. reloc.tgt <= a /\ a < reloc.tgtEnd
      BY <1>1, <1>2, <1>3, <1>4, <2>1 DEF Greater, Lesser
    <2>3. Kept(a) = reloc.buf + (a - reloc.tgt)
      BY <1>4 DEF Kept
    <2>4. QED
      BY <1>2, <1>3, <1>4, <2>1, <2>2, <2>3 DEF Addr
  <1>5. CASE a < ProgStart \/ a >= ProgEnd
    BY <1>1, <1>3, <1>5 DEF Kept, Addr
  <1>6. QED
    BY <1>3, <1>4, <1>5

\* feed_impl: the new bytes are kept where they belong, the earlier ones stay.
LEMMA FeedPlaces ==
    ASSUME TypeOK, Planned, Fits, phase = "feed", META.format = "BIN",
           NEW n \in Nat, feed + n <= image.end, NEW data, FeedImpl(n, data),
           NEW a \in image.start .. feed + n - 1
    PROVE  mem'[Kept(a)] = IF a >= feed THEN data[a - feed] ELSE mem[Kept(a)]
  <1> DEFINE c1 == IF reloc.size > 0 /\ feed < reloc.tgt /\ feed + n > reloc.tgt
                   THEN reloc.tgt - feed ELSE 0
             f1 == feed + c1
             c2 == IF reloc.size > 0 /\ f1 >= reloc.tgt /\ f1 < reloc.tgtEnd
                   THEN Lesser(reloc.tgtEnd - f1, n - c1) ELSE 0
             f2 == f1 + c2
             b  == reloc.buf + (f1 - reloc.tgt)
             m1 == Write(mem, feed, c1, data, 0)
             m2 == Write(m1, b, c2, data, c1)
             x  == Kept(a)
  <1>1. mem' = Write(m2, f2, n - c1 - c2, data, c1 + c2)
    BY DEF FeedImpl
  <1>2. /\ image \in [start : Nat, end : Nat] /\ feed \in Nat
        /\ image.start <= feed /\ image.start <= image.end
        /\ reloc = Reloc(image) /\ ~NoRoom(image)
    BY DEF TypeOK, Planned, Fits, MetaType
  <1>3. /\ reloc.size \in Nat /\ reloc.tgt \in Nat /\ reloc.buf \in Nat
        /\ reloc.tgtEnd = reloc.tgt + reloc.size
        /\ reloc.size > 0 => /\ reloc.tgt = Greater(image.start, ProgStart)
                             /\ reloc.tgtEnd = Lesser(image.end, ProgEnd)
                             /\ reloc.buf >= ProgEnd /\ reloc.buf >= image.end
    BY <1>2, Layout
  <1>4. ProgStart \in Nat /\ ProgEnd \in Nat /\ ProgStart < ProgEnd
    BY LayoutAssumption
  <1>5. /\ a \in image.start .. image.end - 1 /\ a \in Nat
        /\ image.start <= a /\ a < feed + n
    BY <1>2
  <1>6. /\ x \in Addr
        /\ a < ProgStart \/ a >= ProgEnd => x = a
        /\ a >= ProgStart /\ a < ProgEnd =>
             /\ reloc.size > 0 /\ reloc.tgt <= a /\ a < reloc.tgtEnd
             /\ x = reloc.buf + (a - reloc.tgt)
    BY <1>5, KeptFacts
  <1>7. c1 \in Nat /\ c1 <= n /\ (c1 > 0 => reloc.size > 0 /\ f1 = reloc.tgt)
    BY <1>2, <1>3
  <1>8. c2 \in Nat /\ c1 + c2 <= n
    BY <1>2, <1>3, <1>7 DEF Lesser
  <1> HIDE DEF x
  <1>9. x \in Nat
    BY <1>6, LayoutAssumption DEF Addr
  <1>10. ASSUME a >= ProgStart, a < ProgEnd
         PROVE  /\ x >= reloc.buf
                /\ ~(f2 <= x /\ x < f2 + (n - c1 - c2))
                /\ a >= feed => b <= x /\ x < b + c2 /\ c1 + (x - b) = a - feed
                /\ a < feed => ~(b <= x /\ x < b + c2) /\ ~(feed <= x /\ x < feed + c1)
    <2>0. x = reloc.buf + (a - reloc.tgt) /\ reloc.size > 0 /\ reloc.tgt <= a
            /\ a < reloc.tgtEnd
      BY <1>6, <1>10
    <2>1. x >= reloc.buf
      BY <1>3, <1>5, <2>0
    <2>2. f2 + (n - c1 - c2) = feed + n /\ feed + n <= reloc.buf
      <3> HIDE DEF c1, c2
      <3>1. QED
        BY <1>2, <1>3, <1>7, <1>8, <2>0
    <2>3. ~(f2 <= x /\ x < f2 + (n - c1 - c2))
      <3> HIDE DEF c1, c2, f2
      <3>1. QED
        BY <2>1, <2>2, <1>2, <1>3, <1>9
    <2>4. ASSUME a >= feed PROVE b <= x /\ x < b + c2 /\ c1 + (x - b) = a - feed
      <3>1. f1 <= a /\ f1 >= reloc.tgt
        BY <2>0, <2>4, <1>2, <1>3, <1>5
      <3>2. c2 = Lesser(reloc.tgtEnd - f1, n - c1)
        BY <3>1, <2>0, <1>2, <1>3, <1>5
      <3>3. a < f1 + c2
        BY <3>1, <3>2, <2>0, <1>2, <1>3, <1>5, <1>7 DEF Lesser
      <3> HIDE DEF c1, c2
      <3>4. QED
        BY <3>1, <3>3, <2>0, <1>2, <1>3, <1>5, <1>7, <1>8
    <2>5. ASSUME a < feed
          PROVE  ~(b <= x /\ x < b + c2) /\ ~(feed <= x /\ x < feed + c1)
      <3> HIDE DEF c2
      <3>1. QED
        BY <2>0, <2>1, <2>5, <1>2, <1>3, <1>5, <1>7, <1>8, <1>9
    <2>6. QED
      BY <2>1, <2>3, <2>4, <2>5
  <1>11. ASSUME a < ProgStart \/ a >= ProgEnd
         PROVE  /\ ~(b <= x /\ x < b + c2)
                /\ a >= feed => \/ f2 <= x /\ x < f2 + (n - c1 - c2)
                                \/ feed <= x /\ x < feed + c1 /\ ~(f2 <= x)
                /\ a < feed => ~(f2 <= x) /\ ~(feed <= x)
    <2>0. x = a
      BY <1>6, <1>11
    <2>1. ~(b <= x /\ x < b + c2)
      BY <2>0, <1>2, <1>3, <1>4, <1>5, <1>7, <1>8 DEF Lesser, Greater
    <2>2. ASSUME a >= feed
          PROVE  \/ f2 <= x /\ x < f2 + (n - c1 - c2)
                 \/ feed <= x /\ x < feed + c1 /\ ~(f2 <= x)
      <3>1. CASE reloc.size = 0
        BY <3>1, <2>0, <2>2, <1>2, <1>5
      <3>2. CASE reloc.size > 0
        BY <3>2, <2>0, <2>2, <1>2, <1>3, <1>4, <1>5, <1>11 DEF Lesser, Greater
      <3>3. QED
        BY <3>1, <3>2, <1>3
    <2>3. a < feed => ~(f2 <= x) /\ ~(feed <= x)
      BY <2>0, <1>2, <1>5, <1>7, <1>8
    <2>4. QED
      BY <2>1, <2>2, <2>3
  <1>12. f2 \in Int /\ n - c1 - c2 \in Int /\ b \in Int /\ c1 \in Int /\ c2 \in Int
         /\ c1 + c2 \in Nat /\ f2 = feed + (c1 + c2)
    <2> HIDE DEF c1, c2
    <2>1. QED
      BY <1>2, <1>3, <1>7, <1>8
  <1> HIDE DEF c1, c2, f2, b
  <1>13. mem'[x] = IF f2 <= x /\ x < f2 + (n - c1 - c2)
                   THEN data[c1 + c2 + (x - f2)] ELSE m2[x]
    <2> HIDE DEF m2
    <2>1. QED
      BY <1>1, <1>6 DEF Write
  <1>14. m2[x] = IF b <= x /\ x < b + c2 THEN data[c1 + (x - b)] ELSE m1[x]
    <2> HIDE DEF m1
    <2>1. QED
      BY <1>6 DEF Write, m2
  <1>15. m1[x] = IF feed <= x /\ x < feed + c1 THEN data[0 + (x - feed)] ELSE mem[x]
    BY <1>6 DEF Write
  <1> HIDE DEF m1, m2
  <1>16. CASE a >= ProgStart /\ a < ProgEnd
    BY <1>10, <1>13, <1>14, <1>15, <1>16, <1>2, <1>5 DEF x
  <1>17. CASE a < ProgStart \/ a >= ProgEnd
    <2>1. x = a /\ 0 + (x - feed) = a - feed /\ c1 + c2 + (x - f2) = a - feed
      BY <1>2, <1>5, <1>6, <1>7, <1>8, <1>12, <1>17
    <2>2. QED
      BY <2>1, <1>11, <1>13, <1>14, <1>15, <1>17, <1>2, <1>5 DEF x
  <1>18. QED
    BY <1>4, <1>5, <1>16, <1>17

-----------------------------------------------------------------------------
(* Steps *)

\* What the plan says of a device that is not waiting for a POLL.
LEMMA Plan ==
    ASSUME TypeOK, Fits, phase \in {"feed", "verdict", "stub", "started"}
    PROVE  /\ image.start \in Nat /\ image.end \in Nat /\ image.start <= image.end
           /\ image.end = image.start + META.size /\ META.size \in Nat
           /\ reloc.size \in Nat /\ reloc.tgt \in Nat /\ reloc.buf \in Nat
           /\ reloc.stub \in Nat /\ reloc.tgtEnd = reloc.tgt + reloc.size
           /\ reloc.size = 0 =>
                /\ reloc.tgt = 0 /\ reloc.buf = 0
                /\ \A a \in image.start .. image.end - 1 : a < ProgStart \/ a >= ProgEnd
           /\ reloc.size > 0 =>
                /\ reloc.tgt = Greater(image.start, ProgStart)
                /\ reloc.tgtEnd = Lesser(image.end, ProgEnd)
                /\ reloc.buf >= reloc.tgtEnd /\ reloc.buf >= image.end
                /\ reloc.buf + reloc.size <= reloc.stub
                /\ reloc.stub + StubSize <= DRAM_LIMIT
           /\ META.format = "BIN" => image.end < DRAM_LIMIT
  <1>1. /\ image \in [start : Nat, end : Nat] /\ META.size \in Nat
        /\ image.end = image.start + META.size /\ reloc = Reloc(image)
        /\ ~NoRoom(image) /\ (META.format = "BIN" => image.end < DRAM_LIMIT)
    BY DEF TypeOK, Fits, MetaType
  <1>2. image.start \in Nat /\ image.end \in Nat /\ image.start <= image.end
    BY <1>1
  <1>3. /\ reloc.size \in Nat /\ reloc.tgt \in Nat /\ reloc.tgtEnd \in Nat
        /\ reloc.buf \in Nat /\ reloc.stub \in Nat /\ reloc.tgtEnd = reloc.tgt + reloc.size
        /\ reloc.size = 0 =>
             /\ reloc.tgt = 0 /\ reloc.buf = 0
             /\ \A a \in image.start .. image.end - 1 : a < ProgStart \/ a >= ProgEnd
        /\ reloc.size > 0 => /\ reloc.tgt = Greater(image.start, ProgStart)
                             /\ reloc.tgtEnd = Lesser(image.end, ProgEnd)
                             /\ reloc.buf >= ProgEnd /\ reloc.buf >= image.end
                             /\ reloc.buf + reloc.size <= reloc.stub
                             /\ reloc.stub + StubSize <= DRAM_LIMIT
    BY <1>1, <1>2, Layout
  <1>4. reloc.size > 0 => reloc.buf >= reloc.tgtEnd
    BY <1>2, <1>3, LayoutAssumption DEF Lesser
  <1>5. QED
    BY <1>1, <1>2, <1>3, <1>4

\* Metadata that is accepted has a plan, and nothing is fed yet.
LEMMA CopyInitMeta ==
    ASSUME NEW m \in Metas, InitMeta(m)
    PROVE  CopyInv'
  <1>1. m \in MetaType
    BY InputAssumption
  <1>2. ImageOf(m).start \in Nat /\ ImageOf(m).end = ImageOf(m).start + m.size
    BY <1>1, ImageType
  <1>3. /\ m.format = "BIN" => ImageOf(m).end < DRAM_LIMIT
        /\ m.compression # "unknown"
    BY <1>1 DEF InitMeta, Acceptable, ImageOf
  <1>4. phase' = "feed" /\ META' = m /\ image' = ImageOf(m) /\ reloc' = Reloc(ImageOf(m))
        /\ feed' = ImageOf(m).start /\ ~NoRoom(ImageOf(m))
    BY DEF InitMeta
  <1>5. Fits'
    BY <1>2, <1>3, <1>4 DEF Fits, NoRoom, RelocSize, Overlaps, BufStart
  <1>6. Inflated'
    BY <1>2, <1>4 DEF Inflated
  <1>7. QED
    BY <1>4, <1>5, <1>6
       DEF CopyInv, Counted, Moving, VerdictSound, StubIntact, StartedComplete

\* Feeding keeps what was inflated, and adds to it.
LEMMA CopyFeed ==
    ASSUME IntactInv, CopyInv, FeedChunk \/ FeedAlien \/ FeedInflated \/ FeedSwapped
    PROVE  CopyInv'
  <1>1. /\ phase = "feed" /\ phase' \in {"feed", "lost"}
        /\ UNCHANGED <<META, image, reloc, ok, stub>>
    BY DEF FeedChunk, FeedAlien, FeedInflated, FeedSwapped
  <1>2. Fits'
    BY <1>1 DEF CopyInv, Fits, NoRoom, RelocSize, Overlaps, BufStart
  <1>3. Inflated'
    <2> DEFINE New(k) == IF META.compression = "XZ" /\ swapped' THEN {k, Alien(k)} ELSE {k}
    <2> SUFFICES ASSUME phase' = "feed", META.compression = "XZ", META.format = "BIN",
                        feed' <= image.end, NEW a \in image.start .. feed' - 1
                 PROVE  mem'[Kept(a)] \in New(a - image.start)
      BY <1>1 DEF Inflated, Kept, Contents
    <2>1. TypeOK /\ Planned /\ Fits /\ Inflated
      BY DEF IntactInv, CopyInv
    <2>2. PICK n, data : /\ n \in Nat /\ FeedImpl(n, data)
                         /\ \A j \in 0 .. n - 1 :
                              data[j] \in New(feed - image.start + j)
                         /\ \A k : Contents(k) \subseteq New(k)
      <3>1. CASE FeedInflated
        <4>1. PICK n \in 1 .. Lesser(OutSize, Remaining) : FeedImpl(n, ImageBytes(n))
          BY <3>1 DEF FeedInflated
        <4>2. n \in Nat
          BY <4>1, <2>1, InputAssumption DEF Lesser, Remaining, TypeOK
        <4>3. \A j \in 0 .. n - 1 : ImageBytes(n)[j] = feed - image.start + j
          BY DEF ImageBytes
        <4>4. \A k : New(k) = Contents(k) /\ k \in New(k)
          BY <3>1 DEF FeedInflated, Contents
        <4> HIDE DEF New
        <4>5. QED
          BY <4>1, <4>2, <4>3, <4>4
      <3>2. CASE FeedSwapped
        <4>1. PICK n \in 1 .. OutSize : FeedImpl(n, AlienBytes(n))
          BY <3>2 DEF FeedSwapped
        <4>2. n \in Nat
          BY <4>1, InputAssumption
        <4>3. \A j \in 0 .. n - 1 : AlienBytes(n)[j] = Alien(feed - image.start + j)
          BY DEF AlienBytes
        <4>4. \A k : Alien(k) \in New(k) /\ Contents(k) \subseteq New(k)
          BY <3>2 DEF FeedSwapped, Contents
        <4> HIDE DEF New
        <4>5. QED
          BY <4>1, <4>2, <4>3, <4>4
      <3>3. QED
        BY <3>1, <3>2 DEF FeedChunk, FeedAlien
    <2> HIDE DEF New
    <2>3. image.start \in Nat /\ image.end \in Nat /\ feed \in Nat /\ image.start <= feed
      BY <1>1, <2>1 DEF TypeOK, Planned
    <2>4. n \in Nat /\ feed' = feed + n /\ feed + n <= image.end /\ feed <= image.end
      BY <2>2, <2>3 DEF FeedImpl
    <2>5. mem'[Kept(a)] = IF a >= feed THEN data[a - feed] ELSE mem[Kept(a)]
      <3>1. a \in image.start .. feed + n - 1
        BY <2>3, <2>4
      <3>2. QED
        BY <1>1, <2>1, <2>2, <2>4, <3>1, FeedPlaces
    <2>6. CASE a >= feed
      <3>1. a - feed \in 0 .. n - 1 /\ feed - image.start + (a - feed) = a - image.start
        BY <2>2, <2>3, <2>4, <2>6
      <3>2. data[a - feed] \in New(feed - image.start + (a - feed))
        BY <2>2, <3>1
      <3>3. QED
        BY <2>5, <2>6, <3>1, <3>2
    <2>7. CASE a < feed
      <3>1. a \in image.start .. feed - 1 /\ ~(a >= feed)
        BY <2>3, <2>4, <2>7
      <3>2. mem[Kept(a)] \in Contents(a - image.start)
        BY <1>1, <2>1, <2>4, <3>1 DEF Inflated
      <3>3. mem'[Kept(a)] = mem[Kept(a)]
        BY <2>5, <3>1
      <3>4. Contents(a - image.start) \subseteq New(a - image.start)
        BY <2>2
      <3>5. QED
        BY <3>2, <3>3, <3>4
    <2>8. QED
      BY <2>3, <2>4, <2>6, <2>7
  <1>4. QED
    BY <1>1, <1>2, <1>3
       DEF CopyInv, Counted, Moving, VerdictSound, StubIntact, StartedComplete

\* platform_load_image: the three parts of the CRC are all of the image.
LEMMA CopyLoad ==
    ASSUME IntactInv, CopyInv, LoadImage
    PROVE  CopyInv'
  <1>1. /\ phase = "feed" /\ phase' = "verdict"
        /\ UNCHANGED <<META, image, reloc, feed, chunks, swapped, stub, mem>>
        /\ ok' => feed = image.end /\ (META.compression = "NONE" => CrcOk)
    BY DEF LoadImage, ReachedEnd
  <1>2. TypeOK /\ Planned /\ Fits /\ Inflated
    BY DEF IntactInv, CopyInv
  <1>3. Fits'
    BY <1>1, <1>2 DEF Fits, NoRoom, RelocSize, Overlaps, BufStart
  <1>4. VerdictSound'
    <2> SUFFICES ASSUME ok', META.format = "BIN", NEW k \in 0 .. META.size - 1
                 PROVE  /\ Kept(image.start + k) \in Addr
                        /\ mem[Kept(image.start + k)] \in Contents(k)
      BY <1>1 DEF VerdictSound, Kept, Contents
    <2>0. k \in Contents(k)
      BY DEF Contents
    <2> DEFINE a == image.start + k
    <2>1. /\ image.start \in Nat /\ image.end \in Nat
          /\ image.end = image.start + META.size /\ META.size \in Nat
          /\ reloc.size \in Nat /\ reloc.tgt \in Nat /\ reloc.buf \in Nat
          /\ reloc.tgtEnd = reloc.tgt + reloc.size
          /\ reloc.size > 0 => /\ reloc.tgt = Greater(image.start, ProgStart)
                               /\ reloc.tgtEnd = Lesser(image.end, ProgEnd)
      BY <1>1, <1>2, Plan
    <2>2. a \in image.start .. image.end - 1 /\ k \in Nat /\ a - image.start = k
      BY <2>1
    <2>3. /\ Kept(a) \in Addr
          /\ a < ProgStart \/ a >= ProgEnd => Kept(a) = a
          /\ a >= ProgStart /\ a < ProgEnd =>
               /\ reloc.size > 0 /\ reloc.tgt <= a /\ a < reloc.tgtEnd
               /\ Kept(a) = reloc.buf + (a - reloc.tgt)
      BY <1>1, <1>2, <2>2, KeptFacts
    <2>4. CASE META.compression = "NONE"
      <3> DEFINE c1 == IF reloc.size > 0 /\ image.start < reloc.tgt /\ image.end > reloc.tgt
                       THEN reloc.tgt - image.start ELSE 0
                 f1 == image.start + c1
                 c2 == IF reloc.size > 0 /\ f1 >= reloc.tgt /\ f1 < reloc.tgtEnd
                       THEN Lesser(reloc.tgtEnd - f1, image.end - f1) ELSE 0
      <3>1. /\ \A j \in 0 .. c1 - 1 : mem[image.start + j] = j
            /\ \A j \in 0 .. c2 - 1 : mem[reloc.buf + (f1 - reloc.tgt) + j] = c1 + j
            /\ \A j \in c1 + c2 .. META.size - 1 : mem[image.start + j] = j
        BY <1>1, <2>4 DEF CrcOk
      <3>2. CASE a >= ProgStart /\ a < ProgEnd
        <4>1. reloc.size > 0 /\ reloc.tgt <= a /\ a < reloc.tgtEnd
          BY <2>3, <3>2
        <4>2. c1 = reloc.tgt - image.start /\ f1 = reloc.tgt /\ c1 \in Nat
          BY <2>1, <2>2, <4>1 DEF Greater
        <4>3. c2 = reloc.tgtEnd - reloc.tgt
          BY <2>1, <2>2, <4>1, <4>2, LayoutAssumption DEF Lesser
        <4> DEFINE j == a - reloc.tgt
        <4>4. j \in 0 .. c2 - 1 /\ c1 + j = k
              /\ reloc.buf + (f1 - reloc.tgt) + j = reloc.buf + (a - reloc.tgt)
          BY <2>1, <2>2, <4>1, <4>2, <4>3
        <4> HIDE DEF c1, c2, f1, j
        <4>5. mem[reloc.buf + (f1 - reloc.tgt) + j] = c1 + j
          BY <3>1, <4>4
        <4>6. QED
          BY <2>0, <2>3, <3>2, <4>4, <4>5
      <3>3. CASE a < ProgStart \/ a >= ProgEnd
        <4>1. k \in 0 .. c1 - 1 \/ k \in c1 + c2 .. META.size - 1
          <5>1. CASE reloc.size = 0
            BY <5>1, <2>1, <2>2
          <5>2. CASE reloc.size > 0
            BY <5>2, <3>3, <2>1, <2>2, LayoutAssumption DEF Lesser, Greater
          <5>3. QED
            BY <5>1, <5>2, <2>1
        <4> HIDE DEF c1, c2, f1
        <4>2. mem[image.start + k] = k
          BY <3>1, <4>1
        <4>3. QED
          BY <2>0, <2>3, <3>3, <4>2
      <3>4. QED
        BY <2>1, <2>2, <3>2, <3>3, LayoutAssumption
    <2>5. CASE META.compression # "NONE"
      <3>1. META.compression = "XZ" \/ META.compression = "unknown"
        BY <1>2, <2>5 DEF TypeOK, MetaType
      <3>2. META.compression = "XZ"
        BY <3>1, <1>1, <1>2 DEF Fits
      <3>3. feed = image.end /\ feed <= image.end
        BY <1>1, <2>1
      <3>4. mem[Kept(a)] \in Contents(a - image.start)
        BY <1>1, <1>2, <2>2, <3>2, <3>3 DEF Inflated
      <3>5. QED
        BY <2>2, <2>3, <3>4
    <2>6. QED
      BY <2>4, <2>5
  <1>5. QED
    BY <1>1, <1>3, <1>4
       DEF CopyInv, Inflated, Counted, Moving, StubIntact, StartedComplete

\* The block part and the rest of the relocated part, in words or not.
LEMMA Blocks16 ==
    ASSUME NEW n \in Nat
    PROVE  /\ Coarse(n) \in Nat /\ Coarse(n) <= n
           /\ n % 16 \in Nat /\ Coarse(n) + (n % 16) = n
           /\ n % 4 = 0 => n % 16 \in {0, 4, 8, 12}
           /\ n % 4 # 0 => (n % 16) % 4 # 0
  <1> DEFINE q == n \div 16
             r == n % 16
  <1>1. q \in Nat /\ r \in 0 .. 15 /\ n = 16 * q + r
    OBVIOUS
  <1>2. Coarse(n) = 16 * q
    BY <1>1 DEF Coarse
  <1> HIDE DEF q, r
  <1>3. n % 4 = r % 4
    BY <1>1
  <1>4. r % 4 = 0 => r \in {0, 4, 8, 12}
    BY <1>1
  <1>5. n % 16 = r
    BY DEF r
  <1>6. Coarse(n) \in Nat /\ Coarse(n) <= n /\ Coarse(n) + r = n
    BY <1>1, <1>2
  <1>7. r \in Nat
    BY <1>1
  <1>8. n % 16 \in Nat /\ Coarse(n) + (n % 16) = n
    BY <1>5, <1>6, <1>7, Zenon
  <1>9. n % 4 = 0 => n % 16 \in {0, 4, 8, 12}
    BY <1>3, <1>4, <1>5, Zenon
  <1>10. n % 4 # 0 => (n % 16) % 4 # 0
    BY <1>3, <1>5, Zenon
  <1>11. QED
    BY <1>6, <1>8, <1>9, <1>10, Zenon

\* subs r8, r8, #4: exact for what is left of a word count, and never zero for
\* a register that is not a word count, although the register wraps.
LEMMA LessWordFacts ==
    /\ \A r \in {4, 8, 12} : LessWord(r) = r - 4
    /\ \A r \in Nat : r % 4 # 0 => LessWord(r) % 4 # 0
  <1>1. PICK w \in Nat : WordMod = 16 * w /\ w > 0
    <2>1. WordMod \in Nat /\ WordMod # 0 /\ WordMod % 16 = 0
      BY InputAssumption
    <2> DEFINE w == WordMod \div 16
    <2>2. w \in Nat /\ WordMod = 16 * w /\ w > 0
      BY <2>1
    <2>3. QED
      BY <2>2
  <1>2. ASSUME NEW x \in 0 .. 15 PROVE x % WordMod = x
    <2>1. WordMod \in Nat \ {0} /\ x < WordMod
      BY <1>1
    <2>2. QED
      BY <2>1
  <1>3. \A r \in {4, 8, 12} : LessWord(r) = r - 4
    BY <1>2 DEF LessWord
  <1>4. ASSUME NEW r \in Nat, r % 4 # 0 PROVE LessWord(r) % 4 # 0
    <2> DEFINE q == (r - 4) \div WordMod
               u == w * q
               rem == (r - 4) % WordMod
    <2>1. WordMod \in Nat \ {0} /\ r - 4 \in Int
      BY InputAssumption
    <2>2. q \in Int /\ rem \in Int /\ r - 4 = WordMod * q + rem
      BY <2>1
    <2> HIDE DEF q, rem
    <2>3. u \in Int /\ WordMod * q = 16 * u
      BY <1>1, <2>2
    <2> HIDE DEF u
    <2>4. r - 4 = 16 * u + rem
      BY <2>2, <2>3
    <2>5. rem % 4 # 0
      BY <1>4, <2>2, <2>3, <2>4
    <2>6. QED
      BY <2>5 DEF LessWord, rem
  <1>5. QED
    BY <1>3, <1>4

\* One move of the stub, inside the relocated part: no byte of the image is
\* lost, and the stub is not reached.
LEMMA MoveKeeps ==
    ASSUME TypeOK, Fits, phase = "stub", reloc.size > 0, META.format = "BIN",
           NEW n \in {4, 16}, Move(n),
           reloc.tgt <= stub.r0, stub.r0 - reloc.tgt = stub.r1 - reloc.buf,
           stub.r0 + n <= reloc.tgtEnd, stub'.r0 = stub.r0 + n,
           UNCHANGED <<reloc, image>>
    PROVE  /\ \A a \in image.start .. image.end - 1 : mem'[Now(a)'] = mem[Now(a)]
           /\ \A a \in reloc.stub .. reloc.stub + StubSize - 1 : mem'[a] = mem[a]
  <1> DEFINE loaded == [j \in 0 .. n - 1 |-> IF stub.r1 + j \in Addr
                                           THEN mem[stub.r1 + j] ELSE Junk]
  <1>1. /\ image.start \in Nat /\ image.end \in Nat /\ image.end < DRAM_LIMIT
        /\ reloc.size \in Nat /\ reloc.tgt \in Nat /\ reloc.buf \in Nat
        /\ reloc.stub \in Nat /\ reloc.tgtEnd = reloc.tgt + reloc.size
        /\ reloc.buf >= reloc.tgtEnd /\ reloc.buf + reloc.size <= reloc.stub
        /\ reloc.stub + StubSize <= DRAM_LIMIT
    BY Plan
  <1>2. stub.r0 \in Nat /\ stub.r1 \in Nat /\ DRAM_LIMIT \in Nat /\ StubSize \in Nat
        /\ n \in Nat
    BY LayoutAssumption DEF TypeOK
  <1>3. ASSUME NEW x \in Addr
        PROVE  mem'[x] = IF stub.r0 <= x /\ x < stub.r0 + n
                         THEN loaded[x - stub.r0] ELSE mem[x]
    <2>1. mem' = Write(mem, stub.r0, n, loaded, 0)
      BY DEF Move
    <2>2. x - stub.r0 = 0 + (x - stub.r0)
      BY <1>2, LayoutAssumption DEF Addr
    <2> HIDE DEF loaded
    <2>3. QED
      BY <2>1, <2>2 DEF Write
  <1>4. ASSUME NEW j \in 0 .. n - 1 PROVE loaded[j] = mem[stub.r1 + j]
    <2>1. stub.r1 + j \in Addr
      BY <1>1, <1>2 DEF Addr
    <2>2. QED
      BY <2>1
  <1> HIDE DEF loaded
  <1>5. ASSUME NEW a \in image.start .. image.end - 1
        PROVE  mem'[Now(a)'] = mem[Now(a)]
    <2>0. a \in Addr /\ a \in Nat
      BY <1>1, <1>2 DEF Addr
    <2>1. Now(a)' = IF stub.r0 + n <= a /\ a < reloc.tgtEnd
                    THEN reloc.buf + (a - reloc.tgt) ELSE a
      BY DEF Now
    <2>2. CASE stub.r0 <= a /\ a < stub.r0 + n
      <3>1. Now(a)' = a /\ Now(a) = reloc.buf + (a - reloc.tgt)
        BY <1>1, <1>2, <2>0, <2>1, <2>2 DEF Now
      <3>2. a - stub.r0 \in 0 .. n - 1 /\ stub.r1 + (a - stub.r0) = reloc.buf + (a - reloc.tgt)
        BY <1>1, <1>2, <2>0, <2>2
      <3>3. mem'[a] = loaded[a - stub.r0]
        BY <1>3, <2>0, <2>2
      <3>4. loaded[a - stub.r0] = mem[stub.r1 + (a - stub.r0)]
        BY <1>4, <3>2
      <3>5. QED
        BY <3>1, <3>2, <3>3, <3>4
    <2>3. CASE stub.r0 + n <= a /\ a < reloc.tgtEnd
      <3> DEFINE x == reloc.buf + (a - reloc.tgt)
      <3>1. Now(a)' = x /\ Now(a) = x
        BY <1>1, <1>2, <2>0, <2>1, <2>3 DEF Now
      <3>2. x \in Addr /\ ~(stub.r0 <= x /\ x < stub.r0 + n)
        BY <1>1, <1>2, <2>0, <2>3 DEF Addr
      <3>3. mem'[x] = mem[x]
        BY <1>3, <3>2
      <3>4. QED
        BY <3>1, <3>3
    <2>4. CASE a < stub.r0 \/ a >= reloc.tgtEnd
      <3>1. Now(a)' = a /\ Now(a) = a /\ ~(stub.r0 <= a /\ a < stub.r0 + n)
        BY <1>1, <1>2, <2>0, <2>1, <2>4 DEF Now
      <3>2. mem'[a] = mem[a]
        BY <1>3, <2>0, <3>1
      <3>3. QED
        BY <3>1, <3>2
    <2>5. QED
      BY <1>1, <1>2, <2>0, <2>2, <2>3, <2>4
  <1>6. ASSUME NEW a \in reloc.stub .. reloc.stub + StubSize - 1
        PROVE  mem'[a] = mem[a]
    BY <1>1, <1>2, <1>3 DEF Addr
  <1>7. QED
    BY <1>5, <1>6

\* trampoline copies the stub behind everything that is kept.
LEMMA CopyTrampoline ==
    ASSUME IntactInv, CopyInv, Trampoline
    PROVE  CopyInv'
  <1>1. /\ phase = "verdict" /\ phase' = "stub" /\ META.format = "BIN"
        /\ UNCHANGED <<META, image, reloc, feed, chunks, swapped, ok>>
        /\ stub' = [r0 |-> reloc.tgt, r1 |-> reloc.buf,
                    r8 |-> Coarse(reloc.size), loop |-> "coarse"]
        /\ mem' = IF reloc.size > 0 THEN Write(mem, reloc.stub, StubSize, StubBytes, 0)
                  ELSE mem
    BY DEF Trampoline
  <1>2. TypeOK /\ Fits /\ VerdictSound
    BY DEF IntactInv, CopyInv
  <1>3. /\ image.start \in Nat /\ image.end \in Nat /\ image.end = image.start + META.size
        /\ META.size \in Nat /\ image.end < DRAM_LIMIT
        /\ reloc.size \in Nat /\ reloc.tgt \in Nat /\ reloc.buf \in Nat
        /\ reloc.stub \in Nat /\ reloc.tgtEnd = reloc.tgt + reloc.size
        /\ reloc.size = 0 => reloc.tgt = 0
        /\ reloc.size > 0 =>
             /\ reloc.tgt = Greater(image.start, ProgStart)
             /\ reloc.tgtEnd = Lesser(image.end, ProgEnd)
             /\ reloc.buf >= reloc.tgtEnd /\ reloc.buf >= image.end
             /\ reloc.buf + reloc.size <= reloc.stub
             /\ reloc.stub + StubSize <= DRAM_LIMIT
    BY <1>1, <1>2, Plan
  <1>4. Fits'
    BY <1>1, <1>2 DEF Fits, NoRoom, RelocSize, Overlaps, BufStart
  <1>5. Counted'
    <2>1. /\ stub'.r0 = reloc.tgt /\ stub'.r1 = reloc.buf /\ stub'.loop = "coarse"
          /\ stub'.r8 = Coarse(reloc.size)
      BY <1>1
    <2>2. reloc.tgt - reloc.tgt = reloc.buf - reloc.buf /\ reloc.tgt <= reloc.tgt
      BY <1>3
    <2>3. "coarse" # "fine"
      OBVIOUS
    <2>4. QED
      BY <1>1, <2>1, <2>2, <2>3, Zenon DEF Counted
  <1>6. DRAM_LIMIT \in Nat /\ StubSize \in Nat /\ ProgStart \in Nat /\ ProgEnd \in Nat
    BY LayoutAssumption
  <1>7. ASSUME NEW x \in Addr, reloc.size > 0
        PROVE  /\ x < reloc.stub => mem'[x] = mem[x]
               /\ reloc.stub <= x /\ x < reloc.stub + StubSize => mem'[x] = Stub
    <2>1. mem' = Write(mem, reloc.stub, StubSize, StubBytes, 0) /\ x \in Nat
      BY <1>1, <1>6, <1>7 DEF Addr
    <2>2. reloc.stub <= x /\ x < reloc.stub + StubSize => StubBytes[0 + (x - reloc.stub)] = Stub
      BY <1>3, <1>6, <2>1 DEF StubBytes
    <2>3. mem'[x] = IF reloc.stub <= x /\ x < reloc.stub + StubSize
                    THEN StubBytes[0 + (x - reloc.stub)] ELSE mem[x]
      BY <2>1 DEF Write
    <2>4. QED
      BY <1>3, <2>1, <2>2, <2>3
  <1>8. Moving'
    <2> SUFFICES ASSUME ok, NEW a \in image.start .. image.end - 1
                 PROVE  mem'[Now(a)'] \in Contents(a - image.start)
      BY <1>1 DEF Moving, Contents
    <2> DEFINE k == a - image.start
    <2>1. k \in 0 .. META.size - 1 /\ image.start + k = a /\ a \in Nat
      BY <1>3
    <2>2. Kept(a) \in Addr /\ mem[Kept(a)] \in Contents(k)
      BY <1>1, <1>2, <2>1 DEF VerdictSound
    <2>3. /\ a < ProgStart \/ a >= ProgEnd => Kept(a) = a
          /\ a >= ProgStart /\ a < ProgEnd =>
               /\ reloc.size > 0 /\ reloc.tgt <= a /\ a < reloc.tgtEnd
               /\ Kept(a) = reloc.buf + (a - reloc.tgt)
      BY <1>1, <1>2, KeptFacts
    <2>4. Now(a)' = Kept(a)
      <3>1. Now(a)' = IF reloc.tgt <= a /\ a < reloc.tgtEnd
                      THEN reloc.buf + (a - reloc.tgt) ELSE a
        BY <1>1 DEF Now
      <3>2. CASE a >= ProgStart /\ a < ProgEnd
        BY <2>3, <3>1, <3>2
      <3>3. CASE a < ProgStart \/ a >= ProgEnd
        BY <1>3, <1>6, <2>1, <2>3, <3>1, <3>3 DEF Greater, Lesser
      <3>4. QED
        BY <1>6, <2>1, <3>2, <3>3
    <2>5. CASE reloc.size > 0
      <3>1. Kept(a) < reloc.stub
        BY <1>3, <1>6, <2>1, <2>3, <2>5
      <3>2. QED
        BY <1>7, <2>2, <2>4, <2>5, <3>1
    <2>6. CASE reloc.size = 0
      BY <1>1, <2>2, <2>4, <2>6
    <2>7. QED
      BY <1>3, <2>5, <2>6
  <1>9. StubIntact'
    BY <1>1, <1>3, <1>6, <1>7 DEF StubIntact, Addr
  <1>10. QED
    BY <1>1, <1>4, <1>5, <1>8, <1>9
       DEF CopyInv, Inflated, VerdictSound, StartedComplete

\* The stub's loops: each move is inside the relocated part, and the jump
\* comes when all of it has been moved.
LEMMA CopyStub ==
    ASSUME IntactInv, CopyInv, StubRuns
    PROVE  CopyInv'
  <1>1. /\ phase = "stub" /\ phase' \in {"stub", "started", "lost"}
        /\ UNCHANGED <<META, image, reloc, feed, chunks, swapped, ok>>
    BY DEF StubRuns, CopyCoarse, StartFine, CopyFine, Jump
  <1>2. TypeOK /\ Fits /\ Counted /\ Moving /\ StubIntact /\ CountsBlocks
        /\ META.format = "BIN"
    BY <1>1 DEF IntactInv, CopyInv, Fits
  <1>3. /\ image.start \in Nat /\ image.end \in Nat /\ image.end = image.start + META.size
        /\ META.size \in Nat /\ image.end < DRAM_LIMIT
        /\ reloc.size \in Nat /\ reloc.tgt \in Nat /\ reloc.buf \in Nat
        /\ reloc.tgtEnd = reloc.tgt + reloc.size
    BY <1>1, <1>2, Plan
  <1>4. Fits'
    BY <1>1, <1>2 DEF Fits, NoRoom, RelocSize, Overlaps, BufStart
  <1>5. stub \in [r0 : Nat, r1 : Nat, r8 : Nat, loop : {"coarse", "fine"}]
    BY <1>2 DEF TypeOK
  <1>6. ASSUME phase' \in {"stub", "lost"}, Counted', Moving', StubIntact' PROVE CopyInv'
    BY <1>4, <1>6 DEF CopyInv, Inflated, VerdictSound, StartedComplete
  <1>7. ASSUME NEW n \in {4, 16}, Move(n), stub'.r0 = stub.r0 + n, stub'.r1 = stub.r1 + n,
               reloc.size % 4 = 0 => stub.r0 + n <= reloc.tgtEnd
        PROVE  Moving' /\ StubIntact'
    <2>1. CASE reloc.size % 4 = 0
      <3>1. /\ reloc.tgt <= stub.r0 /\ stub.r0 - reloc.tgt = stub.r1 - reloc.buf
            /\ stub.r0 + n <= reloc.tgtEnd
        BY <1>1, <1>2, <1>7, <2>1 DEF Counted
      <3>2. reloc.size > 0
        BY <1>3, <1>5, <3>1
      <3>3. /\ \A a \in image.start .. image.end - 1 : mem'[Now(a)'] = mem[Now(a)]
            /\ \A a \in reloc.stub .. reloc.stub + StubSize - 1 : mem'[a] = mem[a]
        BY <1>1, <1>2, <1>7, <3>1, <3>2, MoveKeeps
      <3>4. Moving'
        BY <1>1, <1>2, <2>1, <3>3 DEF Moving, Contents
      <3>5. StubIntact'
        BY <1>1, <1>2, <2>1, <3>2, <3>3 DEF StubIntact
      <3>6. QED
        BY <3>4, <3>5
    <2>2. CASE reloc.size % 4 # 0
      BY <1>1, <2>2 DEF Moving, StubIntact
    <2>3. QED
      BY <2>1, <2>2
  <1>8. CASE CopyCoarse
    <2>1. PICK k \in Nat : stub.r8 = 16 * k
      BY <1>8, <1>2 DEF CopyCoarse, CountsBlocks
    <2>2. /\ stub.loop = "coarse" /\ stub.r8 # 0 /\ Move(16) /\ phase' = "stub"
          /\ stub' = [stub EXCEPT !.r0 = @ + 16, !.r1 = @ + 16, !.r8 = @ - 16]
      BY <1>8 DEF CopyCoarse
    <2>3. /\ stub'.r0 = stub.r0 + 16 /\ stub'.r1 = stub.r1 + 16
          /\ stub'.r8 = stub.r8 - 16 /\ stub'.loop = "coarse"
      BY <1>5, <2>2
    <2>4. stub.r8 >= 16
      BY <2>1, <2>2
    <2>5. /\ Coarse(reloc.size) \in Nat
          /\ Coarse(reloc.size) <= reloc.size
      BY <1>3, Blocks16
    <2>6. Counted'
      BY <1>1, <1>2, <1>3, <1>5, <2>2, <2>3 DEF Counted
    <2>7. reloc.size % 4 = 0 => stub.r0 + 16 <= reloc.tgtEnd
      BY <1>1, <1>2, <1>3, <1>5, <2>2, <2>4, <2>5 DEF Counted
    <2>8. QED
      BY <1>6, <1>7, <2>2, <2>3, <2>6, <2>7
  <1>9. CASE StartFine
    <2>1. /\ stub.loop = "coarse" /\ stub.r8 = 0 /\ phase' = "stub" /\ mem' = mem
          /\ stub' = [stub EXCEPT !.r8 = reloc.size % 16, !.loop = "fine"]
      BY <1>9 DEF StartFine
    <2> DEFINE rest == reloc.size % 16
               odd  == reloc.size % 4
    <2>2. /\ stub'.r0 = stub.r0 /\ stub'.r1 = stub.r1 /\ stub'.r8 = rest
          /\ stub'.loop = "fine"
      BY <1>5, <2>1
    <2>3. /\ Coarse(reloc.size) \in Nat /\ rest \in Nat
          /\ Coarse(reloc.size) + rest = reloc.size
          /\ odd = 0 => rest \in {0, 4, 8, 12}
          /\ odd # 0 => rest % 4 # 0
      BY <1>3, Blocks16
    <2>4. odd = 0 =>
            /\ stub.r0 - reloc.tgt = stub.r1 - reloc.buf /\ reloc.tgt <= stub.r0
            /\ stub.r0 + 0 = reloc.tgt + Coarse(reloc.size)
      BY <1>1, <1>2, <2>1 DEF Counted
    <2>5. Counted'
      <3> HIDE DEF rest, odd
      <3>1. odd = 0 => stub.r0 + rest = reloc.tgt + reloc.size
        BY <1>3, <1>5, <2>3, <2>4
      <3>2. odd' = odd
        BY <1>1 DEF odd
      <3>3. stub'.loop # "coarse"
        BY <2>2
      <3>4. odd' = 0 => /\ stub'.r0 - reloc'.tgt = stub'.r1 - reloc'.buf
                        /\ reloc'.tgt <= stub'.r0
                        /\ stub'.r0 + stub'.r8 = reloc'.tgt + reloc'.size
                        /\ stub'.r8 \in {0, 4, 8, 12}
        BY <1>1, <2>2, <2>3, <2>4, <3>1, <3>2
      <3>5. odd' # 0 => stub'.r8 % 4 # 0
        BY <2>2, <2>3, <3>2
      <3>6. QED
        BY <3>3, <3>4, <3>5, Zenon DEF Counted, odd
    <2>6. Moving' /\ StubIntact'
      BY <1>1, <1>2, <2>1, <2>2 DEF Moving, StubIntact, Now, Contents
    <2>7. QED
      BY <1>6, <2>1, <2>5, <2>6
  <1>10. CASE CopyFine
    <2>1. /\ stub.loop = "fine" /\ stub.r8 # 0 /\ Move(4) /\ phase' \in {"stub", "lost"}
          /\ stub' = [stub EXCEPT !.r0 = @ + 4, !.r1 = @ + 4, !.r8 = LessWord(@)]
      BY <1>1, <1>10 DEF CopyFine
    <2>2. /\ stub'.r0 = stub.r0 + 4 /\ stub'.r1 = stub.r1 + 4
          /\ stub'.r8 = LessWord(stub.r8) /\ stub'.loop = "fine"
      BY <1>5, <2>1
    <2>3. reloc.size % 4 = 0 =>
            /\ stub.r0 - reloc.tgt = stub.r1 - reloc.buf /\ reloc.tgt <= stub.r0
            /\ stub.r0 + stub.r8 = reloc.tgt + reloc.size /\ stub.r8 \in {4, 8, 12}
      BY <1>1, <1>2, <2>1 DEF Counted
    <2>4. reloc.size % 4 # 0 => stub.r8 % 4 # 0
      BY <1>1, <1>2, <2>1 DEF Counted
    <2>5. /\ reloc.size % 4 = 0 => LessWord(stub.r8) = stub.r8 - 4
          /\ reloc.size % 4 # 0 => LessWord(stub.r8) % 4 # 0
      BY <1>5, <2>3, <2>4, LessWordFacts
    <2>6. Counted'
      <3>1. ASSUME reloc.size % 4 = 0
            PROVE  /\ stub'.r0 - reloc.tgt = stub'.r1 - reloc.buf /\ reloc.tgt <= stub'.r0
                   /\ stub'.r0 + stub'.r8 = reloc.tgt + reloc.size /\ stub'.r8 \in {0, 4, 8}
        <4>1. /\ stub.r0 - reloc.tgt = stub.r1 - reloc.buf /\ reloc.tgt <= stub.r0
              /\ stub.r0 + stub.r8 = reloc.tgt + reloc.size /\ stub.r8 \in {4, 8, 12}
              /\ stub'.r8 = stub.r8 - 4
          BY <2>2, <2>3, <2>5, <3>1
        <4>2. QED
          BY <1>3, <1>5, <2>2, <4>1
      <3>2. QED
        BY <1>1, <2>2, <2>5, <3>1 DEF Counted
    <2>7. reloc.size % 4 = 0 => stub.r0 + 4 <= reloc.tgtEnd
      BY <1>3, <1>5, <2>3
    <2>8. QED
      BY <1>6, <1>7, <2>1, <2>2, <2>6, <2>7
  <1>11. CASE Jump
    <2>1. /\ stub.loop = "fine" /\ stub.r8 = 0 /\ phase' = "started"
          /\ UNCHANGED <<stub, mem>>
      BY <1>11 DEF Jump
    <2>2. reloc.size % 4 = 0 /\ stub.r0 = reloc.tgtEnd
      <3>1. reloc.size % 4 = 0
        BY <1>1, <1>2, <2>1 DEF Counted
      <3>2. stub.r0 + 0 = reloc.tgt + reloc.size
        BY <1>1, <1>2, <2>1, <3>1 DEF Counted
      <3>3. QED
        BY <1>3, <1>5, <3>1, <3>2
    <2>3. ASSUME ok, NEW k \in 0 .. META.size - 1
          PROVE  mem[image.start + k] \in Contents(k)
      <3> DEFINE a == image.start + k
      <3>1. a \in image.start .. image.end - 1 /\ a - image.start = k
        BY <1>3
      <3>2. Now(a) = a
        BY <1>3, <1>5, <2>2, <3>1 DEF Now
      <3>3. mem[Now(a)] \in Contents(a - image.start)
        BY <1>1, <1>2, <2>2, <2>3, <3>1 DEF Moving
      <3>4. QED
        BY <3>1, <3>2, <3>3
    <2>4. StartedComplete'
      BY <1>1, <2>1, <2>3 DEF StartedComplete, Contents
    <2>5. QED
      BY <1>4, <2>1, <2>4 DEF CopyInv, Inflated, Counted, Moving, VerdictSound, StubIntact
  <1>12. QED
    BY <1>8, <1>9, <1>10, <1>11 DEF StubRuns

\* The other steps: no plan is in force, or nothing changes.
LEMMA CopyQuiet ==
    ASSUME CopyInv,
           (\E m \in Metas : NoRoomForMeta(m)) \/ Abandon \/ UNCHANGED vars
    PROVE  CopyInv'
  <1>1. CASE (\E m \in Metas : NoRoomForMeta(m)) \/ Abandon
    <2>1. phase' = "poll"
      BY <1>1 DEF NoRoomForMeta, Abandon
    <2>2. QED
      BY <2>1 DEF CopyInv, Fits, Inflated, Counted, Moving, VerdictSound, StubIntact,
                  StartedComplete
  <1>2. CASE UNCHANGED vars
    <2>1. Fits'
      BY <1>2 DEF vars, CopyInv, Fits, NoRoom, RelocSize, Overlaps, BufStart
    <2>2. Inflated' /\ VerdictSound'
      BY <1>2 DEF vars, CopyInv, Inflated, VerdictSound, Kept, Contents
    <2>3. Counted' /\ Moving' /\ StubIntact' /\ StartedComplete'
      BY <1>2 DEF vars, CopyInv, Counted, Moving, Now, Contents, StubIntact, StartedComplete
    <2>4. QED
      BY <2>1, <2>2, <2>3 DEF CopyInv
  <1>3. QED
    BY <1>1, <1>2

\* The inductive invariant holds in every reachable state.
LEMMA CopyInvariant == Spec => []CopyInv
  <1>1. Init => CopyInv
    BY DEF Init, CopyInv, Fits, Inflated, Counted, Moving, VerdictSound, StubIntact,
           StartedComplete
  <1>2. IntactInv /\ CopyInv /\ [Next]_vars => CopyInv'
    BY CopyInitMeta, CopyFeed, CopyLoad, CopyTrampoline, CopyStub, CopyQuiet DEF Next
  <1>3. QED
    BY <1>1, <1>2, IntactInvariant, PTL DEF Spec

\* platform_load_image approves exactly the bytes that will be started, in place
\* or in the buffer: those of the announced image or, of a compressed one in
\* whose session another file was received, those that came out of the decoder.
THEOREM VerdictIsSound == Spec => []VerdictSound
  <1>1. CopyInv => VerdictSound
    BY DEF CopyInv
  <1>2. QED
    BY <1>1, CopyInvariant, PTL

\* The relocation stub never overwrites itself, wherever the image and the
\* buffer are.
THEOREM StubSurvives == Spec => []StubIntact
  <1>1. CopyInv => StubIntact
    BY DEF CopyInv
  <1>2. QED
    BY <1>1, CopyInvariant, PTL

\* An approved image that is started is complete and in place: the stub's two
\* loops move every byte exactly once.
THEOREM StartedIsComplete == Spec => []StartedComplete
  <1>1. CopyInv => StartedComplete
    BY DEF CopyInv
  <1>2. QED
    BY <1>1, CopyInvariant, PTL

===============================================================================
