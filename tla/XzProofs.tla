------------------------------ MODULE XzProofs ------------------------------
(***************************************************************************)
(* Proofs about the container decoder and the LZMA2 decoder, for every     *)
(* value of the constants of DataPath, and with DataPathProofs that no     *)
(* layer leaves its buffers.                                               *)
(***************************************************************************)
EXTENDS DataPathProofs

(***************************************************************************)
(* The container decoder.                                                  *)
(***************************************************************************)
StreamBytes == Elements(file.bytes)
FileOk == IsFile(file.bytes)

\* The states of the decoder that collect a field in temp.
FillStates == {"STREAM_HEADER", "BLOCK_HEADER", "STREAM_FOOTER"}
DecFields == {"seq", "allowBuf", "pos", "vli", "crc", "check", "bcj", "inStart", "callIn",
              "bh", "block", "index", "temp", "tempSize"}
TempShape(t) ==
    /\ DOMAIN t = DecFields
    /\ t.temp \in Seq(StreamBytes) /\ t.tempSize \in Nat /\ Len(t.temp) <= t.tempSize
    /\ t.seq \in FillStates \/ t.temp = <<>>

StreamInv ==
    /\ FileOk
    /\ fed \in Nat /\ fed <= Len(file.bytes) /\ inPos \in Nat /\ inPos <= fed
    /\ pc \in {"idle", "call", "main", "ret"}
    /\ outBuf \in Seq(Nat) /\ Len(outBuf) <= OutSize /\ pend \in Seq(Nat)
    /\ TempShape(s)

StreamPart == part = "stream" => StreamInv

LEMMA StreamInitHolds == S!Init => StreamInv
  <1> SUFFICES ASSUME S!Init PROVE StreamInv
    OBVIOUS
  <1>1. PICK p \in StreamPlans : file = S!Encode(p)
    BY DEF S!Init
  <1>2. FileOk
    BY <1>1, EncodedAssumption DEF FileOk
  <1>3. Len(file.bytes) \in Nat
    BY <1>2 DEF FileOk, IsFile
  <1>4. TempShape(s)
    <2>1. s = S!Reset
      BY DEF S!Init
    <2>2. DOMAIN s = DecFields /\ s.temp = <<>> /\ s.tempSize = StreamHeaderSize
      BY <2>1 DEF S!Reset, DecFields
    <2>3. Len(<<>>) <= StreamHeaderSize /\ StreamHeaderSize \in Nat
      BY StreamAssumption
    <2>4. QED
      BY <2>2, <2>3, EmptySeq DEF TempShape
  <1>5. Len(<<>>) <= OutSize /\ 0 <= Len(file.bytes)
    BY <1>3, StreamAssumption
  <1>6. QED
    BY <1>2, <1>4, <1>5, EmptySeq DEF StreamInv, S!Init

LEMMA SameTemp ==
    ASSUME NEW t, NEW u, TempShape(t), DOMAIN u = DecFields, u.temp = t.temp, u.tempSize = t.tempSize,
           u.seq = t.seq \/ t.temp = <<>>
    PROVE  TempShape(u)
  BY DEF TempShape

\* What the file's bytes keep when only the decoder moves.
LEMMA FileStays ==
    ASSUME FileOk, file' = file
    PROVE  FileOk' /\ StreamBytes' = StreamBytes
  BY DEF FileOk, IsFile, StreamBytes, Elements

LEMMA ShapeNext ==
    ASSUME file' = file, TempShape(s')
    PROVE  TempShape(s)'
  BY DEF TempShape, StreamBytes, Elements

LEMMA FedByte ==
    ASSUME StreamInv, inPos # fed
    PROVE  /\ inPos + 1 \in 1 .. Len(file.bytes) /\ inPos + 1 <= fed /\ inPos + 1 \in Nat
           /\ S!Byte \in StreamBytes /\ S!Value(S!Byte) \in Nat
  <1>1. /\ file.bytes \in Seq(StreamBytes) /\ Len(file.bytes) \in Nat /\ fed \in Nat /\ inPos \in Nat
        /\ inPos <= fed /\ fed <= Len(file.bytes)
    BY DEF StreamInv, FileOk, IsFile, StreamBytes
  <1>2. inPos + 1 \in 1 .. Len(file.bytes) /\ inPos + 1 <= fed /\ inPos + 1 \in Nat
    BY <1>1
  <1>3. S!Byte \in StreamBytes
    BY <1>1, <1>2 DEF S!Byte
  <1>4. S!Value(S!Byte) \in Nat
    <2> DEFINE z == S!Byte
    <2> HIDE DEF z
    <2>1. z[1] = "b" => z[2] \in Nat
      BY <1>3 DEF StreamInv, FileOk, IsFile, StreamBytes, z
    <2>2. S!Value(z) \in Nat
      BY <2>1 DEF S!Value
    <2>3. QED
      BY <2>2 DEF z
  <1>5. QED
    BY <1>2, <1>3, <1>4

\* fill_temp takes what is there and no more than the field has.
LEMMA FillFacts ==
    ASSUME StreamInv
    PROVE  /\ S!Fill \in Nat /\ inPos + S!Fill \in Nat /\ inPos + S!Fill <= fed
           /\ S!Filled \in Seq(StreamBytes) /\ Len(S!Filled) <= s.tempSize
  <1>1. /\ file.bytes \in Seq(StreamBytes) /\ Len(file.bytes) \in Nat /\ fed \in Nat /\ inPos \in Nat
        /\ inPos <= fed /\ fed <= Len(file.bytes)
        /\ s.temp \in Seq(StreamBytes) /\ s.tempSize \in Nat /\ Len(s.temp) <= s.tempSize
        /\ Len(s.temp) \in Nat
    BY DEF StreamInv, FileOk, IsFile, StreamBytes, TempShape
  <1> DEFINE k == Len(s.temp)
             z == s.tempSize
             n == S!Fill
             g == SubSeq(file.bytes, inPos + 1, inPos + n)
  <1>2. n = IF fed - inPos < z - k THEN fed - inPos ELSE z - k
    BY DEF S!Fill, S!Min2
  <1> HIDE DEF k, z, n
  <1>3. k \in Nat /\ z \in Nat /\ k <= z
    BY <1>1 DEF k, z
  <1>4. n \in Nat /\ inPos + n \in Nat /\ inPos + n <= fed /\ k + n <= z /\ inPos + n <= Len(file.bytes)
    BY <1>1, <1>2, <1>3
  <1>5. g \in Seq(StreamBytes) /\ Len(g) = n
    BY <1>1, <1>4
  <1> HIDE DEF g
  <1>6. s.temp \o g \in Seq(StreamBytes) /\ Len(s.temp \o g) = k + n
    <2>1. s.temp \in Seq(StreamBytes)
      BY <1>1
    <2>2. s.temp \o g \in Seq(StreamBytes) /\ Len(s.temp \o g) = Len(s.temp) + Len(g)
      BY <1>5, <2>1
    <2>3. QED
      BY <1>5, <2>2 DEF k
  <1>7. S!Filled = s.temp \o g
    BY DEF S!Filled, S!Given, g, n
  <1>8. QED
    BY <1>4, <1>6, <1>7 DEF n, z

\* What a byte of compressed data lets the filter chain write.
LEMMA WritesType ==
    ASSUME FileOk, NEW i \in 1 .. Len(file.bytes)
    PROVE  S!Writes(file.bytes[i]) \in Seq(Nat)
  <1> DEFINE z == file.bytes[i]
  <1>1. z \in StreamBytes
    BY DEF FileOk, IsFile, StreamBytes
  <1> HIDE DEF z
  <1>2. z[1] = "z" => z[2] \in Seq(Nat)
    BY <1>1 DEF FileOk, IsFile, StreamBytes
  <1>3. S!Writes(z) \in Seq(Nat)
    BY <1>2, EmptySeq DEF S!Writes
  <1>4. QED
    BY <1>3 DEF z

\* What the filter chain has ready after n more bytes is a string of bytes.
LEMMA ReadyType ==
    ASSUME StreamInv, NEW n \in Nat, n <= fed - inPos
    PROVE  S!Ready(n) \in Seq(Nat)
  <1> DEFINE W(k) == S!Writes(file.bytes[inPos + k])
             Fcn(h) == [k \in 0 .. n |-> IF k = 0 THEN pend ELSE h[k - 1] \o W(k)]
             ready == CHOOSE h : h = Fcn(h)
             step == [k \in 1 .. n |-> [t \in Seq(Nat) |-> t \o W(k)]]
  <1>0. pend \in Seq(Nat) /\ FileOk
    BY DEF StreamInv
  <1>1. ASSUME NEW k \in 1 .. n PROVE W(k) \in Seq(Nat)
    <2>1. /\ Len(file.bytes) \in Nat /\ fed \in Nat /\ inPos \in Nat
          /\ inPos <= fed /\ fed <= Len(file.bytes)
      BY DEF StreamInv, FileOk, IsFile
    <2>2. inPos + k \in 1 .. Len(file.bytes)
      BY <2>1
    <2>3. QED
      BY <1>0, <2>2, WritesType
  <1> HIDE DEF W
  <1>2. ASSUME NEW t \in Seq(Nat), NEW k \in 1 .. n PROVE t \o W(k) \in Seq(Nat)
    BY <1>1
  <1>3. AreSteps(step, Seq(Nat), n)
    BY <1>2 DEF AreSteps
  <1> HIDE DEF step
  <1>3a. PICK g : GoesBySteps(g, Seq(Nat), n, pend, step)
    BY <1>0, <1>3, Recursion
  <1>4. g \in [0 .. n -> Seq(Nat)] /\ g[0] = pend /\ \A k \in 1 .. n : g[k] = step[k][g[k - 1]]
    BY <1>3a DEF GoesBySteps
  <1>5. \A k \in 1 .. n : g[k] = g[k - 1] \o W(k)
    <2> SUFFICES ASSUME NEW k \in 1 .. n PROVE g[k] = g[k - 1] \o W(k)
      OBVIOUS
    <2>1. k - 1 \in 0 .. n
      OBVIOUS
    <2>2. g[k - 1] \in Seq(Nat)
      BY <1>4, <2>1
    <2>3. step[k][g[k - 1]] = g[k - 1] \o W(k)
      BY <2>2 DEF step
    <2>4. QED
      BY <1>4, <2>3
  <1>6. g = Fcn(g)
    <2>1. ASSUME NEW i \in 0 .. n PROVE g[i] = IF i = 0 THEN pend ELSE g[i - 1] \o W(i)
      <3>1. CASE i = 0
        BY <1>4, <3>1
      <3>2. CASE i # 0
        <4>1. i \in 1 .. n
          BY <3>2
        <4>2. QED
          BY <1>5, <3>2, <4>1
      <3>3. QED
        BY <3>1, <3>2
    <2>2. QED
      BY <1>4, <2>1
  <1>7. ready = Fcn(ready)
    <2> HIDE DEF Fcn
    <2>1. \E h : h = Fcn(h)
      BY <1>6
    <2>2. QED
      BY <2>1, Zenon
  <1>7a. S!Ready(n) = ready[n]
    BY DEF S!Ready, W
  <1> HIDE DEF ready
  <1>8. \A i \in 0 .. n : ready[i] = IF i = 0 THEN pend ELSE ready[i - 1] \o W(i)
    BY <1>7
  <1> DEFINE T == {i \in Nat : i <= n => ready[i] \in Seq(Nat)}
  <1>9. 0 \in T
    BY <1>0, <1>8
  <1>10. ASSUME NEW i \in Nat, i \in T PROVE i + 1 \in T
    <2> SUFFICES ASSUME i + 1 <= n PROVE ready[i + 1] \in Seq(Nat)
      OBVIOUS
    <2>1. i + 1 \in 1 .. n /\ i + 1 \in 0 .. n /\ (i + 1) - 1 = i /\ i <= n /\ i + 1 # 0
      OBVIOUS
    <2>2. ready[i] \in Seq(Nat)
      BY <1>10, <2>1
    <2>3. ready[i + 1] = ready[i] \o W(i + 1)
      BY <1>8, <2>1
    <2>4. QED
      BY <1>2, <2>1, <2>2, <2>3
  <1> HIDE DEF T
  <1>11. n \in T
    BY <1>9, <1>10, SetInduct
  <1>12. QED
    BY <1>7a, <1>11 DEF T

\* A step of dec_main that leaves the output alone.
LEMMA StreamMoves ==
    ASSUME StreamInv, UNCHANGED S!io, UNCHANGED <<outBuf, pend>>, pc = "main",
           S!Goes \/ (\E r : S!Return(r)),
           inPos' \in Nat, inPos' <= fed, TempShape(s')
    PROVE  StreamInv'
  <1>1. file' = file /\ fed' = fed /\ outBuf' = outBuf /\ pend' = pend
    BY DEF S!io
  <1>2. FileOk' /\ TempShape(s)'
    BY <1>1, FileStays, ShapeNext DEF StreamInv
  <1>3. pc' \in {"main", "ret"}
    BY DEF S!Goes, S!Return
  <1>4. QED
    BY <1>1, <1>2, <1>3 DEF StreamInv

LEMMA FillMoreKeeps ==
    ASSUME StreamInv, pc = "main", s.seq \in FillStates, S!FillMore, UNCHANGED <<S!io, outBuf, pend>>
    PROVE  StreamInv'
  <1>1. inPos' = inPos + S!Fill /\ s' = [s EXCEPT !.temp = S!Filled] /\ S!Return("OK")
    BY DEF S!FillMore
  <1>2. /\ S!Fill \in Nat /\ inPos + S!Fill \in Nat /\ inPos + S!Fill <= fed
        /\ S!Filled \in Seq(StreamBytes) /\ Len(S!Filled) <= s.tempSize
    BY FillFacts
  <1>3. TempShape(s)
    BY DEF StreamInv
  <1>4. TempShape(s')
    BY <1>1, <1>2, <1>3 DEF TempShape, DecFields
  <1>5. QED
    BY <1>1, <1>2, <1>4, StreamMoves

\* A field that is complete: temp is empty again.
LEMMA FilledKeeps ==
    ASSUME StreamInv, NEW t, DOMAIN t = DecFields, t.temp = <<>>, t.tempSize = s.tempSize
    PROVE  TempShape(t) /\ inPos + S!Fill \in Nat /\ inPos + S!Fill <= fed
  <1>1. s.tempSize \in Nat /\ Len(<<>>) <= s.tempSize
    BY DEF StreamInv, TempShape
  <1>2. TempShape(t)
    BY <1>1, EmptySeq DEF TempShape
  <1>3. QED
    BY <1>2, FillFacts

LEMMA StreamHeaderKeeps == StreamInv /\ S!StreamHeader => StreamInv'
  <1> SUFFICES ASSUME StreamInv, S!StreamHeader PROVE StreamInv'
    OBVIOUS
  <1>1. pc = "main" /\ s.seq \in FillStates /\ UNCHANGED <<S!io, outBuf, pend>>
    BY DEF S!StreamHeader, S!At, FillStates
  <1>2. CASE ~S!FillDone
    BY <1>1, <1>2, FillMoreKeeps DEF S!StreamHeader
  <1>3. CASE S!FillDone
    <2> DEFINE h == S!Last(S!Filled)[2]
               c == IF S!HeaderRet(h) = "OK" THEN h.check ELSE s.check
    <2>1. /\ inPos' = inPos + S!Fill
          /\ s' = [s EXCEPT !.temp = <<>>, !.seq = "BLOCK_START", !.check = c]
          /\ S!Goes \/ S!Return(S!HeaderRet(h))
      BY <1>3 DEF S!StreamHeader
    <2> HIDE DEF h, c
    <2>2. DOMAIN s = DecFields
      BY DEF StreamInv, TempShape
    <2>3. DOMAIN s' = DecFields /\ s'.temp = <<>> /\ s'.tempSize = s.tempSize
      BY <2>1, <2>2 DEF DecFields
    <2>4. QED
      BY <1>1, <2>1, <2>3, FilledKeeps, StreamMoves
  <1>4. QED
    BY <1>2, <1>3

LEMMA DecBlockHeaderKeeps == StreamInv /\ S!DecBlockHeader => StreamInv'
  <1> SUFFICES ASSUME StreamInv, S!DecBlockHeader PROVE StreamInv'
    OBVIOUS
  <1>1. pc = "main" /\ s.seq \in FillStates /\ UNCHANGED <<S!io, outBuf, pend>>
    BY DEF S!DecBlockHeader, S!At, FillStates
  <1>2. CASE ~S!FillDone
    BY <1>1, <1>2, FillMoreKeeps DEF S!DecBlockHeader
  <1>3. CASE S!FillDone
    <2> DEFINE h == S!Last(S!Filled)[2]
               r == S!BlockHeaderRet(h)
               b == [[s.bh EXCEPT !.comp = h.comp] EXCEPT !.unc = h.unc]
               k == [[s.block EXCEPT !.comp = 0] EXCEPT !.unc = 0]
               t == [s EXCEPT !.temp = <<>>, !.bh.comp = h.comp, !.bh.unc = h.unc, !.bcj = h.bcj,
                              !.block.comp = 0, !.block.unc = 0, !.seq = "BLOCK_UNCOMPRESS"]
    <2>1. /\ inPos' = inPos + S!Fill
          /\ (s' = t /\ S!Goes) \/ (s' = [s EXCEPT !.temp = <<>>] /\ S!Return(r))
      BY <1>3 DEF S!DecBlockHeader
    <2>2. DOMAIN s = DecFields
      BY DEF StreamInv, TempShape
    <2>3. DOMAIN t = DecFields /\ t.temp = <<>> /\ t.tempSize = s.tempSize
      BY <2>2 DEF DecFields
    <2> HIDE DEF h, r, t
    <2>4. DOMAIN s' = DecFields /\ s'.temp = <<>> /\ s'.tempSize = s.tempSize
      BY <2>1, <2>2, <2>3 DEF DecFields
    <2>5. QED
      BY <1>1, <2>1, <2>4, FilledKeeps, StreamMoves
  <1>4. QED
    BY <1>2, <1>3

LEMMA StreamFooterKeeps == StreamInv /\ S!StreamFooter => StreamInv'
  <1> SUFFICES ASSUME StreamInv, S!StreamFooter PROVE StreamInv'
    OBVIOUS
  <1>1. pc = "main" /\ s.seq \in FillStates /\ UNCHANGED <<S!io, outBuf, pend>>
    BY DEF S!StreamFooter, S!At, FillStates
  <1>2. CASE ~S!FillDone
    BY <1>1, <1>2, FillMoreKeeps DEF S!StreamFooter
  <1>3. CASE S!FillDone
    <2>1. /\ inPos' = inPos + S!Fill /\ s' = [s EXCEPT !.temp = <<>>] /\ \E r : S!Return(r)
      BY <1>3, Zenon DEF S!StreamFooter
    <2>2. DOMAIN s = DecFields
      BY DEF StreamInv, TempShape
    <2>3. DOMAIN s' = DecFields /\ s'.temp = <<>> /\ s'.tempSize = s.tempSize
      BY <2>1, <2>2 DEF DecFields
    <2>4. QED
      BY <1>1, <2>1, <2>3, FilledKeeps, StreamMoves
  <1>4. QED
    BY <1>2, <1>3

LEMMA BlockStartKeeps == StreamInv /\ S!BlockStart => StreamInv'
  <1> SUFFICES ASSUME StreamInv, S!BlockStart PROVE StreamInv'
    OBVIOUS
  <1>1. pc = "main" /\ s.seq = "BLOCK_START" /\ UNCHANGED <<S!io, outBuf, pend>>
    BY DEF S!BlockStart, S!At
  <1>2. TempShape(s) /\ inPos \in Nat /\ inPos <= fed
    BY DEF StreamInv
  <1>3. CASE inPos = fed
    BY <1>1, <1>2, <1>3, StreamMoves DEF S!BlockStart
  <1>4. CASE inPos # fed
    <2> DEFINE w == (S!Value(S!Byte) + 1) * Align
               t == [s EXCEPT !.bh.size = w, !.tempSize = w, !.temp = <<>>, !.seq = "BLOCK_HEADER"]
               u == [s EXCEPT !.inStart = inPos, !.seq = "INDEX"]
    <2>0. DOMAIN s = DecFields
      BY <1>2 DEF TempShape
    <2>1. \/ inPos' = inPos + 1 /\ s' = u /\ S!Goes
          \/ s' = t /\ S!Goes /\ inPos' = inPos
      BY <1>4 DEF S!BlockStart
    <2>2. w \in Nat
      <3> DEFINE v == S!Value(S!Byte)
      <3>1. v \in Nat /\ Align \in Nat
        BY <1>4, FedByte, StreamAssumption
      <3> HIDE DEF v
      <3>2. (v + 1) * Align \in Nat
        BY <3>1
      <3>3. QED
        BY <3>2 DEF v
    <2> HIDE DEF w
    <2>3. DOMAIN t = DecFields /\ t.temp = <<>> /\ t.tempSize = w
      BY <2>0 DEF DecFields
    <2>4. DOMAIN u = DecFields /\ u.temp = s.temp /\ u.tempSize = s.tempSize /\ u.seq = "INDEX"
      BY <2>0 DEF DecFields
    <2> HIDE DEF t, u
    <2>5. TempShape(t)
      <3>1. Len(<<>>) <= w
        BY <2>2
      <3>2. QED
        BY <2>2, <2>3, <3>1, EmptySeq DEF TempShape
    <2>6. TempShape(u)
      <3>1. s.temp = <<>>
        BY <1>1, <1>2 DEF TempShape, FillStates
      <3>2. QED
        BY <1>2, <2>4, <3>1, SameTemp
    <2>7. inPos + 1 \in Nat /\ inPos + 1 <= fed
      BY <1>4, FedByte
    <2>8. QED
      BY <1>1, <1>2, <2>1, <2>5, <2>6, <2>7, StreamMoves
  <1>5. QED
    BY <1>3, <1>4

\* Outside the states that collect a field temp is empty and stays so.
LEMMA NotFilling ==
    ASSUME StreamInv, s.seq \notin FillStates
    PROVE  /\ s.temp = <<>> /\ s.tempSize \in Nat /\ DOMAIN s = DecFields
           /\ TempShape(s) /\ inPos \in Nat /\ inPos <= fed
  BY DEF StreamInv, TempShape

\* Such a step leaves temp empty.
EmptyTemp(u) == DOMAIN u = DecFields /\ u.temp = <<>> /\ u.tempSize \in Nat
LEMMA EmptyShape ==
    ASSUME NEW u, EmptyTemp(u)
    PROVE  TempShape(u)
  <1>1. Len(<<>>) <= u.tempSize
    BY DEF EmptyTemp
  <1>2. QED
    BY <1>1, EmptySeq DEF TempShape, EmptyTemp

\* A state that takes no byte, or one.
LEMMA TakesOne ==
    ASSUME StreamInv, s.seq \notin FillStates, pc = "main", UNCHANGED <<S!io, outBuf, pend>>,
           S!Goes \/ (\E r : S!Return(r)),
           inPos' = inPos \/ (inPos # fed /\ inPos' = inPos + 1),
           EmptyTemp(s')
    PROVE  StreamInv'
  <1>1. inPos' \in Nat /\ inPos' <= fed
    BY NotFilling, FedByte
  <1>2. QED
    BY <1>1, EmptyShape, StreamMoves

LEMMA PaddingKeeps ==
    ASSUME StreamInv, NEW seq, NEW done, NEW more, NEW after, S!Padding(seq, done, more, after),
           seq \notin FillStates, EmptyTemp(more), EmptyTemp(after)
    PROVE  StreamInv'
  <1>1. pc = "main" /\ s.seq = seq /\ UNCHANGED <<S!io, outBuf, pend>>
    BY DEF S!Padding, S!At
  <1> DEFINE t == [s EXCEPT !.block.comp = @ + 1]
  <1>2. EmptyTemp(s) /\ EmptyTemp(t)
    BY <1>1, NotFilling DEF DecFields, EmptyTemp
  <1>3. /\ S!Goes \/ (\E r : S!Return(r))
        /\ inPos' = inPos \/ (inPos # fed /\ inPos' = inPos + 1)
        /\ s' \in {after, more, s, t}
    BY Zenon DEF S!Padding
  <1> HIDE DEF t
  <1>4. EmptyTemp(s')
    BY <1>2, <1>3
  <1>5. QED
    BY <1>1, <1>3, <1>4, TakesOne

LEMMA CrcKeeps ==
    ASSUME StreamInv, NEW next, S!CrcValidate(next), pc = "main", s.seq \notin FillStates,
           UNCHANGED <<S!io, outBuf, pend>>, EmptyTemp(next)
    PROVE  StreamInv'
  <1> DEFINE t == [s EXCEPT !.pos = @ + 1]
             u == [next EXCEPT !.crc = <<>>, !.pos = 0]
  <1>2. EmptyTemp(s) /\ EmptyTemp(t) /\ EmptyTemp(u)
    BY NotFilling DEF DecFields, EmptyTemp
  <1>3. /\ S!Goes \/ (\E r : S!Return(r))
        /\ inPos' = inPos \/ (inPos # fed /\ inPos' = inPos + 1)
        /\ s' \in {s, t, u}
    BY Zenon DEF S!CrcValidate
  <1> HIDE DEF t, u
  <1>4. EmptyTemp(s')
    BY <1>2, <1>3
  <1>5. QED
    BY <1>3, <1>4, TakesOne

LEMMA BlockPaddingKeeps == StreamInv /\ S!BlockPadding => StreamInv'
  <1> SUFFICES ASSUME StreamInv, S!BlockPadding PROVE StreamInv'
    OBVIOUS
  <1> DEFINE a == [s EXCEPT !.seq = "BLOCK_CHECK"]
  <1>1. S!Padding("BLOCK_PADDING", s.block.comp, s, a)
    BY DEF S!BlockPadding
  <1>2. s.seq = "BLOCK_PADDING" /\ s.seq \notin FillStates /\ "BLOCK_PADDING" \notin FillStates
    BY <1>1 DEF S!Padding, S!At, FillStates
  <1>3. EmptyTemp(s) /\ EmptyTemp(a)
    BY <1>2, NotFilling DEF DecFields, EmptyTemp
  <1> HIDE DEF a
  <1>4. QED
    BY <1>1, <1>2, <1>3, PaddingKeeps

LEMMA BlockCheckKeeps == StreamInv /\ S!BlockCheck => StreamInv'
  <1> SUFFICES ASSUME StreamInv, S!BlockCheck PROVE StreamInv'
    OBVIOUS
  <1> DEFINE a == [s EXCEPT !.seq = "BLOCK_START"]
  <1>1. /\ pc = "main" /\ s.seq = "BLOCK_CHECK" /\ UNCHANGED <<S!io, outBuf, pend>>
        /\ S!CrcValidate(a) \/ (s' = a /\ S!Goes /\ inPos' = inPos)
    BY DEF S!BlockCheck, S!At
  <1>2. s.seq \notin FillStates
    BY <1>1 DEF FillStates
  <1>3. EmptyTemp(a)
    BY <1>2, NotFilling DEF DecFields, EmptyTemp
  <1> HIDE DEF a
  <1>4. QED
    BY <1>1, <1>2, <1>3, CrcKeeps, TakesOne

LEMMA IndexCrc32Keeps == StreamInv /\ S!IndexCrc32 => StreamInv'
  <1> SUFFICES ASSUME StreamInv, S!IndexCrc32 PROVE StreamInv'
    OBVIOUS
  <1> DEFINE a == [s EXCEPT !.tempSize = StreamHeaderSize, !.seq = "STREAM_FOOTER"]
  <1>1. /\ pc = "main" /\ s.seq = "INDEX_CRC32" /\ UNCHANGED <<S!io, outBuf, pend>>
        /\ S!CrcValidate(a)
    BY DEF S!IndexCrc32, S!At
  <1>2. s.seq \notin FillStates
    BY <1>1 DEF FillStates
  <1>3. EmptyTemp(a)
    BY <1>2, NotFilling, StreamAssumption DEF DecFields, EmptyTemp
  <1> HIDE DEF a
  <1>4. QED
    BY <1>1, <1>2, <1>3, CrcKeeps

LEMMA UpdateShape ==
    ASSUME EmptyTemp(s), NEW upTo
    PROVE  EmptyTemp(S!IndexUpdate(s, upTo))
  BY DEF S!IndexUpdate, EmptyTemp, DecFields

LEMMA IndexPaddingKeeps == StreamInv /\ S!IndexPadding => StreamInv'
  <1> SUFFICES ASSUME StreamInv, S!IndexPadding PROVE StreamInv'
    OBVIOUS
  <1> DEFINE d == S!IndexUpdate(s, inPos)
             a == [d EXCEPT !.seq = "INDEX_CRC32"]
  <1>1. \/ /\ S!At("INDEX_PADDING") /\ s' = d /\ S!Return("DATA_ERROR")
           /\ UNCHANGED <<S!io, inPos, outBuf, pend>>
        \/ \E size : S!Padding("INDEX_PADDING", size, d, a)
    BY Zenon DEF S!IndexPadding
  <1>2. s.seq = "INDEX_PADDING" /\ pc = "main"
    <2> HIDE DEF d, a
    <2>1. QED
      BY <1>1 DEF S!Padding, S!At
  <1>3. s.seq \notin FillStates /\ "INDEX_PADDING" \notin FillStates
    BY <1>2 DEF FillStates
  <1>4. EmptyTemp(s)
    BY <1>3, NotFilling DEF EmptyTemp
  <1>5. EmptyTemp(d)
    BY <1>4, UpdateShape
  <1>6. EmptyTemp(a)
    <2> HIDE DEF d
    <2>1. QED
      BY <1>5 DEF DecFields, EmptyTemp
  <1> HIDE DEF d, a
  <1>7. QED
    BY <1>1, <1>2, <1>3, <1>5, <1>6, PaddingKeeps, TakesOne

LEMMA DecIndexKeeps == StreamInv /\ S!DecIndex => StreamInv'
  <1> SUFFICES ASSUME StreamInv, S!DecIndex PROVE StreamInv'
    OBVIOUS
  <1> DEFINE v == S!VliValue
             d == S!IndexUpdate(s, inPos)
             f == [S!IndexField(s) EXCEPT !.pos = 0]
             m == [s EXCEPT !.vli = v, !.pos = @ + 1]
  <1>1. /\ pc = "main" /\ s.seq = "INDEX" /\ UNCHANGED <<S!io, outBuf, pend>>
    BY DEF S!DecIndex, S!At
  <1>1a. /\ S!Goes \/ (\E r : S!Return(r))
         /\ inPos' = inPos \/ (inPos # fed /\ inPos' = inPos + 1)
         /\ s' \in {s, d, f, m}
    BY Zenon DEF S!DecIndex
  <1> HIDE DEF v
  <1>2. s.seq \notin FillStates
    BY <1>1 DEF FillStates
  <1>3. EmptyTemp(s)
    BY <1>2, NotFilling DEF EmptyTemp
  <1>4. EmptyTemp(d)
    BY <1>3, UpdateShape
  <1>5. EmptyTemp(m)
    BY <1>3 DEF EmptyTemp, DecFields
  <1>6. EmptyTemp(S!IndexField(s))
    <2> DEFINE w == IF v = 0 THEN "INDEX_PADDING" ELSE s.seq
               x == S!HashAdd(s.index.hash, s.index.partial, v)
               y == IF s.index.count = 1 THEN "INDEX_PADDING" ELSE s.seq
               c == s.index.count - 1
    <2>1. S!IndexField(s) \in
            {[s EXCEPT !.index.count = v, !.index.seq = "UNPADDED", !.seq = w],
             [s EXCEPT !.index.partial = v, !.index.seq = "UNCOMPRESSED"],
             [s EXCEPT !.index.hash = x, !.index.count = c, !.index.seq = "UNPADDED", !.seq = y]}
      BY DEF S!IndexField, v
    <2> HIDE DEF w, x, y, c
    <2>2. QED
      BY <1>3, <2>1 DEF EmptyTemp, DecFields
  <1>7. EmptyTemp(f)
    <2> DEFINE t == S!IndexField(s)
    <2> HIDE DEF t
    <2>1. EmptyTemp([t EXCEPT !.pos = 0])
      BY <1>6 DEF EmptyTemp, DecFields, t
    <2>2. QED
      BY <2>1 DEF t
  <1> HIDE DEF d, f, m
  <1>8. EmptyTemp(s')
    BY <1>1a, <1>3, <1>4, <1>5, <1>7
  <1>9. QED
    BY <1>1, <1>1a, <1>2, <1>8, TakesOne

LEMMA RunShape ==
    ASSUME EmptyTemp(s), NEW n, NEW m, S!BlockRun(n, m)
    PROVE  EmptyTemp(s') /\ (S!Goes \/ \E r : S!Return(r))
  <1> DEFINE comp == s.block.comp + n
             unc == s.block.unc + m
             o == SubSeq(S!Ready(n), 1, m)
             b == [s EXCEPT !.inStart = inPos, !.block.comp = comp, !.block.unc = unc]
             t == [b EXCEPT !.crc = IF s.check = 1 THEN @ \o o ELSE @]
             size == s.bh.size + comp + (IF s.check = 1 THEN CrcBytes ELSE 0)
             z == [t EXCEPT !.block.hash = S!HashAdd(@, size, unc),
                            !.block.count = @ + 1, !.seq = "BLOCK_PADDING"]
  <1>1. s' \in {b, t, z} /\ (S!Goes \/ \E r : S!Return(r))
    BY Zenon DEF S!BlockRun
  <1> HIDE DEF comp, unc, o
  <1>2. EmptyTemp(b)
    BY DEF EmptyTemp, DecFields
  <1> HIDE DEF b
  <1>3. EmptyTemp(t)
    BY <1>2 DEF EmptyTemp, DecFields
  <1> HIDE DEF t, size
  <1>4. EmptyTemp(z)
    BY <1>3 DEF EmptyTemp, DecFields
  <1> HIDE DEF z
  <1>5. QED
    BY <1>1, <1>2, <1>3, <1>4

\* dec_block: the filter chain takes at most the input there is and writes at
\* most the room there is.
LEMMA DecBlockKeeps == StreamInv /\ S!DecBlock => StreamInv'
  <1> SUFFICES ASSUME StreamInv, S!DecBlock PROVE StreamInv'
    OBVIOUS
  <1>1. pc = "main" /\ s.seq = "BLOCK_UNCOMPRESS" /\ UNCHANGED S!io
    BY DEF S!DecBlock, S!At
  <1>2. file' = file /\ fed' = fed
    BY <1>1 DEF S!io
  <1>3. s.seq \notin FillStates
    BY <1>1 DEF FillStates
  <1>4. EmptyTemp(s)
    BY <1>3, NotFilling DEF EmptyTemp
  <1>5. PICK n \in 0 .. fed - inPos, m \in 0 .. OutSize - Len(outBuf) : S!BlockRun(n, m)
    BY DEF S!DecBlock
  <1>6. EmptyTemp(s') /\ (S!Goes \/ \E r : S!Return(r))
    BY <1>4, <1>5, RunShape
  <1>7. /\ inPos \in Nat /\ fed \in Nat /\ inPos <= fed
        /\ outBuf \in Seq(Nat) /\ Len(outBuf) \in Nat /\ Len(outBuf) <= OutSize /\ OutSize \in Nat
    BY StreamAssumption DEF StreamInv
  <1>8. n \in Nat /\ n <= fed - inPos /\ m \in Nat /\ m <= OutSize - Len(outBuf)
    BY <1>7
  <1>9. inPos' = inPos + n /\ inPos' \in Nat /\ inPos' <= fed
    BY <1>5, <1>7, <1>8 DEF S!BlockRun
  <1> DEFINE y == S!Ready(n)
             o == SubSeq(y, 1, m)
             k == SubSeq(y, m + 1, Len(y))
  <1>10. y \in Seq(Nat) /\ Len(y) \in Nat
    BY <1>8, ReadyType
  <1>11. m <= Len(y) /\ outBuf' = outBuf \o o /\ pend' = k
    BY <1>5 DEF S!BlockRun, S!FilterRun
  <1> HIDE DEF y
  <1>12. o \in Seq(Nat) /\ Len(o) = m /\ k \in Seq(Nat)
    BY <1>8, <1>10, <1>11
  <1> HIDE DEF o, k
  <1>13. outBuf' \in Seq(Nat) /\ Len(outBuf') = Len(outBuf) + m /\ pend' \in Seq(Nat)
    <2>a. outBuf \in Seq(Nat) /\ o \in Seq(Nat)
      BY <1>7, <1>12
    <2>1. outBuf \o o \in Seq(Nat) /\ Len(outBuf \o o) = Len(outBuf) + Len(o)
      BY ONLY <2>a, ConcatProperties
    <2>2. QED
      BY <1>11, <1>12, <2>1
  <1>14. Len(outBuf') <= OutSize
    BY <1>7, <1>8, <1>13
  <1>15. FileOk' /\ TempShape(s)'
    BY <1>2, <1>6, EmptyShape, FileStays, ShapeNext DEF StreamInv
  <1>16. pc' \in {"main", "ret"}
    BY <1>1, <1>6 DEF S!Goes, S!Return
  <1>17. fed' \in Nat /\ fed' <= Len(file.bytes)' /\ inPos' <= fed'
    BY <1>2, <1>9 DEF StreamInv
  <1>18. QED
    BY <1>9, <1>13, <1>14, <1>15, <1>16, <1>17 DEF StreamInv

\* The loop of platform_feed around dec_main.
LEMMA FeedKeeps == StreamInv /\ S!Feed => StreamInv'
  <1> SUFFICES ASSUME StreamInv, S!Feed PROVE StreamInv'
    OBVIOUS
  <1>1. /\ file' = file /\ inPos' = inPos /\ outBuf' = outBuf /\ s' = s /\ pend' = pend
        /\ pc' = "call"
    BY DEF S!Feed
  <1>2. /\ Len(file.bytes) \in Nat /\ fed \in Nat /\ inPos \in Nat /\ inPos <= fed
        /\ fed <= Len(file.bytes) /\ TempShape(s) /\ FileOk
    BY DEF StreamInv, FileOk, IsFile
  <1>3. PICK n \in 1 .. S!Min2(MaxFrame, Len(file.bytes) - fed) : fed' = fed + n
    BY DEF S!Feed
  <1>4. n \in Nat /\ n <= Len(file.bytes) - fed
    BY <1>2, <1>3, StreamAssumption DEF S!Min2
  <1>5. fed' \in Nat /\ inPos' <= fed' /\ fed' <= Len(file.bytes)
    BY <1>1, <1>2, <1>3, <1>4
  <1>6. FileOk' /\ TempShape(s)'
    BY <1>1, <1>2, FileStays, ShapeNext
  <1>7. QED
    BY <1>1, <1>5, <1>6 DEF StreamInv

LEMMA FeedLoopKeeps == StreamInv /\ S!FeedLoop => StreamInv'
  <1> SUFFICES ASSUME StreamInv, S!FeedLoop PROVE StreamInv'
    OBVIOUS
  <1> DEFINE t == [s EXCEPT !.inStart = inPos, !.callIn = inPos]
  <1>1. /\ file' = file /\ fed' = fed /\ inPos' = inPos /\ pend' = pend
        /\ pc' \in {"main", "idle"}
        /\ outBuf' = <<>> \/ outBuf' = outBuf
        /\ s' = t \/ s' = s
    BY DEF S!FeedLoop, S!io
  <1>2. TempShape(s) /\ FileOk
    BY DEF StreamInv
  <1>3. TempShape(t)
    <2>1. DOMAIN t = DecFields /\ t.temp = s.temp /\ t.tempSize = s.tempSize /\ t.seq = s.seq
      BY <1>2 DEF TempShape, DecFields
    <2> HIDE DEF t
    <2>2. QED
      BY <1>2, <2>1, SameTemp
  <1> HIDE DEF t
  <1>4. FileOk' /\ TempShape(s)'
    BY <1>1, <1>2, <1>3, FileStays, ShapeNext
  <1>5. Len(<<>>) <= OutSize
    BY StreamAssumption
  <1>6. outBuf' \in Seq(Nat) /\ Len(outBuf') <= OutSize
    BY <1>1, <1>5, EmptySeq DEF StreamInv
  <1>7. QED
    BY <1>1, <1>4, <1>6 DEF StreamInv

LEMMA RunReturnsKeeps == StreamInv /\ S!RunReturns => StreamInv'
  <1> SUFFICES ASSUME StreamInv, S!RunReturns PROVE StreamInv'
    OBVIOUS
  <1>1. /\ file' = file /\ fed' = fed /\ inPos' = inPos /\ pend' = pend /\ outBuf' = outBuf
        /\ pc' \in {"call", "idle"}
    BY DEF S!RunReturns
  <1>2. PICK b : s' = [s EXCEPT !.allowBuf = b]
    BY Zenon DEF S!RunReturns
  <1>3. TempShape(s) /\ FileOk
    BY DEF StreamInv
  <1>4. DOMAIN s' = DecFields /\ s'.temp = s.temp /\ s'.tempSize = s.tempSize /\ s'.seq = s.seq
    BY <1>2, <1>3 DEF TempShape, DecFields
  <1>5. TempShape(s')
    BY <1>3, <1>4, SameTemp
  <1>6. FileOk' /\ TempShape(s)'
    BY <1>1, <1>3, <1>5, FileStays, ShapeNext
  <1>7. QED
    BY <1>1, <1>6 DEF StreamInv

LEMMA StreamKeeps ==
    ASSUME StreamInv, S!Next \/ UNCHANGED streamVars
    PROVE  StreamInv'
  <1>1. CASE UNCHANGED streamVars
    <2>1. /\ file' = file /\ fed' = fed /\ inPos' = inPos /\ pend' = pend /\ outBuf' = outBuf
          /\ pc' = pc /\ s' = s
      BY <1>1 DEF streamVars, streamOnly
    <2>2. FileOk' /\ TempShape(s)'
      BY <2>1, FileStays, ShapeNext DEF StreamInv
    <2>3. QED
      BY <2>1, <2>2 DEF StreamInv
  <1>2. CASE S!Next
    BY <1>2, FeedKeeps, FeedLoopKeeps, RunReturnsKeeps, StreamHeaderKeeps, BlockStartKeeps,
       DecBlockHeaderKeeps, DecBlockKeeps, BlockPaddingKeeps, BlockCheckKeeps, DecIndexKeeps,
       IndexPaddingKeeps, IndexCrc32Keeps, StreamFooterKeeps DEF S!Next, S!DecMain
  <1>3. QED
    BY <1>1, <1>2

LEMMA StreamImplies == StreamInv => S!TypeOK
  <1> SUFFICES ASSUME StreamInv PROVE S!TypeOK
    OBVIOUS
  <1>1. /\ Len(file.bytes) \in Nat /\ fed \in Nat /\ inPos \in Nat /\ inPos <= fed
        /\ fed <= Len(file.bytes)
    BY DEF StreamInv, FileOk, IsFile
  <1>2. inPos \in 0 .. fed /\ fed \in 0 .. Len(file.bytes)
    BY <1>1
  <1>3. QED
    BY <1>2 DEF S!TypeOK, StreamInv, TempShape

-----------------------------------------------------------------------------
(***************************************************************************)
(* The LZMA2 decoder.                                                      *)
(***************************************************************************)
L2Seqs == {"CONTROL", "UNCOMPRESSED_1", "UNCOMPRESSED_2", "COMPRESSED_0", "COMPRESSED_1",
           "PROPERTIES", "LZMA_PREPARE", "LZMA_RUN", "COPY"}
L2Nexts == {"CONTROL", "PROPERTIES", "LZMA_PREPARE", "COPY"}
L2Fields == {"seq", "next", "unc", "comp", "needReset", "needProps"}
L2Ok(x) == /\ DOMAIN x = L2Fields
           /\ x.seq \in L2Seqs /\ x.next \in L2Nexts /\ x.unc \in Nat /\ x.comp \in Nat
DictBuf == [0 .. DictSize - 1 -> Nat]
DictType == [buf : DictBuf, start : Nat, pos : Nat, full : Nat, limit : Nat]
DictOk(d) == d \in DictType /\ d.start <= d.pos /\ d.pos <= d.full /\ d.full <= DictSize
LzmaOk(z) == /\ DOMAIN z = {"rep", "len", "chunk", "sym"}
             /\ z.rep \in [1 .. 4 -> Nat] /\ z.len \in Nat /\ z.sym \in Nat \ {0}
RcOk(c) == /\ DOMAIN c = {"pos", "limit", "init", "normal"}
           /\ c.pos \in Nat /\ c.limit \in Nat /\ c.init \in Nat

\* Where xz_dec_lzma2_run is inside lzma2_lzma, and where it decodes from the
\* caller's buffer with temp empty.
LzmaPcs == {"temp", "direct", "main", "save", "flush"}
DirectPcs == {"direct", "main", "save"}

LzInput == /\ IsLzma2(stream) /\ inPos \in Nat /\ inSize \in Nat
           /\ inPos <= inSize /\ inSize <= Len(stream.bytes)
LzOutput == out \in Seq(Nat) /\ outSize \in Nat /\ Len(out) <= outSize
LzRecords == L2Ok(l2) /\ DictOk(dict) /\ LzmaOk(lzma) /\ RcOk(rc) /\ temp \in Nat
LzCall == /\ pc \in {"idle", "run"} \cup LzmaPcs /\ ret \in {"OK", "STREAM_END", "DATA_ERROR"}
          /\ pc # "idle" => ret = "OK"

\* What was decoded and not flushed fits the chunk and the caller's buffer.
LzWindow ==
    /\ ret = "OK" /\ pc \in {"idle", "run"} => dict.start = dict.pos
    /\ pc \in LzmaPcs =>
         /\ l2.seq = "LZMA_RUN" /\ dict.pos <= dict.limit /\ dict.limit <= DictSize
         /\ dict.limit - dict.start <= outSize - Len(out)
         /\ dict.limit - dict.start <= l2.unc

\* temp.buf keeps less than a symbol, and bytes of this chunk only.
LzTemp ==
    /\ temp < InRequired
    /\ l2.seq = "LZMA_RUN" => temp <= l2.comp
    /\ ret = "OK" /\ l2.seq # "LZMA_RUN" => temp = 0 /\ lzma.len = 0
    /\ pc \in DirectPcs => temp = 0

\* The range decoder is less than a symbol past its limit.
LzRange ==
    /\ pc = "temp" => /\ tmp \in Nat /\ temp + tmp <= l2.comp /\ tmp <= inSize - inPos
                      /\ rc.limit <= 2 * InRequired /\ rc.pos < rc.limit + InRequired
    /\ pc = "main" => /\ inPos <= rc.pos /\ rc.limit + InRequired <= inSize
                      /\ rc.pos < rc.limit + InRequired

\* A match that is not finished is copied from valid history.
LzMatch == lzma.len > 0 => L!DistValid(dict, lzma.rep[1]) \/ ret = "DATA_ERROR"

LzInv == /\ LzInput /\ LzOutput /\ LzRecords /\ LzCall
         /\ LzWindow /\ LzTemp /\ LzRange /\ LzMatch

Lzma2Part == part = "lzma2" => LzInv

LEMMA LzInitHolds == L!Init => LzInv
  <1> SUFFICES ASSUME L!Init PROVE LzInv
    OBVIOUS
  <1>1. PICK p \in Lzma2Plans : stream = L!Encode(p)
    BY DEF L!Init
  <1>2. IsLzma2(stream)
    BY <1>1, EncodedAssumption
  <1>3. Len(stream.bytes) \in Nat
    BY <1>2 DEF IsLzma2
  <1>4. LzInput
    BY <1>2, <1>3 DEF LzInput, L!Init
  <1>5. LzOutput
    BY EmptySeq DEF LzOutput, L!Init
  <1>6. DictOk(dict) /\ dict.start = dict.pos
    <2> DEFINE b == [i \in 0 .. DictSize - 1 |-> 0]
    <2>1. b \in DictBuf
      BY DEF DictBuf
    <2>2. dict = [buf |-> b, start |-> 0, pos |-> 0, full |-> 0, limit |-> 0]
      BY DEF L!Init, L!EmptyDict
    <2> HIDE DEF b
    <2>3. QED
      BY <2>1, <2>2, Lzma2Assumption DEF DictOk, DictType
  <1>7. LzmaOk(lzma) /\ lzma.len = 0
    BY DEF L!Init, LzmaOk
  <1>8. RcOk(rc) /\ temp = 0
    BY Lzma2Assumption DEF L!Init, RcOk
  <1>9. L2Ok(l2) /\ l2.seq = "CONTROL"
    BY DEF L!Init, L2Ok, L2Seqs, L2Nexts, L2Fields
  <1>10. pc = "idle" /\ ret = "OK"
    BY DEF L!Init
  <1>11. LzRecords /\ LzCall
    BY <1>6, <1>7, <1>8, <1>9, <1>10 DEF LzRecords, LzCall
  <1>12. LzWindow /\ LzTemp /\ LzRange /\ LzMatch
    BY <1>6, <1>7, <1>8, <1>9, <1>10, Lzma2Assumption
    DEF LzWindow, LzTemp, LzRange, LzMatch, LzmaPcs, DirectPcs
  <1>13. QED
    BY <1>4, <1>5, <1>11, <1>12 DEF LzInv

-----------------------------------------------------------------------------
\* The dictionary: e is d after k more bytes.
Grown(d, e, k) ==
    /\ DictOk(e) /\ e.pos = d.pos + k /\ e.start = d.start /\ e.limit = d.limit
    /\ d.full <= e.full

LEMMA GrownAdds ==
    ASSUME NEW d, NEW e, NEW f, NEW k \in Nat, DictOk(d), Grown(d, e, k), Grown(e, f, 1)
    PROVE  Grown(d, f, k + 1)
  BY DEF Grown, DictOk, DictType

PutTo(d, e, q, f) == /\ e \in DictType /\ e.pos = q /\ e.full = f
                     /\ e.start = d.start /\ e.limit = d.limit
LEMMA PutFields ==
    ASSUME NEW d \in DictType, NEW b \in DictBuf, NEW q \in Nat, NEW f \in Nat
    PROVE  PutTo(d, [d EXCEPT !.buf = b, !.pos = q, !.full = f], q, f)
  BY DEF DictType, PutTo

LEMMA PutGrows ==
    ASSUME NEW d, DictOk(d), d.pos < DictSize, NEW byte \in Nat
    PROVE  Grown(d, L!DictPut(d, byte), 1)
  <1> DEFINE b == [d.buf EXCEPT ![d.pos] = byte]
             f == IF d.full < d.pos + 1 THEN d.pos + 1 ELSE d.full
             e == [d EXCEPT !.buf = b, !.pos = d.pos + 1, !.full = f]
  <1>1. L!DictPut(d, byte) = e
    BY DEF L!DictPut
  <1>2. d \in DictType /\ d.start \in Nat /\ d.pos \in Nat /\ d.full \in Nat /\ d.limit \in Nat
    BY DEF DictOk, DictType
  <1>3. b \in DictBuf
    BY DEF DictOk, DictType, DictBuf
  <1>4. f \in Nat /\ d.full <= f /\ d.pos + 1 <= f /\ f <= DictSize
    BY <1>2, Lzma2Assumption DEF DictOk
  <1> HIDE DEF b, f
  <1>5. /\ e \in DictType /\ e.pos = d.pos + 1 /\ e.start = d.start /\ e.limit = d.limit
        /\ e.full = f
    <2> DEFINE q == d.pos + 1
    <2>1. q \in Nat
      BY <1>2
    <2> HIDE DEF q
    <2>a. d \in DictType /\ b \in DictBuf /\ f \in Nat
      BY <1>2, <1>3, <1>4
    <2>2. PutTo(d, [d EXCEPT !.buf = b, !.pos = q, !.full = f], q, f)
      BY <2>a, <2>1, PutFields
    <2>3. QED
      BY <2>2 DEF q, PutTo
  <1> HIDE DEF e
  <1>6. d.start <= d.pos + 1
    BY <1>2 DEF DictOk
  <1>7. QED
    BY <1>1, <1>4, <1>5, <1>6 DEF Grown, DictOk

LEMMA RepeatByteGrows ==
    ASSUME NEW d, DictOk(d), d.pos < DictSize, NEW dist \in Nat, L!DistValid(d, dist)
    PROVE  Grown(d, L!RepeatByte(d, dist), 1)
  <1> DEFINE i == IF dist >= d.pos THEN d.pos - dist - 1 + DictSize ELSE d.pos - dist - 1
  <1>1. d.pos \in Nat /\ d.buf \in DictBuf
    BY DEF DictOk, DictType
  <1>2. dist < DictSize /\ DictSize \in Nat
    BY Lzma2Assumption DEF L!DistValid
  <1>3. i \in 0 .. DictSize - 1
    BY <1>1, <1>2
  <1> HIDE DEF i
  <1>4. d.buf[i] \in Nat
    BY <1>1, <1>3 DEF DictBuf
  <1>5. L!RepeatByte(d, dist) = L!DictPut(d, d.buf[i])
    BY DEF L!RepeatByte, i
  <1>6. QED
    BY <1>4, <1>5, PutGrows

\* Bytes added one at a time: step says how, as a function.
GrowsBy(d, n, step) ==
    \A k \in 1 .. n : \A t \in DictType : Grown(d, t, k - 1) => Grown(d, step[k][t], k)
GoesTo(d, n, step, g) ==
    /\ g \in [0 .. n -> DictType] /\ g[0] = d
    /\ \A k \in 1 .. n : g[k] = step[k][g[k - 1]] /\ g[k - 1] \in DictType

LEMMA SelfGrown == ASSUME NEW d, DictOk(d) PROVE Grown(d, d, 0) /\ d \in DictType
  BY DEF Grown, DictOk, DictType

LEMMA GrownType == ASSUME NEW d, NEW e, NEW k, Grown(d, e, k) PROVE e \in DictType
  BY DEF Grown, DictOk

LEMMA GrowthHolds ==
    ASSUME NEW d, DictOk(d), NEW n \in Nat, NEW step, GrowsBy(d, n, step), NEW g,
           g[0] = d, \A k \in 1 .. n : g[k] = step[k][g[k - 1]]
    PROVE  \A k \in 0 .. n : Grown(d, g[k], k)
  <1> DEFINE T == {i \in Nat : i <= n => Grown(d, g[i], i)}
  <1>1. 0 \in T
    BY SelfGrown
  <1>2. ASSUME NEW i \in Nat, i \in T PROVE i + 1 \in T
    <2> SUFFICES ASSUME i + 1 <= n PROVE Grown(d, g[i + 1], i + 1)
      OBVIOUS
    <2>1. i + 1 \in 1 .. n /\ (i + 1) - 1 = i /\ i <= n
      OBVIOUS
    <2>2. Grown(d, g[i], i)
      BY <1>2, <2>1
    <2>3. g[i] \in DictType
      BY <2>2, GrownType
    <2>4. Grown(d, step[i + 1][g[i]], i + 1)
      BY <2>1, <2>2, <2>3 DEF GrowsBy
    <2>5. g[i + 1] = step[i + 1][g[i]]
      BY <2>1
    <2>6. QED
      BY <2>4, <2>5
  <1> HIDE DEF T
  <1>3. Nat \subseteq T
    BY <1>1, <1>2, SetInduct
  <1>4. QED
    <2> SUFFICES ASSUME NEW k \in 0 .. n PROVE Grown(d, g[k], k)
      OBVIOUS
    <2>1. k \in T /\ k <= n
      BY <1>3
    <2>2. QED
      BY <2>1 DEF T

LEMMA GrowthExists ==
    ASSUME NEW d, DictOk(d), NEW n \in Nat, NEW step, GrowsBy(d, n, step)
    PROVE  \E g : GoesTo(d, n, step, g)
  <1> DEFINE safe == [k \in 1 .. n |-> [t \in DictType |->
                        IF Grown(d, t, k - 1) THEN step[k][t] ELSE t]]
  <1>1. AreSteps(safe, DictType, n)
    <2>1. ASSUME NEW k \in 1 .. n, NEW t \in DictType
          PROVE  (IF Grown(d, t, k - 1) THEN step[k][t] ELSE t) \in DictType
      BY GrownType DEF GrowsBy
    <2>2. QED
      BY <2>1 DEF AreSteps
  <1>2. GrowsBy(d, n, safe)
    BY DEF GrowsBy
  <1>3. \A k \in 1 .. n : \A t \in DictType : Grown(d, t, k - 1) => safe[k][t] = step[k][t]
    OBVIOUS
  <1> HIDE DEF safe
  <1>4. PICK g : GoesBySteps(g, DictType, n, d, safe)
    BY <1>1, SelfGrown, Recursion
  <1>5. /\ g \in [0 .. n -> DictType] /\ g[0] = d
        /\ \A k \in 1 .. n : g[k] = safe[k][g[k - 1]]
    BY <1>4 DEF GoesBySteps
  <1>6. \A k \in 0 .. n : Grown(d, g[k], k)
    BY <1>2, <1>5, GrowthHolds
  <1>7. ASSUME NEW k \in 1 .. n PROVE g[k] = step[k][g[k - 1]] /\ g[k - 1] \in DictType
    <2>1. k - 1 \in 0 .. n
      OBVIOUS
    <2>2. g[k - 1] \in DictType /\ Grown(d, g[k - 1], k - 1)
      BY <1>5, <1>6, <2>1
    <2>3. QED
      BY <1>3, <1>5, <2>2
  <1>8. GoesTo(d, n, step, g)
    BY <1>5, <1>7 DEF GoesTo
  <1>9. QED
    BY <1>8

\* dict_repeat stays inside the limit and copies from valid history.
LEMMA RepeatGrows ==
    ASSUME NEW d, DictOk(d), d.pos <= d.limit, d.limit <= DictSize, NEW len \in Nat,
           NEW dist \in Nat, L!DistValid(d, dist)
    PROVE  \E n \in Nat : /\ n <= d.limit - d.pos /\ Grown(d, L!DictRepeat(d, len, dist), n)
                          /\ L!RepeatLeft(d, len) \in Nat
  <1> DEFINE n == L!Min2(d.limit - d.pos, len)
             step == [k \in 1 .. n |-> [t \in DictType |-> L!RepeatByte(t, dist)]]
             Fcn(h) == [k \in 0 .. n |-> IF k = 0 THEN d ELSE L!RepeatByte(h[k - 1], dist)]
             after == CHOOSE h : h = Fcn(h)
  <1>0. d.pos \in Nat /\ d.limit \in Nat /\ d.full \in Nat /\ DictSize \in Nat
    BY Lzma2Assumption DEF DictOk, DictType
  <1>1. n \in Nat /\ n <= d.limit - d.pos /\ n <= len
    BY <1>0 DEF L!Min2
  <1>2. L!RepeatLeft(d, len) \in Nat
    <2>1. L!RepeatLeft(d, len) = len - n
      BY DEF L!RepeatLeft
    <2> HIDE DEF n
    <2>2. QED
      BY <1>1, <2>1
  <1>a. L!DictRepeat(d, len, dist) = after[n]
    BY DEF L!DictRepeat
  <1> HIDE DEF n
  <1>3. GrowsBy(d, n, step)
    <2> SUFFICES ASSUME NEW k \in 1 .. n, NEW t \in DictType, Grown(d, t, k - 1)
                 PROVE  Grown(d, L!RepeatByte(t, dist), k)
      BY DEF GrowsBy
    <2>1. /\ DictOk(t) /\ t.pos = d.pos + (k - 1) /\ d.full <= t.full /\ t.full \in Nat
          /\ k - 1 \in Nat /\ (k - 1) + 1 = k
      BY DEF Grown, DictType
    <2>2. t.pos < DictSize
      BY <1>0, <1>1, <2>1
    <2>3. dist < d.full /\ dist < DictSize
      BY DEF L!DistValid
    <2>4. dist < t.full
      BY <1>0, <2>1, <2>3
    <2>5. L!DistValid(t, dist)
      BY <2>3, <2>4 DEF L!DistValid
    <2>6. Grown(t, L!RepeatByte(t, dist), 1)
      BY <2>1, <2>2, <2>5, RepeatByteGrows
    <2>7. Grown(d, L!RepeatByte(t, dist), (k - 1) + 1)
      BY <2>1, <2>6, GrownAdds
    <2>8. QED
      BY <2>1, <2>7
  <1>4. PICK g : GoesTo(d, n, step, g)
    BY <1>1, <1>3, GrowthExists
  <1>5. g = Fcn(g)
    <2>1. g \in [0 .. n -> DictType] /\ g[0] = d
      BY <1>4 DEF GoesTo
    <2>2. ASSUME NEW k \in 1 .. n PROVE g[k] = L!RepeatByte(g[k - 1], dist)
      <3>1. g[k] = step[k][g[k - 1]] /\ g[k - 1] \in DictType
        BY <1>4 DEF GoesTo
      <3>2. step[k][g[k - 1]] = L!RepeatByte(g[k - 1], dist)
        BY <3>1
      <3>3. QED
        BY <3>1, <3>2
    <2>3. ASSUME NEW k \in 0 .. n
          PROVE  g[k] = IF k = 0 THEN d ELSE L!RepeatByte(g[k - 1], dist)
      <3>1. k = 0 \/ k \in 1 .. n
        BY <1>1
      <3>2. QED
        BY <2>1, <2>2, <3>1
    <2>4. QED
      BY <2>1, <2>3
  <1>6. after = Fcn(after)
    <2> HIDE DEF Fcn
    <2>1. \E h : h = Fcn(h)
      BY <1>5
    <2>2. QED
      BY <2>1, Zenon
  <1> HIDE DEF after
  <1>7. /\ after[0] = d
        /\ \A k \in 1 .. n : after[k] = L!RepeatByte(after[k - 1], dist)
    <2>1. \A k \in 0 .. n : after[k] = IF k = 0 THEN d ELSE L!RepeatByte(after[k - 1], dist)
      BY <1>6
    <2>2. QED
      BY <1>1, <2>1
  <1> DEFINE T == {i \in Nat : i <= n => Grown(d, after[i], i)}
  <1>8. 0 \in T
    BY <1>7, SelfGrown
  <1>9. ASSUME NEW i \in Nat, i \in T PROVE i + 1 \in T
    <2> SUFFICES ASSUME i + 1 <= n PROVE Grown(d, after[i + 1], i + 1)
      OBVIOUS
    <2>1. i + 1 \in 1 .. n /\ (i + 1) - 1 = i /\ i <= n
      BY <1>1
    <2>2. Grown(d, after[i], i)
      BY <1>9, <2>1
    <2>3. after[i] \in DictType
      BY <2>2, GrownType
    <2>4. Grown(d, step[i + 1][after[i]], i + 1)
      <3> HIDE DEF step
      <3>1. QED
        BY <1>3, <2>1, <2>2, <2>3 DEF GrowsBy
    <2>5. step[i + 1][after[i]] = L!RepeatByte(after[i], dist)
      BY <2>1, <2>3
    <2>6. after[i + 1] = L!RepeatByte(after[i], dist)
      BY <1>7, <2>1
    <2>7. QED
      BY <2>4, <2>5, <2>6
  <1> HIDE DEF T
  <1>10. Nat \subseteq T
    BY <1>8, <1>9, SetInduct
  <1>11. Grown(d, after[n], n)
    <2>1. n \in T
      BY <1>1, <1>10
    <2>2. QED
      BY <1>1, <2>1 DEF T
  <1>12. QED
    BY <1>a, <1>1, <1>2, <1>11

\* dict_uncompressed puts bytes while there is room up to the end of the buffer.
LEMMA CopyGrows ==
    ASSUME NEW d, DictOk(d), NEW piece \in Seq(Nat), Len(piece) <= DictSize - d.pos
    PROVE  Grown(d, L!DictCopy(d, piece), Len(piece))
  <1> DEFINE n == Len(piece)
             step == [k \in 1 .. n |-> [t \in DictType |-> L!DictPut(t, piece[k])]]
             Fcn(h) == [k \in 0 .. n |-> IF k = 0 THEN d ELSE L!DictPut(h[k - 1], piece[k])]
             grown == CHOOSE h : h = Fcn(h)
  <1>0. d.pos \in Nat /\ DictSize \in Nat
    BY Lzma2Assumption DEF DictOk, DictType
  <1>1. n \in Nat /\ n <= DictSize - d.pos
    OBVIOUS
  <1>2. \A k \in 1 .. n : piece[k] \in Nat
    OBVIOUS
  <1>a. L!DictCopy(d, piece) = grown[n]
    BY DEF L!DictCopy
  <1> HIDE DEF n
  <1>3. GrowsBy(d, n, step)
    <2> SUFFICES ASSUME NEW k \in 1 .. n, NEW t \in DictType, Grown(d, t, k - 1)
                 PROVE  Grown(d, L!DictPut(t, piece[k]), k)
      BY DEF GrowsBy
    <2>1. /\ DictOk(t) /\ t.pos = d.pos + (k - 1)
          /\ k - 1 \in Nat /\ (k - 1) + 1 = k
      BY DEF Grown, DictType
    <2>2. t.pos < DictSize
      BY <1>0, <1>1, <2>1
    <2>3. Grown(t, L!DictPut(t, piece[k]), 1)
      BY <1>2, <2>1, <2>2, PutGrows
    <2>4. Grown(d, L!DictPut(t, piece[k]), (k - 1) + 1)
      BY <2>1, <2>3, GrownAdds
    <2>5. QED
      BY <2>1, <2>4
  <1>4. PICK g : GoesTo(d, n, step, g)
    BY <1>1, <1>3, GrowthExists
  <1>5. g = Fcn(g)
    <2>1. g \in [0 .. n -> DictType] /\ g[0] = d
      BY <1>4 DEF GoesTo
    <2>2. ASSUME NEW k \in 1 .. n PROVE g[k] = L!DictPut(g[k - 1], piece[k])
      <3>1. g[k] = step[k][g[k - 1]] /\ g[k - 1] \in DictType
        BY <1>4 DEF GoesTo
      <3>2. step[k][g[k - 1]] = L!DictPut(g[k - 1], piece[k])
        BY <3>1
      <3>3. QED
        BY <3>1, <3>2
    <2>3. ASSUME NEW k \in 0 .. n
          PROVE  g[k] = IF k = 0 THEN d ELSE L!DictPut(g[k - 1], piece[k])
      <3>1. k = 0 \/ k \in 1 .. n
        BY <1>1
      <3>2. QED
        BY <2>1, <2>2, <3>1
    <2>4. QED
      BY <2>1, <2>3
  <1>6. grown = Fcn(grown)
    <2> HIDE DEF Fcn
    <2>1. \E h : h = Fcn(h)
      BY <1>5
    <2>2. QED
      BY <2>1, Zenon
  <1> HIDE DEF grown
  <1>7. /\ grown[0] = d
        /\ \A k \in 1 .. n : grown[k] = L!DictPut(grown[k - 1], piece[k])
    <2>1. \A k \in 0 .. n : grown[k] = IF k = 0 THEN d ELSE L!DictPut(grown[k - 1], piece[k])
      BY <1>6
    <2>2. QED
      BY <1>1, <2>1
  <1> DEFINE T == {i \in Nat : i <= n => Grown(d, grown[i], i)}
  <1>8. 0 \in T
    BY <1>7, SelfGrown
  <1>9. ASSUME NEW i \in Nat, i \in T PROVE i + 1 \in T
    <2> SUFFICES ASSUME i + 1 <= n PROVE Grown(d, grown[i + 1], i + 1)
      OBVIOUS
    <2>1. i + 1 \in 1 .. n /\ (i + 1) - 1 = i /\ i <= n
      BY <1>1
    <2>2. Grown(d, grown[i], i)
      BY <1>9, <2>1
    <2>3. grown[i] \in DictType
      BY <2>2, GrownType
    <2>4. Grown(d, step[i + 1][grown[i]], i + 1)
      <3> HIDE DEF step
      <3>1. QED
        BY <1>3, <2>1, <2>2, <2>3 DEF GrowsBy
    <2>5. step[i + 1][grown[i]] = L!DictPut(grown[i], piece[i + 1])
      BY <2>1, <2>3
    <2>6. grown[i + 1] = L!DictPut(grown[i], piece[i + 1])
      BY <1>7, <2>1
    <2>7. QED
      BY <2>4, <2>5, <2>6
  <1> HIDE DEF T
  <1>10. Nat \subseteq T
    BY <1>8, <1>9, SetInduct
  <1>11. Grown(d, grown[n], n)
    <2>1. n \in T
      BY <1>1, <1>10
    <2>2. QED
      BY <1>1, <2>1 DEF T
  <1>12. QED
    BY <1>a, <1>11 DEF n

\* dict_limit, dict_flush, dict_reset and what a flush writes.
LEMMA LimitFacts ==
    ASSUME NEW d, DictOk(d), NEW m \in Nat
    PROVE  LET e == L!DictLimit(d, m)
           IN  /\ DictOk(e) /\ e.pos = d.pos /\ e.start = d.start /\ e.full = d.full
               /\ d.pos <= e.limit /\ e.limit <= DictSize /\ e.limit <= d.pos + m
  <1> DEFINE l == IF DictSize - d.pos <= m THEN DictSize ELSE d.pos + m
             e == [d EXCEPT !.limit = l]
  <1>1. L!DictLimit(d, m) = e
    BY DEF L!DictLimit
  <1>2. /\ d \in DictType /\ d.pos \in Nat /\ d.full \in Nat /\ DictSize \in Nat
        /\ d.start <= d.pos /\ d.pos <= d.full /\ d.full <= DictSize
    BY Lzma2Assumption DEF DictOk, DictType
  <1>3. l \in Nat /\ d.pos <= l /\ l <= DictSize /\ l <= d.pos + m
    BY <1>2
  <1> HIDE DEF l
  <1>4. e \in DictType /\ e.pos = d.pos /\ e.start = d.start /\ e.full = d.full /\ e.limit = l
    BY <1>2, <1>3 DEF DictType
  <1> HIDE DEF e
  <1>5. QED
    BY <1>1, <1>2, <1>3, <1>4 DEF DictOk

LEMMA FlushFacts ==
    ASSUME NEW d, DictOk(d)
    PROVE  LET e == L!DictFlush(d)
           IN  DictOk(e) /\ e.pos = e.start /\ e.full = d.full
  <1> DEFINE p == IF d.pos = DictSize THEN 0 ELSE d.pos
             e == [d EXCEPT !.pos = p, !.start = p]
  <1>1. L!DictFlush(d) = e
    BY DEF L!DictFlush
  <1>2. /\ d \in DictType /\ d.pos \in Nat /\ d.full \in Nat
        /\ d.pos <= d.full /\ d.full <= DictSize
    BY DEF DictOk, DictType
  <1>3. p \in Nat /\ p <= d.full
    BY <1>2
  <1> HIDE DEF p
  <1>4. e \in DictType /\ e.pos = p /\ e.start = p /\ e.full = d.full
    BY <1>2, <1>3 DEF DictType
  <1> HIDE DEF e
  <1>5. QED
    BY <1>1, <1>2, <1>3, <1>4 DEF DictOk

LEMMA ResetFacts ==
    ASSUME NEW d, DictOk(d)
    PROVE  DictOk(L!DictReset(d)) /\ L!DictReset(d).start = L!DictReset(d).pos
  <1> DEFINE e == [d EXCEPT !.start = 0, !.pos = 0, !.limit = 0, !.full = 0]
  <1>1. L!DictReset(d) = e
    BY DEF L!DictReset
  <1>2. e \in DictType /\ e.pos = 0 /\ e.start = 0 /\ e.full = 0
    BY DEF DictOk, DictType
  <1> HIDE DEF e
  <1>3. QED
    BY <1>1, <1>2, Lzma2Assumption DEF DictOk

LEMMA PendingFacts ==
    ASSUME NEW d, DictOk(d)
    PROVE  L!Pending(d) \in Seq(Nat) /\ Len(L!Pending(d)) = d.pos - d.start
  <1> DEFINE n == d.pos - d.start
  <1>1. /\ d.pos \in Nat /\ d.start \in Nat /\ d.start <= d.pos /\ d.pos <= DictSize
        /\ d.buf \in DictBuf /\ DictSize \in Nat
    BY Lzma2Assumption DEF DictOk, DictType
  <1>2. n \in Nat
    BY <1>1
  <1>3. ASSUME NEW i \in 1 .. n PROVE d.buf[d.start + i - 1] \in Nat
    <2>1. d.start + i - 1 \in 0 .. DictSize - 1
      BY <1>1
    <2>2. QED
      BY <1>1, <2>1 DEF DictBuf
  <1>4. L!Pending(d) = [i \in 1 .. n |-> d.buf[d.start + i - 1]]
    BY DEF L!Pending
  <1> HIDE DEF n
  <1>5. [i \in 1 .. n |-> d.buf[d.start + i - 1]] \in [1 .. n -> Nat]
    BY <1>3
  <1>6. L!Pending(d) \in [1 .. n -> Nat]
    BY <1>4, <1>5
  <1>7. L!Pending(d) \in Seq(Nat) /\ Len(L!Pending(d)) = n
    BY <1>2, <1>6
  <1>8. QED
    BY <1>7 DEF n

-----------------------------------------------------------------------------
LEMMA Lzma2Byte ==
    ASSUME LzInput, inPos < inSize
    PROVE  L!Byte \in Nat /\ inPos + 1 \in Nat /\ inPos + 1 <= inSize
  <1>1. /\ stream.bytes \in Seq(Nat) /\ Len(stream.bytes) \in Nat /\ inPos \in Nat /\ inSize \in Nat
        /\ inSize <= Len(stream.bytes)
    BY DEF LzInput, IsLzma2
  <1>2. inPos + 1 \in 1 .. Len(stream.bytes) /\ inPos + 1 \in Nat /\ inPos + 1 <= inSize
    BY <1>1
  <1>3. QED
    BY <1>1, <1>2 DEF L!Byte

LEMMA InputStays ==
    ASSUME LzInput, stream' = stream, inSize' = inSize, inPos' \in Nat, inPos' <= inSize
    PROVE  LzInput'
  BY DEF LzInput, IsLzma2

LEMMA RecordsNext ==
    ASSUME L2Ok(l2'), DictOk(dict'), LzmaOk(lzma'), RcOk(rc'), temp' \in Nat
    PROVE  LzRecords'
  BY DEF LzRecords, L2Ok, DictOk, DictType, DictBuf, LzmaOk, RcOk

\* A case of the switch outside lzma2_lzma: temp is empty, no match is pending
\* and the dictionary is flushed.
Between == /\ pc = "run" /\ l2.seq # "LZMA_RUN"
LEMMA BetweenFacts ==
    ASSUME LzInv, Between
    PROVE  /\ ret = "OK" /\ temp = 0 /\ lzma.len = 0 /\ dict.start = dict.pos
           /\ L2Ok(l2) /\ DictOk(dict) /\ LzmaOk(lzma) /\ RcOk(rc)
           /\ LzInput /\ inPos \in Nat /\ inSize \in Nat /\ inPos <= inSize
           /\ l2.comp \in Nat /\ l2.unc \in Nat /\ rc.init \in Nat
  <1>1. LzInput /\ LzRecords /\ LzCall /\ LzWindow /\ LzTemp
    BY DEF LzInv
  <1>2. ret = "OK"
    BY <1>1 DEF Between, LzCall
  <1>3. temp = 0 /\ lzma.len = 0 /\ dict.start = dict.pos
    BY <1>1, <1>2 DEF Between, LzTemp, LzWindow
  <1>4. QED
    BY <1>1, <1>2, <1>3 DEF LzRecords, LzInput, L2Ok, RcOk

LEMMA BetweenKeeps ==
    ASSUME LzInv, Between, UNCHANGED L!caller, inPos' \in Nat, inPos' <= inSize, LzOutput',
           L2Ok(l2'), DictOk(dict'), dict'.start = dict'.pos, LzmaOk(lzma'), lzma'.len = 0,
           RcOk(rc'), temp' = temp,
           \/ pc' = pc /\ ret' = ret
           \/ pc' = "idle" /\ ret' \in {"OK", "STREAM_END", "DATA_ERROR"}
    PROVE  LzInv'
  <1>1. stream' = stream /\ inSize' = inSize /\ outSize' = outSize
    BY DEF L!caller
  <1>2. ret = "OK" /\ temp = 0 /\ LzInput
    BY BetweenFacts
  <1>3. LzInput'
    BY <1>1, <1>2, InputStays
  <1>4. LzRecords'
    BY <1>2, RecordsNext
  <1>5. /\ pc' \in {"run", "idle"} /\ ret' \in {"OK", "STREAM_END", "DATA_ERROR"}
        /\ pc' # "idle" => ret' = "OK"
    BY <1>2 DEF Between
  <1>6. LzCall'
    BY <1>5 DEF LzCall
  <1>7. LzWindow'
    BY <1>5 DEF LzWindow, LzmaPcs
  <1>8. LzTemp'
    <2>1. l2'.comp \in Nat
      BY DEF L2Ok
    <2>2. QED
      BY <1>2, <1>5, <2>1, Lzma2Assumption DEF LzTemp, DirectPcs
  <1>9. LzRange'
    BY <1>5 DEF LzRange
  <1>10. LzMatch'
    BY DEF LzMatch
  <1>11. QED
    BY <1>3, <1>4, <1>6, <1>7, <1>8, <1>9, <1>10 DEF LzInv

LEMMA OutStays ==
    ASSUME LzInv, out' = out, outSize' = outSize
    PROVE  LzOutput'
  BY DEF LzInv, LzOutput

LEMMA LoopEndsKeeps == LzInv /\ L!LoopEnds => LzInv'
  <1> SUFFICES ASSUME LzInv, L!LoopEnds PROVE LzInv'
    OBVIOUS
  <1>1. /\ Between /\ UNCHANGED L!caller /\ inPos' = inPos /\ out' = out /\ l2' = l2
        /\ dict' = dict /\ lzma' = lzma /\ rc' = rc /\ temp' = temp /\ pc' = "idle" /\ ret' = "OK"
    BY DEF L!LoopEnds, L!Return, Between
  <1>2. LzOutput'
    BY <1>1, OutStays DEF L!caller
  <1>3. QED
    BY <1>1, <1>2, BetweenFacts, BetweenKeeps

LEMMA LzmaResetFacts ==
    ASSUME LzmaOk(lzma), RcOk(rc), L!LzmaReset
    PROVE  LzmaOk(lzma') /\ lzma'.len = 0 /\ RcOk(rc')
  <1> DEFINE z == <<0, 0, 0, 0>>
  <1>1. lzma' = [lzma EXCEPT !.rep = z, !.len = 0] /\ rc' = [rc EXCEPT !.init = RcInitBytes]
    BY DEF L!LzmaReset
  <1>2. z \in [1 .. 4 -> Nat]
    OBVIOUS
  <1> HIDE DEF z
  <1>3. LzmaOk(lzma') /\ lzma'.len = 0
    BY <1>1, <1>2 DEF LzmaOk
  <1>4. RcOk(rc')
    BY <1>1, Lzma2Assumption DEF RcOk
  <1>5. QED
    BY <1>3, <1>4

LEMMA ControlKeeps == LzInv /\ L!Control => LzInv'
  <1> SUFFICES ASSUME LzInv, L!Control PROVE LzInv'
    OBVIOUS
  <1>1. /\ Between /\ UNCHANGED L!caller /\ inPos' = inPos + 1 /\ out' = out /\ temp' = temp
        /\ inPos < inSize
    BY DEF L!Control, L!Reads, Between
  <1>2. /\ L2Ok(l2) /\ DictOk(dict) /\ LzmaOk(lzma) /\ RcOk(rc) /\ lzma.len = 0 /\ LzInput
        /\ dict.start = dict.pos
    BY <1>1, BetweenFacts
  <1>3. L!Byte \in Nat /\ inPos' \in Nat /\ inPos' <= inSize
    BY <1>1, <1>2, Lzma2Byte
  <1>4. LzOutput'
    BY <1>1, OutStays DEF L!caller
  <1>5. DictOk(dict') /\ dict'.start = dict'.pos
    <2>1. dict' = dict \/ dict' = L!DictReset(dict)
      BY DEF L!Control
    <2>2. QED
      BY <1>2, <2>1, ResetFacts
  <1>6. LzmaOk(lzma') /\ lzma'.len = 0 /\ RcOk(rc')
    <2>1. (lzma' = lzma /\ rc' = rc) \/ L!LzmaReset
      BY DEF L!Control
    <2>2. QED
      BY <1>2, <2>1, LzmaResetFacts
  <1>7. L2Ok(l2')
    <2> DEFINE a == l2.needReset /\ ~L!ControlResets
               b == L!NeedProps /\ L!Byte < 192
               u == IF L!Byte >= 128 THEN (L!Byte % 32) * Base * Base ELSE l2.unc
               q == IF L!Byte >= 128 THEN "UNCOMPRESSED_1" ELSE "COMPRESSED_0"
               n == IF L!Byte >= 192 THEN "PROPERTIES"
                    ELSE IF L!Byte >= 128 THEN "LZMA_PREPARE" ELSE "COPY"
    <2>1. \/ l2' = l2
          \/ l2' = [l2 EXCEPT !.needReset = a, !.needProps = b, !.unc = u, !.seq = q, !.next = n]
      BY DEF L!Control
    <2>2. u \in Nat
      <3> DEFINE m == L!Byte % 32
                 x == m * Base
      <3>1. m \in Nat /\ Base \in Nat /\ l2.unc \in Nat
        BY <1>2, <1>3, Lzma2Assumption DEF L2Ok
      <3> HIDE DEF m
      <3>2. x \in Nat
        BY <3>1
      <3> HIDE DEF x
      <3>3. x * Base \in Nat
        BY <3>1, <3>2
      <3>4. u = x * Base \/ u = l2.unc
        BY DEF x, m
      <3>5. QED
        BY <3>1, <3>3, <3>4
    <2>3. q \in L2Seqs /\ n \in L2Nexts
      BY DEF L2Seqs, L2Nexts
    <2> HIDE DEF a, b, u, q, n
    <2>4. QED
      BY <1>2, <2>1, <2>2, <2>3 DEF L2Ok, L2Fields
  <1>8. \/ pc' = pc /\ ret' = ret
        \/ pc' = "idle" /\ ret' \in {"OK", "STREAM_END", "DATA_ERROR"}
    BY DEF L!Control, L!Return
  <1>9. QED
    BY <1>1, <1>3, <1>4, <1>5, <1>6, <1>7, <1>8, BetweenKeeps

LEMMA SizeByteKeeps == ASSUME LzInv, NEW q, L!SizeByte(q) PROVE LzInv'
  <1>0. q \in {"UNCOMPRESSED_1", "UNCOMPRESSED_2", "COMPRESSED_0", "COMPRESSED_1"}
    BY DEF L!SizeByte
  <1>1. /\ Between /\ UNCHANGED L!caller /\ inPos' = inPos + 1 /\ out' = out /\ temp' = temp
        /\ inPos < inSize /\ dict' = dict /\ lzma' = lzma /\ rc' = rc /\ pc' = pc /\ ret' = ret
    BY <1>0 DEF L!SizeByte, L!Reads, Between
  <1>2. /\ L2Ok(l2) /\ DictOk(dict) /\ LzmaOk(lzma) /\ RcOk(rc) /\ lzma.len = 0 /\ LzInput
        /\ dict.start = dict.pos
    BY <1>1, BetweenFacts
  <1>3. L!Byte \in Nat /\ inPos' \in Nat /\ inPos' <= inSize
    BY <1>1, <1>2, Lzma2Byte
  <1>4. LzOutput'
    BY <1>1, OutStays DEF L!caller
  <1>5. L2Ok(l2')
    <2> DEFINE u1 == l2.unc + L!Byte * Base
               u2 == l2.unc + L!Byte + 1
               c1 == L!Byte * Base
               c2 == l2.comp + L!Byte + 1
    <2>1. \/ l2' = [l2 EXCEPT !.unc = u1, !.seq = "UNCOMPRESSED_2"]
          \/ l2' = [l2 EXCEPT !.unc = u2, !.seq = "COMPRESSED_0"]
          \/ l2' = [l2 EXCEPT !.comp = c1, !.seq = "COMPRESSED_1"]
          \/ l2' = [l2 EXCEPT !.comp = c2, !.seq = l2.next]
      BY DEF L!SizeByte
    <2>2. l2.unc \in Nat /\ l2.comp \in Nat /\ Base \in Nat
      BY <1>2, Lzma2Assumption DEF L2Ok
    <2>3. c1 \in Nat
      BY <1>3, <2>2
    <2> HIDE DEF c1
    <2>4. u1 = l2.unc + c1
      BY DEF c1
    <2>5. u1 \in Nat /\ u2 \in Nat /\ c2 \in Nat
      BY <1>3, <2>2, <2>3, <2>4
    <2> HIDE DEF u1, u2, c2
    <2>6. l2.next \in L2Seqs
      BY <1>2 DEF L2Ok, L2Seqs, L2Nexts
    <2>7. QED
      BY <1>2, <2>1, <2>3, <2>5, <2>6 DEF L2Ok, L2Fields, L2Seqs
  <1>6. QED
    BY <1>1, <1>2, <1>3, <1>4, <1>5, BetweenKeeps

LEMMA PropertiesKeeps == LzInv /\ L!Properties => LzInv'
  <1> SUFFICES ASSUME LzInv, L!Properties PROVE LzInv'
    OBVIOUS
  <1>1. /\ Between /\ UNCHANGED L!caller /\ inPos' = inPos + 1 /\ out' = out /\ temp' = temp
        /\ inPos < inSize /\ dict' = dict
        /\ (lzma' = lzma /\ rc' = rc) \/ L!LzmaReset
        /\ l2' = l2 \/ l2' = [l2 EXCEPT !.seq = "LZMA_PREPARE"]
        /\ \/ pc' = pc /\ ret' = ret
           \/ pc' = "idle" /\ ret' = "DATA_ERROR"
    BY DEF L!Properties, L!Reads, L!Return, Between
  <1>2. /\ L2Ok(l2) /\ DictOk(dict) /\ LzmaOk(lzma) /\ RcOk(rc) /\ lzma.len = 0 /\ LzInput
        /\ dict.start = dict.pos
    BY <1>1, BetweenFacts
  <1>3. inPos' \in Nat /\ inPos' <= inSize
    BY <1>1, <1>2, Lzma2Byte
  <1>4. LzOutput'
    BY <1>1, OutStays DEF L!caller
  <1>5. L2Ok(l2')
    BY <1>1, <1>2 DEF L2Ok, L2Fields, L2Seqs
  <1>6. LzmaOk(lzma') /\ lzma'.len = 0 /\ RcOk(rc')
    BY <1>1, <1>2, LzmaResetFacts
  <1>7. QED
    BY <1>1, <1>2, <1>3, <1>4, <1>5, <1>6, BetweenKeeps

LEMMA LzmaPrepareKeeps == LzInv /\ L!LzmaPrepare => LzInv'
  <1> SUFFICES ASSUME LzInv, L!LzmaPrepare PROVE LzInv'
    OBVIOUS
  <1> DEFINE n == L!Min2(rc.init, inSize - inPos)
             i == rc.init - n
             c == l2.comp - RcInitBytes
             k == lzma.chunk + 1
  <1>1. /\ Between /\ UNCHANGED L!caller /\ out' = out /\ temp' = temp /\ dict' = dict
        /\ \/ /\ l2.comp < RcInitBytes /\ inPos' = inPos /\ l2' = l2 /\ lzma' = lzma /\ rc' = rc
              /\ pc' = "idle" /\ ret' = "DATA_ERROR"
           \/ /\ ~(l2.comp < RcInitBytes)
              /\ inPos' = inPos + n /\ rc' = [rc EXCEPT !.init = i, !.normal = TRUE]
              /\ \/ /\ l2' = [l2 EXCEPT !.comp = c, !.seq = "LZMA_RUN"]
                    /\ lzma' = [lzma EXCEPT !.chunk = k, !.sym = 1]
                    /\ pc' = pc /\ ret' = ret
                 \/ l2' = l2 /\ lzma' = lzma /\ pc' = "idle" /\ ret' = "OK"
    BY DEF L!LzmaPrepare, L!Return, Between
  <1>2. /\ L2Ok(l2) /\ DictOk(dict) /\ LzmaOk(lzma) /\ RcOk(rc) /\ lzma.len = 0 /\ LzInput
        /\ dict.start = dict.pos
    BY <1>1, BetweenFacts
  <1>3. inPos \in Nat /\ inSize \in Nat /\ inPos <= inSize /\ rc.init \in Nat /\ l2.comp \in Nat
    BY <1>1, BetweenFacts
  <1>4. n \in Nat /\ n <= rc.init /\ n <= inSize - inPos
    BY <1>3 DEF L!Min2
  <1> HIDE DEF n
  <1>5. i \in Nat /\ inPos + n \in Nat /\ inPos + n <= inSize /\ (~(l2.comp < RcInitBytes) => c \in Nat)
    BY <1>3, <1>4, Lzma2Assumption
  <1> HIDE DEF i, c, k
  <1>6. inPos' \in Nat /\ inPos' <= inSize
    BY <1>1, <1>3, <1>5
  <1>7. LzOutput'
    BY <1>1, OutStays DEF L!caller
  <1>8. L2Ok(l2')
    BY <1>1, <1>2, <1>5 DEF L2Ok, L2Fields, L2Seqs
  <1>9. LzmaOk(lzma') /\ lzma'.len = 0
    <2>1. lzma' = lzma \/ lzma' = [lzma EXCEPT !.chunk = k, !.sym = 1]
      BY <1>1
    <2>2. DOMAIN lzma' = DOMAIN lzma /\ lzma'.rep = lzma.rep /\ lzma'.len = lzma.len
      BY <1>2, <2>1 DEF LzmaOk
    <2>3. lzma'.sym = lzma.sym \/ lzma'.sym = 1
      BY <1>2, <2>1 DEF LzmaOk
    <2>4. lzma'.sym \in Nat \ {0}
      BY <1>2, <2>3 DEF LzmaOk
    <2>5. QED
      BY <1>2, <2>2, <2>4 DEF LzmaOk
  <1>10. RcOk(rc')
    BY <1>1, <1>2, <1>5 DEF RcOk
  <1>11. QED
    BY <1>1, <1>2, <1>6, <1>7, <1>8, <1>9, <1>10, BetweenKeeps

LEMMA CopyKeeps == LzInv /\ L!Copy => LzInv'
  <1> SUFFICES ASSUME LzInv, L!Copy PROVE LzInv'
    OBVIOUS
  <1> DEFINE n == L!Min2(L!Min2(inSize - inPos, outSize - Len(out)),
                         L!Min2(DictSize - dict.pos, l2.comp))
             piece == SubSeq(stream.bytes, inPos + 1, inPos + n)
             c == l2.comp - n
             q == IF c = 0 THEN "CONTROL" ELSE l2.seq
             e == L!DictCopy(dict, piece)
  <1>1. /\ Between /\ UNCHANGED L!caller /\ temp' = temp /\ lzma' = lzma /\ rc' = rc
        /\ inPos' = inPos + n /\ out' = out \o piece
        /\ dict' = L!DictFlush(e)
        /\ l2' = [l2 EXCEPT !.comp = c, !.seq = q]
        /\ \/ pc' = pc /\ ret' = ret
           \/ pc' = "idle" /\ ret' = "OK"
    BY DEF L!Copy, L!Reads, L!Return, Between
  <1>2. /\ L2Ok(l2) /\ DictOk(dict) /\ LzmaOk(lzma) /\ RcOk(rc) /\ lzma.len = 0 /\ LzInput
    BY <1>1, BetweenFacts
  <1>3. /\ inPos \in Nat /\ inSize \in Nat /\ inPos <= inSize /\ l2.comp \in Nat
        /\ dict.pos \in Nat /\ dict.pos <= DictSize /\ DictSize \in Nat
        /\ outSize \in Nat /\ Len(out) \in Nat /\ Len(out) <= outSize
        /\ inSize <= Len(stream.bytes) /\ Len(stream.bytes) \in Nat
    <2>1. dict.pos \in Nat /\ dict.pos <= DictSize /\ DictSize \in Nat
      BY <1>2, Lzma2Assumption DEF DictOk, DictType
    <2>2. outSize \in Nat /\ Len(out) \in Nat /\ Len(out) <= outSize
      BY DEF LzInv, LzOutput
    <2>3. inSize <= Len(stream.bytes) /\ Len(stream.bytes) \in Nat
      BY <1>2 DEF LzInput, IsLzma2
    <2>4. QED
      BY <1>1, <2>1, <2>2, <2>3, BetweenFacts
  <1>4. /\ n \in Nat /\ n <= inSize - inPos /\ n <= outSize - Len(out)
        /\ n <= DictSize - dict.pos /\ n <= l2.comp
    <2> DEFINE a == L!Min2(inSize - inPos, outSize - Len(out))
               b == L!Min2(DictSize - dict.pos, l2.comp)
    <2>1. a \in Nat /\ a <= inSize - inPos /\ a <= outSize - Len(out)
      BY <1>3 DEF L!Min2
    <2>2. b \in Nat /\ b <= DictSize - dict.pos /\ b <= l2.comp
      BY <1>3 DEF L!Min2
    <2>3. n = L!Min2(a, b)
      OBVIOUS
    <2> HIDE DEF a, b, n
    <2>4. n \in Nat /\ n <= a /\ n <= b
      BY <2>1, <2>2, <2>3 DEF L!Min2
    <2>5. QED
      BY <1>3, <2>1, <2>2, <2>4
  <1> HIDE DEF n
  <1>5. inPos + n \in Nat /\ inPos + n <= inSize /\ inPos + n <= Len(stream.bytes) /\ c \in Nat
    BY <1>3, <1>4
  <1>6. piece \in Seq(Nat) /\ Len(piece) = n
    <2> DEFINE y == stream.bytes
               j == inPos + n
    <2>1. y \in Seq(Nat)
      BY <1>2 DEF LzInput, IsLzma2
    <2>2. j \in Nat /\ j <= Len(y) /\ inPos \in Nat /\ j - inPos = n /\ inPos <= j
      BY <1>3, <1>4, <1>5
    <2> HIDE DEF y, j
    <2>3. SubSeq(y, inPos + 1, j) \in Seq(Nat) /\ Len(SubSeq(y, inPos + 1, j)) = j - inPos
      BY <2>1, <2>2
    <2>4. QED
      BY <2>2, <2>3 DEF y, j
  <1> HIDE DEF piece, c
  <1>7. Grown(dict, e, Len(piece))
    BY <1>2, <1>4, <1>6, CopyGrows
  <1> HIDE DEF e
  <1>8. DictOk(dict') /\ dict'.start = dict'.pos
    BY <1>1, <1>7, FlushFacts DEF Grown
  <1>9. LzOutput'
    <2>1. out \in Seq(Nat) /\ outSize' = outSize
      BY <1>1 DEF LzInv, LzOutput, L!caller
    <2>2. out \o piece \in Seq(Nat) /\ Len(out \o piece) = Len(out) + Len(piece)
      BY <1>6, <2>1
    <2>3. Len(out) + n <= outSize
      BY <1>3, <1>4
    <2>4. QED
      BY <1>1, <1>3, <1>6, <2>1, <2>2, <2>3 DEF LzOutput
  <1>10. L2Ok(l2')
    <2>1. q \in L2Seqs
      BY <1>2 DEF L2Ok, L2Seqs
    <2> HIDE DEF q
    <2>2. QED
      BY <1>1, <1>2, <1>5, <2>1 DEF L2Ok, L2Fields
  <1>11. inPos' \in Nat /\ inPos' <= inSize
    BY <1>1, <1>5
  <1>12. \/ pc' = pc /\ ret' = ret
         \/ pc' = "idle" /\ ret' \in {"OK", "STREAM_END", "DATA_ERROR"}
    BY <1>1
  <1>13. QED
    BY <1>1, <1>2, <1>8, <1>9, <1>10, <1>11, <1>12, BetweenKeeps

\* The caller gives more.
LEMMA Lzma2CallKeeps == LzInv /\ L!Call => LzInv'
  <1> SUFFICES ASSUME LzInv, L!Call PROVE LzInv'
    OBVIOUS
  <1>1. /\ stream' = stream /\ inPos' = inPos /\ out' = out /\ ret' = ret /\ l2' = l2
        /\ dict' = dict /\ lzma' = lzma /\ rc' = rc /\ temp' = temp /\ tmp' = tmp
        /\ pc' = "run" /\ ret = "OK" /\ pc = "idle"
    BY DEF L!Call
  <1>2. PICK n \in 0 .. MaxIn, m \in 0 .. MaxOut :
             /\ inSize' = L!Min2(inSize + n, Len(stream.bytes))
             /\ outSize' = L!Min2(outSize + m, Len(out) + MaxOut)
    BY DEF L!Call
  <1>3. /\ inPos \in Nat /\ inSize \in Nat /\ inPos <= inSize /\ inSize <= Len(stream.bytes)
        /\ Len(stream.bytes) \in Nat /\ outSize \in Nat /\ Len(out) \in Nat /\ Len(out) <= outSize
        /\ n \in Nat /\ m \in Nat /\ MaxOut \in Nat
    BY Lzma2Assumption DEF LzInv, LzInput, IsLzma2, LzOutput
  <1>4. /\ inSize' \in Nat /\ inPos <= inSize' /\ inSize' <= Len(stream.bytes)
        /\ outSize' \in Nat /\ Len(out) <= outSize'
    BY <1>2, <1>3 DEF L!Min2
  <1>5. LzInput'
    <2>1. IsLzma2(stream)
      BY DEF LzInv, LzInput
    <2>2. IsLzma2(stream)'
      BY <1>1, <2>1 DEF IsLzma2
    <2>3. QED
      BY <1>1, <1>3, <1>4, <2>2 DEF LzInput
  <1>6. LzOutput'
    BY <1>1, <1>4 DEF LzInv, LzOutput
  <1>7. LzRecords'
    BY <1>1, RecordsNext DEF LzInv, LzRecords
  <1>8. LzCall' /\ LzRange'
    BY <1>1 DEF LzCall, LzRange
  <1>9. LzWindow'
    BY <1>1 DEF LzInv, LzWindow, LzmaPcs
  <1>10. LzTemp'
    BY <1>1 DEF LzInv, LzTemp, DirectPcs
  <1>11. LzMatch'
    BY <1>1 DEF LzInv, LzMatch, L!DistValid
  <1>12. QED
    BY <1>5, <1>6, <1>7, <1>8, <1>9, <1>10, <1>11 DEF LzInv

-----------------------------------------------------------------------------
\* Inside lzma2_lzma.
LEMMA InsideFacts ==
    ASSUME LzInv, pc \in LzmaPcs
    PROVE  /\ ret = "OK" /\ l2.seq = "LZMA_RUN"
           /\ L2Ok(l2) /\ DictOk(dict) /\ LzmaOk(lzma) /\ RcOk(rc) /\ LzInput /\ LzOutput
           /\ l2.comp \in Nat /\ l2.unc \in Nat /\ temp \in Nat /\ temp < InRequired /\ temp <= l2.comp
           /\ inPos \in Nat /\ inSize \in Nat /\ inPos <= inSize
           /\ InRequired \in Nat /\ InRequired >= 2 /\ DictSize \in Nat
           /\ rc.pos \in Nat /\ rc.limit \in Nat
           /\ dict.start \in Nat /\ dict.pos \in Nat /\ dict.full \in Nat /\ dict.limit \in Nat
           /\ dict.start <= dict.pos /\ dict.pos <= dict.limit /\ dict.limit <= DictSize
           /\ lzma.len \in Nat
  <1>1. LzInput /\ LzOutput /\ LzRecords /\ LzCall /\ LzWindow /\ LzTemp
    BY DEF LzInv
  <1>2. ret = "OK" /\ l2.seq = "LZMA_RUN" /\ dict.pos <= dict.limit /\ dict.limit <= DictSize
    BY <1>1 DEF LzCall, LzWindow, LzmaPcs
  <1>3. L2Ok(l2) /\ DictOk(dict) /\ LzmaOk(lzma) /\ RcOk(rc) /\ temp \in Nat
    BY <1>1 DEF LzRecords
  <1>4. temp < InRequired /\ temp <= l2.comp
    BY <1>1, <1>2 DEF LzTemp
  <1>5. inPos \in Nat /\ inSize \in Nat /\ inPos <= inSize
    BY <1>1 DEF LzInput
  <1>6. /\ dict.start \in Nat /\ dict.pos \in Nat /\ dict.full \in Nat /\ dict.limit \in Nat
        /\ dict.start <= dict.pos
    BY <1>3 DEF DictOk, DictType
  <1>7. /\ l2.comp \in Nat /\ l2.unc \in Nat /\ rc.pos \in Nat /\ rc.limit \in Nat /\ lzma.len \in Nat
    BY <1>3 DEF L2Ok, LzmaOk, RcOk
  <1>8. QED
    BY <1>1, <1>2, <1>3, <1>4, <1>5, <1>6, <1>7, Lzma2Assumption

LEMMA InsideKeeps ==
    ASSUME LzInv, pc \in LzmaPcs, UNCHANGED L!caller, out' = out, ret' = ret, pc' \in LzmaPcs,
           LzRecords', l2'.seq = l2.seq, l2'.unc = l2.unc,
           dict'.start = dict.start, dict'.limit = dict.limit, dict'.pos <= dict.limit,
           inPos' \in Nat, inPos' <= inSize, LzTemp', LzRange', LzMatch'
    PROVE  LzInv'
  <1>1. stream' = stream /\ inSize' = inSize /\ outSize' = outSize
    BY DEF L!caller
  <1>2. ret = "OK" /\ l2.seq = "LZMA_RUN" /\ LzInput
    BY InsideFacts
  <1>3. LzInput'
    BY <1>1, <1>2, InputStays
  <1>4. LzOutput'
    BY <1>1, OutStays
  <1>5. LzCall'
    BY <1>2 DEF LzCall, LzmaPcs
  <1>6. LzWindow'
    <2>1. /\ dict.limit <= DictSize /\ dict.limit - dict.start <= outSize - Len(out)
          /\ dict.limit - dict.start <= l2.unc
      BY DEF LzInv, LzWindow
    <2>2. pc' \notin {"idle", "run"}
      BY DEF LzmaPcs
    <2>3. QED
      BY <1>1, <1>2, <2>1, <2>2 DEF LzWindow
  <1>7. QED
    BY <1>3, <1>4, <1>5, <1>6 DEF LzInv

\* An error ends the call; nothing is used after it.
LEMMA FailsKeeps ==
    ASSUME LzInv, pc \in LzmaPcs, UNCHANGED L!caller, out' = out, inPos' = inPos, temp' = temp,
           l2' = l2, L!Return("DATA_ERROR"), LzRecords'
    PROVE  LzInv'
  <1>1. /\ stream' = stream /\ inSize' = inSize /\ outSize' = outSize
        /\ pc' = "idle" /\ ret' = "DATA_ERROR"
    BY DEF L!caller, L!Return
  <1>2. LzInput'
    BY <1>1, InsideFacts, InputStays
  <1>3. LzOutput'
    BY <1>1, OutStays
  <1>4. LzCall' /\ LzWindow' /\ LzRange' /\ LzMatch'
    BY <1>1 DEF LzCall, LzWindow, LzRange, LzMatch, LzmaPcs
  <1>5. LzTemp'
    BY <1>1, InsideFacts DEF LzTemp, DirectPcs
  <1>6. QED
    BY <1>2, <1>3, <1>4, <1>5 DEF LzInv

\* The symbol that is next, in the chunk's list or past its end.
LEMMA SymbolFacts ==
    ASSUME LzInv
    PROVE  LET y == L!SymbolAt(L!Symbols, lzma.sym) IN L!SymbolOk(y)
  <1> DEFINE c == L!Chunk
             list == L!Symbols
             i == lzma.sym
  <1>1. i \in Nat /\ i >= 1
    BY DEF LzInv, LzRecords, LzmaOk
  <1>2. L!SymbolOk(L!PastEnd)
    BY Lzma2Assumption DEF L!SymbolOk, L!PastEnd
  <1>3. IsLzma2(stream)
    BY DEF LzInv, LzInput
  <1>4. list = c.syms
    BY DEF L!Symbols
  <1>5. CASE lzma.chunk \in DOMAIN stream.chunks
    <2>1. c \in Elements(stream.chunks)
      BY <1>5 DEF L!Chunk, Elements
    <2> HIDE DEF c
    <2>2. /\ c.syms \in Seq(Elements(c.syms))
          /\ \A y \in Elements(c.syms) : L!SymbolOk(y)
      BY <1>3, <2>1 DEF IsLzma2
    <2> HIDE DEF list
    <2>3. i <= Len(list) => list[i] \in Elements(c.syms)
      BY <1>1, <1>4, <2>2
    <2>4. i <= Len(list) => L!SymbolOk(list[i])
      BY <2>2, <2>3
    <2>5. L!SymbolOk(L!SymbolAt(list, i))
      BY <1>2, <2>4 DEF L!SymbolAt
    <2>6. QED
      BY <2>5 DEF list
  <1>6. CASE lzma.chunk \notin DOMAIN stream.chunks
    <2>1. list = <<>>
      BY <1>4, <1>6 DEF L!Chunk, L!NoChunk
    <2> HIDE DEF list, i
    <2>2. ~(i <= Len(list))
      BY <1>1, <2>1
    <2>3. L!SymbolAt(list, i) = L!PastEnd
      BY <2>2 DEF L!SymbolAt
    <2>4. QED
      BY <1>2, <2>3 DEF list, i
  <1>7. QED
    BY <1>5, <1>6

LEMMA NormFacts ==
    ASSUME NEW y, L!SymbolOk(y)
    PROVE  /\ L!NormRead(y) \in Nat /\ L!NormRead(y) <= 1 /\ y.more \in Nat
           /\ L!NormRead(y) + y.more < InRequired
  <1>1. y.norm \in 0 .. 1 /\ y.more \in Nat /\ y.norm + y.more < InRequired
    BY DEF L!SymbolOk
  <1>2. L!NormRead(y) = 0 \/ L!NormRead(y) = y.norm
    BY DEF L!NormRead
  <1>3. QED
    BY <1>1, <1>2, Lzma2Assumption

LEMMA PosFacts ==
    ASSUME LzInv
    PROVE  L!PosNormalised \in Nat /\ rc.pos <= L!PosNormalised /\ L!PosNormalised <= rc.pos + 1
  <1> DEFINE y == L!SymbolAt(L!Symbols, lzma.sym)
             w == L!NormRead(y)
  <1>1. rc.pos \in Nat
    BY DEF LzInv, LzRecords, RcOk
  <1>2. L!SymbolOk(y)
    BY SymbolFacts
  <1>3. L!PosNormalised = rc.pos + w
    BY DEF L!PosNormalised
  <1> HIDE DEF y
  <1>4. w \in Nat /\ w <= 1
    BY <1>2, NormFacts
  <1> HIDE DEF w
  <1>5. QED
    BY <1>1, <1>3, <1>4

LEMMA RunTempKeeps == LzInv /\ L!RunTemp => LzInv'
  <1> SUFFICES ASSUME LzInv, L!RunTemp PROVE LzInv'
    OBVIOUS
  <1> DEFINE m == L!Min2(outSize - Len(out), l2.unc)
             t == L!Min2(L!Min2(2 * InRequired - temp, l2.comp - temp), inSize - inPos)
             lim == IF temp + t = l2.comp THEN temp + t ELSE temp + t - InRequired
  <1>1. /\ pc = "run" /\ l2.seq = "LZMA_RUN" /\ UNCHANGED L!caller /\ out' = out /\ ret' = ret
        /\ l2' = l2 /\ lzma' = lzma /\ dict' = L!DictLimit(dict, m)
    BY DEF L!RunTemp
  <1>2. \/ /\ temp + t = l2.comp \/ temp + t >= InRequired
           /\ tmp' = t /\ rc' = [rc EXCEPT !.pos = 0, !.limit = lim]
           /\ pc' = "temp" /\ inPos' = inPos /\ temp' = temp
        \/ /\ temp + t # l2.comp /\ ~(temp + t >= InRequired)
           /\ temp' = temp + t /\ inPos' = inPos + t /\ pc' = "flush" /\ rc' = rc
        \/ /\ ~(temp > 0 \/ l2.comp = 0)
           /\ pc' = "direct" /\ inPos' = inPos /\ rc' = rc /\ temp' = temp
    BY DEF L!RunTemp
  <1>3. stream' = stream /\ inSize' = inSize /\ outSize' = outSize
    BY <1>1 DEF L!caller
  <1>4. LzInput /\ LzOutput /\ LzRecords /\ LzCall /\ LzWindow /\ LzTemp /\ LzMatch
    BY DEF LzInv
  <1>5. ret = "OK" /\ dict.start = dict.pos
    BY <1>1, <1>4 DEF LzCall, LzWindow
  <1>6. /\ outSize \in Nat /\ Len(out) \in Nat /\ Len(out) <= outSize
        /\ inPos \in Nat /\ inSize \in Nat /\ inPos <= inSize
        /\ temp \in Nat /\ temp < InRequired /\ temp <= l2.comp
        /\ InRequired \in Nat /\ InRequired >= 2
    BY <1>1, <1>4, Lzma2Assumption DEF LzInput, LzOutput, LzRecords, LzTemp
  <1>7. l2.comp \in Nat /\ l2.unc \in Nat /\ L2Ok(l2) /\ DictOk(dict) /\ LzmaOk(lzma) /\ RcOk(rc)
    BY <1>4 DEF LzRecords, L2Ok
  <1>8. m \in Nat /\ m <= outSize - Len(out) /\ m <= l2.unc
    BY <1>6, <1>7 DEF L!Min2
  <1>9. /\ t \in Nat /\ t <= 2 * InRequired - temp /\ t <= l2.comp - temp /\ t <= inSize - inPos
    <2> DEFINE a == L!Min2(2 * InRequired - temp, l2.comp - temp)
    <2>1. a \in Nat /\ a <= 2 * InRequired - temp /\ a <= l2.comp - temp
      BY <1>6, <1>7 DEF L!Min2
    <2>2. t = L!Min2(a, inSize - inPos)
      OBVIOUS
    <2> HIDE DEF a, t
    <2>3. t \in Nat /\ t <= a /\ t <= inSize - inPos
      BY <1>6, <2>1, <2>2 DEF L!Min2
    <2>4. QED
      BY <1>6, <1>7, <2>1, <2>3
  <1> HIDE DEF m, t
  <1>10. /\ DictOk(dict') /\ dict'.pos = dict.pos /\ dict'.start = dict.start
         /\ dict'.full = dict.full /\ dict.pos <= dict'.limit /\ dict'.limit <= DictSize
         /\ dict'.limit <= dict.pos + m
    BY <1>1, <1>7, <1>8, LimitFacts
  <1>11. dict.pos \in Nat /\ dict'.limit \in Nat /\ dict.start \in Nat
    BY <1>7, <1>10 DEF DictOk, DictType
  <1>12. /\ inPos + t \in Nat /\ inPos + t <= inSize /\ temp + t \in Nat /\ temp + t <= l2.comp
         /\ temp + t <= 2 * InRequired
    BY <1>6, <1>7, <1>9
  <1>13. inPos' \in Nat /\ inPos' <= inSize /\ temp' \in Nat
    BY <1>2, <1>6, <1>12
  <1>14. LzInput'
    BY <1>3, <1>4, <1>13, InputStays
  <1>15. LzOutput'
    BY <1>1, <1>3, OutStays
  <1>16. temp + t = l2.comp \/ temp + t >= InRequired => lim \in Nat /\ lim <= 2 * InRequired
    BY <1>6, <1>7, <1>9, <1>12
  <1> HIDE DEF lim
  <1>17. RcOk(rc')
    <2>1. rc' = rc \/ (lim \in Nat /\ rc' = [rc EXCEPT !.pos = 0, !.limit = lim])
      BY <1>2, <1>16
    <2>2. CASE rc' = rc
      BY <1>7, <2>2
    <2>3. CASE lim \in Nat /\ rc' = [rc EXCEPT !.pos = 0, !.limit = lim]
      <3>1. rc'.pos = 0 /\ rc'.limit = lim /\ rc'.init = rc.init /\ DOMAIN rc' = DOMAIN rc
        BY <1>7, <2>3 DEF RcOk
      <3>2. QED
        BY <1>7, <2>3, <3>1 DEF RcOk
    <2>4. QED
      BY <2>1, <2>2, <2>3
  <1>18. LzRecords'
    BY <1>1, <1>7, <1>10, <1>13, <1>17, RecordsNext
  <1>19. pc' \in {"temp", "flush", "direct"}
    BY <1>2
  <1>20. LzCall'
    BY <1>1, <1>5, <1>19 DEF LzCall, LzmaPcs
  <1>21. LzWindow'
    <2>1. dict'.limit - dict'.start <= outSize - Len(out) /\ dict'.limit - dict'.start <= l2.unc
      BY <1>5, <1>6, <1>7, <1>8, <1>10, <1>11
    <2>2. QED
      BY <1>1, <1>3, <1>10, <1>19, <2>1 DEF LzWindow, LzmaPcs
  <1>22. LzTemp'
    <2>1. temp' < InRequired /\ temp' <= l2.comp
      BY <1>2, <1>6, <1>12
    <2>2. pc' = "direct" => temp' = 0
      BY <1>2, <1>6
    <2>3. QED
      BY <1>1, <1>19, <2>1, <2>2 DEF LzTemp, DirectPcs
  <1>23. LzRange'
    <2>1. pc' = "temp" =>
             /\ tmp' = t /\ temp' = temp /\ inPos' = inPos /\ lim \in Nat /\ lim <= 2 * InRequired
             /\ rc'.pos = 0 /\ rc'.limit = lim
      BY <1>2, <1>7, <1>16 DEF RcOk
    <2>2. lim \in Nat => 0 < lim + InRequired
      BY <1>6
    <2>3. pc' # "main"
      BY <1>19
    <2>4. QED
      BY <1>1, <1>3, <1>9, <1>12, <2>1, <2>2, <2>3 DEF LzRange
  <1>24. LzMatch'
    BY <1>1, <1>4, <1>5, <1>10 DEF LzMatch, L!DistValid
  <1>25. QED
    BY <1>14, <1>15, <1>18, <1>20, <1>21, <1>22, <1>23, <1>24 DEF LzInv

\* What stays when a symbol or a pending match is decoded.
LEMMA DecodesKeeps ==
    ASSUME LzInv, pc \in {"temp", "main"}, UNCHANGED L!caller, inPos' = inPos, out' = out, pc' = pc,
           ret' = ret, l2' = l2, temp' = temp, tmp' = tmp,
           LzmaOk(lzma'), RcOk(rc'), rc'.limit = rc.limit, rc.pos <= rc'.pos,
           rc'.pos < rc.limit + InRequired,
           NEW n \in Nat, n <= dict.limit - dict.pos, Grown(dict, dict', n),
           lzma'.len > 0 => L!DistValid(dict', lzma'.rep[1])
    PROVE  LzInv'
  <1>1. pc \in LzmaPcs /\ pc' \in LzmaPcs
    BY DEF LzmaPcs
  <1>2. stream' = stream /\ inSize' = inSize /\ outSize' = outSize
    BY DEF L!caller
  <1>3. /\ ret = "OK" /\ l2.seq = "LZMA_RUN" /\ L2Ok(l2) /\ temp \in Nat
        /\ inPos \in Nat /\ inPos <= inSize /\ dict.pos \in Nat /\ dict.limit \in Nat
        /\ rc.pos \in Nat
    BY <1>1, InsideFacts
  <1>4. /\ DictOk(dict') /\ dict'.pos = dict.pos + n /\ dict'.start = dict.start
        /\ dict'.limit = dict.limit
    BY DEF Grown
  <1>5. dict'.pos <= dict.limit
    BY <1>3, <1>4
  <1>6. LzRecords'
    BY <1>3, <1>4, RecordsNext
  <1>7. LzTemp'
    <2>1. LzTemp
      BY DEF LzInv
    <2>2. QED
      BY <1>3, <2>1 DEF LzTemp
  <1>8. LzRange'
    <2>1. LzRange
      BY DEF LzInv
    <2>2. inPos <= rc.pos => inPos <= rc'.pos
      BY <1>3 DEF RcOk
    <2>3. QED
      BY <1>2, <2>1, <2>2 DEF LzRange
  <1>9. LzMatch'
    BY DEF LzMatch, L!DistValid
  <1>10. QED
    BY <1>1, <1>3, <1>4, <1>5, <1>6, <1>7, <1>8, <1>9, InsideKeeps

LEMMA ValidGrows ==
    ASSUME NEW d, NEW e, NEW n, DictOk(d), Grown(d, e, n), NEW dist \in Nat, L!DistValid(d, dist)
    PROVE  L!DistValid(e, dist)
  <1>1. d.full \in Nat /\ e.full \in Nat /\ d.full <= e.full /\ dist < d.full /\ dist < DictSize
    BY DEF DictOk, DictType, Grown, L!DistValid
  <1>2. dist < e.full
    BY <1>1
  <1>3. QED
    BY <1>1, <1>2 DEF L!DistValid

LEMMA PendingRepeatKeeps == LzInv /\ L!PendingRepeat => LzInv'
  <1> SUFFICES ASSUME LzInv, L!PendingRepeat PROVE LzInv'
    OBVIOUS
  <1> DEFINE dist == lzma.rep[1]
             left == L!RepeatLeft(dict, lzma.len)
  <1>1. /\ pc \in {"temp", "main"} /\ UNCHANGED L!caller /\ inPos' = inPos /\ out' = out /\ pc' = pc
        /\ ret' = ret /\ l2' = l2 /\ rc' = rc /\ temp' = temp /\ tmp' = tmp
        /\ lzma.len > 0
        /\ dict' = L!DictRepeat(dict, lzma.len, dist)
        /\ lzma' = [lzma EXCEPT !.len = left]
    BY DEF L!PendingRepeat
  <1>2. pc \in LzmaPcs
    BY <1>1 DEF LzmaPcs
  <1>3. /\ ret = "OK" /\ DictOk(dict) /\ LzmaOk(lzma) /\ RcOk(rc) /\ lzma.len \in Nat
        /\ dict.pos <= dict.limit /\ dict.limit <= DictSize /\ rc.pos \in Nat
    BY <1>2, InsideFacts
  <1>4. dist \in Nat
    BY <1>3 DEF LzmaOk
  <1>5. L!DistValid(dict, dist)
    BY <1>1, <1>3 DEF LzInv, LzMatch
  <1> HIDE DEF dist
  <1>6. PICK n \in Nat : /\ n <= dict.limit - dict.pos
                         /\ Grown(dict, L!DictRepeat(dict, lzma.len, dist), n)
                         /\ L!RepeatLeft(dict, lzma.len) \in Nat
    BY <1>3, <1>4, <1>5, RepeatGrows
  <1>7. left \in Nat
    BY <1>6
  <1> HIDE DEF left
  <1>8. LzmaOk(lzma') /\ lzma'.rep = lzma.rep
    BY <1>1, <1>3, <1>7 DEF LzmaOk
  <1>9. Grown(dict, dict', n)
    BY <1>1, <1>6
  <1>10. L!DistValid(dict', dist)
    BY <1>3, <1>4, <1>5, <1>9, ValidGrows
  <1>11. L!DistValid(dict', lzma'.rep[1])
    BY <1>8, <1>10 DEF dist
  <1>12. rc'.limit = rc.limit /\ rc.pos <= rc'.pos /\ rc'.pos < rc.limit + InRequired /\ RcOk(rc')
    BY <1>1, <1>3 DEF LzInv, LzRange
  <1>13. QED
    BY <1>1, <1>6, <1>8, <1>9, <1>11, <1>12, DecodesKeeps

\* The distances after a match or a repeated match.
LEMMA RepsType ==
    ASSUME NEW y, L!SymbolOk(y), y.op # "lit", NEW r \in [1 .. 4 -> Nat]
    PROVE  L!RepsAfter(y, r) \in [1 .. 4 -> Nat] /\ y.len \in Nat
  <1>1. \/ y.op = "match" /\ y.dist \in Nat /\ y.len \in Nat
        \/ y.op = "rep" /\ y.which \in 1 .. 4 /\ y.len \in Nat
    BY DEF L!SymbolOk
  <1>2. CASE y.op = "match"
    <2>1. y.dist \in Nat /\ y.len \in Nat /\ r[1] \in Nat /\ r[2] \in Nat /\ r[3] \in Nat
      BY <1>1, <1>2
    <2> DEFINE a == y.dist
               b == r[1]
               c == r[2]
               d == r[3]
    <2>2. L!RepsAfter(y, r) = <<a, b, c, d>>
      BY <1>2 DEF L!RepsAfter
    <2>3. a \in Nat /\ b \in Nat /\ c \in Nat /\ d \in Nat
      BY <2>1
    <2> HIDE DEF a, b, c, d
    <2>4. <<a, b, c, d>> \in [1 .. 4 -> Nat]
      BY <2>3
    <2>5. QED
      BY <2>1, <2>2, <2>4
  <1>3. CASE y.op # "match"
    <2>1. y.which \in 1 .. 4 /\ y.len \in Nat
      BY <1>1, <1>3
    <2> DEFINE w == y.which
               f == [i \in 1 .. 4 |-> IF i = 1 THEN r[w] ELSE IF i <= w THEN r[i - 1] ELSE r[i]]
    <2>2. L!RepsAfter(y, r) = f
      BY <1>3 DEF L!RepsAfter, L!ToFront
    <2>3. ASSUME NEW i \in 1 .. 4
          PROVE  (IF i = 1 THEN r[w] ELSE IF i <= w THEN r[i - 1] ELSE r[i]) \in Nat
      <3>1. r[w] \in Nat /\ r[i] \in Nat
        BY <2>1
      <3>2. i # 1 => i - 1 \in 1 .. 4
        OBVIOUS
      <3>3. i # 1 => r[i - 1] \in Nat
        BY <3>2
      <3>4. QED
        BY <3>1, <3>3
    <2> HIDE DEF w
    <2>4. f \in [1 .. 4 -> Nat]
      BY <2>3
    <2>5. QED
      BY <2>1, <2>2, <2>4
  <1>4. QED
    BY <1>2, <1>3

LEMMA SymbolKeeps == LzInv /\ L!Symbol => LzInv'
  <1> SUFFICES ASSUME LzInv, L!Symbol PROVE LzInv'
    OBVIOUS
  <1> DEFINE y == L!SymbolAt(L!Symbols, lzma.sym)
             reps == IF y.op = "lit" THEN lzma.rep ELSE L!RepsAfter(y, lzma.rep)
             p == rc.pos + L!NormRead(y) + y.more
             left == L!RepeatLeft(dict, y.len)
             k == lzma.sym + 1
  <1>1. /\ pc \in {"temp", "main"} /\ UNCHANGED L!caller /\ inPos' = inPos /\ out' = out
        /\ l2' = l2 /\ temp' = temp /\ tmp' = tmp
        /\ lzma.len = 0 /\ dict.pos < dict.limit /\ rc.pos <= rc.limit
        /\ rc' = [rc EXCEPT !.pos = p, !.normal = FALSE]
    BY DEF L!Symbol, L!MainGoes, L!DictHasSpace
  <1>2. \/ /\ y.op = "lit" /\ dict' = L!DictPut(dict, y.byte) /\ lzma' = [lzma EXCEPT !.sym = k]
           /\ pc' = pc /\ ret' = ret
        \/ /\ y.op # "lit" /\ L!DistValid(dict, reps[1])
           /\ dict' = L!DictRepeat(dict, y.len, reps[1])
           /\ lzma' = [lzma EXCEPT !.sym = k, !.rep = reps, !.len = left]
           /\ pc' = pc /\ ret' = ret
        \/ L!Return("DATA_ERROR") /\ dict' = dict /\ lzma' = lzma
    BY DEF L!Symbol
  <1>3. L!SymbolOk(y)
    BY SymbolFacts
  <1> HIDE DEF y
  <1>4. pc \in LzmaPcs
    BY <1>1 DEF LzmaPcs
  <1>5. /\ ret = "OK" /\ DictOk(dict) /\ LzmaOk(lzma) /\ RcOk(rc) /\ L2Ok(l2) /\ temp \in Nat
        /\ dict.pos <= dict.limit /\ dict.limit <= DictSize /\ rc.pos \in Nat /\ rc.limit \in Nat
        /\ dict.pos \in Nat /\ dict.limit \in Nat /\ DictSize \in Nat /\ InRequired \in Nat
    BY <1>4, InsideFacts
  <1>6. p \in Nat /\ rc.pos <= p /\ p < rc.limit + InRequired
    <2> DEFINE w == L!NormRead(y)
               v == y.more
    <2>1. w \in Nat /\ v \in Nat /\ w + v < InRequired
      BY <1>3, NormFacts
    <2>2. p = rc.pos + w + v
      OBVIOUS
    <2> HIDE DEF w, v, p
    <2>3. QED
      BY <1>1, <1>5, <2>1, <2>2
  <1> HIDE DEF p
  <1>7. RcOk(rc') /\ rc'.limit = rc.limit /\ rc'.pos = p
    BY <1>1, <1>5, <1>6 DEF RcOk
  <1>8. k \in Nat \ {0} /\ lzma.rep \in [1 .. 4 -> Nat]
    BY <1>5 DEF LzmaOk
  <1> HIDE DEF k
  <1>9. CASE y.op = "lit" /\ dict' = L!DictPut(dict, y.byte) /\ pc' = pc /\ ret' = ret
             /\ lzma' = [lzma EXCEPT !.sym = k]
    <2>1. y.byte \in Nat
      BY <1>3, <1>9 DEF L!SymbolOk
    <2>2. Grown(dict, dict', 1)
      <3>1. dict.pos < DictSize
        BY <1>1, <1>5
      <3>2. QED
        BY <1>5, <1>9, <2>1, <3>1, PutGrows
    <2>3. LzmaOk(lzma') /\ lzma'.len = 0
      BY <1>1, <1>5, <1>8, <1>9 DEF LzmaOk
    <2>4. 1 \in Nat /\ 1 <= dict.limit - dict.pos /\ ~(lzma'.len > 0)
      BY <1>1, <1>5, <2>3
    <2>5. QED
      BY <1>1, <1>6, <1>7, <1>9, <2>2, <2>3, <2>4, DecodesKeeps
  <1>10. CASE y.op # "lit" /\ L!DistValid(dict, reps[1]) /\ pc' = pc /\ ret' = ret
              /\ dict' = L!DictRepeat(dict, y.len, reps[1])
              /\ lzma' = [lzma EXCEPT !.sym = k, !.rep = reps, !.len = left]
    <2>1. reps \in [1 .. 4 -> Nat] /\ y.len \in Nat
      BY <1>3, <1>8, <1>10, RepsType
    <2> HIDE DEF reps
    <2>2. reps[1] \in Nat
      BY <2>1
    <2>3. PICK n \in Nat : /\ n <= dict.limit - dict.pos
                           /\ Grown(dict, L!DictRepeat(dict, y.len, reps[1]), n)
                           /\ L!RepeatLeft(dict, y.len) \in Nat
      BY <1>5, <1>10, <2>1, <2>2, RepeatGrows
    <2>4. Grown(dict, dict', n) /\ left \in Nat
      BY <1>10, <2>3
    <2> HIDE DEF left
    <2>5. LzmaOk(lzma') /\ lzma'.rep = reps
      <3>1. /\ lzma'.rep = reps /\ lzma'.len = left /\ lzma'.sym = k
            /\ DOMAIN lzma' = DOMAIN lzma
        BY <1>5, <1>10 DEF LzmaOk
      <3>2. QED
        BY <1>5, <1>8, <2>1, <2>4, <3>1 DEF LzmaOk
    <2>6. L!DistValid(dict', lzma'.rep[1])
      BY <1>5, <1>10, <2>2, <2>4, <2>5, ValidGrows
    <2>7. QED
      BY <1>1, <1>6, <1>7, <1>10, <2>3, <2>4, <2>5, <2>6, DecodesKeeps
  <1>11. CASE L!Return("DATA_ERROR") /\ dict' = dict /\ lzma' = lzma
    <2>1. LzRecords'
      BY <1>1, <1>5, <1>7, <1>11, RecordsNext
    <2>2. QED
      BY <1>1, <1>4, <1>11, <2>1, FailsKeeps
  <1>12. QED
    BY <1>2, <1>9, <1>10, <1>11

\* A step of lzma2_lzma that leaves the dictionary and the match alone.
LEMMA InputKeeps ==
    ASSUME LzInv, pc \in LzmaPcs, UNCHANGED L!caller, out' = out, ret' = ret, pc' \in LzmaPcs,
           dict' = dict, lzma' = lzma, L2Ok(l2'), RcOk(rc'), l2'.seq = l2.seq, l2'.unc = l2.unc,
           inPos' \in Nat, inPos' <= inSize, temp' \in Nat, temp' < InRequired, temp' <= l2'.comp,
           pc' \in DirectPcs => temp' = 0, LzRange'
    PROVE  LzInv'
  <1>1. /\ ret = "OK" /\ l2.seq = "LZMA_RUN" /\ DictOk(dict) /\ LzmaOk(lzma)
        /\ dict.pos <= dict.limit
    BY InsideFacts
  <1>2. LzRecords'
    BY <1>1, RecordsNext
  <1>3. LzTemp'
    BY <1>1 DEF LzTemp
  <1>4. LzMatch'
    BY DEF LzInv, LzMatch, L!DistValid
  <1>5. QED
    BY <1>1, <1>2, <1>3, <1>4, InsideKeeps

LEMMA TempDoneKeeps == LzInv /\ L!TempDone => LzInv'
  <1> SUFFICES ASSUME LzInv, L!TempDone PROVE LzInv'
    OBVIOUS
  <1> DEFINE p == L!PosNormalised
             c == l2.comp - p
  <1>1. /\ pc = "temp" /\ UNCHANGED L!caller /\ out' = out /\ dict' = dict /\ lzma' = lzma
        /\ tmp' = tmp
    BY DEF L!TempDone
  <1>2. \/ /\ L!Return("DATA_ERROR") /\ inPos' = inPos /\ l2' = l2 /\ rc' = rc /\ temp' = temp
        \/ /\ ~(p > temp + tmp) /\ l2' = [l2 EXCEPT !.comp = c]
           /\ rc' = [rc EXCEPT !.pos = p, !.normal = TRUE] /\ ret' = ret
           /\ \/ p < temp /\ temp' = temp - p /\ pc' = "flush" /\ inPos' = inPos
              \/ ~(p < temp) /\ temp' = 0 /\ inPos' = inPos + p - temp /\ pc' = "direct"
    BY DEF L!TempDone
  <1>3. pc \in LzmaPcs
    BY <1>1 DEF LzmaPcs
  <1>4. /\ DictOk(dict) /\ LzmaOk(lzma) /\ RcOk(rc) /\ L2Ok(l2) /\ temp \in Nat
        /\ temp < InRequired /\ l2.comp \in Nat /\ InRequired \in Nat
        /\ inPos \in Nat /\ inSize \in Nat
    BY <1>3, InsideFacts
  <1>5. tmp \in Nat /\ temp + tmp <= l2.comp /\ tmp <= inSize - inPos
    BY <1>1 DEF LzInv, LzRange
  <1>6. p \in Nat
    BY PosFacts
  <1> HIDE DEF p
  <1>7. CASE L!Return("DATA_ERROR") /\ inPos' = inPos /\ l2' = l2 /\ rc' = rc /\ temp' = temp
    <2>1. LzRecords'
      BY <1>1, <1>4, <1>7, RecordsNext
    <2>2. QED
      BY <1>1, <1>3, <1>7, <2>1, FailsKeeps
  <1>8. CASE /\ ~(p > temp + tmp) /\ l2' = [l2 EXCEPT !.comp = c]
             /\ rc' = [rc EXCEPT !.pos = p, !.normal = TRUE] /\ ret' = ret
             /\ \/ p < temp /\ temp' = temp - p /\ pc' = "flush" /\ inPos' = inPos
                \/ ~(p < temp) /\ temp' = 0 /\ inPos' = inPos + p - temp /\ pc' = "direct"
    <2>0. /\ ~(p > temp + tmp)
          /\ \/ p < temp /\ temp' = temp - p /\ inPos' = inPos
             \/ ~(p < temp) /\ temp' = 0 /\ inPos' = inPos + p - temp
      BY <1>8
    <2>1. c \in Nat /\ temp' \in Nat /\ temp' < InRequired /\ temp' <= c
      BY <1>4, <1>5, <1>6, <2>0
    <2>2. inPos' \in Nat /\ inPos' <= inSize
      BY <1>4, <1>5, <1>6, <2>0
    <2> HIDE DEF c
    <2>3. L2Ok(l2') /\ l2'.seq = l2.seq /\ l2'.unc = l2.unc /\ l2'.comp = c
      BY <1>4, <1>8, <2>1 DEF L2Ok, L2Fields
    <2>4. RcOk(rc')
      BY <1>4, <1>6, <1>8 DEF RcOk
    <2>5. pc' \in LzmaPcs /\ (pc' \in DirectPcs => temp' = 0) /\ LzRange'
      BY <1>8 DEF LzmaPcs, DirectPcs, LzRange
    <2>6. QED
      BY <1>1, <1>3, <1>8, <2>1, <2>2, <2>3, <2>4, <2>5, InputKeeps
  <1>9. QED
    BY <1>2, <1>7, <1>8

LEMMA RunDirectKeeps == LzInv /\ L!RunDirect => LzInv'
  <1> SUFFICES ASSUME LzInv, L!RunDirect PROVE LzInv'
    OBVIOUS
  <1> DEFINE lim == IF inSize - inPos >= l2.comp + InRequired THEN inPos + l2.comp
                    ELSE inSize - InRequired
  <1>1. /\ pc = "direct" /\ UNCHANGED L!caller /\ out' = out /\ dict' = dict /\ lzma' = lzma
        /\ inPos' = inPos /\ ret' = ret /\ l2' = l2 /\ temp' = temp /\ tmp' = tmp
        /\ \/ /\ inSize - inPos >= InRequired
              /\ rc' = [rc EXCEPT !.pos = inPos, !.limit = lim] /\ pc' = "main"
           \/ pc' = "save" /\ rc' = rc
    BY DEF L!RunDirect
  <1>2. pc \in LzmaPcs
    BY <1>1 DEF LzmaPcs
  <1>3. /\ RcOk(rc) /\ L2Ok(l2) /\ temp \in Nat /\ temp < InRequired /\ temp <= l2.comp
        /\ l2.comp \in Nat /\ InRequired \in Nat /\ InRequired >= 2
        /\ inPos \in Nat /\ inSize \in Nat /\ inPos <= inSize
    BY <1>2, InsideFacts
  <1>4. temp = 0
    BY <1>1 DEF LzInv, LzTemp, DirectPcs
  <1>5. inSize - inPos >= InRequired =>
           lim \in Nat /\ lim + InRequired <= inSize /\ inPos < lim + InRequired
    BY <1>3
  <1> HIDE DEF lim
  <1>6. pc' = "main" => rc'.pos = inPos /\ rc'.limit = lim /\ lim \in Nat
                        /\ lim + InRequired <= inSize /\ inPos < lim + InRequired
    BY <1>1, <1>3, <1>5 DEF RcOk
  <1>7. RcOk(rc')
    <2>1. pc' = "main" => DOMAIN rc' = DOMAIN rc /\ rc'.init = rc.init
      BY <1>1, <1>3 DEF RcOk
    <2>2. pc' # "main" => rc' = rc
      BY <1>1
    <2>3. QED
      BY <1>3, <1>6, <2>1, <2>2 DEF RcOk
  <1>8. LzRange'
    <2>1. inSize' = inSize /\ pc' # "temp"
      BY <1>1 DEF L!caller
    <2>2. QED
      BY <1>1, <1>3, <1>6, <2>1 DEF LzRange
  <1>9. pc' \in LzmaPcs
    BY <1>1 DEF LzmaPcs
  <1>10. QED
    BY <1>1, <1>2, <1>3, <1>4, <1>7, <1>8, <1>9, InputKeeps

LEMMA DirectDoneKeeps == LzInv /\ L!DirectDone => LzInv'
  <1> SUFFICES ASSUME LzInv, L!DirectDone PROVE LzInv'
    OBVIOUS
  <1> DEFINE p == L!PosNormalised
             c == l2.comp - (p - inPos)
  <1>1. /\ pc = "main" /\ UNCHANGED L!caller /\ out' = out /\ dict' = dict /\ lzma' = lzma
        /\ temp' = temp
    BY DEF L!DirectDone
  <1>2. \/ /\ L!Return("DATA_ERROR") /\ inPos' = inPos /\ l2' = l2 /\ rc' = rc
        \/ /\ ~(p - inPos > l2.comp) /\ l2' = [l2 EXCEPT !.comp = c]
           /\ rc' = [rc EXCEPT !.pos = p, !.normal = TRUE] /\ ret' = ret
           /\ inPos' = p /\ pc' = "save"
    BY DEF L!DirectDone
  <1>3. pc \in LzmaPcs
    BY <1>1 DEF LzmaPcs
  <1>4. /\ DictOk(dict) /\ LzmaOk(lzma) /\ RcOk(rc) /\ L2Ok(l2) /\ temp \in Nat
        /\ temp < InRequired /\ l2.comp \in Nat /\ InRequired \in Nat /\ InRequired >= 2
        /\ inPos \in Nat /\ inSize \in Nat /\ rc.pos \in Nat /\ rc.limit \in Nat
    BY <1>3, InsideFacts
  <1>5. inPos <= rc.pos /\ rc.limit + InRequired <= inSize /\ rc.pos < rc.limit + InRequired
    BY <1>1 DEF LzInv, LzRange
  <1>6. p \in Nat /\ rc.pos <= p /\ p <= rc.pos + 1
    BY PosFacts
  <1> HIDE DEF p
  <1>7. p <= inSize /\ inPos <= p
    BY <1>4, <1>5, <1>6
  <1>8. temp = 0
    BY <1>1 DEF LzInv, LzTemp, DirectPcs
  <1>9. CASE L!Return("DATA_ERROR") /\ inPos' = inPos /\ l2' = l2 /\ rc' = rc
    <2>1. LzRecords'
      BY <1>1, <1>4, <1>9, RecordsNext
    <2>2. QED
      BY <1>1, <1>3, <1>9, <2>1, FailsKeeps
  <1>10. CASE /\ ~(p - inPos > l2.comp) /\ l2' = [l2 EXCEPT !.comp = c]
              /\ rc' = [rc EXCEPT !.pos = p, !.normal = TRUE] /\ ret' = ret
              /\ inPos' = p /\ pc' = "save"
    <2>1. c \in Nat /\ temp <= c
      BY <1>4, <1>6, <1>7, <1>8, <1>10
    <2> HIDE DEF c
    <2>2. L2Ok(l2') /\ l2'.seq = l2.seq /\ l2'.unc = l2.unc /\ l2'.comp = c
      BY <1>4, <1>10, <2>1 DEF L2Ok, L2Fields
    <2>3. RcOk(rc')
      BY <1>4, <1>6, <1>10 DEF RcOk
    <2>4. pc' \in LzmaPcs /\ LzRange'
      BY <1>10 DEF LzmaPcs, LzRange
    <2>5. QED
      BY <1>1, <1>3, <1>4, <1>6, <1>7, <1>8, <1>10, <2>1, <2>2, <2>3, <2>4, InputKeeps
  <1>11. QED
    BY <1>2, <1>9, <1>10

LEMMA SaveRestKeeps == LzInv /\ L!SaveRest => LzInv'
  <1> SUFFICES ASSUME LzInv, L!SaveRest PROVE LzInv'
    OBVIOUS
  <1> DEFINE r == L!RestOfChunk
  <1>1. /\ pc = "save" /\ UNCHANGED L!caller /\ out' = out /\ dict' = dict /\ lzma' = lzma
        /\ ret' = ret /\ l2' = l2 /\ rc' = rc /\ pc' = "flush"
        /\ \/ inSize - inPos < InRequired /\ temp' = r /\ inPos' = inPos + r
           \/ temp' = temp /\ inPos' = inPos
    BY DEF L!SaveRest
  <1>2. pc \in LzmaPcs /\ pc' \in LzmaPcs /\ pc' \notin DirectPcs
    BY <1>1 DEF LzmaPcs, DirectPcs
  <1>3. /\ RcOk(rc) /\ L2Ok(l2) /\ temp \in Nat /\ temp < InRequired /\ temp <= l2.comp
        /\ l2.comp \in Nat /\ InRequired \in Nat
        /\ inPos \in Nat /\ inSize \in Nat /\ inPos <= inSize
    BY <1>2, InsideFacts
  <1>4. r \in Nat /\ r <= inSize - inPos /\ r <= l2.comp
    BY <1>3 DEF L!RestOfChunk, L!Min2
  <1> HIDE DEF r
  <1>5. /\ temp' \in Nat /\ temp' < InRequired /\ temp' <= l2.comp
        /\ inPos' \in Nat /\ inPos' <= inSize
    BY <1>1, <1>3, <1>4
  <1>6. LzRange'
    BY <1>1 DEF LzRange
  <1>7. QED
    BY <1>1, <1>2, <1>3, <1>5, <1>6, InputKeeps

LEMMA FlushKeeps == LzInv /\ L!Flush => LzInv'
  <1> SUFFICES ASSUME LzInv, L!Flush PROVE LzInv'
    OBVIOUS
  <1> DEFINE o == L!Pending(dict)
             unc == l2.unc - Len(o)
             atEnd == l2.comp = 0 /\ lzma.len = 0 /\ L!Chunk.zero
             q == IF unc = 0 /\ atEnd THEN "CONTROL" ELSE l2.seq
  <1>1. /\ pc = "flush" /\ UNCHANGED L!caller /\ inPos' = inPos /\ lzma' = lzma /\ temp' = temp
        /\ out' = out \o o /\ dict' = L!DictFlush(dict)
        /\ l2' = [l2 EXCEPT !.unc = unc, !.seq = q]
        /\ rc' = rc \/ rc' = [rc EXCEPT !.init = RcInitBytes]
        /\ \/ pc' = "run" /\ ret' = ret
           \/ pc' = "idle" /\ ret' \in {"OK", "DATA_ERROR"}
    BY DEF L!Flush, L!Return
  <1>2. pc \in LzmaPcs
    BY <1>1 DEF LzmaPcs
  <1>3. /\ ret = "OK" /\ DictOk(dict) /\ LzmaOk(lzma) /\ RcOk(rc) /\ L2Ok(l2) /\ temp \in Nat
        /\ l2.seq = "LZMA_RUN" /\ temp < InRequired /\ temp <= l2.comp /\ LzInput
        /\ l2.comp \in Nat /\ l2.unc \in Nat /\ inPos \in Nat /\ inPos <= inSize
        /\ dict.start \in Nat /\ dict.pos \in Nat /\ dict.limit \in Nat
        /\ dict.start <= dict.pos /\ dict.pos <= dict.limit
    BY <1>2, InsideFacts
  <1>4. /\ dict.limit - dict.start <= outSize - Len(out) /\ dict.limit - dict.start <= l2.unc
    BY <1>2 DEF LzInv, LzWindow
  <1>5. out \in Seq(Nat) /\ Len(out) \in Nat /\ outSize \in Nat /\ Len(out) <= outSize
    BY DEF LzInv, LzOutput
  <1>6. o \in Seq(Nat) /\ Len(o) = dict.pos - dict.start
    BY <1>3, PendingFacts
  <1> HIDE DEF o
  <1>7. unc \in Nat /\ Len(o) \in Nat /\ Len(out) + Len(o) <= outSize
    <2> DEFINE x == Len(o)
               y == Len(out)
    <2>1. /\ x = dict.pos - dict.start /\ y \in Nat /\ outSize \in Nat /\ y <= outSize
          /\ dict.limit - dict.start <= outSize - y /\ dict.limit - dict.start <= l2.unc
      BY <1>4, <1>5, <1>6
    <2>2. /\ l2.unc \in Nat /\ dict.start \in Nat /\ dict.pos \in Nat /\ dict.limit \in Nat
          /\ dict.start <= dict.pos /\ dict.pos <= dict.limit
      BY <1>3
    <2>3. unc = l2.unc - x
      OBVIOUS
    <2> HIDE DEF x, y, unc
    <2>4. unc \in Nat /\ x \in Nat /\ y + x <= outSize
      BY <2>1, <2>2, <2>3
    <2>5. QED
      BY <2>4 DEF x, y
  <1> HIDE DEF unc
  <1>8. stream' = stream /\ inSize' = inSize /\ outSize' = outSize
    BY <1>1 DEF L!caller
  <1>9. LzInput'
    BY <1>1, <1>3, <1>8, InputStays
  <1>10. LzOutput'
    <2>1. out \o o \in Seq(Nat) /\ Len(out \o o) = Len(out) + Len(o)
      BY <1>5, <1>6, ConcatProperties
    <2>2. QED
      BY <1>1, <1>5, <1>7, <1>8, <2>1 DEF LzOutput
  <1>11. DictOk(dict') /\ dict'.pos = dict'.start /\ dict'.full = dict.full
    BY <1>1, <1>3, FlushFacts
  <1>12. q \in L2Seqs /\ (q # "LZMA_RUN" => l2.comp = 0 /\ lzma.len = 0)
    BY <1>3 DEF L2Seqs
  <1> HIDE DEF q
  <1>13. L2Ok(l2') /\ l2'.seq = q /\ l2'.comp = l2.comp
    BY <1>1, <1>3, <1>7, <1>12 DEF L2Ok, L2Fields
  <1>14. RcOk(rc')
    BY <1>1, <1>3, Lzma2Assumption DEF RcOk
  <1>15. LzRecords'
    BY <1>1, <1>3, <1>11, <1>13, <1>14, RecordsNext
  <1>16. pc' \in {"run", "idle"} /\ (pc' # "idle" => ret' = "OK") /\ ret' \in {"OK", "DATA_ERROR"}
    BY <1>1, <1>3
  <1>17. LzCall' /\ LzRange'
    BY <1>16 DEF LzCall, LzRange
  <1>18. LzWindow'
    BY <1>11, <1>16 DEF LzWindow, LzmaPcs
  <1>19. LzTemp'
    <2>1. l2'.seq # "LZMA_RUN" => temp = 0 /\ lzma.len = 0
      BY <1>3, <1>12, <1>13
    <2>2. QED
      BY <1>1, <1>3, <1>13, <1>16, <2>1 DEF LzTemp, DirectPcs
  <1>20. LzMatch'
    BY <1>1, <1>3, <1>11 DEF LzInv, LzMatch, L!DistValid
  <1>21. QED
    BY <1>9, <1>10, <1>15, <1>17, <1>18, <1>19, <1>20 DEF LzInv

LEMMA LzKeeps ==
    ASSUME LzInv, L!Next \/ UNCHANGED lzma2Vars
    PROVE  LzInv'
  <1>1. CASE UNCHANGED lzma2Vars
    <2>1. /\ stream' = stream /\ inPos' = inPos /\ inSize' = inSize /\ out' = out
          /\ outSize' = outSize /\ pc' = pc /\ ret' = ret /\ l2' = l2 /\ dict' = dict
          /\ lzma' = lzma /\ rc' = rc /\ temp' = temp /\ tmp' = tmp
      BY <1>1 DEF lzma2Vars, shared, lzma2Only
    <2>2. LzInput'
      BY <2>1, InputStays DEF LzInv, LzInput
    <2>3. LzOutput'
      BY <2>1, OutStays
    <2>4. LzRecords'
      BY <2>1, RecordsNext DEF LzInv, LzRecords
    <2>5. LzCall' /\ LzWindow' /\ LzTemp' /\ LzRange'
      BY <2>1 DEF LzInv, LzCall, LzWindow, LzTemp, LzRange
    <2>6. LzMatch'
      BY <2>1 DEF LzInv, LzMatch, L!DistValid
    <2>7. QED
      BY <2>2, <2>3, <2>4, <2>5, <2>6 DEF LzInv
  <1>2. CASE L!Next
    <2>1. CASE L!SizeBytes
      BY <2>1, SizeByteKeeps DEF L!SizeBytes
    <2>2. QED
      BY <1>2, <2>1, Lzma2CallKeeps, LoopEndsKeeps, ControlKeeps, PropertiesKeeps, LzmaPrepareKeeps,
         RunTempKeeps, PendingRepeatKeeps, SymbolKeeps, TempDoneKeeps, RunDirectKeeps,
         DirectDoneKeeps, SaveRestKeeps, FlushKeeps, CopyKeeps DEF L!Next, L!Run
  <1>3. QED
    BY <1>1, <1>2

LEMMA LzImplies == LzInv => L!TypeOK /\ L!ReadsInBounds /\ L!DictInvariant
  <1> SUFFICES ASSUME LzInv PROVE L!TypeOK /\ L!ReadsInBounds /\ L!DictInvariant
    OBVIOUS
  <1>1. LzInput /\ LzOutput /\ LzRecords /\ LzCall /\ LzWindow /\ LzTemp /\ LzRange /\ LzMatch
    BY DEF LzInv
  <1>2. L2Ok(l2) /\ DictOk(dict) /\ LzmaOk(lzma) /\ RcOk(rc) /\ temp \in Nat
    BY <1>1 DEF LzRecords
  <1>3. L!TypeOK
    <2>1. /\ Len(stream.bytes) \in Nat /\ inSize \in Nat /\ inPos \in Nat /\ inPos <= inSize
          /\ inSize <= Len(stream.bytes)
      BY <1>1 DEF LzInput, IsLzma2
    <2>2. inPos \in 0 .. inSize /\ inSize \in 0 .. Len(stream.bytes)
      BY <2>1
    <2>3. /\ Len(out) <= outSize /\ ret \in {"OK", "STREAM_END", "DATA_ERROR"}
          /\ pc \in {"idle", "run", "temp", "direct", "main", "save", "flush"}
          /\ l2.comp \in Nat /\ l2.unc \in Nat
      BY <1>1, <1>2 DEF LzOutput, LzCall, LzmaPcs, L2Ok
    <2>4. QED
      BY <1>2, <2>2, <2>3 DEF L!TypeOK
  <1>4. L!ReadsInBounds
    <2> DEFINE p == L!PosNormalised
    <2>1. p \in Nat /\ p <= rc.pos + 1
      BY PosFacts
    <2>2. /\ rc.pos \in Nat /\ rc.limit \in Nat /\ InRequired \in Nat /\ inSize \in Nat
      BY <1>1, <1>2, Lzma2Assumption DEF RcOk, LzInput
    <2> HIDE DEF p
    <2>3. ASSUME pc = "main" PROVE p <= inSize
      <3>1. rc.limit + InRequired <= inSize /\ rc.pos < rc.limit + InRequired
        BY <1>1, <2>3 DEF LzRange
      <3>2. QED
        BY <2>1, <2>2, <3>1
    <2>4. ASSUME pc = "temp" PROVE p <= 3 * InRequired
      <3>1. rc.limit <= 2 * InRequired /\ rc.pos < rc.limit + InRequired
        BY <1>1, <2>4 DEF LzRange
      <3>2. QED
        BY <2>1, <2>2, <3>1
    <2>5. temp <= l2.comp \/ l2.seq # "LZMA_RUN"
      BY <1>1 DEF LzTemp
    <2>6. QED
      BY <2>3, <2>4, <2>5 DEF L!ReadsInBounds, p
  <1>5. L!DictInvariant
    <2>1. dict.start <= dict.pos /\ dict.pos <= dict.full /\ dict.full <= DictSize
      BY <1>2 DEF DictOk
    <2>2. /\ dict.start \in Nat /\ dict.pos \in Nat /\ dict.limit \in Nat /\ l2.unc \in Nat
          /\ Len(out) \in Nat /\ outSize \in Nat
      BY <1>1, <1>2 DEF DictOk, DictType, L2Ok, LzOutput
    <2>3. ASSUME pc \in {"temp", "main", "flush"}
          PROVE  /\ dict.pos <= dict.limit /\ dict.limit <= DictSize
                 /\ Len(out) + dict.pos - dict.start <= outSize
                 /\ dict.pos - dict.start <= l2.unc
      <3>1. /\ dict.pos <= dict.limit /\ dict.limit <= DictSize
            /\ dict.limit - dict.start <= outSize - Len(out)
            /\ dict.limit - dict.start <= l2.unc
        BY <1>1, <2>3 DEF LzWindow, LzmaPcs
      <3>2. QED
        BY <2>2, <3>1
    <2>4. QED
      BY <1>1, <2>1, <2>3 DEF L!DictInvariant, LzMatch
  <1>6. QED
    BY <1>3, <1>4, <1>5

-----------------------------------------------------------------------------
\* The container decoder's position, fields and buffers belong together after
\* every step of platform_feed's loop and of dec_main.
THEOREM StreamInvariant == DataSpec => []StreamPart
  <1>1. DataInit => StreamPart
    BY StreamInitHolds DEF DataInit, StreamPart
  <1>2. StreamPart /\ [DataNext]_all => StreamPart'
    BY OnePart, StreamKeeps DEF StreamPart
  <1>3. QED
    BY <1>1, <1>2, PTL DEF DataSpec

\* The LZMA2 decoder's dictionary, temp.buf, range decoder and pending match
\* belong together wherever xz_dec_lzma2_run is suspended and resumed.
THEOREM Lzma2Invariant == DataSpec => []Lzma2Part
  <1>1. DataInit => Lzma2Part
    BY LzInitHolds DEF DataInit, Lzma2Part
  <1>2. Lzma2Part /\ [DataNext]_all => Lzma2Part'
    BY OnePart, LzKeeps DEF Lzma2Part
  <1>3. QED
    BY <1>1, <1>2, PTL DEF DataSpec

\* Whatever the sizes of the buffers, the bytes and the way they are cut: the
\* receiver never writes past its header or body, the container decoder never
\* past its field or its output buffer, the BCJ filter never past temp.buf;
\* and the LZMA2 decoder neither reads past its input or temp.buf, nor writes
\* past the dictionary, the chunk or the caller's buffer, nor copies a match
\* from bytes that are not there (fsm_recv, fill_temp, dec_block,
\* xz_dec_bcj_run, lzma2_lzma, dict_repeat, dict_uncompressed).
THEOREM StaysInside == DataSpec => []StaysInBounds
  <1>1. FramePart /\ BcjPart /\ StreamPart /\ Lzma2Part => StaysInBounds
    BY FrameImplies, BcjImplies, StreamImplies, LzImplies
    DEF FramePart, BcjPart, StreamPart, Lzma2Part, StaysInBounds
  <1>2. QED
    BY <1>1, FramesInvariant, BcjInvariant, StreamInvariant, Lzma2Invariant, PTL
=============================================================================
