------------------------------- MODULE XzLzma2 -------------------------------
(* The LZMA2 decoder the device runs over a compressed image               *)
(* (src/pup/xz-embedded/xz_dec_lzma2.c, multi-call mode, XZ_PREALLOC).      *)
(*                                                                          *)
(* A compressed image arrives frame by frame, so the decoder is called with *)
(* the input cut at arbitrary bytes and with arbitrary room for output: it  *)
(* suspends in the middle of a size field, of a match, or of the few bytes  *)
(* one LZMA symbol needs.  The model keeps all of that control: the chunk   *)
(* state machine, the circular dictionary, the temporary input buffer.      *)
(* The arithmetic of the range decoder is abstracted: a compressed chunk is *)
(* the list of symbols it decodes to, each with the number of bytes the     *)
(* range decoder reads for it.  Bytes of sizes are digits of base Base.     *)
EXTENDS Integers, Sequences, FiniteSetsExt, SequencesExt

CONSTANTS
    InRequired,     \* LZMA_IN_REQUIRED: one symbol and one normalisation
    RcInitBytes,    \* RC_INIT_BYTES
    DictSize,       \* dict.size, the size the Block Header asks for
    Base,           \* a size byte holds 0 .. Base-1
    MaxIn, MaxOut,  \* input and output room that one call adds at most
    Plans           \* the streams: sequences of chunks (see Encode)

VARIABLES
    stream,   \* the stream being decoded: [plan, bytes, chunks]
    inPos, inSize,        \* b->in_pos, b->in_size, counted from its first byte
    out, outSize,         \* what was written to b->out; where its room ends
    pc,       \* where the current call of xz_dec_lzma2_run is; "idle" outside
    ret,      \* its last return value
    l2,       \* struct lzma2_dec
    dict,     \* struct dictionary
    lzma,     \* rep0 .. rep3, the pending match length; which symbol is next
    rc,       \* struct rc_dec: position, limit, init bytes; range normalised
    temp,     \* temp.size
    tmp       \* lzma2_lzma's local: bytes it added to temp.buf

vars == <<stream, inPos, inSize, out, outSize, pc, ret, l2, dict, lzma, rc, temp, tmp>>
caller == <<stream, inSize, outSize>>

Min2(a, b) == IF a < b THEN a ELSE b

------------------------------------------------------------------------------
(* The streams.  A chunk has its control byte, the sizes its header gives,  *)
(* and either the bytes it holds or the symbols it decodes to.              *)
Digits(n) == <<(n \div Base) % Base, n % Base>>

Payload(c) == IF c.ctl >= 128 THEN [i \in 1 .. c.comp |-> 0] ELSE c.data

ChunkBytes(c) ==
    IF c.ctl = 0 THEN <<0>>
    ELSE <<c.ctl>> \o (IF c.ctl >= 128 THEN Digits(c.unc - 1) ELSE <<>>)
         \o Digits(c.comp - 1) \o (IF c.ctl >= 192 THEN <<c.props>> ELSE <<>>) \o Payload(c)

Encode(plan) == [plan |-> plan,
                 bytes |-> FoldLeft(LAMBDA b, c: b \o ChunkBytes(c), <<>>, plan),
                 chunks |-> SelectSeq(plan, LAMBDA c: c.ctl >= 128)]

(* The symbols of a compressed chunk.  A symbol reads norm \in 0..1 bytes   *)
(* in its first rc_normalize and more bytes after that, together less than  *)
(* InRequired; one past the list is a literal that reads a byte, and so are *)
(* all of a chunk that is none of the stream's.                             *)
SymbolOk(y) ==
    /\ y.norm \in 0 .. 1 /\ y.more \in Nat /\ y.norm + y.more < InRequired
    /\ \/ y.op = "lit" /\ y.byte \in Nat
       \/ y.op = "match" /\ y.dist \in Nat /\ y.len \in Nat
       \/ y.op = "rep" /\ y.which \in 1 .. 4 /\ y.len \in Nat
PastEnd == [op |-> "lit", byte |-> 0, norm |-> 1, more |-> 0]
NoChunk == [syms |-> <<>>, zero |-> FALSE]
Chunk == IF lzma.chunk \in DOMAIN stream.chunks THEN stream.chunks[lzma.chunk] ELSE NoChunk
Symbols == Chunk.syms
SymbolAt(list, i) == IF i <= Len(list) THEN list[i] ELSE PastEnd

------------------------------------------------------------------------------
(* Dictionary.                                                              *)

EmptyDict == [buf |-> [i \in 0 .. DictSize - 1 |-> 0],
              start |-> 0, pos |-> 0, full |-> 0, limit |-> 0]

DictReset(d) == [d EXCEPT !.start = 0, !.pos = 0, !.limit = 0, !.full = 0]

\* A plausible bug: the limit passes the end of the buffer.
DictLimitUncut(d, outMax) == [d EXCEPT !.limit = d.pos + outMax]

DictLimit(d, outMax) ==
    [d EXCEPT !.limit = IF DictSize - d.pos <= outMax THEN DictSize ELSE d.pos + outMax]

DictHasSpace(d) == d.pos < d.limit

DictPut(d, byte) ==
    [d EXCEPT !.buf[d.pos] = byte, !.pos = d.pos + 1,
              !.full = IF d.full < d.pos + 1 THEN d.pos + 1 ELSE d.full]

DistValid(d, dist) == dist < d.full /\ dist < DictSize

\* One byte of dict_repeat, read at the distance behind the write position.
RepeatByte(d, dist) ==
    DictPut(d, d.buf[IF dist >= d.pos THEN d.pos - dist - 1 + DictSize ELSE d.pos - dist - 1])

\* dict_repeat: as much of the match as the limit allows.
DictRepeat(d, len, dist) ==
    LET left == Min2(d.limit - d.pos, len)
        after[k \in 0 .. left] == IF k = 0 THEN d ELSE RepeatByte(after[k - 1], dist)
    IN  after[left]

RepeatLeft(d, len) == len - Min2(d.limit - d.pos, len)

\* dict_flush: what was decoded since the last flush, and the wrap at the end.
Pending(d) == [i \in 1 .. d.pos - d.start |-> d.buf[d.start + i - 1]]
DictFlush(d) == LET p == IF d.pos = DictSize THEN 0 ELSE d.pos
                IN  [d EXCEPT !.pos = p, !.start = p]

------------------------------------------------------------------------------
(* The caller: it adds input and room for output between two calls.  What   *)
(* is left over from the last call is presented again.                      *)

Call == /\ pc = "idle"
        /\ ret = "OK"
        /\ \E n \in 0 .. MaxIn, m \in 0 .. MaxOut :
             /\ inSize' = Min2(inSize + n, Len(stream.bytes))
             /\ outSize' = Min2(outSize + m, Len(out) + MaxOut)
             /\ <<inSize', outSize'>> # <<inSize, outSize>>
        /\ pc' = "run"
        /\ UNCHANGED <<stream, inPos, out, ret, l2, dict, lzma, rc, temp, tmp>>

Return(r) == pc' = "idle" /\ ret' = r

\* The loop condition of xz_dec_lzma2_run.
LoopEnds == /\ pc = "run"
            /\ inPos >= inSize
            /\ l2.seq # "LZMA_RUN"
            /\ Return("OK")
            /\ UNCHANGED <<caller, inPos, out, l2, dict, lzma, rc, temp, tmp>>

\* A case of the switch that reads one byte.
Reads(s) == pc = "run" /\ l2.seq = s /\ inPos < inSize
Byte == stream.bytes[inPos + 1]

------------------------------------------------------------------------------
(* Control byte and sizes.                                                  *)

LzmaReset == /\ lzma' = [lzma EXCEPT !.rep = <<0, 0, 0, 0>>, !.len = 0]
             /\ rc' = [rc EXCEPT !.init = RcInitBytes]

ControlResets == Byte >= 224 \/ Byte = 1
NeedProps == l2.needProps \/ ControlResets

ControlBad == \/ l2.needReset /\ ~ControlResets
              \/ Byte \in 128 .. 191 /\ NeedProps
              \/ Byte \in 3 .. 127

Control ==
    /\ Reads("CONTROL")
    /\ inPos' = inPos + 1
    /\ IF Byte = 0
         THEN Return("STREAM_END") /\ UNCHANGED <<l2, dict, lzma, rc>>
         ELSE
           /\ dict' = IF ControlResets THEN DictReset(dict) ELSE dict
           /\ IF ControlBad
                THEN Return("DATA_ERROR") /\ UNCHANGED <<l2, lzma, rc>>
                ELSE
                  /\ l2' = [l2 EXCEPT
                       !.needReset = @ /\ ~ControlResets,
                       !.needProps = NeedProps /\ Byte < 192,
                       !.unc = IF Byte >= 128 THEN (Byte % 32) * Base * Base ELSE @,
                       !.seq = IF Byte >= 128 THEN "UNCOMPRESSED_1" ELSE "COMPRESSED_0",
                       !.next = IF Byte >= 192 THEN "PROPERTIES"
                                ELSE IF Byte >= 128 THEN "LZMA_PREPARE" ELSE "COPY"]
                  /\ IF Byte \in 160 .. 191 THEN LzmaReset ELSE UNCHANGED <<lzma, rc>>
                  /\ UNCHANGED <<pc, ret>>
    /\ UNCHANGED <<caller, out, temp, tmp>>

SizeByte(s) ==
    /\ Reads(s)
    /\ inPos' = inPos + 1
    /\ \/ /\ s = "UNCOMPRESSED_1"
          /\ l2' = [l2 EXCEPT !.unc = @ + Byte * Base, !.seq = "UNCOMPRESSED_2"]
       \/ /\ s = "UNCOMPRESSED_2"
          /\ l2' = [l2 EXCEPT !.unc = @ + Byte + 1, !.seq = "COMPRESSED_0"]
       \/ s = "COMPRESSED_0" /\ l2' = [l2 EXCEPT !.comp = Byte * Base, !.seq = "COMPRESSED_1"]
       \/ s = "COMPRESSED_1" /\ l2' = [l2 EXCEPT !.comp = @ + Byte + 1, !.seq = l2.next]
    /\ UNCHANGED <<caller, out, pc, ret, dict, lzma, rc, temp, tmp>>

\* lc + lp > 4 and a value above (4*5+4)*9+8 are refused.
PropsValid(props) == props <= 224 /\ (props % 9) + ((props % 45) \div 9) <= 4

\* The case falls through to SEQ_LZMA_PREPARE's first check, which needs no input.
Properties ==
    /\ Reads("PROPERTIES")
    /\ inPos' = inPos + 1
    /\ IF PropsValid(Byte)
         THEN LzmaReset /\ l2' = [l2 EXCEPT !.seq = "LZMA_PREPARE"]
         ELSE UNCHANGED <<l2, lzma, rc>>
    /\ IF PropsValid(Byte) /\ l2.comp >= RcInitBytes
         THEN UNCHANGED <<pc, ret>> ELSE Return("DATA_ERROR")
    /\ UNCHANGED <<caller, out, dict, temp, tmp>>

\* rc_read_init takes what is there; it may need several calls.
LzmaPrepare ==
    /\ pc = "run" /\ l2.seq = "LZMA_PREPARE"
    /\ inPos < inSize
    /\ IF l2.comp < RcInitBytes
         THEN Return("DATA_ERROR") /\ UNCHANGED <<inPos, l2, lzma, rc>>
         ELSE LET n == Min2(rc.init, inSize - inPos) IN
              /\ inPos' = inPos + n
              /\ rc' = [rc EXCEPT !.init = @ - n, !.normal = TRUE]
              /\ IF n = rc.init
                   THEN /\ l2' = [l2 EXCEPT !.comp = @ - RcInitBytes, !.seq = "LZMA_RUN"]
                        /\ lzma' = [lzma EXCEPT !.chunk = @ + 1, !.sym = 1]
                        /\ UNCHANGED <<pc, ret>>
                   ELSE Return("OK") /\ UNCHANGED <<l2, lzma>>
    /\ UNCHANGED <<caller, out, dict, temp, tmp>>

------------------------------------------------------------------------------
(* lzma2_lzma: decode from temp.buf first, then from the caller's buffer,   *)
(* then keep what is too short to decode.  rc.pos and rc.limit count from   *)
(* the first byte of the buffer that rc.in points to.                       *)

\* SEQ_LZMA_RUN: limit the dictionary, fill temp, and start lzma_main on it.
RunTemp ==
    /\ pc = "run" /\ l2.seq = "LZMA_RUN"
    /\ dict' = DictLimit(dict, Min2(outSize - Len(out), l2.unc))
    /\ IF temp > 0 \/ l2.comp = 0
         THEN LET t == Min2(Min2(2 * InRequired - temp, l2.comp - temp), inSize - inPos) IN
              /\ tmp' = t
              /\ IF temp + t = l2.comp \/ temp + t >= InRequired
                   THEN /\ rc' = [rc EXCEPT !.pos = 0,
                                  !.limit = IF temp + t = l2.comp THEN temp + t
                                            ELSE temp + t - InRequired]
                        /\ pc' = "temp"
                        /\ UNCHANGED <<inPos, temp>>
                   ELSE /\ temp' = temp + t
                        /\ inPos' = inPos + t
                        /\ pc' = "flush"
                        /\ UNCHANGED rc
         ELSE pc' = "direct" /\ UNCHANGED <<inPos, rc, temp, tmp>>
    /\ UNCHANGED <<caller, out, ret, l2, lzma>>

\* lzma_main's first step: the match the last call could not finish.
PendingRepeat ==
    /\ pc \in {"temp", "main"}
    /\ lzma.len > 0 /\ DictHasSpace(dict)
    /\ dict' = DictRepeat(dict, lzma.len, lzma.rep[1])
    /\ lzma' = [lzma EXCEPT !.len = RepeatLeft(dict, lzma.len)]
    /\ UNCHANGED <<caller, inPos, out, pc, ret, l2, rc, temp, tmp>>

\* lzma_literal, lzma_match (rep0 becomes the new distance) and lzma_rep_match.
ToFront(r, w) == [i \in 1 .. 4 |-> IF i = 1 THEN r[w] ELSE IF i <= w THEN r[i - 1] ELSE r[i]]
RepsAfter(s, r) == IF s.op = "match" THEN <<s.dist, r[1], r[2], r[3]>> ELSE ToFront(r, s.which)

\* rc_normalize, before a symbol's first bit.
NormRead(s) == IF rc.normal THEN 0 ELSE s.norm

MainGoes == lzma.len = 0 /\ DictHasSpace(dict) /\ rc.pos <= rc.limit

Symbol ==
    /\ pc \in {"temp", "main"}
    /\ MainGoes
    /\ LET s == SymbolAt(Symbols, lzma.sym)
           reps == IF s.op = "lit" THEN lzma.rep ELSE RepsAfter(s, lzma.rep)
       IN
       /\ rc' = [rc EXCEPT !.pos = @ + NormRead(s) + s.more, !.normal = FALSE]
       /\ IF s.op = "lit"
            THEN /\ dict' = DictPut(dict, s.byte)
                 /\ lzma' = [lzma EXCEPT !.sym = @ + 1]
                 /\ UNCHANGED <<pc, ret>>
            ELSE IF DistValid(dict, reps[1])
            THEN /\ dict' = DictRepeat(dict, s.len, reps[1])
                 /\ lzma' = [lzma EXCEPT !.sym = @ + 1, !.rep = reps,
                             !.len = RepeatLeft(dict, s.len)]
                 /\ UNCHANGED <<pc, ret>>
            ELSE Return("DATA_ERROR") /\ UNCHANGED <<dict, lzma>>
    /\ UNCHANGED <<caller, inPos, out, l2, temp, tmp>>

MainEnds == /\ ~(lzma.len > 0 /\ DictHasSpace(dict))
            /\ ~MainGoes
\* lzma_main leaves the range normalised.
PosNormalised == rc.pos + NormRead(SymbolAt(Symbols, lzma.sym))

\* After lzma_main on temp.buf.
TempDone ==
    /\ pc = "temp" /\ MainEnds
    /\ LET p == PosNormalised IN
       IF p > temp + tmp
         THEN Return("DATA_ERROR") /\ UNCHANGED <<inPos, l2, rc, temp>>
         ELSE /\ l2' = [l2 EXCEPT !.comp = @ - p]
              /\ rc' = [rc EXCEPT !.pos = p, !.normal = TRUE]
              /\ IF p < temp
                   THEN temp' = temp - p /\ pc' = "flush" /\ UNCHANGED inPos
                   ELSE temp' = 0 /\ inPos' = inPos + p - temp /\ pc' = "direct"
              /\ UNCHANGED ret
    /\ UNCHANGED <<caller, out, dict, lzma, tmp>>

\* Decode from the caller's buffer while at least InRequired bytes are left.
RunDirect ==
    /\ pc = "direct"
    /\ IF inSize - inPos >= InRequired
         THEN /\ rc' = [rc EXCEPT !.pos = inPos,
                        !.limit = IF inSize - inPos >= l2.comp + InRequired
                                  THEN inPos + l2.comp ELSE inSize - InRequired]
              /\ pc' = "main"
         ELSE pc' = "save" /\ UNCHANGED rc
    /\ UNCHANGED <<caller, inPos, out, ret, l2, dict, lzma, temp, tmp>>

DirectDone ==
    /\ pc = "main" /\ MainEnds
    /\ LET p == PosNormalised IN
       IF p - inPos > l2.comp
         THEN Return("DATA_ERROR") /\ UNCHANGED <<inPos, l2, rc>>
         ELSE /\ l2' = [l2 EXCEPT !.comp = @ - (p - inPos)]
              /\ rc' = [rc EXCEPT !.pos = p, !.normal = TRUE]
              /\ inPos' = p
              /\ pc' = "save"
              /\ UNCHANGED ret
    /\ UNCHANGED <<caller, out, dict, lzma, temp, tmp>>

\* What may be kept: the rest of this chunk and no more.
\* A plausible bug is to keep the start of the next chunk too.
RestAll == inSize - inPos
RestOfChunk == Min2(inSize - inPos, l2.comp)

\* Fewer than InRequired bytes: keep them in temp for the next call.
SaveRest ==
    /\ pc = "save"
    /\ IF inSize - inPos < InRequired
         THEN temp' = RestOfChunk /\ inPos' = inPos + RestOfChunk
         ELSE UNCHANGED <<inPos, temp>>
    /\ pc' = "flush"
    /\ UNCHANGED <<caller, out, ret, l2, dict, lzma, rc, tmp>>

\* The call ends when the output is full or the input used up.
\* A plausible bug is to look at the output only.
SuspendsWhenFull(o) == Len(o) = outSize
Suspends(o) == Len(o) = outSize \/ (inPos = inSize /\ temp < l2.comp)

\* The end of SEQ_LZMA_RUN: flush, and see whether the chunk is finished.
Flush ==
    /\ pc = "flush"
    /\ out' = out \o Pending(dict)
    /\ dict' = DictFlush(dict)
    /\ LET unc == l2.unc - Len(Pending(dict))
           clean == l2.comp = 0 /\ lzma.len = 0 /\ Chunk.zero
           stop == Suspends(out')
       IN
       /\ l2' = [l2 EXCEPT !.unc = unc, !.seq = IF unc = 0 /\ clean THEN "CONTROL" ELSE @]
       /\ rc' = IF unc = 0 /\ clean THEN [rc EXCEPT !.init = RcInitBytes] ELSE rc
       /\ \/ unc = 0 /\ clean /\ pc' = "run" /\ UNCHANGED ret
          \/ unc = 0 /\ ~clean /\ Return("DATA_ERROR")
          \/ unc > 0 /\ stop /\ Return("OK")
          \/ unc > 0 /\ ~stop /\ pc' = "run" /\ UNCHANGED ret
    /\ UNCHANGED <<caller, inPos, lzma, temp, tmp>>

------------------------------------------------------------------------------
(* SEQ_COPY: one round of the loop of dict_uncompressed.                    *)

DictCopy(d, piece) ==
    LET grown[k \in 0 .. Len(piece)] ==
          IF k = 0 THEN d ELSE DictPut(grown[k - 1], piece[k])
    IN  grown[Len(piece)]

Copy ==
    /\ Reads("COPY")
    /\ LET n == Min2(Min2(inSize - inPos, outSize - Len(out)),
                     Min2(DictSize - dict.pos, l2.comp))
           piece == SubSeq(stream.bytes, inPos + 1, inPos + n)
           left == l2.comp - n
       IN
       /\ inPos' = inPos + n
       /\ out' = out \o piece
       /\ dict' = DictFlush(DictCopy(dict, piece))
       /\ l2' = [l2 EXCEPT !.comp = left, !.seq = IF left = 0 THEN "CONTROL" ELSE @]
       /\ IF left > 0 /\ (inPos' = inSize \/ Len(out') = outSize)
            THEN Return("OK") ELSE UNCHANGED <<pc, ret>>
    /\ UNCHANGED <<caller, lzma, rc, temp, tmp>>

------------------------------------------------------------------------------
\* xz_dec_lzma2_create and xz_dec_lzma2_reset, before the first byte of a block.
Init == /\ stream \in {Encode(p) : p \in Plans}
        /\ inPos = 0 /\ inSize = 0
        /\ out = <<>> /\ outSize = 0
        /\ pc = "idle" /\ ret = "OK"
        /\ l2 = [seq |-> "CONTROL", next |-> "CONTROL", unc |-> 0, comp |-> 0,
                 needReset |-> TRUE, needProps |-> FALSE]
        /\ dict = EmptyDict
        /\ lzma = [rep |-> <<0, 0, 0, 0>>, len |-> 0, chunk |-> 0, sym |-> 1]
        /\ rc = [pos |-> 0, limit |-> 0, init |-> RcInitBytes, normal |-> TRUE]
        /\ temp = 0 /\ tmp = 0

SizeBytes == \E s \in {"UNCOMPRESSED_1", "UNCOMPRESSED_2", "COMPRESSED_0", "COMPRESSED_1"} :
                SizeByte(s)

Run == \/ LoopEnds \/ Control \/ SizeBytes \/ Properties \/ LzmaPrepare
       \/ RunTemp \/ PendingRepeat \/ Symbol \/ TempDone \/ RunDirect \/ DirectDone
       \/ SaveRest \/ Flush \/ Copy

Next == Call \/ Run

\* The caller calls again while there is input to give or output to take.
Fairness == WF_vars(Next)

Spec == Init /\ [][Next]_vars /\ Fairness

------------------------------------------------------------------------------
(* The reference: the chunks decoded one after the other into an unbounded  *)
(* history, with no calls, no circular buffer and no input buffer.          *)

RefMatch(hist, dist, n) ==
    FoldLeft(LAMBDA h, i: Append(h, h[Len(h) - dist]), hist, [i \in 1 .. n |-> i])

\* One symbol of a chunk whose output ends at length goal of the history.
RefSymbol(a, s, goal) ==
    LET reps == IF s.op = "lit" THEN a.rep ELSE RepsAfter(s, a.rep)
        read == [a EXCEPT !.used = @ + s.norm + s.more, !.next = @ + 1, !.rep = reps]
    IN  IF Len(a.hist) >= goal \/ ~a.ok THEN a
        ELSE IF s.op = "lit" THEN [read EXCEPT !.hist = Append(@, s.byte)]
        ELSE IF reps[1] < Min2(Len(a.hist), DictSize)
        THEN [read EXCEPT !.hist = RefMatch(@, reps[1], s.len)]
        ELSE [a EXCEPT !.ok = FALSE]

\* c.unc symbols are enough: each is an error or gives at least a byte.
RefLzma(a, c) ==
    LET goal == Len(a.hist) + c.unc
        e == FoldLeft(LAMBDA b, i: RefSymbol(b, SymbolAt(c.syms, i), goal),
                      [a EXCEPT !.used = 0 - SymbolAt(c.syms, 1).norm, !.next = 1],
                      [i \in 1 .. c.unc |-> i])
        read == e.used + SymbolAt(c.syms, e.next).norm
    IN  [e EXCEPT !.ok = @ /\ Len(e.hist) = goal /\ c.zero /\ RcInitBytes + read = c.comp]

RefLegal(a, c) ==
    /\ a.needReset => c.ctl >= 224 \/ c.ctl = 1
    /\ c.ctl \in 128 .. 191 => ~(a.needProps \/ a.needReset)
    /\ c.ctl \notin 3 .. 127
    /\ c.ctl >= 192 => PropsValid(c.props)
    /\ c.ctl >= 128 => c.comp >= RcInitBytes

RefChunk(a, c) ==
    LET resets == c.ctl >= 224 \/ c.ctl = 1
        clear == [a EXCEPT !.needReset = FALSE,
                           !.needProps = (@ \/ resets) /\ c.ctl < 192,
                           !.past = IF resets THEN @ \o a.hist ELSE @,
                           !.hist = IF resets THEN <<>> ELSE @,
                           !.rep = IF c.ctl >= 160 THEN <<0, 0, 0, 0>> ELSE @]
    IN  IF ~a.ok \/ a.ended THEN a
        ELSE IF c.ctl = 0 THEN [a EXCEPT !.ended = TRUE]
        ELSE IF ~RefLegal(a, c) THEN [a EXCEPT !.ok = FALSE]
        ELSE IF c.ctl >= 128 THEN RefLzma(clear, c)
        ELSE [clear EXCEPT !.hist = @ \o c.data]

Ref == FoldLeft(RefChunk,
                [past |-> <<>>, hist |-> <<>>, rep |-> <<0, 0, 0, 0>>, used |-> 0, next |-> 1,
                 needReset |-> TRUE, needProps |-> FALSE, ok |-> TRUE, ended |-> FALSE],
                stream.plan)

RefOut == Ref.past \o Ref.hist
RefVerdict == IF ~Ref.ok THEN "DATA_ERROR" ELSE IF Ref.ended THEN "STREAM_END" ELSE "OK"

------------------------------------------------------------------------------
TypeOK == /\ inPos \in 0 .. inSize /\ inSize \in 0 .. Len(stream.bytes)
          /\ Len(out) <= outSize
          /\ pc \in {"idle", "run", "temp", "direct", "main", "save", "flush"}
          /\ ret \in {"OK", "STREAM_END", "DATA_ERROR"}
          /\ l2.comp \in Nat /\ l2.unc \in Nat /\ temp \in Nat

\* However the input and the room for output are cut into calls, what the
\* decoder writes is the beginning of what the stream encodes, and it reaches
\* the verdict of the whole stream with all of the output
\* (xz_dec_lzma2_run, resumed anywhere).
OutputIsReference ==
    /\ IsPrefix(out, RefOut)
    /\ ret # "OK" => ret = RefVerdict
    /\ ret = "STREAM_END" => out = RefOut

\* The range decoder never reads outside its buffer: neither past the bytes the
\* caller gave, nor past temp.buf, although it decodes a symbol whenever the
\* limit is not exceeded and normalises once more after that (lzma2_lzma).
ReadsInBounds ==
    /\ pc = "main" => PosNormalised <= inSize
    /\ pc = "temp" => PosNormalised <= 3 * InRequired
    /\ temp <= l2.comp \/ l2.seq # "LZMA_RUN"

\* What the comment on struct dictionary says is always true, with the bytes
\* decoded and not yet flushed fitting the caller's buffer, and the bytes of a
\* pending match still being copied from valid history (struct dictionary).
DictInvariant ==
    /\ dict.start <= dict.pos /\ dict.pos <= dict.full /\ dict.full <= DictSize
    /\ pc \in {"temp", "main", "flush"} =>
         /\ dict.pos <= dict.limit /\ dict.limit <= DictSize
         /\ Len(out) + dict.pos - dict.start <= outSize
         /\ dict.pos - dict.start <= l2.unc
    /\ lzma.len > 0 => DistValid(dict, lzma.rep[1]) \/ ret = "DATA_ERROR"

\* Every stream is decided, in whatever pieces it comes: the calls return and
\* end with the verdict of the whole stream and, unless it is an error, all of
\* its output (xz_dec_lzma2_run goes on without input in SEQ_LZMA_RUN only).
Completed == /\ pc = "idle" /\ ret = RefVerdict
             /\ ret # "DATA_ERROR" => out = RefOut
Completes == <>[]Completed

==============================================================================
