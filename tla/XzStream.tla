------------------------------- MODULE XzStream -------------------------------
(* The .xz container decoder and the loop that feeds it: platform_feed of   *)
(* src/pup/bcm2835.c hands every received chunk to xz_dec_run               *)
(* (src/pup/xz-embedded/xz_dec_stream.c) until its input is used up, and    *)
(* passes what comes out to feed_impl.                                      *)
(*                                                                          *)
(* A byte of the stream is a tuple: <<"b", n>> is a plain byte, <<"crc", c, *)
(* k>> is byte k of the checksum of c (checksums are ideal: they differ     *)
(* when what they cover differs), <<"z", o>> is a byte of compressed data   *)
(* after which the bytes o can be written, <<"zend">> the LZMA2 end marker. *)
(* A field that is copied to temp and decoded there as a whole has its      *)
(* content in its last byte, <<"rec", r>>.                                  *)
EXTENDS Integers, Sequences, FiniteSetsExt, SequencesExt

CONSTANTS
    HeaderSize,     \* STREAM_HEADER_SIZE
    Align,          \* 4: blocks and the Index are padded to a multiple of it
    CrcBytes,       \* bytes of a CRC32
    VliBase,        \* 128
    VliBytesMax,    \* VLI_BYTES_MAX
    OutSize,        \* sizeof decompress_buffer
    MaxFrame,       \* longest chunk the host sends
    Hold,           \* bytes the BCJ filter may keep back
    Plans           \* the files that are sent (see Encode)

VARIABLES
    file,     \* the stream: [bytes, plan]
    fed,      \* bytes of the file handed to platform_feed so far: in_size
    inPos,    \* xzbuf.in_pos, counted from the first byte of the file
    outBuf,   \* decompress_buffer, as far as out_pos
    image,    \* what feed_impl has written
    pc,       \* "idle", "call" (the loop of platform_feed), "main" (dec_main), "ret"
    ret,      \* what dec_main returned
    verdict,  \* "none", "end" (XZ_STREAM_END was seen) or the error that was returned
    s,        \* struct xz_dec
    pend      \* output the filter chain has decoded and not written

vars == <<file, fed, inPos, outBuf, image, pc, ret, verdict, s, pend>>
io == <<file, fed, image, verdict>>

Min2(a, b) == IF a < b THEN a ELSE b
Unknown == -1                                \* VLI_UNKNOWN

------------------------------------------------------------------------------
(* The file.  A plan gives the check type, the blocks (their compressed     *)
(* bytes, whether the header states the sizes, whether BCJ is used), the    *)
(* bytes that follow the stream, and one fault.                             *)

Plain(n) == [i \in 1 .. n |-> <<"b", 0>>]
Crc(covered) == [k \in 1 .. CrcBytes |-> <<"crc", covered, k>>]
Pad(n) == Plain((Align - (n % Align)) % Align)
Vli(n) == IF n < VliBase THEN <<<<"b", n>>>>
          ELSE <<<<"b", VliBase + (n % VliBase)>>, <<"b", n \div VliBase>>>>
Field(n, rec) == Append(Plain(n - 1), <<"rec", rec>>)

Writes(z) == IF z[1] = "z" THEN z[2] ELSE <<>>
BlockOut(b) == FoldLeft(LAMBDA o, z: o \o Writes(z), <<>>, b.data)
CheckSize(p) == IF p.check = 1 THEN CrcBytes ELSE 0
HeaderLen == 2 * Align
Unpadded(p, b) == HeaderLen + Len(b.data) + CheckSize(p)

\* A fault changes one field of the file.
Hit(p, f, bad, good) == IF p.fault = f THEN bad ELSE good

BlockHeader(p, b) ==
    <<<<"b", 1>>>> \o Tail(Field(HeaderLen,
        [crc |-> p.fault # "bh_crc", flags |-> p.fault # "bh_flags",
         comp |-> IF b.sized THEN Len(b.data) + Hit(p, "bh_comp", 1, 0) ELSE Unknown,
         unc |-> IF b.sized THEN Len(BlockOut(b)) + Hit(p, "bh_unc", -1, 0) ELSE Unknown,
         bcj |-> b.bcj, filter |-> p.fault # "filter", dict |-> p.fault # "dict",
         pad |-> TRUE]))

Block(p, b) ==
    BlockHeader(p, b) \o Hit(p, "data", Append(SubSeq(b.data, 1, 1), <<"zbad">>), b.data)
    \o Hit(p, "padding", [i \in 1 .. Len(Pad(Len(b.data))) |-> <<"b", 1>>], Pad(Len(b.data)))
    \o (IF p.check = 1 THEN Crc(Hit(p, "check", <<>>, BlockOut(b))) ELSE <<>>)

Records(p) == FoldLeft(LAMBDA o, b: o \o Vli(Unpadded(p, b)) \o Vli(Len(BlockOut(b))), <<>>,
                       Hit(p, "index_swap", Reverse(p.blocks), p.blocks))

IndexBody(p) == LET i == <<<<"b", 0>>>> \o Vli(Len(p.blocks) + Hit(p, "index_count", 1, 0))
                         \o Records(p)
                IN  i \o Pad(Len(i))

Encode(p) ==
    [plan |-> p,
     bytes |-> Field(HeaderSize, [magic |-> p.fault # "magic", crc |-> p.fault # "header_crc",
                                  flags |-> TRUE, check |-> Hit(p, "check_type", 2, p.check)])
               \o FoldLeft(LAMBDA o, b: o \o Block(p, b), <<>>, p.blocks)
               \o IndexBody(p) \o Crc(Hit(p, "index_crc", <<>>, IndexBody(p)))
               \o Field(HeaderSize, [magic |-> p.fault # "footer_magic", crc |-> p.fault # "footer_crc",
                                     backward |-> Len(IndexBody(p)) \div Align
                                                  + Hit(p, "backward", 1, 0),
                                     flags |-> TRUE, check |-> Hit(p, "footer_check", 1 - p.check, p.check)])
               \o p.trailing]

------------------------------------------------------------------------------
(* platform_feed.                                                           *)

\* A chunk arrives; nothing arrives after a refusal.
Feed == /\ pc = "idle" /\ verdict \in {"none", "end"}
        /\ fed < Len(file.bytes)
        /\ \E n \in 1 .. Min2(MaxFrame, Len(file.bytes) - fed) : fed' = fed + n
        /\ pc' = "call"
        /\ UNCHANGED <<file, inPos, outBuf, image, ret, verdict, s, pend>>

\* The loop: while in_pos < in_size, xz_dec_run with an empty output buffer.
FeedLoop == /\ pc = "call"
            /\ IF inPos < fed
                 THEN /\ outBuf' = <<>>
                      /\ s' = [s EXCEPT !.inStart = inPos, !.callIn = inPos]
                      /\ pc' = "main"
                 ELSE pc' = "idle" /\ UNCHANGED <<outBuf, s>>
            /\ UNCHANGED <<io, inPos, ret, pend>>

\* After dec_main: xz_dec_run turns the second call without progress into
\* XZ_BUF_ERROR, platform_feed passes the output on or refuses the chunk.
RunReturns ==
    /\ pc = "ret"
    /\ LET stuck == ret = "OK" /\ inPos = s.callIn /\ outBuf = <<>>
           r == IF stuck /\ s.allowBuf THEN "BUF_ERROR" ELSE ret
       IN
       /\ s' = [s EXCEPT !.allowBuf = stuck]
       /\ IF r \in {"OK", "STREAM_END"}
            THEN /\ image' = image \o outBuf
                 /\ verdict' = IF r = "STREAM_END" THEN "end" ELSE verdict
                 /\ pc' = "call"
            ELSE verdict' = r /\ pc' = "idle" /\ UNCHANGED image
    /\ UNCHANGED <<file, fed, inPos, outBuf, ret, pend>>

------------------------------------------------------------------------------
(* dec_main, one action per case of its switch.                             *)

At(seq) == pc = "main" /\ s.seq = seq
Return(r) == pc' = "ret" /\ ret' = r
Goes == UNCHANGED <<pc, ret>>
Byte == file.bytes[inPos + 1]
\* The value of a byte; bytes of checksums and of data are not told apart.
Value(byte) == IF byte[1] = "b" THEN byte[2] ELSE 0
Given(n) == SubSeq(file.bytes, inPos + 1, inPos + n)

\* fill_temp: take what is there; the field is complete at temp.size bytes.
Fill == Min2(fed - inPos, s.tempSize - Len(s.temp))
Filled == s.temp \o Given(Fill)
FillDone == Len(Filled) = s.tempSize
FillMore == /\ inPos' = inPos + Fill
            /\ s' = [s EXCEPT !.temp = Filled]
            /\ Return("OK")

\* dec_stream_header; of the checks only none and CRC32 are built in.
HeaderRet(h) == IF ~h.magic THEN "FORMAT_ERROR" ELSE IF ~h.crc THEN "DATA_ERROR"
                ELSE IF ~h.flags \/ h.check > 1 THEN "OPTIONS_ERROR" ELSE "OK"

StreamHeader ==
    /\ At("STREAM_HEADER")
    /\ IF FillDone
         THEN LET h == Last(Filled)[2] IN
              /\ inPos' = inPos + Fill
              /\ s' = [s EXCEPT !.temp = <<>>, !.seq = "BLOCK_START",
                                !.check = IF HeaderRet(h) = "OK" THEN h.check ELSE @]
              /\ IF HeaderRet(h) = "OK" THEN Goes ELSE Return(HeaderRet(h))
         ELSE FillMore
    /\ UNCHANGED <<io, outBuf, pend>>

BlockStart ==
    /\ At("BLOCK_START")
    /\ IF inPos = fed THEN Return("OK") /\ UNCHANGED <<inPos, s>>
       ELSE IF Byte = <<"b", 0>>
       THEN /\ inPos' = inPos + 1
            /\ s' = [s EXCEPT !.inStart = inPos, !.seq = "INDEX"]
            /\ Goes
       ELSE /\ s' = [s EXCEPT !.bh.size = (Value(Byte) + 1) * Align,
                              !.tempSize = (Value(Byte) + 1) * Align,
                              !.temp = <<>>, !.seq = "BLOCK_HEADER"]
            /\ Goes /\ UNCHANGED inPos
    /\ UNCHANGED <<io, outBuf, pend>>

\* dec_block_header, with xz_dec_bcj_reset and xz_dec_lzma2_reset.
BlockHeaderRet(h) == IF ~h.crc THEN "DATA_ERROR" ELSE IF ~h.flags \/ ~h.filter THEN "OPTIONS_ERROR"
                     ELSE IF ~h.dict THEN "MEMLIMIT_ERROR" ELSE IF ~h.pad THEN "OPTIONS_ERROR" ELSE "OK"

DecBlockHeader ==
    /\ At("BLOCK_HEADER")
    /\ IF FillDone
         THEN LET h == Last(Filled)[2] IN
              /\ inPos' = inPos + Fill
              /\ IF BlockHeaderRet(h) = "OK"
                   THEN /\ s' = [s EXCEPT !.temp = <<>>, !.bh.comp = h.comp, !.bh.unc = h.unc,
                                          !.bcj = h.bcj, !.block.comp = 0, !.block.unc = 0,
                                          !.seq = "BLOCK_UNCOMPRESS"]
                        /\ Goes
                   ELSE s' = [s EXCEPT !.temp = <<>>] /\ Return(BlockHeaderRet(h))
         ELSE FillMore
    /\ UNCHANGED <<io, outBuf, pend>>

\* What the filter chain may do with the input and the room it is given: it
\* stops when the output is full, the input is used up, or the end marker is
\* reached; the end marker is read only when everything is written, and the
\* BCJ filter may hold back the last bytes of what it has.
Ready(n) == LET ready[k \in 0 .. n] ==
                  IF k = 0 THEN pend ELSE ready[k - 1] \o Writes(file.bytes[inPos + k])
            IN  ready[n]
Ends(n) == n > 0 /\ file.bytes[inPos + n] = <<"zend">>
Breaks(n) == n > 0 /\ file.bytes[inPos + n] = <<"zbad">>
Inner(n) == \A i \in 1 .. n - 1 : file.bytes[inPos + i][1] = "z"

FilterRun(n, m) ==
    LET room == OutSize - Len(outBuf)
    IN  /\ Inner(n)
        /\ m <= room /\ m <= Len(Ready(n))
        /\ \/ Ends(n) /\ m = Len(Ready(n))
           \/ Breaks(n)
           \/ ~Ends(n) /\ ~Breaks(n) /\ m = room /\ (n = 0 \/ Len(Ready(n - 1)) <= m)
           \/ ~Ends(n) /\ ~Breaks(n) /\ inPos + n = fed
              /\ Len(Ready(n)) - m <= IF s.bcj THEN Hold ELSE 0

\* dec_block: run the filters, then check and account for what they did.
Exceeds(limit, n) == limit # Unknown /\ n > limit
Differs(limit, n) == limit # Unknown /\ n # limit

HashAdd(h, unpadded, unc) ==
    [unpadded |-> h.unpadded + unpadded, unc |-> h.unc + unc,
     chain |-> Append(h.chain, <<h.unpadded + unpadded, h.unc + unc>>)]

BlockRun(n, m) ==
    /\ FilterRun(n, m)
    /\ inPos' = inPos + n
    /\ outBuf' = outBuf \o SubSeq(Ready(n), 1, m)
    /\ pend' = SubSeq(Ready(n), m + 1, Len(Ready(n)))
    /\ LET comp == s.block.comp + n
           unc == s.block.unc + m
           out == SubSeq(Ready(n), 1, m)
           b == [s EXCEPT !.inStart = inPos, !.block.comp = comp, !.block.unc = unc]
           summed == [b EXCEPT !.crc = IF s.check = 1 THEN @ \o out ELSE @]
           size == s.bh.size + comp + (IF s.check = 1 THEN CrcBytes ELSE 0)
       IN
       \/ /\ Breaks(n) \/ Exceeds(s.bh.comp, comp) \/ Exceeds(s.bh.unc, unc)
          /\ s' = b /\ Return("DATA_ERROR")
       \/ /\ ~Breaks(n) /\ ~Exceeds(s.bh.comp, comp) /\ ~Exceeds(s.bh.unc, unc)
          /\ ~Ends(n)
          /\ s' = summed /\ Return("OK")
       \/ /\ Ends(n) /\ ~Exceeds(s.bh.comp, comp) /\ ~Exceeds(s.bh.unc, unc)
          /\ Differs(s.bh.comp, comp) \/ Differs(s.bh.unc, unc)
          /\ s' = summed /\ Return("DATA_ERROR")
       \/ /\ Ends(n) /\ ~Differs(s.bh.comp, comp) /\ ~Differs(s.bh.unc, unc)
          /\ s' = [summed EXCEPT !.block.hash = HashAdd(@, size, unc),
                                 !.block.count = @ + 1, !.seq = "BLOCK_PADDING"]
          /\ Goes

DecBlock ==
    /\ At("BLOCK_UNCOMPRESS")
    /\ \E n \in 0 .. fed - inPos, m \in 0 .. OutSize - Len(outBuf) : BlockRun(n, m)
    /\ UNCHANGED io

\* Zero bytes up to a multiple of Align; done says how many are there already.
Padding(seq, done, more, after) ==
    /\ At(seq)
    /\ IF done % Align = 0 THEN s' = after /\ Goes /\ UNCHANGED inPos
       ELSE IF inPos = fed THEN s' = more /\ Return("OK") /\ UNCHANGED inPos
       ELSE /\ inPos' = inPos + 1
            /\ IF Byte = <<"b", 0>>
                 THEN /\ s' = IF seq = "BLOCK_PADDING" THEN [s EXCEPT !.block.comp = @ + 1] ELSE s
                      /\ Goes
                 ELSE Return("DATA_ERROR") /\ UNCHANGED s
    /\ UNCHANGED <<io, outBuf, pend>>

BlockPadding ==
    Padding("BLOCK_PADDING", s.block.comp, s, [s EXCEPT !.seq = "BLOCK_CHECK"])

\* crc_validate, a byte at a time; next is the state after the last one.
CrcValidate(next) ==
    IF inPos = fed THEN Return("OK") /\ UNCHANGED <<inPos, s>>
    ELSE /\ inPos' = inPos + 1
         /\ IF Byte # <<"crc", s.crc, s.pos + 1>> THEN Return("DATA_ERROR") /\ UNCHANGED s
            ELSE IF s.pos + 1 < CrcBytes THEN s' = [s EXCEPT !.pos = @ + 1] /\ Goes
            ELSE s' = [next EXCEPT !.crc = <<>>, !.pos = 0] /\ Goes

BlockCheck ==
    /\ At("BLOCK_CHECK")
    /\ IF s.check = 1 THEN CrcValidate([s EXCEPT !.seq = "BLOCK_START"])
       ELSE s' = [s EXCEPT !.seq = "BLOCK_START"] /\ Goes /\ UNCHANGED inPos
    /\ UNCHANGED <<io, outBuf, pend>>

\* index_update: the bytes of the Index seen in this call, counted and summed.
IndexUpdate(t, upTo) ==
    [t EXCEPT !.index.size = @ + upTo - s.inStart,
              !.crc = @ \o SubSeq(file.bytes, s.inStart + 1, upTo)]

\* dec_vli: one byte of an integer; dec_index: what a complete one means.
VliValue == (IF s.pos = 0 THEN 0 ELSE s.vli) + (Value(Byte) % VliBase) * VliBase ^ s.pos
VliLast == Value(Byte) < VliBase

IndexField(t) ==
    IF s.index.seq = "COUNT"
      THEN [t EXCEPT !.index.count = VliValue, !.index.seq = "UNPADDED",
                     !.seq = IF VliValue = 0 THEN "INDEX_PADDING" ELSE @]
    ELSE IF s.index.seq = "UNPADDED"
      THEN [t EXCEPT !.index.partial = VliValue, !.index.seq = "UNCOMPRESSED"]
    ELSE [t EXCEPT !.index.hash = HashAdd(@, s.index.partial, VliValue),
                   !.index.count = @ - 1, !.index.seq = "UNPADDED",
                   !.seq = IF s.index.count = 1 THEN "INDEX_PADDING" ELSE @]

DecIndex ==
    /\ At("INDEX")
    /\ IF inPos = fed
         THEN s' = IndexUpdate(s, inPos) /\ Return("OK") /\ UNCHANGED inPos
         ELSE /\ inPos' = inPos + 1
              /\ IF VliLast
                   THEN IF (Value(Byte) = 0 /\ s.pos # 0)
                            \/ (s.index.seq = "COUNT" /\ VliValue # s.block.count)
                          THEN Return("DATA_ERROR") /\ UNCHANGED s
                          ELSE s' = [IndexField(s) EXCEPT !.pos = 0] /\ Goes
                   ELSE /\ s' = [s EXCEPT !.vli = VliValue, !.pos = @ + 1]
                        /\ IF s.pos + 1 = VliBytesMax THEN Return("DATA_ERROR") ELSE Goes
    /\ UNCHANGED <<io, outBuf, pend>>

\* What the Index lists, and a plausible bug: comparing only the totals.
TotalsMatch(b, i) == b.unpadded = i.unpadded /\ b.unc = i.unc
IndexMatches(b, i) == b = i

\* The Index must describe the blocks that were decoded.
IndexPadding ==
    LET size == s.index.size + inPos - s.inStart
        done == IndexUpdate(s, inPos)
    IN  IF size % Align = 0 /\ ~IndexMatches(s.block.hash, s.index.hash)
          THEN /\ At("INDEX_PADDING") /\ s' = done /\ Return("DATA_ERROR")
               /\ UNCHANGED <<io, inPos, outBuf, pend>>
          ELSE Padding("INDEX_PADDING", size, done, [done EXCEPT !.seq = "INDEX_CRC32"])

IndexCrc32 ==
    /\ At("INDEX_CRC32")
    /\ CrcValidate([s EXCEPT !.tempSize = HeaderSize, !.seq = "STREAM_FOOTER"])
    /\ UNCHANGED <<io, outBuf, pend>>

\* dec_stream_footer; the decoder stays in this state after XZ_STREAM_END.
FooterValid(f) == /\ f.magic /\ f.crc /\ f.flags
                  /\ f.backward = s.index.size \div Align
                  /\ f.check = s.check

StreamFooter ==
    /\ At("STREAM_FOOTER")
    /\ IF FillDone
         THEN LET f == Last(Filled) IN
              /\ inPos' = inPos + Fill
              /\ s' = [s EXCEPT !.temp = <<>>]
              /\ Return(IF f[1] = "rec" /\ FooterValid(f[2]) THEN "STREAM_END" ELSE "DATA_ERROR")
         ELSE FillMore
    /\ UNCHANGED <<io, outBuf, pend>>

------------------------------------------------------------------------------
\* xz_dec_init and xz_dec_reset, before the first chunk.
NoHash == [unpadded |-> 0, unc |-> 0, chain |-> <<>>]
Reset == [seq |-> "STREAM_HEADER", allowBuf |-> FALSE, pos |-> 0, vli |-> 0, crc |-> <<>>,
          check |-> 0, bcj |-> FALSE, inStart |-> 0, callIn |-> 0,
          bh |-> [size |-> 0, comp |-> Unknown, unc |-> Unknown],
          block |-> [comp |-> 0, unc |-> 0, count |-> 0, hash |-> NoHash],
          index |-> [seq |-> "COUNT", size |-> 0, count |-> 0, partial |-> 0, hash |-> NoHash],
          temp |-> <<>>, tempSize |-> HeaderSize]

Init == /\ file \in {Encode(p) : p \in Plans}
        /\ fed = 0 /\ inPos = 0 /\ outBuf = <<>> /\ image = <<>>
        /\ pc = "idle" /\ ret = "OK" /\ verdict = "none"
        /\ s = Reset /\ pend = <<>>

DecMain == \/ StreamHeader \/ BlockStart \/ DecBlockHeader \/ DecBlock \/ BlockPadding
           \/ BlockCheck \/ DecIndex \/ IndexPadding \/ IndexCrc32 \/ StreamFooter

Next == Feed \/ FeedLoop \/ RunReturns \/ DecMain

\* The host sends every chunk and platform_feed runs.
Fairness == WF_vars(Next)

Spec == Init /\ [][Next]_vars /\ Fairness

------------------------------------------------------------------------------
(* Properties.                                                              *)

Whole == FoldLeft(LAMBDA o, b: o \o BlockOut(b), <<>>, file.plan.blocks)
Fault == file.plan.fault

\* Which answer a damaged field must get, wherever the chunks cut it.
Expected == CASE Fault = "none" -> "end"
              [] Fault = "magic" -> "FORMAT_ERROR"
              [] Fault \in {"check_type", "bh_flags", "filter"} -> "OPTIONS_ERROR"
              [] Fault = "dict" -> "MEMLIMIT_ERROR"
              [] OTHER -> "DATA_ERROR"

TypeOK == /\ inPos \in 0 .. fed /\ fed \in 0 .. Len(file.bytes)
          /\ Len(outBuf) <= OutSize
          /\ pc \in {"idle", "call", "main", "ret"}
          /\ Len(s.temp) <= s.tempSize

\* Whatever cuts the file into chunks, the image that is written is the
\* beginning of what the file holds, XZ_STREAM_END is reported only for an
\* undamaged file and with the whole image written, a refusal names the
\* damage, and once every chunk was fed there is a verdict: no byte waits in
\* the decoder for input that will not come, although platform_feed's loop
\* ends as soon as its input is used up (platform_feed, xz_dec_run).
FeedFaithful ==
    /\ IsPrefix(image, Whole)
    /\ verdict = "end" => Fault = "none" /\ image = Whole
    /\ verdict \notin {"none", "end"} /\ file.plan.trailing = <<>> => verdict = Expected
    /\ pc = "idle" /\ fed = Len(file.bytes) => verdict # "none"

\* platform_feed returns from every chunk, because xz_dec_run makes progress
\* or answers XZ_BUF_ERROR, and the file gets its verdict.
Completed == pc = "idle" /\ verdict # "none"
Completes == <>[]Completed

==============================================================================
