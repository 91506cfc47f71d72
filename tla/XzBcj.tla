-------------------------------- MODULE XzBcj --------------------------------
(* The BCJ filter in front of LZMA2 (src/pup/xz-embedded/xz_dec_bcj.c; only *)
(* the ARM filter is built).  It turns the absolute targets of BL           *)
(* instructions back into relative ones, so it must see whole, aligned      *)
(* instructions although LZMA2 delivers the data in pieces of any length    *)
(* and the caller's buffer ends anywhere.                                   *)
(*                                                                          *)
(* A byte is <<number, isBL, address>>: its number in the block, whether it *)
(* is the opcode byte of a BL, and 0 or the address its instruction was     *)
(* converted with.                                                          *)
EXTENDS Integers, Sequences, FiniteSetsExt, SequencesExt

CONSTANTS Unit,      \* bytes of an instruction: 4
          TempSize,  \* sizeof temp.buf
          Lead,      \* an ARM branch is relative to its address plus 8
          MaxGive,   \* decoded bytes that one call's input is good for
          MaxRoom,   \* output room of one call
          Blocks     \* the blocks: for every byte whether it looks like a BL opcode

VARIABLES data,   \* what LZMA2 decodes to
          given,  \* how many of its bytes the input seen so far decodes to
          ended,  \* what that input ends with: "no", the marker "end", damage "bad"
          bcj,    \* struct xz_dec_bcj, and taken: how far LZMA2 is
          out,    \* what was written to the caller's buffers
          room,   \* b->out_size - b->out_pos of the current call
          pc,     \* where that call is
          ret     \* what xz_dec_bcj_run returned

vars == <<data, given, ended, bcj, out, room, pc, ret>>

Min2(a, b) == IF a < b THEN a ELSE b

\* How much of n bytes bcj_apply converts: whole instructions.  A plausible
\* bug: counting the bytes of a cut instruction as converted.
WholeAndRest(n) == n
Whole(n) == n - (n % Unit)

\* bcj_arm on a buffer, at position pos of the block.
BcjArm(buf, pos) ==
    [i \in 1 .. Len(buf) |->
        LET first == ((i - 1) \div Unit) * Unit
        IN  IF first + Unit <= Len(buf) /\ buf[first + Unit][2]
            THEN <<buf[i][1], buf[i][2], pos + first + Lead>> ELSE buf[i]]

\* xz_dec_lzma2_run with room for n bytes: what it writes, and its answer.
Lzma2Writes(t, n) == SubSeq(data, t + 1, t + Min2(n, given - t))
Lzma2Ret(t) == IF t < Len(data) \/ ended = "no" THEN "OK"
               ELSE IF ended = "end" THEN "STREAM_END" ELSE "DATA_ERROR"

\* bcj_flush, into n bytes of room: what is written, and what is left of b.
FlushOut(b, n) == SubSeq(b.temp, 1, Min2(b.filtered, n))
BcjFlush(b, n) == LET k == Min2(b.filtered, n)
                  IN  [b EXCEPT !.filtered = @ - k, !.temp = SubSeq(@, k + 1, Len(@))]

------------------------------------------------------------------------------
\* xz_dec_bcj_reset, for every block that names the filter.
Init == /\ \E f \in Blocks : data = [i \in 1 .. Len(f) |-> <<i, f[i], 0>>]
        /\ given = 0 /\ ended = "no" /\ out = <<>> /\ room = 0 /\ pc = "idle" /\ ret = "OK"
        /\ bcj = [ret |-> "OK", pos |-> 0, filtered |-> 0, temp |-> <<>>, taken |-> 0]

\* More input comes between two calls.
Give == /\ pc = "idle" /\ ret = "OK" /\ ended = "no"
        /\ \E k \in 0 .. MaxGive : given' = Min2(given + k, Len(data))
        /\ \/ given' > given /\ ended' = ended
           \/ given' = Len(data) /\ ended' \in {"end", "bad"}
        /\ UNCHANGED <<data, bcj, out, room, pc, ret>>

Return(r) == pc' = "idle" /\ ret' = r /\ room' = 0

\* xz_dec_bcj_run begins: write what is already filtered.
RunFlush ==
    /\ pc = "idle" /\ ret = "OK"
    /\ \E n \in 1 .. MaxRoom :
         LET left == n - Len(FlushOut(bcj, n)) IN
         /\ out' = out \o FlushOut(bcj, n)
         /\ bcj' = BcjFlush(bcj, n)
         /\ IF bcj.filtered > 0 /\ bcj'.filtered > 0 THEN Return("OK")
            ELSE IF bcj.filtered > 0 /\ bcj.ret = "STREAM_END" THEN Return("STREAM_END")
            ELSE /\ room' = left
                 /\ pc' = IF Len(bcj'.temp) < left \/ bcj'.temp = <<>> THEN "buffer" ELSE "temp"
                 /\ UNCHANGED ret
    /\ UNCHANGED <<data, given, ended>>

\* Decode into the caller's buffer behind what temp holds, filter there, and
\* take back what is not a whole instruction, unless the block ends with it.
IntoBuffer ==
    /\ pc = "buffer"
    /\ LET new == Lzma2Writes(bcj.taken, room - Len(bcj.temp))
           all == bcj.temp \o new
           r == Lzma2Ret(bcj.taken + Len(new))
           done == IF r = "STREAM_END" THEN Len(all) ELSE Whole(Len(all))
       IN
       /\ IF r = "DATA_ERROR"
            THEN /\ bcj' = [bcj EXCEPT !.taken = @ + Len(new), !.ret = r]
                 /\ out' = out \o all
            ELSE /\ bcj' = [bcj EXCEPT !.taken = @ + Len(new), !.ret = r, !.pos = @ + Whole(Len(all)),
                                       !.temp = SubSeq(all, done + 1, Len(all))]
                 /\ out' = out \o SubSeq(BcjArm(all, bcj.pos), 1, done)
       /\ IF r # "OK" THEN Return(r)
          ELSE IF Len(all) < room THEN Return("OK")
          ELSE room' = room - done /\ pc' = "temp" /\ UNCHANGED ret
    /\ UNCHANGED <<data, given, ended>>

\* If there is still room, decode into temp, filter there, and flush.
IntoTemp ==
    /\ pc = "temp"
    /\ IF room = 0 THEN Return(bcj.ret) /\ UNCHANGED <<bcj, out>>
       ELSE LET new == Lzma2Writes(bcj.taken, TempSize - Len(bcj.temp))
                all == bcj.temp \o new
                r == Lzma2Ret(bcj.taken + Len(new))
                rest == SubSeq(all, bcj.filtered + 1, Len(all))
                b == [bcj EXCEPT !.taken = @ + Len(new), !.ret = r, !.pos = @ + Whole(Len(rest)),
                                 !.temp = SubSeq(all, 1, bcj.filtered) \o BcjArm(rest, bcj.pos),
                                 !.filtered = IF r = "STREAM_END" THEN Len(all) ELSE @ + Whole(Len(rest))]
            IN  IF r = "DATA_ERROR"
                THEN /\ bcj' = [bcj EXCEPT !.taken = @ + Len(new), !.ret = r, !.temp = all]
                     /\ Return(r) /\ UNCHANGED out
                ELSE /\ bcj' = BcjFlush(b, room)
                     /\ out' = out \o FlushOut(b, room)
                     /\ Return(IF bcj'.filtered > 0 THEN "OK" ELSE r)
    /\ UNCHANGED <<data, given, ended>>

Run == RunFlush \/ IntoBuffer \/ IntoTemp

Next == Give \/ Run

\* The rest of the block arrives however often the decoder is called before.
Fairness == SF_vars(Give) /\ WF_vars(Run)

Spec == Init /\ [][Next]_vars /\ Fairness

------------------------------------------------------------------------------
\* The whole block filtered at once.
Filtered == BcjArm(data, 0)

TypeOK == /\ Len(bcj.temp) <= TempSize /\ bcj.filtered <= Len(bcj.temp)
          /\ bcj.taken \in 0 .. given
          /\ ret \in {"OK", "STREAM_END", "DATA_ERROR"}

\* In whatever pieces LZMA2 delivers the block and the caller takes it, the
\* filter works on the same instructions at the same addresses, and nothing is
\* lost when the block ends inside an instruction (xz_dec_bcj_run).
FilteredOnce ==
    /\ ret # "DATA_ERROR" => IsPrefix(out, Filtered)
    /\ ret = "STREAM_END" => out = Filtered

\* The end of the block is reported once its input is there, also when the
\* caller's buffer was full at that moment (xz_dec_bcj_run).
Completed == ret # "OK"
Completes == <>[]Completed

==============================================================================
