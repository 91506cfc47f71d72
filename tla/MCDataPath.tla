------------------------------ MODULE MCDataPath ------------------------------
(* Small instances of the parts of DataPath.                                *)
EXTENDS DataPath

------------------------------------------------------------------------------
(* Framing: a header, a body and an acknowledgement whose bytes look like   *)
(* SOH, STX and ACK; a script of two or three transmissions.                *)

F1 == Frame(1, << <<1>>, <<2>> >>)
F2 == Frame(6, << <<1>> >>)

MCScripts == { <<F1, F2>>, <<F1, Ack(1), F1>>, <<Ack(6), Ack(1)>> }
MCCalls == { Frame(0, <<>>), Ack(1) }
MCNoise == { <<1>>, <<9>> }
MCGarbled == { <<1>>, <<9>> }

------------------------------------------------------------------------------
(* LZMA2: matches that wrap the dictionary and outlast a call, raw chunks,  *)
(* every reset, and every way a stream can be wrong.                        *)

Lit(b, norm, more) == [op |-> "lit", byte |-> b, norm |-> norm, more |-> more]
Match(dist, len, norm, more) == [op |-> "match", dist |-> dist, len |-> len, norm |-> norm, more |-> more]
Rep(w, len, norm, more) == [op |-> "rep", which |-> w, len |-> len, norm |-> norm, more |-> more]

Lzma(ctl, unc, comp, syms) == [ctl |-> ctl, unc |-> unc, comp |-> comp, props |-> 93,
                               syms |-> syms, zero |-> TRUE]
Raw(ctl, bytes) == [ctl |-> ctl, comp |-> Len(bytes), data |-> bytes]
End == [ctl |-> 0]

Wrap == Lzma(224, 8, 2 + 8, <<Lit(1, 0, 1), Lit(2, 1, 1), Match(1, 3, 1, 0), Lit(3, 1, 0),
                              Rep(1, 2, 0, 2), Lit(0, 1, 0)>>)
Reps == Lzma(255, 7, 2 + 4, <<Lit(1, 0, 0), Lit(2, 0, 1), Match(0, 1, 0, 0), Match(1, 2, 1, 0),
                              Rep(2, 1, 1, 0), Rep(3, 1, 1, 0)>>)
Small == Lzma(224, 2, 2 + 1, <<Lit(1, 0, 0), Lit(2, 1, 0)>>)

MCLzma2Plans ==
    {<<Wrap, Raw(2, <<4, 5>>), Lzma(160, 3, 2 + 2, <<Match(3, 3, 0, 1), Lit(9, 1, 0)>>), End>>,
     <<Reps, Lzma(128, 1, 2 + 1, <<Rep(1, 1, 0, 0), Lit(0, 1, 0)>>), End>>,
     <<Raw(1, <<1, 2, 3, 4, 5, 6>>), Lzma(192, 2, 2 + 1, <<Match(2, 2, 0, 1)>>)>>,
     <<Lzma(160, 1, 2 + 1, <<Lit(1, 0, 1)>>), End>>,
     <<Raw(1, <<7>>), Lzma(160, 1, 2 + 1, <<Lit(1, 0, 1)>>), End>>,
     <<Raw(1, <<7>>), Raw(3, <<7>>)>>,
     <<[Small EXCEPT !.props = 225], End>>,
     <<[Small EXCEPT !.props = 8], End>>,
     <<[Small EXCEPT !.comp = 4], End>>,
     <<[Small EXCEPT !.comp = 2], End>>,
     <<[Small EXCEPT !.comp = 1], End>>,
     <<Small, Lzma(160, 1, 1, <<>>), End>>,
     <<[Small EXCEPT !.zero = FALSE], End>>,
     <<Lzma(224, 2, 2 + 1, <<Lit(1, 0, 0), Match(1, 2, 0, 1)>>), End>>,
     <<Lzma(224, 3, 2 + 1, <<Lit(1, 0, 0), Match(0, 4, 0, 1)>>), End>>}

------------------------------------------------------------------------------
(* The container: sound files with two blocks, one block and none, with     *)
(* trailing bytes, and one file for every field that can be damaged.        *)

Z(o) == <<"z", o>>
B1 == [data |-> <<Z(<<>>), Z(<<1, 2, 3>>), <<"zend">>>>, sized |-> TRUE, bcj |-> FALSE]
B2 == [data |-> <<Z(<<4>>), <<"zend">>>>, sized |-> FALSE, bcj |-> TRUE]
Plan(check, blocks, fault, trailing) ==
    [check |-> check, blocks |-> blocks, fault |-> fault, trailing |-> trailing]
Zeros(n) == [i \in 1 .. n |-> <<"b", 0>>]
Faults == {"magic", "header_crc", "check_type", "bh_crc", "bh_flags", "bh_comp", "bh_unc",
           "filter", "dict", "data", "padding", "check", "index_swap", "index_count",
           "index_crc", "footer_magic", "footer_crc", "backward", "footer_check"}
MCStreamPlans ==
    {Plan(1, <<B1, B2>>, "none", <<>>), Plan(0, <<B2>>, "none", <<>>),
     Plan(1, <<>>, "none", Zeros(2)), Plan(1, <<>>, "none", Zeros(4))}
    \cup {Plan(1, <<B1, B2>>, f, <<>>) : f \in Faults}

------------------------------------------------------------------------------
(* BCJ: two instructions and a part of a third, all of which may be BL.     *)

MCBlocks == {f \in [1 .. 7 -> BOOLEAN] : ~f[1] /\ ~f[4]}
==============================================================================
