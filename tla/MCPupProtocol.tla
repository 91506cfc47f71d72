--------------------------- MODULE MCPupProtocol ---------------------------
(***************************************************************************)
(* Instances of PupProtocol.  Image a has two chunks, b has one, c is an   *)
(* empty file.                                                             *)
(***************************************************************************)
EXTENDS PupProtocol

CONSTANTS a, b, c

Size == [i \in {a, b, c} |-> IF i = a THEN 2 ELSE IF i = b THEN 1 ELSE 0]

OneImage == {a}
TwoImages == {a, b}
ThreeImages == {a, b, c}
FullAndEmpty == {a, c}
OnlyB == {b}
OnlyC == {c}

SizeOf == [i \in Images |-> Size[i]]
OneBlock == [i \in Images |-> IF Size[i] = 0 \/ i \in Packed THEN 0 ELSE 1]
=============================================================================
