----------------------------- MODULE MCDmaArith -----------------------------
(* Bytes of three bits, so that a shift count can exceed two bytes. *)
EXTENDS DmaArith

Plain(names) == [name : names, x4 : {FALSE}, inv : {FALSE}]

\* Every operation and every variant of a comparison but one: Geu with ICF_X4.
AllOperations ==
    Plain({"Inc", "Neg", "Not", "Add", "Sub", "And", "Or", "Xor", "Sll", "Srl", "Sra"})
      \cup {o \in [name : {"Geu", "Equ", "Ges"}, x4 : BOOLEAN, inv : BOOLEAN] :
              ~(o.name = "Geu" /\ o.x4 /\ ~o.inv)}

GeuTimesFour == {[name |-> "Geu", x4 |-> TRUE, inv |-> FALSE]}
PlainLts == {[name |-> "Ges", x4 |-> FALSE, inv |-> TRUE]}

\* A first run leaves its addresses in the blocks.  The operands of the second
\* carry or borrow through none, some and all bytes, differ in the low or in the
\* high byte only and change sign; the right ones include every shift count.
Operands(n, w) ==
    IF n = 1 THEN {<<Radix ^ w - 10, 29>>}
    ELSE LET top  == Radix ^ w - 1
             half == Radix ^ w \div 2
             some == {0, 1, Radix - 1, Radix, half - 1, half, top - Radix, top}
         IN  some \X (some \cup 0 .. Radix - 1)
=============================================================================
