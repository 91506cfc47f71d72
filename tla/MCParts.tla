------------------------------- MODULE MCParts -------------------------------
(* The programs around the upload on small instances.                        *)
EXTENDS Parts

\* The host: a flat file, an ELF file, a packed one and a damaged one; two
\* boards and one another program has locked, a pseudo-terminal and a path
\* that is no device.
F(size, memory, xz, elf, sound) ==
    [size |-> size, mem |-> memory, xz |-> xz, elf |-> elf, sound |-> sound]
T(path, serial, state, pty) == [path |-> path, serial |-> serial, state |-> state, pty |-> pty]

SmallTokens ==
    {"-h", "-H", "-D", "-q", "-a", "-d", "-R", "-r", "-p", "-B", "8", "9999999",
     "flat", "elf", "packed", "bad", "ttyA", "@B", "ttyP", "ttyN", "gone"}
SmallNumbers == [n \in {"8", "9999999"} |-> IF n = "8" THEN 8 ELSE 9999999]
SmallFiles ==
    [flat |-> F(7, 7, FALSE, FALSE, TRUE), elf |-> F(6, 6, FALSE, TRUE, TRUE),
     packed |-> F(8, 20, TRUE, TRUE, TRUE), bad |-> F(9, 20, TRUE, FALSE, FALSE)]
SmallTtys ==
    {T("ttyA", "@A", "ok", FALSE), T("ttyB", "@B", "ok", FALSE), T("ttyC", "@C", "locked", FALSE),
     T("ttyP", None, "ok", TRUE), T("ttyN", None, "notchr", FALSE)}

\* Memory of five bytes, the third of which is the header.
R(sizes) == {[p |-> a, size |-> n] : a \in 0 .. 4, n \in sizes}
Lists == {<<a, b>> : a, b \in R(0 .. 3)} \cup {<<a, b, c>> : a, b, c \in R(0 .. 2)}
TwoRegions == <<[p |-> 0, size |-> 2], [p |-> 3, size |-> 2]>>
ThirdByte == <<2, 3>>
FiveFlags == <<{"Purgable"}, {"Critical"}, {"Stack"}, {"Mutable"}, {"Purgable"}>>

\* The answers of VideoCore.
OwnName == [t \in {"memory", "clock"} |-> t]

\* Sll, Neg (which asks for the alignment 3 for width 3) and Mul.
ThreeUses ==
    [sll |-> [w \in {2, 4} |-> [size |-> 2 * w, align |-> 8]],
     neg |-> [w \in {2, 3} |-> [size |-> w, align |-> w]],
     mul |-> [w \in {2} |-> [size |-> 2 * w, align |-> 4]]]
==============================================================================
