----------------------------- MODULE MCBootImage -----------------------------
(* A memory of 80 bytes with a boot loader of 24; a chunk is, as in the code, *)
(* one byte short of a number of words.                                       *)
EXTENDS BootImage

\* Flat images before, across, inside and behind the boot loader; of whole
\* words and not; too large for memory or for the buffer; ELF images.
FlatMetas == [format : {"BIN"}, compression : {"NONE"},
              load : {0, 8, 12, 32}, size : {0, 10, 24, 34}]
PackedMetas == [format : {"BIN"}, compression : {"XZ"},
                load : {0, 12, 32}, size : {0, 24, 34}]
OddMetas == {[format |-> "BIN", compression |-> "NONE", load |-> 28, size |-> 8],
             [format |-> "BIN", compression |-> "NONE", load |-> 6, size |-> 4],
             [format |-> "BIN", compression |-> "NONE", load |-> 80, size |-> 4],
             [format |-> "BIN", compression |-> "NONE", load |-> 0, size |-> 45],
             [format |-> "BIN", compression |-> "XZ", load |-> 0, size |-> 47],
             [format |-> "BIN", compression |-> "XZ", load |-> 0, size |-> 48],
             [format |-> "BIN", compression |-> "XZ", load |-> 0, size |-> 80],
             [format |-> "BIN", compression |-> "unknown", load |-> 0, size |-> 4],
             [format |-> "unknown", compression |-> "NONE", load |-> 0, size |-> 4],
             [format |-> "ELF", compression |-> "NONE", load |-> 0, size |-> 20],
             [format |-> "ELF", compression |-> "XZ", load |-> 0, size |-> 12]}
AllMetas == FlatMetas \cup PackedMetas \cup OddMetas

\* The default load address, the boot loader's own.
SmallMetas == [format : {"BIN"}, compression : {"NONE"}, load : {8}, size : {20, 22}]
=============================================================================
