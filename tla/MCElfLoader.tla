----------------------------- MODULE MCElfLoader -----------------------------
(* A memory of 44 bytes; the boot loader is at 10 .. 17, the trampoline has 3. *)
EXTENDS ElfLoader

SegmentsUpTo(size) ==
    {h \in [load : {TRUE}, offset : {0, 2}, vaddr : {0, 4, 8, 10, 14, 19, 26},
            filesz : {0, 3, 5}, memsz : {3, 5, 9}] :
        h.filesz <= h.memsz /\ h.offset + h.filesz <= size}
Note == [load |-> FALSE, offset |-> 0, vaddr |-> 0, filesz |-> 4, memsz |-> 4]

Apart(h, g) == Disjoint(SegmentRange(h), SegmentRange(g))

\* Files with one segment, and with two and a header of another type.
FilesOf(size) ==
    {[size |-> size, valid |-> TRUE, phdrs |-> <<h>>] : h \in SegmentsUpTo(size)}
      \cup {[size |-> size, valid |-> TRUE, phdrs |-> <<p[1], Note, p[2]>>] :
              p \in {q \in SegmentsUpTo(size) \X SegmentsUpTo(size) :
                       Apart(q[1], q[2]) /\ q[1].offset = 0 /\ q[2].offset = 2}}
ManyFiles ==
    FilesOf(5) \cup FilesOf(9)
      \cup {[size |-> 25, valid |-> TRUE, phdrs |-> <<h>>] : h \in SegmentsUpTo(5)}
      \cup {[size |-> 5, valid |-> FALSE, phdrs |-> <<Note>>]}
=============================================================================
