------------------------------ MODULE ElfLoader ------------------------------
(***************************************************************************)
(* The second stage of loading an ELF image: load_elf_image of             *)
(* pup/elf_loader.c plans where the ELF file and a trampoline go and which *)
(* copies the trampoline makes, and the trampoline of                      *)
(* pup/trampolines/elf.bcm2835.S makes them and starts the program.        *)
(*                                                                         *)
(* The file was received right behind the boot loader, at __prog_end.  Its *)
(* segments may be meant for any memory, the boot loader's and the file's  *)
(* own included.                                                           *)
(***************************************************************************)
EXTENDS Integers, Sequences

CONSTANTS
    MemHi,                \* mem_hi: one past the last byte of memory
    AddrMod,              \* addresses are uintptr_t: 2^32
    ProgStart, ProgEnd,   \* the boot loader
    TrampSize,            \* ELF_TRAMPOLINE_END - ELF_TRAMPOLINE_START
    ELF_MAX_SEGMENTS,
    Elfs                  \* the ELF files that may be uploaded

\* A program header, and a file: its size, whether its header is valid, and
\* its program headers.  A linker emits no empty segment.
Phdr == [load : BOOLEAN, offset : Nat, vaddr : Nat, filesz : Nat, memsz : Nat]
ElfType == [size : Nat \ {0}, valid : BOOLEAN, phdrs : Seq(Phdr)]

ASSUME MemoryAssumption ==
    /\ MemHi \in Nat /\ ProgStart \in Nat /\ ProgEnd \in Nat
    /\ ProgStart < ProgEnd /\ ProgEnd < MemHi
    /\ AddrMod \in Nat /\ 2 * MemHi < AddrMod
    /\ TrampSize \in Nat \ {0} /\ ELF_MAX_SEGMENTS \in Nat

\* Segments are in the file, in memory, and no two of them share memory.
ASSUME ElfAssumption ==
    \A e \in Elfs :
        /\ e \in ElfType
        /\ ProgEnd + e.size <= MemHi
        /\ \A i \in 1 .. Len(e.phdrs) :
             LET h == e.phdrs[i]
             IN  h.load => /\ h.filesz <= h.memsz /\ h.memsz > 0
                           /\ h.offset + h.filesz <= e.size
                           /\ h.vaddr + h.memsz <= MemHi
        /\ \A i, j \in 1 .. Len(e.phdrs) :
             LET h == e.phdrs[i]
                 g == e.phdrs[j]
             IN  i # j /\ h.load /\ g.load =>
                   h.vaddr + h.memsz <= g.vaddr \/ g.vaddr + g.memsz <= h.vaddr

VARIABLES
    phase,       \* what load_elf_image, or the trampoline, does next
    elf,         \* the uploaded file
    i,           \* loop counter
    memory_map,  \* claimed ranges: all segments, then the new place of the file
    elf_alloc,   \* where the file will be moved
    loader_ops,  \* the copies and fills the trampoline makes
    boot_alloc,  \* where the trampoline is
    entry,       \* elf_entry as read from the file: good if it is byte 0
    mem

vars == <<phase, elf, i, memory_map, elf_alloc, loader_ops, boot_alloc, entry, mem>>

\* Byte k of the file is the number k; other contents:
Addr  == 0 .. MemHi - 1
Junk  == -1
Prog  == -2
Tramp == -3
Zero  == -4

UINTPTR_MAX == AddrMod - 1

range(start, n) == [start |-> start, end |-> start + n]

-----------------------------------------------------------------------------
(* The memory map *)

\* Mutant: a new range goes to the end.
InsertLast(map, r) == Append(map, r)

\* claim_space, once there is room: before the first range that starts later,
\* or at the end.
Insert(map, r) ==
    LET later == {k \in 1 .. Len(map) : r.start < map[k].start}
        at    == IF later = {} THEN Len(map) + 1
                 ELSE CHOOSE k \in later : \A n \in later : k <= n
    IN  SubSeq(map, 1, at - 1) \o <<r>> \o SubSeq(map, at, Len(map))

\* claim_space without force refuses a full map, and nobody looks at that.
Claim(map, r) == IF Len(map) >= ELF_MAX_SEGMENTS THEN map ELSE Insert(map, r)

\* Mutant: the search goes on behind the start of a range.
AfterRangeStart(r) == r.start

AfterRange(r) == r.end

\* One turn of the search: the candidate is given up, found or moved behind
\* range r.  A range that starts before the candidate is skipped, wherever it
\* ends.
SearchTurn(s, r, size, allowed) ==
    IF s.st # "go" \/ s.p > r.start THEN s
    ELSE IF s.p + size > allowed.end THEN [p |-> s.p, st |-> "none"]
    ELSE IF r.start - s.p >= size THEN [p |-> s.p, st |-> "found"]
    ELSE [p |-> AfterRange(r), st |-> "go"]

\* allocate_space, the search: where it stands after k ranges.
Search(map, size, allowed) ==
    LET at[k \in 0 .. Len(map)] ==
          IF k = 0 THEN [p |-> allowed.start, st |-> "go"]
          ELSE SearchTurn(at[k - 1], map[k], size, allowed)
    IN  at[Len(map)]

\* The address found, or UINTPTR_MAX.  The room above the last range is an
\* unsigned difference.
allocate_space(map, size, allowed) ==
    LET s == Search(map, size, allowed)
    IN  IF s.st = "found" \/ (s.st = "go" /\ (allowed.end - s.p) % AddrMod >= size)
        THEN s.p ELSE UINTPTR_MAX

-----------------------------------------------------------------------------
(* load_elf_image *)

Load == elf.phdrs[i].load

\* validate_elf_header
Validate ==
    /\ phase = "validate"
    /\ phase' = IF elf.valid THEN "claim" ELSE "failed"
    /\ i' = 1
    /\ UNCHANGED <<elf, memory_map, elf_alloc, loader_ops, boot_alloc, entry, mem>>

\* One turn of the loop that claims the segments, or the end of it: the file
\* gets the first room in memory.
ClaimSegment ==
    /\ phase = "claim"
    /\ i <= Len(elf.phdrs)
    /\ memory_map' =
         IF Load THEN Claim(memory_map, range(elf.phdrs[i].vaddr, elf.phdrs[i].memsz))
                 ELSE memory_map
    /\ i' = i + 1
    /\ UNCHANGED <<phase, elf, elf_alloc, loader_ops, boot_alloc, entry, mem>>

AllocateElf ==
    /\ phase = "claim"
    /\ i > Len(elf.phdrs)
    /\ elf_alloc' = allocate_space(memory_map, elf.size, range(0, MemHi))
    /\ \/ /\ elf_alloc' = UINTPTR_MAX
          /\ phase' = "failed"
          /\ UNCHANGED memory_map
       \/ /\ elf_alloc' # UINTPTR_MAX
          /\ phase' = "ops"
          /\ memory_map' = Insert(memory_map, range(elf_alloc', elf.size))
    /\ i' = 1
    /\ UNCHANGED <<elf, loader_ops, boot_alloc, entry, mem>>

Copy(h) == [kind |-> "COPY", dst |-> h.vaddr, src |-> elf_alloc + h.offset,
            size |-> h.filesz]

\* Mutants: the size is subtracted the wrong way round; the fill starts where
\* the segment starts.
FillSwapped(h) == [kind |-> "ZERO", dst |-> h.vaddr + h.filesz, src |-> 0,
                   size |-> h.filesz - h.memsz]
FillWhole(h) == [kind |-> "ZERO", dst |-> h.vaddr, src |-> 0, size |-> h.memsz]

Fill(h) == [kind |-> "ZERO", dst |-> h.vaddr + h.filesz, src |-> 0,
            size |-> h.memsz - h.filesz]

\* register_loader_op: a segment's copy and its zero fill, as long as there is
\* room for them.
OpsOf(h) ==
    (IF h.filesz > 0 THEN <<Copy(h)>> ELSE <<>>)
      \o (IF h.filesz < h.memsz THEN <<Fill(h)>> ELSE <<>>)

RegisterOps ==
    /\ phase = "ops"
    /\ i <= Len(elf.phdrs)
    /\ LET new == IF Load THEN OpsOf(elf.phdrs[i]) ELSE <<>>
           all == loader_ops \o new
       IN  /\ loader_ops' = SubSeq(all, 1, IF Len(all) <= ELF_MAX_SEGMENTS
                                           THEN Len(all) ELSE ELF_MAX_SEGMENTS)
           /\ phase' = IF Len(all) <= ELF_MAX_SEGMENTS THEN "ops" ELSE "failed"
    /\ i' = i + 1
    /\ UNCHANGED <<elf, memory_map, elf_alloc, boot_alloc, entry, mem>>

\* Below the boot loader if possible, else above it.
BootSpace ==
    LET low == allocate_space(memory_map, TrampSize, range(0, ProgStart))
    IN  IF low # UINTPTR_MAX THEN low
        ELSE allocate_space(memory_map, TrampSize,
                            [start |-> ProgEnd, end |-> MemHi])

\* The trampoline is copied to its place, and only then the entry point is
\* read from the file.
PlaceTrampoline ==
    /\ phase = "ops"
    /\ i > Len(elf.phdrs)
    /\ boot_alloc' = BootSpace
    /\ \/ /\ boot_alloc' = UINTPTR_MAX
          /\ phase' = "failed"
          /\ UNCHANGED <<memory_map, mem, entry>>
       \/ /\ boot_alloc' # UINTPTR_MAX
          /\ memory_map' = Insert(memory_map, range(boot_alloc', TrampSize))
          /\ mem' = [a \in Addr |-> IF boot_alloc' <= a /\ a < boot_alloc' + TrampSize
                                    THEN Tramp ELSE mem[a]]
          /\ entry' = mem'[ProgEnd]
          /\ phase' = "loaded"
    /\ UNCHANGED <<elf, i, elf_alloc, loader_ops>>

-----------------------------------------------------------------------------
(* The trampoline *)

\* memmove
Moved(dst, src, n) ==
    [a \in Addr |-> IF dst <= a /\ a < dst + n THEN mem[src + (a - dst)] ELSE mem[a]]

\* main enters the trampoline, which moves the file first.
MoveElf ==
    /\ phase = "loaded"
    /\ mem' = Moved(elf_alloc, ProgEnd, elf.size)
    /\ i' = 1
    /\ phase' = "run"
    /\ UNCHANGED <<elf, memory_map, elf_alloc, loader_ops, boot_alloc, entry>>

RunOp ==
    /\ phase = "run"
    /\ i <= Len(loader_ops)
    /\ LET op == loader_ops[i] IN
         mem' = IF op.kind = "COPY" THEN Moved(op.dst, op.src, op.size)
                ELSE [a \in Addr |-> IF op.dst <= a /\ a < op.dst + op.size
                                     THEN Zero ELSE mem[a]]
    /\ i' = i + 1
    /\ UNCHANGED <<phase, elf, memory_map, elf_alloc, loader_ops, boot_alloc, entry>>

Start ==
    /\ phase = "run"
    /\ i > Len(loader_ops)
    /\ phase' = "started"
    /\ UNCHANGED <<elf, i, memory_map, elf_alloc, loader_ops, boot_alloc, entry, mem>>

-----------------------------------------------------------------------------

\* The file was received behind the boot loader.
Init ==
    /\ phase = "validate"
    /\ elf \in Elfs
    /\ i = 1
    /\ memory_map = <<>> /\ loader_ops = <<>>
    /\ elf_alloc = 0 /\ boot_alloc = 0 /\ entry = Junk
    /\ mem = [a \in Addr |-> IF ProgStart <= a /\ a < ProgEnd THEN Prog
                             ELSE IF ProgEnd <= a /\ a < ProgEnd + elf.size
                             THEN a - ProgEnd ELSE Junk]

Next ==
    \/ Validate \/ ClaimSegment \/ AllocateElf \/ RegisterOps \/ PlaceTrampoline
    \/ MoveElf \/ RunOp \/ Start

Spec == Init /\ [][Next]_vars

-----------------------------------------------------------------------------
(* Properties *)

TypeOK ==
    /\ phase \in {"validate", "claim", "ops", "loaded", "run", "started", "failed"}
    /\ elf \in ElfType /\ i \in Nat
    /\ memory_map \in Seq([start : Nat, end : Nat])
    /\ elf_alloc \in Nat /\ boot_alloc \in Nat /\ entry \in Int
    /\ loader_ops \in Seq([kind : {"COPY", "ZERO"}, dst : Nat, src : Nat, size : Nat])
    /\ mem \in [Addr -> Int]

Disjoint(r, s) == r.end <= s.start \/ s.end <= r.start

Segments == {elf.phdrs[k] : k \in {n \in 1 .. Len(elf.phdrs) : elf.phdrs[n].load}}
SegmentRange(h) == range(h.vaddr, h.memsz)
ElfRange == range(elf_alloc, elf.size)
BootRange == range(boot_alloc, TrampSize)

\* The trampoline was placed below the boot loader.
Low == BootRange.end <= ProgStart

\* "INVARIANT: sorted", which the search relies on, and the array the ranges
\* are in is large enough for them (the assertion of claim_space).
MapSorted ==
    /\ \A m, n \in 1 .. Len(memory_map) :
         m < n => memory_map[m].start <= memory_map[n].start
    /\ Len(memory_map) <= ELF_MAX_SEGMENTS + 2

\* The place for the file is in memory and touches no segment: copying the
\* segments one after the other never changes what is still to be copied.
\* A trampoline below the boot loader is clear of both.
PlacesClear ==
    phase \in {"loaded", "run", "started"} =>
        /\ ElfRange.end <= MemHi
        /\ \A h \in Segments : Disjoint(ElfRange, SegmentRange(h))
        /\ Low => /\ Disjoint(BootRange, ElfRange)
                  /\ \A h \in Segments : Disjoint(BootRange, SegmentRange(h))

\* What the program finds when it is started: every segment, its zero fill,
\* its own ELF file where the boot arguments say, and its entry point.
Delivered ==
    /\ entry = 0
    /\ \A k \in 0 .. elf.size - 1 : mem[elf_alloc + k] = k
    /\ \A h \in Segments : \A k \in 0 .. h.memsz - 1 :
         mem[h.vaddr + k] = IF k < h.filesz THEN h.offset + k ELSE Zero

\* With the trampoline below the boot loader, a started program finds
\* everything, wherever its segments overlap the boot loader or the file.
LowDelivers == phase = "started" /\ Low => Delivered

\* "This allows programs to access their own ELF images": wherever the
\* trampoline was placed.
AlwaysDelivers == phase = "started" => Delivered

\* The running boot loader is not overwritten by the trampoline it places:
\* allocate_space was given the room below or above it.
BootLoaderKept ==
    phase = "loaded" => Disjoint(BootRange, [start |-> ProgStart, end |-> ProgEnd])

=============================================================================
