---------------------------- MODULE IntegrityCheck ----------------------------
(* The code integrity checker (240-integ/2-integ.c): integ_run hashes or    *)
(* zeroes the regions of memory, calls a payload that may write anywhere,   *)
(* and looks at what is left.  Hashes are taken to be free of collisions.   *)
EXTENDS Integers, Sequences, FiniteSets, FiniteSetsExt

CONSTANTS
    Layouts,      \* lists of regions (p, size) coverage is checked for
    MainLayout,   \* the one of them main sets up
    DramEnd,      \* dram_end; dram_start is 0
    HeaderRange,  \* where the IntegHeader lies: start and end
    RegionFlags,  \* flags of main's regions, in order
    Values        \* what a region may hold; 0 is all zeros

VARIABLES
    layout,       \* IntegHeader.regions: p and size, one spare slot at the end
    covered,      \* what integ_check_coverage returned
    header,       \* IntegHeader: flags and cksum of every region, pointer to it
    content,      \* what each region holds; a stack's only above sp
    low,          \* the stack below sp
    microstack,
    cleanup,      \* IHF_ExpectStackCleanup
    before,       \* content when the payload was called (history)
    leftover,     \* what the payload left on the stack below sp (history)
    meddled,      \* the payload wrote to the header (history)
    verdict,      \* the state integ_chk ends with
    integPc

integvars == <<layout, covered, header, content, low, microstack, cleanup, before, leftover,
               meddled, verdict, integPc>>
machine == <<content, low, microstack, before, leftover, meddled>>

Regions == 1 .. Len(RegionFlags)

------------------------------------------------------------------------------
(* integ_check_coverage.                                                    *)

End(r) == r.p + r.size
Swapped(s, i, j) == [s EXCEPT ![i] = s[j], ![j] = s[i]]

\* The sort: whatever region starts lowest, it is the slot after the last
\* region that changes places with region i.
SortStep(s, i) ==
    LET count == Len(s) - 1
    IN  IF \E j \in i + 1 .. count : s[j].p < s[i].p THEN Swapped(s, i, count + 1) ELSE s
Sorted(s) == LET pass[i \in 0 .. Len(s) - 1] == IF i = 0 THEN s ELSE SortStep(pass[i - 1], i)
             IN  pass[Len(s) - 1]

\* Region i starts where the last region that is not empty ended, or behind
\* the header when that one ended in front of it.
EndsBefore(s, i) == LET big == {j \in 1 .. i - 1 : s[j].size > 0}
                    IN  IF big = {} THEN 0 ELSE End(s[Max(big)])

\* A plausible bug: a gap anywhere is taken to be the header's.
FitsWithGap(s, i) == ~(EndsBefore(s, i) > s[i].p /\ EndsBefore(s, i) # 0)

Fits(s, i) == LET q == EndsBefore(s, i)
              IN  /\ ~(q > s[i].p /\ q # 0)
                  /\ q < s[i].p => q = HeaderRange[1] /\ s[i].p = HeaderRange[2]

ClearOfHeader(r) == ~(r.p < HeaderRange[2] /\ HeaderRange[1] < End(r))

CheckCoverage ==
    /\ integPc = "coverage"
    /\ LET count == Len(layout) - 1
           clear == \A i \in 1 .. count : ClearOfHeader(layout[i])
           s == Sorted(layout)
       IN  /\ layout' = IF clear THEN s ELSE layout
           /\ covered' = (/\ clear
                          /\ \A i \in 1 .. count : Fits(s, i)
                          /\ EndsBefore(s, count + 1) = DramEnd)
           /\ integPc' = IF SubSeq(layout, 1, count) = MainLayout THEN "main" ELSE "stop"
    /\ UNCHANGED <<header, machine, cleanup, verdict>>

------------------------------------------------------------------------------
(* integ_run up to the call of the payload.                                 *)

Has(i, flag) == flag \in header.flags[i]
Marks == {"Corrupted", "CorruptedSomewhere"}

\* integ_prep: purgable regions are zeroed, the rest hashed, mutable ones
\* neither.
Prepared == [i \in Regions |-> IF Has(i, "Purgable") /\ ~Has(i, "Mutable") THEN 0 ELSE content[i]]
Checksums == [i \in Regions |-> IF Has(i, "Purgable") \/ Has(i, "Mutable") THEN 0 ELSE content[i]]

\* A region that still has a mark would make integ_prep panic.
IntegRun ==
    /\ integPc = "main"
    /\ \A i \in Regions : header.flags[i] \cap Marks = {}
    /\ content' = Prepared /\ before' = Prepared /\ meddled' = FALSE
    /\ header' = [header EXCEPT !.cksum = Checksums]
    /\ low' = 0 /\ microstack' = 0          \* zeroed in integ_run, whatever cleanup says
    /\ integPc' = "payload"
    /\ UNCHANGED <<layout, covered, cleanup, leftover, verdict>>

------------------------------------------------------------------------------
(* The payload writes what it likes, also back to what it was.              *)

PayloadWrites ==
    /\ integPc = "payload"
    /\ \/ \E i \in Regions, v \in Values :
            content' = [content EXCEPT ![i] = v] /\ UNCHANGED <<low, microstack, header, meddled>>
       \/ \E v \in Values : low' = v /\ UNCHANGED <<content, microstack, header, meddled>>
       \/ \E v \in Values : microstack' = v /\ UNCHANGED <<content, low, header, meddled>>
       \/ header' = [header EXCEPT !.pointer = "wild"] /\ UNCHANGED <<content, low, microstack, meddled>>
       \/ /\ \E i \in Regions : header' = [header EXCEPT !.flags[i] = @ \cup {"Mutable"}]
          /\ meddled' = TRUE /\ UNCHANGED <<content, low, microstack>>
    /\ UNCHANGED <<layout, covered, cleanup, before, leftover, verdict, integPc>>

------------------------------------------------------------------------------
(* integ_run after the payload returned.                                    *)

\* The pointer to the header and the microstack are checked.  The header's
\* hash is computed, but the loop leaves past the comparison.  A failure
\* resets the board.
PrecheckFails == header.pointer = "wild" \/ microstack # 0

\* A plausible bug: the stack above sp is left out, as the stack below it is.
MarksWithoutStack(i, l) ==
    IF Has(i, "Stack") \/ Has(i, "Mutable") THEN {}
    ELSE IF content[i] # header.cksum[i] THEN {"CorruptedSomewhere"} ELSE {}

\* integ_chk: the marks region i gets, l being what the stack holds below sp.
MarksOf(i, l) ==
    CASE Has(i, "Mutable") -> {}
      [] Has(i, "Purgable") /\ ~Has(i, "Mutable") -> IF content[i] # 0 THEN {"Corrupted"} ELSE {}
      [] OTHER -> (IF content[i] # header.cksum[i] THEN {"CorruptedSomewhere"} ELSE {})
                  \cup (IF Has(i, "Stack") /\ cleanup /\ l # 0 THEN {"Corrupted"} ELSE {})

\* The last corrupted region decides.
StateOf(bad) == IF bad = {} THEN "Clean"
                ELSE IF Has(Max(bad), "Critical") THEN "AbEnd" ELSE "AbCon"

\* Registers are pushed on the stack the payload returned on: what lies below
\* sp holds them when integ_chk looks.
IntegChk ==
    /\ integPc = "payload" /\ leftover' = low
    /\ IF PrecheckFails THEN integPc' = "reset" /\ UNCHANGED <<header, low, verdict>>
       ELSE \E regs \in {0, 1} :
              LET l == IF regs = 0 THEN low ELSE regs
                  bad == {i \in Regions : MarksOf(i, l) # {}}
              IN  /\ low' = l
                  /\ verdict' = StateOf(bad)
                  /\ header' = [header EXCEPT !.flags = [i \in Regions |-> @[i] \cup MarksOf(i, l)]]
                  /\ integPc' = "checked"
    /\ UNCHANGED <<layout, covered, content, microstack, cleanup, before, meddled>>

\* main takes the marks back and runs the next payload.
ClearMarks ==
    /\ integPc = "checked" /\ ~meddled
    /\ header' = [header EXCEPT !.flags = [i \in Regions |-> @[i] \ Marks]]
    /\ integPc' = "main"
    /\ UNCHANGED <<layout, covered, machine, cleanup, verdict>>

------------------------------------------------------------------------------
IntegInit ==
    /\ layout \in {Append(l, [p |-> 0, size |-> 0]) : l \in Layouts}
    /\ covered = FALSE /\ integPc = "coverage" /\ verdict = "Clean"
    /\ header = [flags |-> RegionFlags, cksum |-> [i \in Regions |-> 0], pointer |-> "right"]
    /\ content = [i \in Regions |-> 1] /\ before = content
    /\ low = 1 /\ leftover = 0 /\ microstack = 0 /\ meddled = FALSE
    /\ cleanup \in BOOLEAN

IntegNext == CheckCoverage \/ IntegRun \/ PayloadWrites \/ IntegChk \/ ClearMarks

------------------------------------------------------------------------------
\* Regions hold values, and the verdict is one of enum integ_status.
TypeOK == /\ content \in [Regions -> Values] /\ low \in Values /\ microstack \in Values
          /\ verdict \in {"Clean", "AbCon", "AbEnd"} /\ covered \in BOOLEAN
          /\ integPc \in {"coverage", "main", "payload", "checked", "stop", "reset"}

\* The regions the payload changed against what their flags allow, and the
\* ones integ_chk marked.
Changed == {i \in Regions : /\ "Mutable" \notin RegionFlags[i]
                            /\ \/ content[i] # before[i]
                               \/ "Stack" \in RegionFlags[i] /\ cleanup /\ leftover # 0}
Marked == {i \in Regions : header.flags[i] \cap Marks # {}}

\* Where the checker's own registers may be taken for the payload's: the stack,
\* when it is expected to be left clean.
Pushed == {i \in Regions : cleanup /\ "Stack" \in RegionFlags[i]}

\* Every region the payload changed is marked, after any number of payloads;
\* no other is, but for the stack the checker itself pushed registers on; and
\* the verdict is Clean exactly when nothing is marked (integ_run, integ_prep,
\* integ_chk; unless the payload wrote to the header, which nothing detects).
\* How bad a change is the property leaves open: the last marked region
\* decides, by its own flags, also for the stack, whose part above sp integ.h
\* calls critical.
CorruptionReported ==
    integPc = "checked" /\ ~meddled =>
        /\ Changed \subseteq Marked /\ Marked \subseteq Changed \cup Pushed
        /\ (verdict = "Clean") <=> (Marked = {})

\* What IHF_ExpectStackCleanup stands for (integ.h:55, "Expect that the low
\* region of the stack will not be mutated"): a payload that changed nothing is
\* found clean.  The push at 2-integ.c:694 breaks it.
UntouchedIsClean ==
    integPc = "checked" /\ ~meddled /\ Changed = {} => verdict = "Clean"

\* A list that integ_check_coverage accepts covers every byte of memory
\* outside the header, and no byte twice.
CoverageSound ==
    covered => \A a \in 0 .. DramEnd - 1 :
        LET in == {i \in 1 .. Len(layout) - 1 : layout[i].p <= a /\ a < End(layout[i])}
        IN  IF HeaderRange[1] <= a /\ a < HeaderRange[2] THEN in = {} ELSE Cardinality(in) = 1
==============================================================================
