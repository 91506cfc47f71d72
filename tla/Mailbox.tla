------------------------------- MODULE Mailbox -------------------------------
(* Property tags (ptags.c): the program asks VideoCore through a buffer on  *)
(* its stack that lies in cached memory, and that VideoCore reads and       *)
(* answers in memory.  After the flush the program still uses its stack,    *)
(* so that a line of the buffer may be cached again at any time.            *)
EXTENDS Integers, FiniteSets

CONSTANTS
    Tags,        \* what can be asked
    Right        \* the answer to each

VARIABLES
    aligned,     \* whether the buffer starts a cache line, or half a one
    tag,         \* the tag asked
    mem,         \* memory, per line of the buffer: what its words hold
    cache,       \* the cache, per line: absent, clean or dirty, and the words
    vc,          \* VideoCore: idle, asked, answered
    got,         \* what the ptag_ function returns
    mailPc

mailvars == <<aligned, tag, mem, cache, vc, got, mailPc>>

(* The words that matter: the code of the buffer, the code of the tag and    *)
(* its value; 16 bytes of header come before the tag's code.                *)
Words == {"bufcode", "tagcode", "value"}
Lines == {1, 2}
LineOf(w) == IF aligned \/ w = "bufcode" THEN 1 ELSE 2

Request == [bufcode |-> "PROCESS_REQUEST", tagcode |-> "request", value |-> "none"]
Absent == [state |-> "absent", words |-> Request]

Seen(w) == IF cache[LineOf(w)].state = "absent" THEN mem[LineOf(w)][w] ELSE cache[LineOf(w)].words[w]

------------------------------------------------------------------------------
(* mail.                                                                    *)

\* The buffer is filled and everything that is cached is written back and
\* dropped.
Flushed == [l \in Lines |-> Absent]

FillAndFlush ==
    /\ mailPc = "call"
    /\ \E t \in Tags, a \in BOOLEAN : tag' = t /\ aligned' = a
    /\ mem' = [l \in Lines |-> Request]
    /\ cache' = Flushed
    /\ got' = "none"
    /\ mailPc' = "write"
    /\ UNCHANGED vc

\* mbox->write1 once the box is not full; the answer is waited for.
MboxWrite == /\ mailPc = "write"
             /\ vc' = "asked" /\ mailPc' = "wait"
             /\ UNCHANGED <<aligned, tag, mem, cache, got>>

\* VideoCore answers the buffer in memory: the tag it knows, a tag it does
\* not know, or an error.
VcAnswer ==
    /\ vc = "asked" /\ vc' = "answered"
    /\ \E a \in {[bufcode |-> "REQUEST_OK", tagcode |-> "response", value |-> Right[tag]],
                 [bufcode |-> "REQUEST_OK", tagcode |-> "request", value |-> "none"],
                 [bufcode |-> "REQUEST_ERR", tagcode |-> "request", value |-> "none"]} :
         mem' = [l \in Lines |-> [w \in Words |-> IF LineOf(w) = l THEN a[w] ELSE mem[l][w]]]
    /\ UNCHANGED <<aligned, tag, cache, got, mailPc>>

MboxRead == /\ mailPc = "wait" /\ vc = "answered"
            /\ vc' = "idle" /\ mailPc' = "check"
            /\ UNCHANGED <<aligned, tag, mem, cache, got>>

\* The answer is read through the cache, word after word.  An error or a code
\* that is neither ends the program, and so does a tag that was not answered.
ReadCode == /\ mailPc = "check"
            /\ mailPc' = IF Seen("bufcode") = "REQUEST_OK" THEN "copy" ELSE "panic"
            /\ UNCHANGED <<aligned, tag, mem, cache, vc, got>>

\* A plausible bug: the tag's own code is not looked at.
TagNotLookedAt(code) == TRUE

TagAnswered(code) == code = "response"

CopyTag == /\ mailPc = "copy"
           /\ mailPc' = IF TagAnswered(Seen("tagcode")) THEN "value" ELSE "panic"
           /\ UNCHANGED <<aligned, tag, mem, cache, vc, got>>

CopyValue == /\ mailPc = "value"
             /\ got' = Seen("value") /\ mailPc' = "returned"
             /\ UNCHANGED <<aligned, tag, mem, cache, vc>>

Return == /\ mailPc = "returned" /\ mailPc' = "call"
          /\ UNCHANGED <<aligned, tag, mem, cache, vc, got>>

------------------------------------------------------------------------------
(* The cache, while mail waits: what lies beside the buffer is read or      *)
(* written, or a line has to make room.                                     *)

Waiting == {"write", "wait", "check", "copy", "value"}

Refill == /\ mailPc \in Waiting
          /\ \E l \in Lines, d \in {"clean", "dirty"} :
               /\ cache[l].state = "absent"
               /\ cache' = [cache EXCEPT ![l] = [state |-> d, words |-> mem[l]]]
          /\ UNCHANGED <<aligned, tag, mem, vc, got, mailPc>>

Evict == /\ mailPc \in Waiting
         /\ \E l \in Lines :
              /\ cache[l].state # "absent"
              /\ cache' = [cache EXCEPT ![l] = Absent]
              /\ mem' = IF cache[l].state = "dirty" THEN [mem EXCEPT ![l] = cache[l].words] ELSE mem
         /\ UNCHANGED <<aligned, tag, vc, got, mailPc>>

------------------------------------------------------------------------------
MailInit == /\ aligned = TRUE /\ tag \in Tags
            /\ mem = [l \in Lines |-> Request] /\ cache = Flushed
            /\ vc = "idle" /\ got = "none" /\ mailPc = "call"

MailNext == \/ FillAndFlush \/ MboxWrite \/ VcAnswer \/ MboxRead \/ ReadCode \/ CopyTag \/ CopyValue \/ Return
            \/ Refill \/ Evict

------------------------------------------------------------------------------
\* Every line of the buffer is in one state.
TypeOK == /\ \A l \in Lines : cache[l].state \in {"absent", "clean", "dirty"}
          /\ vc \in {"idle", "asked", "answered"}
          /\ mailPc \in {"call", "returned", "panic"} \cup Waiting

\* What a ptag_ function returns is VideoCore's answer to this request, never
\* the zeros the buffer was filled with: a line that was cached again before
\* the answer holds the tag's code and its value alike, and the code betrays
\* it (mail, ptag_get_*).
ReplyFresh == mailPc = "returned" => got = Right[tag]
==============================================================================
