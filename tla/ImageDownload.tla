---------------------------- MODULE ImageDownload ----------------------------
(***************************************************************************)
(* What the boot loader promises, without frames, identifiers and timers:  *)
(* it takes the chunks of one image in order, comes to a verdict about all *)
(* of them, and boots after the verdict or starts over.                    *)
(***************************************************************************)
EXTENDS Naturals, Sequences

CONSTANTS Images, Chunks, Packed, Unloadable

VARIABLES
    st,    \* "idle", "receiving", "verdict" or "booted"
    img,   \* the announced image
    got,   \* the chunks received: <<image they are from, chunk number>>
    ok     \* the verdict

vars == <<st, img, got, ok>>

Init == st = "idle" /\ img \in Images /\ got = <<>> /\ ok = FALSE

\* A session starts with an image and with nothing received.
Begin ==
    /\ st = "idle"
    /\ st' = "receiving"
    /\ img' \in Images
    /\ got' = <<>>
    /\ ok' = ok

\* The next chunk in order.  It may be another image's: a chunk does not say
\* whose it is.
Receive ==
    /\ st = "receiving"
    /\ Len(got) < Chunks[img]
    /\ \E source \in Images : got' = Append(got, <<source, Len(got)>>)
    /\ UNCHANGED <<st, img, ok>>

Complete == got = [k \in 1 .. Chunks[img] |-> <<img, k - 1>>]

\* The verdict is about as many chunks as the image has, and is right about
\* an image that came complete.  An image that did not is refused, unless it
\* was announced as packed: then nothing compares it with the announcement.
Judge ==
    /\ st = "receiving"
    /\ Len(got) = Chunks[img]
    /\ st' = "verdict"
    /\ ok' \in BOOLEAN
    /\ Complete => (ok' <=> img \notin Unloadable)
    /\ ok' => Complete \/ img \in Packed
    /\ UNCHANGED <<img, got>>

Boot ==
    /\ st = "verdict"
    /\ st' = "booted"
    /\ UNCHANGED <<img, got, ok>>

\* A timeout, a failing platform_feed or a power cycle.
Abandon ==
    /\ st' = "idle"
    /\ UNCHANGED <<img, got, ok>>

Next == Begin \/ Receive \/ Judge \/ Boot \/ Abandon

Spec == Init /\ [][Next]_vars

=============================================================================
