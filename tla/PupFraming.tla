----------------------------- MODULE PupFraming -----------------------------
(***************************************************************************)
(* The framing of pup/fsm.c, one byte at a time.  A peer writes frames     *)
(* (fsm_send) and acknowledgements (fsm_send_ack) to the serial line; the  *)
(* line may lose or damage single bytes and carries other bytes between    *)
(* the frames; the receiver runs fsm_recv or fsm_recv_ack, which find the  *)
(* start of a frame again after an error.  Nothing is escaped, so any byte *)
(* of a header or a body may look like the start of a frame.               *)
(*                                                                         *)
(* A byte is a one-element tuple.  The two bytes of a frame check sequence *)
(* are tagged with the bytes they cover: an ideal checksum, which no other *)
(* content satisfies.  A header is two bytes (identity and payload         *)
(* length; the type travels with them) and its check sequence.             *)
(***************************************************************************)
EXTENDS Naturals, Sequences

CONSTANTS
  Scripts,     \* what the peer may send: sequences of frames and acks
  Calls,       \* the receive calls the receiver's owner may make
  Noise,       \* bytes the peer writes outside frames (console output)
  Garbled,     \* what a damaged byte may become
  MaxFaults,   \* bound on lost and damaged bytes
  MaxLine      \* bytes in flight: the UART's and the driver's buffers

\* Bytes other than those of a check sequence, and what is sent.
PlainBytes == {b \in Seq(Nat) : Len(b) = 1}
Transmissions == {f \in [kind : {"frame", "ack"}, iden : Nat, body : Seq(PlainBytes)] :
                    f.kind = "ack" => f.body = <<>>}

ASSUME BoundsAssumption == MaxFaults \in Nat /\ MaxLine \in Nat \ {0}

\* Nothing but a check sequence looks like one: the checksum is ideal.
ASSUME LineAssumption ==
  /\ Scripts \subseteq Seq(Transmissions) /\ Calls \subseteq Transmissions
  /\ Noise \subseteq PlainBytes /\ Garbled \subseteq PlainBytes

VARIABLES
  script,      \* what the peer still has to start sending
  cur,         \* the frame or acknowledgement being sent, or last sent
  rest,        \* bytes of cur still to be written
  sent,        \* every frame and acknowledgement started so far
  line,        \* bytes written and not yet read
  faults,      \* bytes lost or damaged so far
  rx,          \* the receiver: where it is, its call and its buffers
  due,         \* TIMER_RESET or TIMER_RESEND has expired
  got,         \* what calls that returned FSM_OK delivered
  clean        \* cur started in step with the receiver and was not disturbed

vars == <<script, cur, rest, sent, line, faults, rx, due, got, clean>>

(***************************************************************************)
(* Bytes and frames.                                                       *)
(***************************************************************************)
ASC_SOH == <<1>>
ASC_STX == <<2>>
ASC_ETX == <<3>>
ASC_EOT == <<4>>
ASC_ACK == <<6>>

\* The two bytes that make fcs16 over the covered bytes yield FCS_OK.
fcs16(covered) == << <<"lo", covered>>, <<"hi", covered>> >>

FcsOk(buf) ==
  /\ Len(buf) >= 2
  /\ LET covered == SubSeq(buf, 1, Len(buf) - 2)
     IN SubSeq(buf, Len(buf) - 1, Len(buf)) = fcs16(covered)

Frame(iden, body) == [kind |-> "frame", iden |-> iden, body |-> body]
Ack(iden) == [kind |-> "ack", iden |-> iden, body |-> <<>>]

HeaderOf(f) == << <<f.iden>>, <<Len(f.body)>> >>

fsm_send(f) ==
  <<ASC_SOH>> \o HeaderOf(f) \o fcs16(HeaderOf(f))
    \o <<ASC_STX>> \o f.body \o fcs16(f.body) \o <<ASC_ETX, ASC_EOT>>

fsm_send_ack(f) ==
  <<ASC_ACK>> \o << <<f.iden>> >> \o fcs16(<< <<f.iden>> >>) \o <<ASC_EOT>>

BytesOf(f) == IF f.kind = "frame" THEN fsm_send(f) ELSE fsm_send_ack(f)

Idle == [pc |-> "idle", call |-> Frame(0, <<>>), hdr |-> <<>>, body |-> <<>>]

\* A plausible bug: starting over without emptying the buffers.
WaitingDirty(r) == [r EXCEPT !.pc = "start"]

Waiting(r) == [r EXCEPT !.pc = "start", !.hdr = <<>>, !.body = <<>>]

Init ==
  /\ script \in Scripts
  /\ cur = Frame(0, <<>>) /\ rest = <<>> /\ sent = <<>>
  /\ line = <<>> /\ faults = 0
  /\ rx = Idle /\ due = FALSE /\ got = <<>> /\ clean = FALSE

(***************************************************************************)
(* The peer and the line.                                                  *)
(***************************************************************************)

\* The receiver would accept f: it runs the call f is meant for.
Expects(f) ==
  /\ rx.call.kind = f.kind
  /\ f.kind = "ack" => rx.call.iden = f.iden

\* The peer starts a frame.  It is in step when everything before it has
\* been read and the receiver looks for the start of such a frame.
Start ==
  /\ rest = <<>> /\ script # <<>>
  /\ cur' = Head(script) /\ script' = Tail(script)
  /\ rest' = BytesOf(Head(script))
  /\ sent' = Append(sent, Head(script))
  /\ clean' = (line = <<>> /\ rx.pc = "start" /\ Expects(Head(script)))
  /\ UNCHANGED <<line, faults, rx, due, got>>

Put ==
  /\ rest # <<>> /\ Len(line) < MaxLine
  /\ line' = Append(line, Head(rest)) /\ rest' = Tail(rest)
  /\ UNCHANGED <<script, cur, sent, faults, rx, due, got, clean>>

\* A byte is lost: a receiver overrun (the code prints it and goes on).
Lose ==
  /\ rest # <<>> /\ faults < MaxFaults
  /\ rest' = Tail(rest) /\ faults' = faults + 1 /\ clean' = FALSE
  /\ UNCHANGED <<script, cur, sent, line, rx, due, got>>

Damage ==
  /\ rest # <<>> /\ faults < MaxFaults /\ Len(line) < MaxLine
  /\ \E b \in Garbled : b # Head(rest) /\ line' = Append(line, b)
  /\ rest' = Tail(rest) /\ faults' = faults + 1 /\ clean' = FALSE
  /\ UNCHANGED <<script, cur, sent, rx, due, got>>

\* Other bytes of the peer, between its frames.
Chatter ==
  /\ rest = <<>> /\ Len(line) < MaxLine
  /\ \E b \in Noise : line' = Append(line, b)
  /\ UNCHANGED <<script, cur, rest, sent, faults, rx, due, got, clean>>

(***************************************************************************)
(* The receiver: fsm_recv and fsm_recv_ack.                                *)
(***************************************************************************)
StartByte == IF rx.call.kind = "frame" THEN ASC_SOH ELSE ASC_ACK

HeaderSize == IF rx.call.kind = "frame" THEN 4 ELSE 3

BodySize == rx.hdr[2][1] + 2

Call ==
  /\ rx.pc = "idle"
  /\ \E c \in Calls :
       /\ rx' = Waiting([rx EXCEPT !.call = c])
       /\ clean' = (clean /\ c.kind = rx.call.kind /\ c.iden = rx.call.iden)
  /\ UNCHANGED <<script, cur, rest, sent, line, faults, due, got>>

TimerExpires ==
  /\ ~due /\ due' = TRUE
  /\ UNCHANGED <<script, cur, rest, sent, line, faults, rx, got, clean>>

\* FSM_RESET or FSM_RESEND: looked at only while waiting for a start byte,
\* and before a byte is read.
ReturnTimer ==
  /\ rx.pc = "start" /\ due
  /\ rx' = [rx EXCEPT !.pc = "idle"] /\ due' = FALSE
  /\ UNCHANGED <<script, cur, rest, sent, line, faults, got, clean>>

\* What the receiver does with byte b; rx.pc says which loop it is in.
AfterStart(b) ==
  IF b = StartByte THEN [rx EXCEPT !.pc = "hdr"] ELSE rx

AfterHeader(b) ==
  LET hdr == Append(rx.hdr, b)
  IN IF Len(hdr) < HeaderSize THEN [rx EXCEPT !.hdr = hdr]
     ELSE IF rx.call.kind = "ack" THEN [rx EXCEPT !.hdr = hdr, !.pc = "eot"]
     ELSE IF FcsOk(hdr) THEN [rx EXCEPT !.hdr = hdr, !.pc = "stx"]
     ELSE Waiting(rx)

AfterStx(b) == IF b = ASC_STX THEN [rx EXCEPT !.pc = "body"] ELSE Waiting(rx)

AfterBody(b) ==
  LET body == Append(rx.body, b)
  IN [rx EXCEPT !.body = body, !.pc = IF Len(body) = BodySize THEN "etx" ELSE "body"]

AfterEtx(b) == IF b = ASC_ETX THEN [rx EXCEPT !.pc = "eot"] ELSE Waiting(rx)

Received ==
  IF rx.call.kind = "frame"
  THEN Frame(rx.hdr[1][1], SubSeq(rx.body, 1, Len(rx.body) - 2))
  ELSE Ack(rx.hdr[1][1])

\* A plausible bug: the body's check sequence is received and not compared.
AcceptsUnchecked(b) == b = ASC_EOT /\ (rx.call.kind = "ack" => rx.hdr[1] = <<rx.call.iden>>)

Accepts(b) ==
  /\ b = ASC_EOT
  /\ FcsOk(IF rx.call.kind = "frame" THEN rx.body ELSE rx.hdr)
  /\ rx.call.kind = "ack" => rx.hdr[1] = <<rx.call.iden>>

ReadStart ==
  /\ rx.pc = "start" /\ ~due /\ line # <<>>
  /\ rx' = AfterStart(Head(line)) /\ line' = Tail(line)
  /\ UNCHANGED <<script, cur, rest, sent, faults, due, got, clean>>

ReadInside ==
  /\ line # <<>>
  /\ line' = Tail(line)
  /\ \/ rx.pc = "hdr"  /\ rx' = AfterHeader(Head(line))
     \/ rx.pc = "stx"  /\ rx' = AfterStx(Head(line))
     \/ rx.pc = "body" /\ rx' = AfterBody(Head(line))
     \/ rx.pc = "etx"  /\ rx' = AfterEtx(Head(line))
  /\ UNCHANGED <<script, cur, rest, sent, faults, due, got, clean>>

ReadLast ==
  /\ rx.pc = "eot" /\ line # <<>>
  /\ line' = Tail(line)
  /\ IF Accepts(Head(line))
     THEN got' = Append(got, Received) /\ rx' = [Waiting(rx) EXCEPT !.pc = "idle"]
     ELSE got' = got /\ rx' = Waiting(rx)
  /\ UNCHANGED <<script, cur, rest, sent, faults, due, clean>>

Silent == {"hdr", "stx", "body", "etx", "eot"}

\* A plausible bug: the wait for ETX and EOT has no time limit.
SymbolTimeoutPartial ==
  /\ rx.pc \in {"hdr", "stx", "body"} /\ line = <<>>
  /\ rx' = Waiting(rx) /\ clean' = FALSE
  /\ UNCHANGED <<script, cur, rest, sent, line, faults, due, got>>

\* TIMER_SYMBOL: no byte for symbol_timeout while inside a frame.
SymbolTimeout ==
  /\ rx.pc \in Silent /\ line = <<>>
  /\ rx' = Waiting(rx) /\ clean' = FALSE
  /\ UNCHANGED <<script, cur, rest, sent, line, faults, due, got>>

Receiver == ReadStart \/ ReadInside \/ ReadLast \/ SymbolTimeout \/ ReturnTimer

Next ==
  \/ Start \/ Put \/ Lose \/ Damage \/ Chatter
  \/ Call \/ TimerExpires \/ Receiver

\* The receiver's loops keep running and time passes; the peer owes nothing
\* and may chatter for ever.
Spec == Init /\ [][Next]_vars /\ WF_vars(Receiver) /\ WF_vars(TimerExpires)

(***************************************************************************)
(* Properties.                                                             *)
(***************************************************************************)
Pcs == {"idle", "start"} \cup Silent

\* The receiver's control state and counters stay in range, and it never
\* holds more bytes of a header or a body than the frame being read has.
TypeOK ==
  /\ rx.pc \in Pcs /\ faults \in 0..MaxFaults /\ Len(line) <= MaxLine
  /\ due \in BOOLEAN /\ clean \in BOOLEAN
  /\ Len(rx.hdr) <= HeaderSize
  /\ rx.body # <<>> => Len(rx.body) <= BodySize

Increasing(f) == \A i, j \in DOMAIN f : i < j => f[i] < f[j]

\* What fsm_recv and fsm_recv_ack hand to the state machines is a subsequence
\* of what the peer sent: never a frame put together from two, never the same
\* transmission twice, never out of order (the channel PupProtocol assumes).
\* The check sequences of header and body are separate (fsm.c:195, 219), so
\* this needs fewer faults than there are bytes between two STX.
DeliveredWasSent ==
  \E f \in [DOMAIN got -> DOMAIN sent] :
    /\ Increasing(f)
    /\ \A i \in DOMAIN got : got[i] = sent[f[i]]

\* Resynchronisation: whatever was lost, damaged or misread before, a frame
\* that starts when the line is drained and the receiver is looking for its
\* start, and is not itself disturbed, is delivered once all its bytes are read.
IntactDelivered ==
  clean /\ rest = <<>> /\ line = <<>> =>
    got # <<>> /\ got[Len(got)] = cur

\* A receive call always returns: a lost byte cannot leave it inside a frame
\* and a peer that never stops chattering cannot keep TIMER_RESET and
\* TIMER_RESEND from being seen.
CallReturns == rx.pc # "idle" ~> rx.pc = "idle"
=============================================================================
