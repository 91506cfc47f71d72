------------------------------- MODULE DataPath -------------------------------
(* The way of an image below the upload protocol: the framing of the serial *)
(* line, and the three layers of the XZ decoder.  Each behaviour runs one   *)
(* of the four, the one part names; the variables of the others hold None.  *)
(* The layers of the decoder share the variables they name alike.           *)
EXTENDS PupFraming, Integers, FiniteSets

CONSTANTS
    None,
    InRequired, RcInitBytes, DictSize, Base, MaxIn, MaxOut, Lzma2Plans,
    StreamHeaderSize, Align, CrcBytes, VliBase, VliBytesMax, OutSize, MaxFrame, Hold,
    StreamPlans,
    Unit, TempSize, Lead, MaxGive, MaxRoom, Blocks

\* The BCJ filter: temp.buf holds at least an instruction.
ASSUME BcjAssumption ==
    /\ Unit \in Nat \ {0} /\ TempSize \in Nat /\ Unit <= TempSize
    /\ Lead \in Nat /\ MaxGive \in Nat /\ MaxRoom \in Nat
    /\ Blocks \subseteq Seq(BOOLEAN)

\* LZMA2: the symbols read what LZMA_IN_REQUIRED allows for.
ASSUME Lzma2Assumption ==
    /\ InRequired \in Nat /\ InRequired >= 2 /\ RcInitBytes \in Nat
    /\ DictSize \in Nat /\ Base \in Nat /\ MaxIn \in Nat /\ MaxOut \in Nat

\* The container: the buffers have a size.
ASSUME StreamAssumption ==
    /\ StreamHeaderSize \in Nat /\ Align \in Nat /\ OutSize \in Nat
    /\ MaxFrame \in Nat /\ VliBase \in Nat /\ Hold \in Nat

VARIABLES part,
    stream, inPos, inSize, out, outSize, pc, ret, l2, dict, lzma, rc, temp, tmp,
    file, fed, outBuf, image, verdict, s, pend,
    data, given, ended, bcj, room

lzma2Only == <<inSize, outSize, l2, dict, lzma, rc, temp, tmp, stream>>
streamOnly == <<file, fed, outBuf, image, verdict, s, pend>>
bcjOnly == <<data, given, ended, bcj, room>>
shared == <<inPos, out, pc, ret>>
all == <<part, vars, shared, lzma2Only, streamOnly, bcjOnly>>

L == INSTANCE XzLzma2 WITH Plans <- Lzma2Plans
S == INSTANCE XzStream WITH HeaderSize <- StreamHeaderSize, Plans <- StreamPlans
B == INSTANCE XzBcj

Elements(q) == {q[i] : i \in DOMAIN q}

\* What an LZMA2 stream and an .xz file are made of.
IsLzma2(e) ==
    /\ e.bytes \in Seq(Nat)
    /\ \A c \in Elements(e.chunks) :
         /\ c.zero \in BOOLEAN /\ c.syms \in Seq(Elements(c.syms))
         /\ \A y \in Elements(c.syms) : L!SymbolOk(y)
IsFile(bytes) ==
    /\ bytes \in Seq(Elements(bytes))
    /\ \A z \in Elements(bytes) :
         /\ z[1] = "b" => z[2] \in Nat
         /\ z[1] = "z" => z[2] \in Seq(Nat)

ASSUME EncodedAssumption ==
    /\ \A p \in Lzma2Plans : IsLzma2(L!Encode(p))
    /\ \A p \in StreamPlans : IsFile(S!Encode(p).bytes)

------------------------------------------------------------------------------
\* The variables that nobody uses while one part runs.
NoFrames == /\ script = None /\ cur = None /\ rest = None /\ sent = None /\ line = None
            /\ faults = None /\ rx = None /\ due = None /\ got = None /\ clean = None
NoLzma2 == /\ stream = None /\ inSize = None /\ outSize = None /\ l2 = None /\ dict = None
           /\ lzma = None /\ rc = None /\ temp = None /\ tmp = None
NoStream == /\ file = None /\ fed = None /\ outBuf = None /\ image = None
            /\ verdict = None /\ s = None /\ pend = None
NoBcj == data = None /\ given = None /\ ended = None /\ bcj = None /\ room = None

DataInit ==
    \/ /\ part = "frames" /\ Init /\ NoLzma2 /\ NoStream /\ NoBcj
       /\ inPos = None /\ out = None /\ pc = None /\ ret = None
    \/ part = "lzma2" /\ L!Init /\ NoFrames /\ NoStream /\ NoBcj
    \/ part = "stream" /\ S!Init /\ NoFrames /\ NoLzma2 /\ NoBcj /\ out = None
    \/ part = "bcj" /\ B!Init /\ NoFrames /\ NoLzma2 /\ NoStream /\ inPos = None

decoder == <<shared, lzma2Only, streamOnly, bcjOnly>>

\* The receiver, the timer and the rest of the line.
FrameReceiver == part = "frames" /\ Receiver /\ UNCHANGED <<part, decoder>>
FrameTimer == part = "frames" /\ TimerExpires /\ UNCHANGED <<part, decoder>>
FrameLine == /\ part = "frames"
             /\ Start \/ Put \/ Lose \/ Damage \/ Chatter \/ Call
             /\ UNCHANGED <<part, decoder>>

Lzma2Step == part = "lzma2" /\ L!Next /\ UNCHANGED <<part, vars, streamOnly, bcjOnly>>
StreamStep == part = "stream" /\ S!Next /\ UNCHANGED <<part, vars, lzma2Only, bcjOnly, out>>
BcjGive == part = "bcj" /\ B!Give /\ UNCHANGED <<part, vars, lzma2Only, streamOnly, inPos>>
BcjRun == part = "bcj" /\ B!Run /\ UNCHANGED <<part, vars, lzma2Only, streamOnly, inPos>>

DataNext == \/ FrameReceiver \/ FrameTimer \/ FrameLine
            \/ Lzma2Step \/ StreamStep \/ BcjGive \/ BcjRun

DataSpec == /\ DataInit /\ [][DataNext]_all
            /\ WF_all(FrameReceiver) /\ WF_all(FrameTimer)
            /\ WF_all(Lzma2Step) /\ WF_all(StreamStep)
            /\ SF_all(BcjGive) /\ WF_all(BcjRun)

------------------------------------------------------------------------------
\* Every layer stays inside its buffers: fsm_recv's header and body, the
\* container decoder's temporary and output buffers, the BCJ filter's
\* temp.buf, and for LZMA2 the reads of the range decoder and the circular
\* dictionary (fsm_recv, fill_temp, xz_dec_bcj_run, lzma2_lzma, dict_repeat).
StaysInBounds ==
    /\ part = "frames" => TypeOK
    /\ part = "lzma2" => L!TypeOK /\ L!ReadsInBounds /\ L!DictInvariant
    /\ part = "stream" => S!TypeOK
    /\ part = "bcj" => B!TypeOK

\* PupFraming: what fsm_recv and fsm_recv_ack hand on is a subsequence of what
\* the peer sent.
FramesWereSent == part = "frames" => DeliveredWasSent

\* PupFraming: a frame that starts in step with the receiver and is not
\* disturbed is delivered, whatever went wrong on the line before it.
IntactFrameDelivered == part = "frames" => IntactDelivered

\* XzLzma2: the output is that of the reference decoder, however the input and
\* the room for output are cut into calls of xz_dec_lzma2_run.
OutputIsReference == part = "lzma2" => L!OutputIsReference

\* XzStream: the image and the verdict are those of the file, however
\* platform_feed gets it, and damage of any field is found and named.
FeedFaithful == part = "stream" => S!FeedFaithful

\* XzBcj: the filter converts the same instructions at the same addresses
\* however the block is cut (xz_dec_bcj_run).
FilteredOnce == part = "bcj" => B!FilteredOnce

\* Every layer of the decoder reaches its verdict with the input cut anywhere:
\* no call of xz_dec_lzma2_run, platform_feed or xz_dec_bcj_run loops for ever
\* or waits for input that will not come.
Completes ==
    <>[](CASE part = "frames" -> TRUE
           [] part = "lzma2" -> L!Completed
           [] part = "stream" -> S!Completed
           [] part = "bcj" -> B!Completed)

\* PupFraming: a receive call always returns, whatever the peer does.
ReceiveReturns ==
    (part = "frames" /\ rx.pc # "idle") ~> (part = "frames" /\ rx.pc = "idle")
==============================================================================
