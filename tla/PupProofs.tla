------------------------------ MODULE PupProofs ------------------------------
(***************************************************************************)
(* Proofs about PupProtocol, for every set of images, every line capacity, *)
(* every number of losses, retries, host invocations and power cycles.     *)
(***************************************************************************)
EXTENDS PupProtocol, TLAPS, SequenceTheorems

USE DEF Off, Cleared, Age

-----------------------------------------------------------------------------
(* The line and the timers *)

\* fsm_send keeps the frames on the line within any set that has the new one.
LEMMA SendIn ==
    ASSUME NEW S, NEW chan \in Seq(S), NEW f \in S
    PROVE  Send(chan, f) \in Seq(S)
  BY AppendProperties DEF Send

\* Reading a frame off the line: the frame and what is left behind it.
LEMMA ReadIn ==
    ASSUME NEW S, NEW chan \in Seq(S), chan # <<>>
    PROVE  Head(chan) \in S /\ Tail(chan) \in Seq(S)
  BY HeadTailProperties

\* Every frame either side builds has the type of its direction.
LEMMA FrameTypes ==
    ASSUME NEW i \in Images, NEW id \in Iden, NEW n \in Nat, NEW v \in BOOLEAN
    PROVE  /\ Poll(i) \in ToDevFrame
           /\ Chnk(id, i, n) \in ToDevFrame
           /\ Ack(id) \in ToDevFrame
           /\ Ack(id) \in ToHostFrame
           /\ Rqch(id, n) \in ToHostFrame
           /\ Beat(id) \in ToHostFrame
           /\ Boot(id, v) \in ToHostFrame
  BY DEF Poll, Chnk, Ack, Rqch, Beat, Boot, ToDevFrame, ToHostFrame

\* What a received frame carries, by type.
LEMMA FrameFields ==
    /\ \A f \in ToDevFrame :
         /\ f.iden \in Iden
         /\ f.type = "POLL" => f.img \in Images
         /\ f.type = "CHNK" => f.img \in Images /\ f.num \in Nat
    /\ \A f \in ToHostFrame :
         /\ f.iden \in Iden
         /\ f.type = "RQCH" => f.num \in Nat
         /\ f.type = "BOOT" => f.ok \in BOOLEAN
  <1>1. 0 \in Iden
    BY IdenAssumption DEF Iden
  <1>2. QED
    BY <1>1 DEF ToDevFrame, ToHostFrame

\* Zero is a frame identifier, and so is the successor modulo IdenMod.
LEMMA IdenFacts ==
    /\ 0 \in Iden
    /\ \A id \in Iden : (id + 1) % IdenMod \in Iden
  BY IdenAssumption DEF Iden

\* A timer that gets older stays within its range.
LEMMA OlderIn ==
    ASSUME NEW period \in Nat \ {0}, NEW age \in Age(period)
    PROVE  Older(age, period) \in Age(period)
  BY DEF Older

-----------------------------------------------------------------------------
(* Type correctness *)

\* A verdict is a Boolean, and the finding on the image if it came complete.
LEMMA VerdictValues ==
    /\ Verdicts \subseteq BOOLEAN
    /\ Intact => \A v \in Verdicts : v <=> dImg \notin Unloadable
    /\ (\E v \in Verdicts : v) => Intact \/ dImg \in Packed
  BY Zenon DEF Verdicts

\* Every step of the protocol keeps every variable in its type.
LEMMA TypeStep == TypeOK /\ [Next]_vars => TypeOK'
  <1> SUFFICES ASSUME TypeOK, [Next]_vars PROVE TypeOK'
    OBVIOUS
  <1> USE DEF TypeOK
  <1>p. ResetPeriod \in Nat \ {0} /\ ResendPeriod \in Nat \ {0} /\ Retries \in Nat
    BY BoundsAssumption
  <1>h. ASSUME toHost # <<>>
        PROVE  Head(toHost) \in ToHostFrame /\ Tail(toHost) \in Seq(ToHostFrame)
    BY <1>h, ReadIn
  <1>d. ASSUME toDev # <<>>
        PROVE  Head(toDev) \in ToDevFrame /\ Tail(toDev) \in Seq(ToDevFrame)
    BY <1>d, ReadIn
  <1>1. CASE Tick
    BY <1>1, <1>p, OlderIn DEF Tick, line, aux
  <1>2. CASE Damage
    <2>1. lost' \in Nat
      BY <1>2 DEF Damage
    <2>2. toDev' \in Seq(ToDevFrame) /\ toHost' \in Seq(ToHostFrame)
      BY <1>2, <1>h, <1>d DEF Damage
    <2>3. UNCHANGED <<aux, host, dev>>
      BY <1>2 DEF Damage
    <2>4. QED
      BY <2>1, <2>2, <2>3 DEF aux, host, dev
  <1>3. ASSUME NEW i \in Images, HostStart(i) PROVE TypeOK'
    <2>1. Send(toDev, Poll(i)) \in Seq(ToDevFrame)
      BY SendIn, FrameTypes, IdenFacts
    <2>2. QED
      BY <1>3, <1>p, <2>1 DEF HostStart, HostPolls, dev
  <1>4. CASE HostReset
    <2>1. Send(toDev, Poll(hImg)) \in Seq(ToDevFrame)
      BY SendIn, FrameTypes, IdenFacts
    <2>2. QED
      BY <1>4, <1>p, <2>1 DEF HostReset, HostPolls, dev, aux
  <1>5. CASE HostResend
    <2>1. Send(toDev, Poll(hImg)) \in Seq(ToDevFrame)
      BY SendIn, FrameTypes, IdenFacts
    <2>2. QED
      BY <1>5, <1>p, <2>1 DEF HostResend, dev, aux
  <1>6. CASE HostReceives
    <2>1. CASE HostPollAcked
      BY <2>1, <1>p, <1>h DEF HostPollAcked, Arrives, dev, aux
    <2>2. CASE HostSkip
      BY <2>2, <1>h DEF HostSkip, Arrives, host, dev, aux
    <2>3. CASE HostServe
      <3> DEFINE f == Head(toHost)
      <3>1. f \in ToHostFrame /\ f.iden \in Iden /\ f.num \in Nat
        BY <2>3, <1>h, FrameFields DEF HostServe, Arrives
      <3>2. Send(toDev, Chnk(f.iden, hImg, f.num)) \in Seq(ToDevFrame)
        BY <3>1, SendIn, FrameTypes
      <3> HIDE DEF f
      <3>3. QED
        BY <2>3, <1>p, <1>h, <3>1, <3>2 DEF HostServe, Arrives, dev, aux, f
    <2>4. CASE HostBeat
      BY <2>4, <1>p, <1>h DEF HostBeat, Arrives, dev, aux
    <2>5. CASE HostBoot
      <3>1. Head(toHost).iden \in Iden
        BY <2>5, <1>h, FrameFields DEF HostBoot, Arrives
      <3>2. Send(toDev, Ack(Head(toHost).iden)) \in Seq(ToDevFrame)
        BY <3>1, SendIn, FrameTypes
      <3>3. told' \subseteq Images \X BOOLEAN
        <4>1. (Verdict(Head(toHost)) = "OK") \in BOOLEAN
          OBVIOUS
        <4>2. <<hImg, Verdict(Head(toHost)) = "OK">> \in Images \X BOOLEAN
          BY <4>1
        <4>3. QED
          BY <2>5, <4>2 DEF HostBoot
      <3>4. QED
        BY <2>5, <1>p, <1>h, <3>2, <3>3 DEF HostBoot, Arrives, Verdict, dev
    <2>6. QED
      BY <1>6, <2>1, <2>2, <2>3, <2>4, <2>5 DEF HostReceives
  <1>7. CASE DevReset
    BY <1>7, IdenFacts DEF DevReset, DevToInit, line, aux, host
  <1>8. CASE DevResend
    <2>1. /\ Send(toHost, Rqch(dIden, dNum)) \in Seq(ToHostFrame)
          /\ Send(toHost, Boot(dIden, dOk)) \in Seq(ToHostFrame)
      BY SendIn, FrameTypes
    <2>2. QED
      BY <1>8, <1>p, <2>1 DEF DevResend, aux, host
  <1>9. CASE DevReceives
    <2>1. CASE DevPolled
      <3>1. Head(toDev).img \in Images
        BY <2>1, <1>d, FrameFields DEF DevPolled, Arrives
      <3>2. /\ Send(toHost, Ack(0)) \in Seq(ToHostFrame)
            /\ Send(Send(toHost, Ack(0)), Rqch(dIden, 0)) \in Seq(ToHostFrame)
        BY SendIn, FrameTypes, IdenFacts
      <3>3. /\ toDev' \in Seq(ToDevFrame) /\ toHost' \in Seq(ToHostFrame)
            /\ dImg' \in Images /\ dFed' = <<>>
            /\ dState' \in {"chunk", "load"} /\ dNum' = 0 /\ dBeats' = 0
            /\ dReset' = 0 /\ dResend' \in {0, dResend}
            /\ UNCHANGED <<lost, aux, host, dIden, dOk>>
        BY <2>1, <1>d, <3>1, <3>2 DEF DevPolled, Arrives
      <3>4. QED
        BY <3>3, <1>p DEF aux, host
    <2>2. CASE DevSkip
      BY <2>2, <1>d DEF DevSkip, Arrives, aux, host, dev
    <2>3. CASE DevFed
      <3>1. Head(toDev).img \in Images /\ Head(toDev).num \in Nat
        BY <2>3, <1>d, FrameFields DEF DevFed, Arrives
      <3>2. Append(dFed, <<Head(toDev).img, Head(toDev).num>>) \in Seq(Images \X Nat)
        BY <3>1, AppendProperties
      <3>3. Send(toHost, Rqch((dIden + 1) % IdenMod, dNum + 1)) \in Seq(ToHostFrame)
        BY SendIn, FrameTypes, IdenFacts
      <3>4. QED
        BY <2>3, <1>p, <1>d, <3>2, <3>3, IdenFacts DEF DevFed, Arrives, aux, host
    <2>4. CASE DevFeedFails
      BY <2>4, <1>d, IdenFacts DEF DevFeedFails, DevToInit, Arrives, aux, host
    <2>5. CASE DevAsksAgain
      <3>1. Send(toHost, Rqch(dIden, dNum)) \in Seq(ToHostFrame)
        BY SendIn, FrameTypes
      <3>2. QED
        BY <2>5, <1>p, <1>d, <3>1 DEF DevAsksAgain, Arrives, aux, host
    <2>6. CASE DevBoots
      BY <2>6, <1>d DEF DevBoots, Arrives, aux, host
    <2>7. QED
      BY <1>9, <2>1, <2>2, <2>3, <2>4, <2>5, <2>6 DEF DevReceives
  <1>10. CASE DevLoads
    <2>1. CASE DevBeat
      <3>1. Send(toHost, Beat(dIden)) \in Seq(ToHostFrame)
        BY SendIn, FrameTypes
      <3>2. QED
        BY <2>1, <3>1 DEF DevBeat, aux, host
    <2>2. CASE DevLoaded
      <3>1. dOk' \in BOOLEAN
        BY <2>2, VerdictValues DEF DevLoaded
      <3>2. Send(toHost, Boot(dIden, dOk')) \in Seq(ToHostFrame)
        BY <3>1, SendIn, FrameTypes
      <3>3. QED
        BY <2>2, <1>p, <3>1, <3>2 DEF DevLoaded, host
    <2>3. QED
      BY <1>10, <2>1, <2>2 DEF DevLoads
  <1>11. CASE DevReboot
    BY <1>11, IdenFacts DEF DevReboot, DevToInit, line, host
  <1>12. CASE UNCHANGED vars
    BY <1>12 DEF vars, line, aux, host, dev
  <1>13. QED
    BY <1>1, <1>2, <1>3, <1>4, <1>5, <1>6, <1>7, <1>8, <1>9, <1>10, <1>11, <1>12
       DEF Next

\* The initial state is well typed.
LEMMA TypeInit == Init => TypeOK
  <1> SUFFICES ASSUME Init PROVE TypeOK
    OBVIOUS
  <1>1. /\ toDev \in Seq(ToDevFrame) /\ toHost \in Seq(ToHostFrame)
        /\ dFed \in Seq(Images \X Nat)
    BY EmptySeq DEF Init
  <1>2. QED
    BY <1>1, IdenFacts, BoundsAssumption DEF Init, TypeOK

\* The variables of both parties and the frames on the line keep their types.
THEOREM TypeCorrect == Spec => []TypeOK
  BY TypeInit, TypeStep, PTL DEF Spec

-----------------------------------------------------------------------------
(* Chunks are fed in order *)

\* A request names the chunk its identifier stands for, and so does a reply:
\* the device counts both from zero and the host copies both.
MatchedToHost == {f \in ToHostFrame : f.type = "RQCH" => f.iden = f.num}
MatchedToDev == {f \in ToDevFrame : f.type = "CHNK" => f.iden = f.num}

Matched == toHost \in Seq(MatchedToHost) /\ toDev \in Seq(MatchedToDev)

\* Where a session stands: identifier, chunk number and amount fed agree.
Session ==
    /\ dState = "init" => dIden = 0
    /\ dState # "init" => dIden = dNum /\ Len(dFed) = dNum
    /\ dState = "chunk" => dNum < Chunks[dImg]
    /\ dState \in {"load", "boot", "booted"} => dNum = Chunks[dImg]

Ordered == dState # "init" => \A k \in 1 .. Len(dFed) : dFed[k][2] = k - 1

\* Within a session the identifier does not wrap.
LEMMA NoWrap ==
    ASSUME TypeOK, dIden = dNum, dNum < Chunks[dImg]
    PROVE  (dIden + 1) % IdenMod = dNum + 1
  <1>1. dNum + 1 \in 0 .. IdenMod - 1
    <2>1. dImg \in Images /\ dNum \in Nat /\ Chunks[dImg] \in Nat
      BY ImagesAssumption DEF TypeOK
    <2>2. Chunks[dImg] < IdenMod /\ IdenMod \in Nat
      BY <2>1, IdenAssumption
    <2>3. QED
      BY <2>1, <2>2
  <1>2. ASSUME NEW m \in Nat \ {0}, NEW x \in 0 .. m - 1
        PROVE  x % m = x
    BY <1>2
  <1>3. IdenMod \in Nat \ {0}
    BY IdenAssumption
  <1>4. QED
    BY <1>1, <1>2, <1>3

\* Requests and replies keep naming the chunk their identifier stands for.
LEMMA MatchedStep == TypeOK /\ Session /\ Matched /\ [Next]_vars => Matched'
  <1> SUFFICES ASSUME TypeOK, Session, Matched, [Next]_vars PROVE Matched'
    OBVIOUS
  <1> USE DEF Matched
  <1>a. /\ \A i \in Images : Poll(i) \in MatchedToDev
        /\ \A id \in Iden : Ack(id) \in MatchedToDev /\ Ack(id) \in MatchedToHost
        /\ \A id \in Iden : Beat(id) \in MatchedToHost
        /\ \A id \in Iden, v \in BOOLEAN : Boot(id, v) \in MatchedToHost
        /\ \A id \in Iden : Rqch(id, id) \in MatchedToHost
        /\ \A id \in Iden, i \in Images : Chnk(id, i, id) \in MatchedToDev
    <2>1. Iden \subseteq Nat /\ 0 \in Iden
      BY IdenAssumption DEF Iden
    <2>2. QED
      BY <2>1 DEF MatchedToDev, MatchedToHost, Poll, Ack, Beat, Boot, Rqch, Chnk,
                  ToDevFrame, ToHostFrame
  <1>h. ASSUME toHost # <<>>
        PROVE  Head(toHost) \in MatchedToHost /\ Tail(toHost) \in Seq(MatchedToHost)
    BY <1>h, ReadIn
  <1>d. ASSUME toDev # <<>>
        PROVE  Head(toDev) \in MatchedToDev /\ Tail(toDev) \in Seq(MatchedToDev)
    BY <1>d, ReadIn
  <1>t. hImg \in Images /\ dIden \in Iden /\ dNum \in Nat /\ dOk \in BOOLEAN
    BY DEF TypeOK
  <1>1. CASE Tick
    BY <1>1 DEF Tick, line
  <1>2. CASE Damage
    BY <1>2, <1>h, <1>d DEF Damage
  <1>3. ASSUME NEW i \in Images, HostStart(i) PROVE Matched'
    BY <1>3, <1>a, SendIn DEF HostStart, HostPolls
  <1>4. CASE HostReset
    BY <1>4, <1>a, <1>t, SendIn DEF HostReset, HostPolls
  <1>5. CASE HostResend
    BY <1>5, <1>a, <1>t, SendIn DEF HostResend
  <1>6. CASE HostReceives
    <2>1. CASE HostPollAcked \/ HostSkip \/ HostBeat
      BY <2>1, <1>h DEF HostPollAcked, HostSkip, HostBeat, Arrives
    <2>2. CASE HostServe
      <3>1. Head(toHost).iden \in Iden /\ Head(toHost).iden = Head(toHost).num
        BY <2>2, <1>h, FrameFields DEF HostServe, Arrives, MatchedToHost
      <3>2. Send(toDev, Chnk(Head(toHost).iden, hImg, Head(toHost).num)) \in Seq(MatchedToDev)
        BY <3>1, <1>a, <1>t, SendIn
      <3>3. QED
        BY <2>2, <3>2, <1>h DEF HostServe, Arrives
    <2>3. CASE HostBoot
      <3>1. Head(toHost).iden \in Iden
        BY <2>3, <1>h, FrameFields DEF HostBoot, Arrives, MatchedToHost
      <3>2. Send(toDev, Ack(Head(toHost).iden)) \in Seq(MatchedToDev)
        BY <3>1, <1>a, SendIn
      <3>3. QED
        BY <2>3, <3>2, <1>h DEF HostBoot, Arrives
    <2>4. QED
      BY <1>6, <2>1, <2>2, <2>3 DEF HostReceives
  <1>7. CASE DevReset
    BY <1>7 DEF DevReset, line
  <1>8. CASE DevResend
    <2>1. dState = "chunk" => Send(toHost, Rqch(dIden, dNum)) \in Seq(MatchedToHost)
      BY <1>a, <1>t, SendIn DEF Session
    <2>2. Send(toHost, Boot(dIden, dOk)) \in Seq(MatchedToHost)
      BY <1>a, <1>t, SendIn
    <2>3. QED
      BY <1>8, <2>1, <2>2 DEF DevResend
  <1>9. CASE DevReceives
    <2>1. CASE DevPolled
      <3>1. Send(toHost, Ack(0)) \in Seq(MatchedToHost)
        BY <1>a, IdenFacts, SendIn
      <3>2. dIden = 0 /\ Rqch(dIden, 0) \in MatchedToHost
        BY <2>1, <1>a, IdenFacts DEF DevPolled, Session
      <3>3. Send(Send(toHost, Ack(0)), Rqch(dIden, 0)) \in Seq(MatchedToHost)
        BY <3>1, <3>2, SendIn
      <3>4. QED
        BY <2>1, <3>1, <3>3, <1>d DEF DevPolled, Arrives
    <2>2. CASE DevSkip \/ DevFeedFails \/ DevBoots
      BY <2>2, <1>d DEF DevSkip, DevFeedFails, DevBoots, Arrives
    <2>3. CASE DevFed
      <3>1. (dIden + 1) % IdenMod = dNum + 1 /\ (dIden + 1) % IdenMod \in Iden
        BY <2>3, <1>t, NoWrap, IdenFacts DEF DevFed, Session
      <3>2. Send(toHost, Rqch((dIden + 1) % IdenMod, dNum + 1)) \in Seq(MatchedToHost)
        BY <3>1, <1>a, SendIn
      <3>3. QED
        BY <2>3, <3>2, <1>d DEF DevFed, Arrives
    <2>4. CASE DevAsksAgain
      <3>1. Send(toHost, Rqch(dIden, dNum)) \in Seq(MatchedToHost)
        BY <2>4, <1>a, <1>t, SendIn DEF Session, DevAsksAgain
      <3>2. QED
        BY <2>4, <3>1, <1>d DEF DevAsksAgain, Arrives
    <2>5. QED
      BY <1>9, <2>1, <2>2, <2>3, <2>4 DEF DevReceives
  <1>10. CASE DevLoads
    <2>1. dOk' \in BOOLEAN \/ ~DevLoaded
      BY VerdictValues DEF DevLoaded
    <2>2. Send(toHost, Beat(dIden)) \in Seq(MatchedToHost)
      BY <1>a, <1>t, SendIn
    <2>3. CASE DevBeat
      BY <2>3, <2>2 DEF DevBeat
    <2>4. CASE DevLoaded
      <3>1. Send(toHost, Boot(dIden, dOk')) \in Seq(MatchedToHost)
        BY <2>1, <2>4, <1>a, <1>t, SendIn
      <3>2. QED
        BY <2>4, <3>1 DEF DevLoaded
    <2>5. QED
      BY <1>10, <2>3, <2>4 DEF DevLoads
  <1>11. CASE DevReboot
    BY <1>11 DEF DevReboot, line
  <1>12. CASE UNCHANGED vars
    BY <1>12 DEF vars, line
  <1>13. QED
    BY <1>1, <1>2, <1>3, <1>4, <1>5, <1>6, <1>7, <1>8, <1>9, <1>10, <1>11, <1>12
       DEF Next

\* Identifier, chunk number and amount fed keep agreeing, and what has been
\* fed stays in order: the identifier of the chunk that is taken is its number.
LEMMA SessionStep ==
    TypeOK /\ Session /\ Ordered /\ Matched /\ [Next]_vars => Session' /\ Ordered'
  <1> SUFFICES ASSUME TypeOK, Session, Ordered, Matched, [Next]_vars
               PROVE  Session' /\ Ordered'
    OBVIOUS
  <1> USE DEF Session, Ordered
  <1>1. CASE UNCHANGED <<dState, dImg, dIden, dNum, dFed>>
    BY <1>1
  <1>2. CASE DevReset \/ DevFeedFails \/ DevReboot
    BY <1>2 DEF DevReset, DevFeedFails, DevReboot, DevToInit
  <1>3. CASE DevPolled
    <2>1. Head(toDev).img \in Images
      BY <1>3, ReadIn, FrameFields DEF DevPolled, Arrives, TypeOK
    <2>2. Chunks[Head(toDev).img] \in Nat
      BY <2>1, ImagesAssumption
    <2>3. /\ dIden' = 0 /\ dNum' = 0 /\ dFed' = <<>> /\ dImg' = Head(toDev).img
          /\ \/ dState' = "chunk" /\ Chunks[dImg'] > 0
             \/ dState' = "load" /\ Chunks[dImg'] = 0
      BY <1>3 DEF DevPolled
    <2>4. Len(dFed') = 0
      BY <2>3
    <2>5. QED
      BY <2>2, <2>3, <2>4
  <1>4. CASE DevFed
    <2> DEFINE f == Head(toDev)
    <2>1. f \in MatchedToDev /\ f.type = "CHNK" /\ f.iden = dIden
      BY <1>4, ReadIn DEF DevFed, Arrives, Wanted, Matched
    <2>2. f.num = dNum /\ f.img \in Images /\ f.num \in Nat
      BY <1>4, <2>1, FrameFields DEF MatchedToDev, DevFed
    <2>3. /\ dIden' = dNum + 1 /\ dNum' = dNum + 1
          /\ dFed' = Append(dFed, <<f.img, f.num>>)
          /\ dImg' = dImg
      BY <1>4, NoWrap DEF DevFed
    <2>4. \/ dState' = "chunk" /\ dNum + 1 < Chunks[dImg]
          \/ dState' = "load" /\ dNum + 1 = Chunks[dImg]
      <3>1. dNum \in Nat /\ Chunks[dImg] \in Nat /\ dNum < Chunks[dImg]
        BY <1>4, ImagesAssumption DEF TypeOK, DevFed
      <3>2. QED
        BY <1>4, <3>1 DEF DevFed
    <2>5. dFed \in Seq(Images \X Nat) /\ <<f.img, f.num>> \in Images \X Nat
      BY <2>2 DEF TypeOK
    <2>6. /\ Len(dFed') = Len(dFed) + 1
          /\ \A k \in 1 .. Len(dFed) : dFed'[k] = dFed[k]
          /\ dFed'[Len(dFed) + 1] = <<f.img, f.num>>
      BY <2>3, <2>5, AppendProperties
    <2> HIDE DEF f
    <2>7. Session'
      BY <1>4, <2>3, <2>4, <2>6 DEF DevFed
    <2>8. Ordered'
      <3>1. Len(dFed) = dNum /\ Len(dFed) \in Nat
        BY <1>4 DEF DevFed, TypeOK
      <3>2. ASSUME NEW k \in 1 .. Len(dFed') PROVE dFed'[k][2] = k - 1
        <4>1. CASE k = Len(dFed) + 1
          BY <4>1, <3>1, <2>6, <2>2
        <4>2. CASE k \in 1 .. Len(dFed)
          BY <4>2, <2>6, <1>4 DEF DevFed
        <4>3. QED
          BY <4>1, <4>2, <3>1, <2>6
      <3>3. QED
        BY <3>2
    <2>9. QED
      BY <2>7, <2>8
  <1>5. CASE DevLoaded
    BY <1>5 DEF DevLoaded
  <1>6. CASE DevBoots
    BY <1>6 DEF DevBoots
  <1>7. QED
    BY <1>1, <1>2, <1>3, <1>4, <1>5, <1>6
       DEF Next, vars, dev, Tick, Damage, HostStart, HostReset, HostResend,
           HostReceives, HostPollAcked, HostSkip, HostServe, HostBeat, HostBoot,
           DevResend, DevReceives, DevSkip, DevAsksAgain, DevLoads, DevBeat

\* The inductive invariant behind FedInOrder.
OrderInv == TypeOK /\ Matched /\ Session /\ Ordered

\* OrderInv holds initially and every step preserves it.
LEMMA OrderInvariant == Spec => []OrderInv
  <1>1. Init => OrderInv
    <2> SUFFICES ASSUME Init PROVE OrderInv
      OBVIOUS
    <2>1. TypeOK
      BY TypeInit
    <2>2. Matched
      BY EmptySeq DEF Init, Matched
    <2>3. Session /\ Ordered
      BY DEF Init, Session, Ordered
    <2>4. QED
      BY <2>1, <2>2, <2>3 DEF OrderInv
  <1>2. OrderInv /\ [Next]_vars => OrderInv'
    BY TypeStep, MatchedStep, SessionStep DEF OrderInv
  <1>3. QED
    BY <1>1, <1>2, PTL DEF Spec

\* The device feeds chunk 0, 1, 2, ... to platform_feed, whatever is lost,
\* delayed or left over from earlier sessions and host invocations.
THEOREM ChunksFedInOrder == Spec => []FedInOrder
  <1>1. OrderInv => FedInOrder
    BY DEF OrderInv, Session, Ordered, FedInOrder
  <1>2. QED
    BY <1>1, OrderInvariant, PTL

-----------------------------------------------------------------------------
(* A reported success was verified *)

\* A positive verdict, on the line, in the device or told to the user, has a
\* verified image behind it.
BackedToHost == {f \in ToHostFrame : f.type = "BOOT" /\ f.ok => verified # {}}
Backed ==
    /\ toHost \in Seq(BackedToHost)
    /\ dState = "boot" /\ dOk => verified # {}
    /\ \A i \in Images : <<i, TRUE>> \in told => verified # {}

\* As long as the host program was started at most once, everything is about
\* the image it was started with.
SingleToDev == {f \in ToDevFrame : f.type = "POLL" => f.img = hImg}
Single ==
    /\ runs = 0 => /\ toDev = <<>> /\ dState = "init" /\ hState = "idle"
                   /\ verified = {} /\ told = {}
    /\ runs = 1 => /\ toDev \in Seq(SingleToDev)
                   /\ dState # "init" => dImg = hImg
                   /\ verified \subseteq {hImg}
                   /\ \A t \in told : t[1] = hImg

\* Every step keeps positive verdicts backed by a verified image.
LEMMA BackedStep == TypeOK /\ TypeOK' /\ Backed /\ [Next]_vars => Backed'
  <1> SUFFICES ASSUME TypeOK, TypeOK', Backed, [Next]_vars PROVE Backed'
    OBVIOUS
  <1>a. /\ \A id \in Iden : Ack(id) \in BackedToHost /\ Beat(id) \in BackedToHost
        /\ \A id \in Iden, n \in Nat : Rqch(id, n) \in BackedToHost
        /\ \A id \in Iden, v \in BOOLEAN :
             (v => verified # {}) => Boot(id, v) \in BackedToHost
    BY DEF BackedToHost, Ack, Beat, Boot, Rqch, ToHostFrame
  <1>h. ASSUME toHost # <<>>
        PROVE  Head(toHost) \in BackedToHost /\ Tail(toHost) \in Seq(BackedToHost)
    BY <1>h, ReadIn DEF Backed
  <1>t. dIden \in Iden /\ dNum \in Nat /\ dOk \in BOOLEAN
    BY DEF TypeOK
  <1>b. toHost \in Seq(BackedToHost)
    BY DEF Backed
  <1>1. ASSUME verified' = verified, told' = told,
               dState' = "boot" => dState = "boot" /\ dOk' = dOk,
               toHost' \in Seq(BackedToHost)
        PROVE  Backed'
    <2>1. BackedToHost' = BackedToHost
      BY <1>1 DEF BackedToHost
    <2>2. dState' = "boot" /\ dOk' => verified' # {}
      BY <1>1, Zenon DEF Backed
    <2>3. QED
      BY <1>1, <2>1, <2>2, Zenon DEF Backed
  <1>2. CASE Tick \/ DevReset \/ DevReboot \/ UNCHANGED vars
    BY <1>1, <1>2, <1>b
       DEF Tick, DevReset, DevReboot, DevToInit, vars, line, aux, host, dev
  <1>3. CASE Damage
    BY <1>1, <1>3, <1>b, <1>h DEF Damage, aux, dev
  <1>4. CASE (\E i \in Images : HostStart(i)) \/ HostReset \/ HostResend
    BY <1>1, <1>4, <1>b DEF HostStart, HostReset, HostResend, aux, dev
  <1>5. CASE HostPollAcked \/ HostSkip \/ HostServe \/ HostBeat
    BY <1>1, <1>5, <1>h
       DEF HostPollAcked, HostSkip, HostServe, HostBeat, Arrives, aux, dev
  <1>6. CASE HostBoot
    <2>1. Head(toHost).ok \in BOOLEAN /\ (Head(toHost).ok => verified # {})
      BY <1>6, <1>h, FrameFields DEF HostBoot, Arrives, BackedToHost
    <2>2. Verdict(Head(toHost)) = "OK" => verified # {}
      BY <2>1 DEF Verdict
    <2>3. ASSUME NEW i \in Images, <<i, TRUE>> \in told' PROVE verified # {}
      <3>1. CASE <<i, TRUE>> \in told
        BY <3>1 DEF Backed
      <3>2. CASE <<i, TRUE>> = <<hImg, Verdict(Head(toHost)) = "OK">>
        BY <3>2, <2>2
      <3>3. QED
        BY <1>6, <2>3, <3>1, <3>2 DEF HostBoot
    <2>4. /\ verified' = verified /\ toHost' \in Seq(BackedToHost)
          /\ dState' = dState /\ dOk' = dOk
      BY <1>6, <1>h DEF HostBoot, Arrives, dev
    <2>5. QED
      BY <2>3, <2>4 DEF Backed, BackedToHost
  <1>7. CASE DevResend
    <2>1. dState = "boot" => Boot(dIden, dOk) \in BackedToHost
      BY <1>a, <1>t DEF Backed
    <2>2. toHost' \in Seq(BackedToHost)
      BY <1>7, <1>a, <1>b, <1>t, <2>1, SendIn DEF DevResend
    <2>3. QED
      BY <1>1, <1>7, <2>2 DEF DevResend, aux
  <1>8. CASE DevPolled
    <2>1. Send(toHost, Ack(0)) \in Seq(BackedToHost)
      BY <1>a, <1>b, IdenFacts, SendIn
    <2>2. Send(Send(toHost, Ack(0)), Rqch(dIden, 0)) \in Seq(BackedToHost)
      BY <2>1, <1>a, <1>t, SendIn
    <2>3. QED
      BY <1>1, <1>8, <2>1, <2>2 DEF DevPolled, aux
  <1>9. CASE DevSkip \/ DevFeedFails \/ DevBoots
    BY <1>1, <1>9, <1>b DEF DevSkip, DevFeedFails, DevBoots, DevToInit, aux, dev
  <1>10. CASE DevFed
    <2>1. Send(toHost, Rqch((dIden + 1) % IdenMod, dNum + 1)) \in Seq(BackedToHost)
      BY <1>a, <1>b, <1>t, IdenFacts, SendIn
    <2>2. QED
      BY <1>1, <1>10, <1>b, <2>1 DEF DevFed, aux
  <1>11. CASE DevAsksAgain
    <2>1. Send(toHost, Rqch(dIden, dNum)) \in Seq(BackedToHost)
      BY <1>a, <1>b, <1>t, SendIn
    <2>2. QED
      BY <1>1, <1>11, <2>1 DEF DevAsksAgain, aux
  <1>12. CASE DevBeat
    <2>1. Send(toHost, Beat(dIden)) \in Seq(BackedToHost)
      BY <1>a, <1>b, <1>t, SendIn
    <2>2. QED
      BY <1>1, <1>12, <2>1 DEF DevBeat, aux
  <1>13. CASE DevLoaded
    <2>1. verified \subseteq verified' /\ (dOk' => verified' # {}) /\ told' = told
      BY <1>13 DEF DevLoaded
    <2>2. dOk' \in BOOLEAN
      BY <1>13, VerdictValues DEF DevLoaded
    <2>3. BackedToHost \subseteq BackedToHost' /\ Boot(dIden, dOk') \in BackedToHost'
      BY <2>1, <2>2, <1>t DEF BackedToHost, Boot, ToHostFrame
    <2>4. toHost \in Seq(BackedToHost')
      BY <2>3, <1>b, SeqMonotonic
    <2>5. toHost' \in Seq(BackedToHost')
      BY <1>13, <2>3, <2>4, SendIn DEF DevLoaded
    <2>6. QED
      BY <2>1, <2>5 DEF Backed
  <1>14. QED
    BY <1>2, <1>3, <1>4, <1>5, <1>6, <1>7, <1>8, <1>9, <1>10, <1>11, <1>12, <1>13
       DEF Next, HostReceives, DevReceives, DevLoads

\* Every step keeps a single invocation about a single image.
LEMMA SingleStep == TypeOK /\ Single /\ [Next]_vars => Single'
  <1> SUFFICES ASSUME TypeOK, Single, [Next]_vars PROVE Single'
    OBVIOUS
  <1>t. runs \in Nat /\ hImg \in Images
    BY DEF TypeOK
  <1>h. ASSUME toDev # <<>>, runs = 1
        PROVE  Head(toDev) \in SingleToDev /\ Tail(toDev) \in Seq(SingleToDev)
    BY <1>h, ReadIn DEF Single
  <1>f. /\ Poll(hImg) \in SingleToDev
        /\ \A id \in Iden : Ack(id) \in SingleToDev
        /\ \A id \in Iden, n \in Nat : Chnk(id, hImg, n) \in SingleToDev
    BY <1>t DEF SingleToDev, Poll, Ack, Chnk, ToDevFrame
  <1>0. CASE \E i \in Images : HostStart(i)
    <2> PICK i \in Images : HostStart(i)
      BY <1>0
    <2>1. runs' = runs + 1 /\ hImg' = i
      BY DEF HostStart
    <2>2. CASE runs = 0
      <3>1. /\ toDev = <<>> /\ dState' = "init" /\ verified' = {} /\ told' = {}
            /\ toDev' = Send(<<>>, Poll(i))
        BY <2>2 DEF Single, HostStart, HostPolls, dev
      <3>2. Poll(i) \in SingleToDev'
        BY <2>1, FrameTypes DEF SingleToDev, Poll, ToDevFrame, Iden
      <3>3. toDev' \in Seq(SingleToDev')
        BY <3>1, <3>2, SendIn, EmptySeq
      <3>4. QED
        BY <2>1, <2>2, <3>1, <3>3 DEF Single
    <2>3. CASE runs # 0
      BY <1>t, <2>1, <2>3 DEF Single
    <2>4. QED
      BY <2>2, <2>3
  <1>1. CASE ~(\E i \in Images : HostStart(i)) /\ runs = 0
    <2>1. toDev = <<>> /\ dState = "init" /\ hState = "idle" /\ verified = {} /\ told = {}
      BY <1>1 DEF Single
    <2>2. /\ toDev' = <<>> /\ dState' = "init" /\ hState' = "idle"
          /\ verified' = {} /\ told' = {} /\ runs' = 0
      BY <1>1, <2>1
         DEF Next, vars, line, aux, host, dev, Tick, Damage, HostWaiting, HostReset,
             HostResend, HostReceives, HostPollAcked, HostSkip, HostServe, HostBeat,
             HostBoot, DevToInit, DevPolled, DevSkip, DevFed, DevFeedFails,
             DevAsksAgain, DevResend, DevReset, DevBeat, DevLoaded, DevBoots,
             DevReboot, DevReceives, DevLoads, Arrives
    <2>3. QED
      BY <2>2 DEF Single
  <1>2. CASE ~(\E i \in Images : HostStart(i)) /\ runs > 1
    <2>1. runs' = runs
      BY <1>2
         DEF Next, vars, aux, Tick, Damage, HostReset, HostResend, HostReceives,
             HostPollAcked, HostSkip, HostServe, HostBeat, HostBoot, DevPolled,
             DevSkip, DevFed, DevFeedFails, DevAsksAgain, DevResend, DevReset,
             DevBeat, DevLoaded, DevBoots, DevReboot, DevReceives, DevLoads
    <2>2. QED
      BY <1>t, <1>2, <2>1 DEF Single
  <1>3. CASE ~(\E i \in Images : HostStart(i)) /\ runs = 1
    <2> USE <1>3
    <2>s. /\ toDev \in Seq(SingleToDev) /\ (dState # "init" => dImg = hImg)
          /\ verified \subseteq {hImg} /\ \A t \in told : t[1] = hImg
      BY DEF Single
    <2>1. ASSUME runs' = 1, hImg' = hImg, toDev' \in Seq(SingleToDev),
                 dState' # "init" => dImg' = hImg,
                 verified' \subseteq {hImg}, \A t \in told' : t[1] = hImg
          PROVE  Single'
      <3>1. SingleToDev' = SingleToDev
        BY <2>1 DEF SingleToDev
      <3>2. QED
        BY <2>1, <3>1 DEF Single
    <2>2. CASE Tick \/ DevReset \/ DevReboot \/ DevResend \/ UNCHANGED vars
      BY <2>1, <2>2, <2>s
         DEF Tick, DevReset, DevReboot, DevResend, DevToInit, vars, line, aux,
             host, dev
    <2>3. CASE Damage
      BY <2>1, <2>3, <2>s, <1>h DEF Damage, aux, host, dev
    <2>4. CASE HostReset \/ HostResend
      <3>1. Send(toDev, Poll(hImg)) \in Seq(SingleToDev)
        BY <2>s, <1>f, SendIn
      <3>2. QED
        BY <2>1, <2>4, <2>s, <3>1 DEF HostReset, HostResend, HostPolls, aux, dev
    <2>5. CASE HostPollAcked \/ HostSkip \/ HostBeat
      BY <2>1, <2>5, <2>s
         DEF HostPollAcked, HostSkip, HostBeat, aux, host, dev
    <2>6. CASE HostServe
      <3>1. Head(toHost).iden \in Iden /\ Head(toHost).num \in Nat
        BY <2>6, ReadIn, FrameFields DEF HostServe, Arrives, TypeOK
      <3>2. Send(toDev, Chnk(Head(toHost).iden, hImg, Head(toHost).num))
              \in Seq(SingleToDev)
        BY <2>s, <1>f, <3>1, SendIn
      <3>3. QED
        BY <2>1, <2>6, <2>s, <3>2 DEF HostServe, aux, dev
    <2>7. CASE HostBoot
      <3>1. Head(toHost).iden \in Iden
        BY <2>7, ReadIn, FrameFields DEF HostBoot, Arrives, TypeOK
      <3>2. Send(toDev, Ack(Head(toHost).iden)) \in Seq(SingleToDev)
        BY <2>s, <1>f, <3>1, SendIn
      <3>3. \A t \in told' : t[1] = hImg
        BY <2>7, <2>s DEF HostBoot
      <3>4. QED
        BY <2>1, <2>7, <2>s, <3>2, <3>3 DEF HostBoot, dev
    <2>8. CASE DevPolled
      <3>1. Head(toDev).img = hImg /\ Tail(toDev) \in Seq(SingleToDev)
        BY <2>8, <1>h DEF DevPolled, Arrives, SingleToDev
      <3>2. QED
        BY <2>1, <2>8, <2>s, <3>1 DEF DevPolled, aux, host
    <2>9. CASE DevSkip \/ DevFed \/ DevFeedFails \/ DevAsksAgain \/ DevBoots
      <3>1. toDev' \in Seq(SingleToDev)
        BY <2>9, <1>h
           DEF DevSkip, DevFed, DevFeedFails, DevAsksAgain, DevBoots, Arrives
      <3>2. QED
        BY <2>1, <2>9, <2>s, <3>1
           DEF DevSkip, DevFed, DevFeedFails, DevAsksAgain, DevBoots, DevToInit,
               aux, host, dev
    <2>10. CASE DevBeat
      BY <2>1, <2>10, <2>s DEF DevBeat, aux, host
    <2>11. CASE DevLoaded
      <3>1. verified' \subseteq {hImg}
        BY <2>11, <2>s DEF DevLoaded
      <3>2. QED
        BY <2>1, <2>11, <2>s, <3>1 DEF DevLoaded, host
    <2>12. QED
      BY <2>2, <2>3, <2>4, <2>5, <2>6, <2>7, <2>8, <2>9, <2>10, <2>11
         DEF Next, HostReceives, DevReceives, DevLoads
  <1>4. QED
    BY <1>t, <1>0, <1>1, <1>2, <1>3

\* The inductive invariant behind OkMeansVerified.
VerdictInv == TypeOK /\ Backed /\ Single

\* fsm_upload returns UPLOAD_OK only if the device has verified an image, and
\* the uploaded one if the host program was started once.
THEOREM SuccessWasVerified == Spec => []OkMeansVerified
  <1>1. Init => VerdictInv
    <2> SUFFICES ASSUME Init PROVE VerdictInv
      OBVIOUS
    <2>1. TypeOK
      BY TypeInit
    <2>2. Backed
      BY EmptySeq DEF Init, Backed
    <2>3. Single
      BY DEF Init, Single
    <2>4. QED
      BY <2>1, <2>2, <2>3 DEF VerdictInv
  <1>2. VerdictInv /\ [Next]_vars => VerdictInv'
    BY TypeStep, BackedStep, SingleStep DEF VerdictInv
  <1>3. VerdictInv => OkMeansVerified
    <2> SUFFICES ASSUME VerdictInv, NEW i \in Images, <<i, TRUE>> \in told
                 PROVE  verified # {} /\ (runs = 1 => i \in verified)
      BY DEF OkMeansVerified
    <2>1. verified # {}
      BY DEF VerdictInv, Backed
    <2>2. CASE runs = 1
      <3>1. verified \subseteq {hImg} /\ <<i, TRUE>>[1] = hImg
        BY <2>2 DEF VerdictInv, Single
      <3>2. QED
        BY <2>1, <3>1
    <2>3. QED
      BY <2>1, <2>2
  <1>4. QED
    BY <1>1, <1>2, <1>3, PTL DEF Spec

-----------------------------------------------------------------------------
(* A booted device's verdict was told *)

\* An acknowledgement is on its way to the device only after a verdict was
\* told, and a device that has taken one has left the boot loader.
AnsweredToDev == {f \in ToDevFrame : f.type = "ACK" => told # {}}
Answered == toDev \in Seq(AnsweredToDev) /\ (dState = "booted" => told # {})

\* What the device finds of the image of the only invocation, which it gets
\* chunk by chunk and from nobody else.
Finding == hImg \notin Unloadable
OwnToDev == {f \in ToDevFrame : f.type = "CHNK" => f.img = hImg}
OwnToHost == {f \in ToHostFrame : f.type = "BOOT" => (f.ok <=> Finding)}
OwnFed == {c \in Images \X Nat : c[1] = hImg}
OneFinding ==
    /\ runs = 0 => toHost = <<>>
    /\ runs = 1 => /\ toDev \in Seq(OwnToDev)
                   /\ toHost \in Seq(OwnToHost)
                   /\ dState # "init" => dFed \in Seq(OwnFed)
                   /\ dState \in {"boot", "booted"} => (dOk <=> Finding)
                   /\ \A t \in told : t[2] <=> Finding

\* Every step answers the device only after a verdict was told.
LEMMA AnsweredStep == TypeOK /\ Answered /\ [Next]_vars => Answered'
  <1> SUFFICES ASSUME TypeOK, Answered, [Next]_vars PROVE Answered'
    OBVIOUS
  <1>s. toDev \in Seq(AnsweredToDev) /\ (dState = "booted" => told # {})
    BY DEF Answered
  <1>a. /\ \A i \in Images : Poll(i) \in AnsweredToDev
        /\ \A id \in Iden, i \in Images, n \in Nat : Chnk(id, i, n) \in AnsweredToDev
    BY DEF AnsweredToDev, Poll, Chnk, ToDevFrame
  <1>d. ASSUME toDev # <<>>
        PROVE  Head(toDev) \in AnsweredToDev /\ Tail(toDev) \in Seq(AnsweredToDev)
    BY <1>d, <1>s, ReadIn
  <1>t. hImg \in Images
    BY DEF TypeOK
  <1>1. ASSUME told' = told, toDev' \in Seq(AnsweredToDev),
               dState' = "booted" => told # {}
        PROVE  Answered'
    <2>1. AnsweredToDev' = AnsweredToDev
      BY <1>1 DEF AnsweredToDev
    <2>2. QED
      BY <1>1, <2>1 DEF Answered
  <1>2. CASE Tick \/ DevReset \/ DevReboot \/ DevResend \/ DevBeat \/ UNCHANGED vars
    BY <1>1, <1>2, <1>s
       DEF Tick, DevReset, DevReboot, DevResend, DevBeat, DevToInit, vars, line,
           aux, host, dev
  <1>3. CASE Damage
    BY <1>1, <1>3, <1>s, <1>d DEF Damage, aux, dev
  <1>4. ASSUME NEW i \in Images, HostStart(i) PROVE Answered'
    BY <1>1, <1>4, <1>s, <1>a, SendIn DEF HostStart, HostPolls, dev
  <1>5. CASE HostReset \/ HostResend
    BY <1>1, <1>5, <1>s, <1>a, <1>t, SendIn
       DEF HostReset, HostResend, HostPolls, aux, dev
  <1>6. CASE HostPollAcked \/ HostSkip \/ HostBeat
    BY <1>1, <1>6, <1>s DEF HostPollAcked, HostSkip, HostBeat, aux, dev
  <1>7. CASE HostServe
    <2>1. Head(toHost).iden \in Iden /\ Head(toHost).num \in Nat
      BY <1>7, ReadIn, FrameFields DEF HostServe, Arrives, TypeOK
    <2>2. Send(toDev, Chnk(Head(toHost).iden, hImg, Head(toHost).num))
            \in Seq(AnsweredToDev)
      BY <2>1, <1>s, <1>a, <1>t, SendIn
    <2>3. QED
      BY <1>1, <1>7, <1>s, <2>2 DEF HostServe, aux, dev
  <1>8. CASE HostBoot
    <2>1. told' # {}
      BY <1>8 DEF HostBoot
    <2>2. Head(toHost).iden \in Iden
      BY <1>8, ReadIn, FrameFields DEF HostBoot, Arrives, TypeOK
    <2>3. AnsweredToDev \subseteq AnsweredToDev' /\ Ack(Head(toHost).iden) \in AnsweredToDev'
      BY <2>1, <2>2, FrameTypes DEF AnsweredToDev, Ack, ToDevFrame
    <2>4. toDev \in Seq(AnsweredToDev')
      BY <2>3, <1>s, SeqMonotonic
    <2>5. toDev' \in Seq(AnsweredToDev')
      BY <1>8, <2>3, <2>4, SendIn DEF HostBoot
    <2>6. QED
      BY <2>1, <2>5 DEF Answered
  <1>9. CASE DevPolled \/ DevSkip \/ DevFed \/ DevFeedFails \/ DevAsksAgain
    BY <1>1, <1>9, <1>s, <1>d
       DEF DevPolled, DevSkip, DevFed, DevFeedFails, DevAsksAgain, DevToInit,
           Arrives, aux, dev
  <1>10. CASE DevBoots
    <2>1. told # {}
      BY <1>10, <1>d DEF DevBoots, Arrives, AnsweredToDev
    <2>2. QED
      BY <1>1, <1>10, <1>d, <2>1 DEF DevBoots, Arrives, aux
  <1>11. CASE DevLoaded
    BY <1>1, <1>11, <1>s DEF DevLoaded
  <1>12. QED
    BY <1>2, <1>3, <1>4, <1>5, <1>6, <1>7, <1>8, <1>9, <1>10, <1>11
       DEF Next, HostReceives, DevReceives, DevLoads

\* Chunk by chunk and in order, nothing but the announced image.
LEMMA OwnIntact ==
    ASSUME TypeOK, Session, Ordered, dState = "load", dImg = hImg,
           dFed \in Seq(OwnFed)
    PROVE  Intact
  <1>1. Len(dFed) = Chunks[dImg] /\ Chunks[dImg] \in Nat
    BY ImagesAssumption DEF Session, TypeOK
  <1>2. ASSUME NEW k \in 1 .. Chunks[dImg]
        PROVE  dFed[k] = <<dImg, k - 1>>
    <2>1. dFed[k] \in OwnFed
      BY <1>1, ElementOfSeq
    <2>2. dFed[k][2] = k - 1
      BY <1>1 DEF Ordered
    <2>3. QED
      BY <2>1, <2>2 DEF OwnFed
  <1>3. dFed = [k \in 1 .. Len(dFed) |-> dFed[k]]
    BY SeqDef DEF TypeOK
  <1>4. QED
    BY <1>1, <1>2, <1>3 DEF Intact

\* With one invocation, every verdict is the finding on its image.
LEMMA OneFindingStep ==
    OrderInv /\ Single /\ Single' /\ OneFinding /\ [Next]_vars => OneFinding'
  <1> SUFFICES ASSUME OrderInv, Single, Single', OneFinding, [Next]_vars
               PROVE  OneFinding'
    OBVIOUS
  <1>t. /\ TypeOK /\ Session /\ Ordered
        /\ runs \in Nat /\ hImg \in Images /\ dIden \in Iden /\ dNum \in Nat
        /\ dOk \in BOOLEAN /\ toHost \in Seq(ToHostFrame)
    BY DEF OrderInv, TypeOK
  <1>0. CASE \E i \in Images : HostStart(i)
    <2> PICK i \in Images : HostStart(i)
      BY <1>0
    <2>1. runs' = runs + 1 /\ hImg' = i
      BY DEF HostStart
    <2>2. CASE runs = 0
      <3>1. /\ toDev = <<>> /\ toHost' = <<>> /\ dState' = "init" /\ told' = {}
            /\ toDev' = Send(<<>>, Poll(i))
        BY <2>2 DEF Single, OneFinding, HostStart, HostPolls, dev
      <3>2. Poll(i) \in OwnToDev'
        BY <2>1, FrameTypes DEF OwnToDev, Poll, ToDevFrame, Iden
      <3>3. toDev' \in Seq(OwnToDev') /\ toHost' \in Seq(OwnToHost')
        BY <3>1, <3>2, SendIn, EmptySeq
      <3>4. QED
        BY <2>1, <2>2, <3>1, <3>3 DEF OneFinding
    <2>3. CASE runs # 0
      BY <1>t, <2>1, <2>3 DEF OneFinding
    <2>4. QED
      BY <2>2, <2>3
  <1>1. CASE ~(\E i \in Images : HostStart(i)) /\ runs # 1
    <2>1. runs' = runs
      BY <1>1
         DEF Next, vars, aux, Tick, Damage, HostReset, HostResend, HostReceives,
             HostPollAcked, HostSkip, HostServe, HostBeat, HostBoot, DevPolled,
             DevSkip, DevFed, DevFeedFails, DevAsksAgain, DevResend, DevReset,
             DevBeat, DevLoaded, DevBoots, DevReboot, DevReceives, DevLoads
    <2>2. ASSUME runs = 0 PROVE toHost' = <<>>
      <3>1. toHost = <<>> /\ toDev = <<>> /\ dState = "init" /\ hState = "idle"
        BY <2>2 DEF OneFinding, Single
      <3>2. QED
        BY <1>1, <3>1
           DEF Next, vars, line, Tick, Damage, HostWaiting, HostReset, HostResend,
               HostReceives, HostPollAcked, HostSkip, HostServe, HostBeat,
               HostBoot, DevPolled, DevSkip, DevFed, DevFeedFails, DevAsksAgain,
               DevResend, DevReset, DevBeat, DevLoaded, DevBoots, DevReboot,
               DevReceives, DevLoads, Arrives
    <2>3. QED
      BY <1>1, <2>1, <2>2 DEF OneFinding
  <1>2. CASE ~(\E i \in Images : HostStart(i)) /\ runs = 1
    <2> USE <1>2
    <2>s. /\ toDev \in Seq(OwnToDev) /\ toHost \in Seq(OwnToHost)
          /\ (dState # "init" => dFed \in Seq(OwnFed))
          /\ (dState \in {"boot", "booted"} => (dOk <=> Finding))
          /\ (\A t \in told : t[2] <=> Finding)
          /\ (dState # "init" => dImg = hImg)
      BY DEF OneFinding, Single
    <2>h. ASSUME toHost # <<>>
          PROVE  Head(toHost) \in OwnToHost /\ Tail(toHost) \in Seq(OwnToHost)
      BY <2>h, <2>s, ReadIn
    <2>d. ASSUME toDev # <<>>
          PROVE  Head(toDev) \in OwnToDev /\ Tail(toDev) \in Seq(OwnToDev)
      BY <2>d, <2>s, ReadIn
    <2>f. /\ Poll(hImg) \in OwnToDev
          /\ \A id \in Iden : Ack(id) \in OwnToDev
          /\ \A id \in Iden, n \in Nat : Chnk(id, hImg, n) \in OwnToDev
          /\ \A id \in Iden : Ack(id) \in OwnToHost /\ Beat(id) \in OwnToHost
          /\ \A id \in Iden, n \in Nat : Rqch(id, n) \in OwnToHost
          /\ \A id \in Iden, v \in BOOLEAN :
               (v <=> Finding) => Boot(id, v) \in OwnToHost
      BY <1>t DEF OwnToDev, OwnToHost, Poll, Ack, Chnk, Beat, Rqch, Boot,
                  ToDevFrame, ToHostFrame
    <2>1. ASSUME runs' = 1, hImg' = hImg,
                 toDev' \in Seq(OwnToDev), toHost' \in Seq(OwnToHost),
                 dState' # "init" => dFed' \in Seq(OwnFed),
                 dState' \in {"boot", "booted"} => (dOk' <=> Finding),
                 \A t \in told' : t[2] <=> Finding
          PROVE  OneFinding'
      <3>1. OwnToDev' = OwnToDev /\ OwnToHost' = OwnToHost /\ OwnFed' = OwnFed
              /\ (Finding' <=> Finding)
        BY <2>1 DEF OwnToDev, OwnToHost, OwnFed, Finding
      <3>2. runs' # 0
        BY <2>1
      <3>3. QED
        BY <2>1, <3>1, <3>2, Zenon DEF OneFinding
    <2>2. CASE Tick \/ DevReset \/ DevReboot \/ UNCHANGED vars
      BY <2>1, <2>2, <2>s
         DEF Tick, DevReset, DevReboot, DevToInit, vars, line, aux, host, dev
    <2>3. CASE Damage
      BY <2>1, <2>3, <2>s, <2>h, <2>d DEF Damage, aux, host, dev
    <2>4. CASE HostReset \/ HostResend
      <3>1. Send(toDev, Poll(hImg)) \in Seq(OwnToDev)
        BY <2>s, <2>f, SendIn
      <3>2. QED
        BY <2>1, <2>4, <2>s, <3>1 DEF HostReset, HostResend, HostPolls, aux, dev
    <2>5. CASE HostPollAcked \/ HostSkip \/ HostBeat
      BY <2>1, <2>5, <2>s, <2>h
         DEF HostPollAcked, HostSkip, HostBeat, Arrives, aux, host, dev
    <2>6. CASE HostServe
      <3>1. Head(toHost).iden \in Iden /\ Head(toHost).num \in Nat
        BY <2>6, <1>t, ReadIn, FrameFields DEF HostServe, Arrives
      <3>2. Send(toDev, Chnk(Head(toHost).iden, hImg, Head(toHost).num))
              \in Seq(OwnToDev)
        BY <2>s, <2>f, <3>1, SendIn
      <3>3. QED
        BY <2>1, <2>6, <2>s, <2>h, <3>2 DEF HostServe, Arrives, aux, dev
    <2>7. CASE HostBoot
      <3>1. /\ Head(toHost).iden \in Iden /\ Head(toHost).ok \in BOOLEAN
            /\ (Head(toHost).ok <=> Finding)
        BY <2>7, <1>t, <2>h, ReadIn, FrameFields DEF HostBoot, Arrives, OwnToHost
      <3>2. Send(toDev, Ack(Head(toHost).iden)) \in Seq(OwnToDev)
        BY <2>s, <2>f, <3>1, SendIn
      <3>3. (Verdict(Head(toHost)) = "OK") <=> Finding
        BY <3>1 DEF Verdict
      <3>4. \A t \in told' : t[2] <=> Finding
        <4>1. TAKE t \in told'
        <4>2. t \in told \/ t = <<hImg, Verdict(Head(toHost)) = "OK">>
          BY <2>7, <4>1 DEF HostBoot
        <4>3. <<hImg, Verdict(Head(toHost)) = "OK">>[2] = (Verdict(Head(toHost)) = "OK")
          OBVIOUS
        <4>4. CASE t = <<hImg, Verdict(Head(toHost)) = "OK">>
          BY <4>3, <4>4, <3>3, Zenon
        <4>5. QED
          BY <4>2, <4>4, <2>s
      <3>5. QED
        BY <2>1, <2>7, <2>s, <2>h, <3>2, <3>4 DEF HostBoot, Arrives, dev
    <2>8. CASE DevPolled
      <3>1. Send(toHost, Ack(0)) \in Seq(OwnToHost)
        BY <2>s, <2>f, IdenFacts, SendIn
      <3>2. Send(Send(toHost, Ack(0)), Rqch(dIden, 0)) \in Seq(OwnToHost)
        BY <3>1, <2>f, <1>t, SendIn
      <3>3. dFed' \in Seq(OwnFed)
        BY <2>8, EmptySeq DEF DevPolled
      <3>4. QED
        BY <2>1, <2>8, <2>s, <2>d, <3>1, <3>2, <3>3 DEF DevPolled, Arrives, aux, host
    <2>9. CASE DevSkip \/ DevFeedFails \/ DevBoots
      BY <2>1, <2>9, <2>s, <2>d
         DEF DevSkip, DevFeedFails, DevBoots, DevToInit, Arrives, aux, host, dev
    <2>10. CASE DevFed
      <3>1. Send(toHost, Rqch((dIden + 1) % IdenMod, dNum + 1)) \in Seq(OwnToHost)
        BY <2>s, <2>f, <1>t, IdenFacts, SendIn
      <3>2. <<Head(toDev).img, Head(toDev).num>> \in OwnFed
        BY <2>10, <2>d, <1>t, FrameFields DEF DevFed, Arrives, OwnToDev, OwnFed
      <3>3. dFed' \in Seq(OwnFed)
        BY <2>10, <2>s, <3>2, AppendProperties DEF DevFed
      <3>4. QED
        BY <2>1, <2>10, <2>s, <2>d, <3>1, <3>3 DEF DevFed, Arrives, aux, host
    <2>11. CASE DevAsksAgain
      <3>1. Send(toHost, Rqch(dIden, dNum)) \in Seq(OwnToHost)
        BY <2>s, <2>f, <1>t, SendIn
      <3>2. QED
        BY <2>1, <2>11, <2>s, <2>d, <3>1 DEF DevAsksAgain, Arrives, aux, host
    <2>12. CASE DevResend
      <3>1. Send(toHost, Rqch(dIden, dNum)) \in Seq(OwnToHost)
        BY <2>s, <2>f, <1>t, SendIn
      <3>2. dState = "boot" => Send(toHost, Boot(dIden, dOk)) \in Seq(OwnToHost)
        BY <2>s, <2>f, <1>t, SendIn
      <3>3. QED
        BY <2>1, <2>12, <2>s, <3>1, <3>2 DEF DevResend, aux, host
    <2>13. CASE DevBeat
      <3>1. Send(toHost, Beat(dIden)) \in Seq(OwnToHost)
        BY <2>s, <2>f, <1>t, SendIn
      <3>2. QED
        BY <2>1, <2>13, <2>s, <3>1 DEF DevBeat, aux, host
    <2>14. CASE DevLoaded
      <3>1. dState = "load" /\ dImg = hImg /\ dFed \in Seq(OwnFed)
        BY <2>14, <2>s DEF DevLoaded
      <3>2. Intact
        BY <3>1, <1>t, OwnIntact
      <3>3. dOk' \in BOOLEAN /\ (dOk' <=> Finding)
        BY <2>14, <3>1, <3>2, VerdictValues DEF DevLoaded, Finding
      <3>4. Send(toHost, Boot(dIden, dOk')) \in Seq(OwnToHost)
        BY <3>3, <2>s, <2>f, <1>t, SendIn
      <3>5. QED
        BY <2>1, <2>14, <2>s, <3>1, <3>3, <3>4 DEF DevLoaded, host
    <2>15. QED
      BY <2>2, <2>3, <2>4, <2>5, <2>6, <2>7, <2>8, <2>9, <2>10, <2>11, <2>12,
         <2>13, <2>14 DEF Next, HostReceives, DevReceives, DevLoads
  <1>3. QED
    BY <1>0, <1>1, <1>2

\* fsm_download returns only after a user was told a verdict: its own verdict
\* on its own image when the host program was started once.
THEOREM BootedWasTold == Spec => []BootedMeansTold
  <1>1. Init => Single /\ Answered /\ OneFinding
    BY EmptySeq DEF Init, Single, Answered, OneFinding
  <1>2. OrderInv /\ Single /\ Answered /\ OneFinding /\ [Next]_vars
          => Single' /\ Answered' /\ OneFinding'
    BY SingleStep, AnsweredStep, OneFindingStep DEF OrderInv
  <1>3. OrderInv /\ Single /\ Answered /\ OneFinding => BootedMeansTold
    <2> SUFFICES ASSUME OrderInv, Single, Answered, OneFinding, dState = "booted"
                 PROVE  told # {} /\ (runs = 1 => <<dImg, dOk>> \in told)
      BY DEF BootedMeansTold
    <2>1. told # {}
      BY DEF Answered
    <2>2. CASE runs = 1
      <3>1. PICK t \in told : t \in Images \X BOOLEAN
        BY <2>1 DEF OrderInv, TypeOK
      <3>2. dOk \in BOOLEAN /\ dImg = hImg /\ t[1] = hImg
        BY <2>2 DEF OrderInv, TypeOK, Single
      <3>3. (t[2] <=> Finding) /\ (dOk <=> Finding)
        BY <2>2 DEF OneFinding
      <3>4. t[2] = dOk
        BY <3>1, <3>2, <3>3
      <3>5. QED
        BY <3>1, <3>2, <3>4
    <2>3. QED
      BY <2>1, <2>2
  <1>4. QED
    BY <1>1, <1>2, <1>3, OrderInvariant, PTL DEF Spec

-----------------------------------------------------------------------------
(* fsm_download implements ImageDownload *)

\* The abstract phase of each state of fsm_download.
LEMMA PhaseValues ==
    /\ Phase["init"] = "idle" /\ Phase["chunk"] = "receiving"
    /\ Phase["load"] = "receiving" /\ Phase["boot"] = "verdict"
    /\ Phase["booted"] = "booted"
  BY DEF Phase

\* Every step of the system is a step of the abstract boot loader or leaves
\* it alone: a POLL begins, a wanted chunk is received, loading judges, the
\* acknowledgement boots, and timeouts, refused data and power cycles abandon.
LEMMA DownloadStep ==
    OrderInv /\ [Next]_vars => [Download!Next]_(Download!vars)
  <1> SUFFICES ASSUME OrderInv, [Next]_vars PROVE [Download!Next]_(Download!vars)
    OBVIOUS
  <1>t. /\ TypeOK /\ Matched /\ Session
        /\ dImg \in Images /\ dNum \in Nat /\ Chunks[dImg] \in Nat
    BY ImagesAssumption DEF OrderInv, TypeOK
  <1>1. ASSUME dState' = dState, dImg' = dImg, dFed' = dFed, dOk' = dOk
        PROVE  UNCHANGED Download!vars
    BY <1>1 DEF Download!vars
  <1>2. ASSUME dState' = "init", dImg' = dImg, dFed' = dFed, dOk' = dOk
        PROVE  Download!Abandon
    BY <1>2, PhaseValues DEF Download!Abandon
  <1>3. CASE Tick \/ Damage \/ (\E i \in Images : HostStart(i)) \/ HostReset
               \/ HostResend \/ HostReceives \/ DevResend \/ DevSkip
               \/ DevAsksAgain \/ DevBeat \/ UNCHANGED vars
    BY <1>1, <1>3
       DEF Tick, Damage, HostStart, HostReset, HostResend, HostReceives,
           HostPollAcked, HostSkip, HostServe, HostBeat, HostBoot, DevResend,
           DevSkip, DevAsksAgain, DevBeat, dev, vars
  <1>4. CASE DevReset \/ DevFeedFails \/ DevReboot
    BY <1>2, <1>4
       DEF DevReset, DevFeedFails, DevReboot, DevToInit, Download!Next
  <1>5. CASE DevPolled
    <2>1. Head(toDev).img \in Images
      BY <1>5, <1>t, ReadIn, FrameFields DEF DevPolled, Arrives, TypeOK
    <2>2. Phase[dState] = "idle" /\ Phase[dState'] = "receiving"
      BY <1>5, PhaseValues DEF DevPolled
    <2>3. Download!Begin
      BY <1>5, <2>1, <2>2 DEF DevPolled, Download!Begin
    <2>4. QED
      BY <2>3 DEF Download!Next
  <1>6. CASE DevFed
    <2>1. Head(toDev) \in MatchedToDev
      BY <1>6, <1>t, ReadIn DEF DevFed, Arrives, Matched
    <2>2. Head(toDev).img \in Images /\ Head(toDev).num = Len(dFed)
      BY <1>6, <1>t, <2>1, FrameFields
         DEF DevFed, Arrives, Wanted, MatchedToDev, Session
    <2>3. Len(dFed) < Chunks[dImg]
      BY <1>6, <1>t DEF DevFed, Session
    <2>4. Phase[dState] = "receiving" /\ Phase[dState'] = "receiving"
      BY <1>6, PhaseValues DEF DevFed
    <2>5. dFed' = Append(dFed, <<Head(toDev).img, Len(dFed)>>)
      BY <1>6, <2>2 DEF DevFed
    <2>6. dImg' = dImg /\ dOk' = dOk
      BY <1>6 DEF DevFed
    <2>7. Download!Receive
      BY <2>2, <2>3, <2>4, <2>5, <2>6 DEF Download!Receive
    <2>8. QED
      BY <2>7 DEF Download!Next
  <1>7. CASE DevLoaded
    <2>1. Phase[dState] = "receiving" /\ Phase[dState'] = "verdict"
      BY <1>7, PhaseValues DEF DevLoaded
    <2>2. Len(dFed) = Chunks[dImg]
      BY <1>7, <1>t DEF DevLoaded, Session
    <2>3. /\ dOk' \in BOOLEAN
          /\ Intact => (dOk' <=> dImg \notin Unloadable)
          /\ dOk' => Intact \/ dImg \in Packed
          /\ dImg' = dImg /\ dFed' = dFed
      <3>1. dOk' \in Verdicts /\ dImg' = dImg /\ dFed' = dFed
        BY <1>7 DEF DevLoaded
      <3>2. QED
        BY <3>1, VerdictValues, Zenon
    <2>4. Download!Judge
      BY <2>1, <2>2, <2>3, Zenon DEF Intact, Download!Judge, Download!Complete
    <2>5. QED
      BY <2>4 DEF Download!Next
  <1>8. CASE DevBoots
    <2>1. Phase[dState] = "verdict" /\ Phase[dState'] = "booted"
      BY <1>8, PhaseValues DEF DevBoots
    <2>2. Download!Boot
      BY <1>8, <2>1 DEF DevBoots, Download!Boot
    <2>3. QED
      BY <2>2 DEF Download!Next
  <1>9. QED
    BY <1>3, <1>4, <1>5, <1>6, <1>7, <1>8 DEF Next, DevReceives, DevLoads

\* The device's side of the protocol implements the abstract boot loader: the
\* verdict is about exactly as many chunks as were announced, taken in order,
\* it is right about an image that came complete, good about another one only
\* if it was announced as XZ, and only a session with a verdict boots.
THEOREM ImplementsDownload == Spec => DownloadSpec
  <1>1. Init => Download!Init
    BY PhaseValues DEF Init, Download!Init
  <1>2. OrderInv /\ [Next]_vars => [Download!Next]_(Download!vars)
    BY DownloadStep
  <1>3. QED
    BY <1>1, <1>2, OrderInvariant, PTL DEF Spec, DownloadSpec, Download!Spec

=============================================================================
