----------------------------- MODULE PupProtocol -----------------------------
(***************************************************************************)
(* The upload protocol of pup/fsm.c: the host program (fsm_upload) and the *)
(* boot loader on the device (fsm_download) exchange frames over a serial  *)
(* line, one image at a time.                                              *)
(*                                                                         *)
(* The two directions of the line are FIFO sequences of frames.  A frame   *)
(* whose bytes are damaged fails its frame check sequence and is dropped   *)
(* by fsm_recv / fsm_recv_ack, a frame that arrives while the receiver's   *)
(* FIFO is full is lost to an overrun, so the line loses frames but        *)
(* neither reorders nor duplicates them.  Both parties block in a receive  *)
(* loop that also watches two timers; everything a party does between two  *)
(* receives is one action.                                                 *)
(***************************************************************************)
EXTENDS Naturals, Integers, Sequences

CONSTANTS
    Images,        \* the files a user may upload
    Chunks,        \* Images -> Nat: number of 0xffff-byte chunks on the wire
    Blocks,        \* Images -> Nat: CRC blocks, one heartbeat each
    Rejected,      \* images whose metadata platform_init_meta refuses
    Packed,        \* images announced as COMPRESS_XZ
    Unloadable,    \* images the device refuses although intact
    Retries,       \* the retries_ argument of fsm_upload (uint8_t)
    IdenMod,       \* frame identifiers are uint16_t: 2^16
    ResendPeriod,  \* TIMER_RESEND and TIMER_RESET periods, in ticks
    ResetPeriod,
    Cap,           \* frames one direction of the line can hold
    Metered,       \* TRUE: at most LossBudget frames are damaged in all
    LossBudget,
    Prompt,        \* TRUE: a tick is longer than delivering what is in flight
    MaxRuns,       \* invocations of the host program
    MaxReboots     \* power cycles of the device

ASSUME ImagesAssumption ==
    /\ Chunks \in [Images -> Nat]
    /\ Blocks \in [Images -> Nat]
    /\ Rejected \subseteq Images
    /\ Unloadable \subseteq Images
    /\ Packed \subseteq Images
    /\ \A i \in Packed : Blocks[i] = 0   \* no CRC is taken of an XZ upload

\* A frame identifier never wraps within an upload: 65536 chunks are 4 GB and
\* the device has 512 MB (DRAM_LIMIT).
ASSUME IdenAssumption ==
    /\ IdenMod \in Nat \ {0}
    /\ \A i \in Images : Chunks[i] < IdenMod

ASSUME BoundsAssumption ==
    /\ Retries \in Nat
    /\ ResendPeriod \in Nat \ {0}
    /\ ResetPeriod \in Nat \ {0}
    /\ Cap \in Nat \ {0}
    /\ Metered \in BOOLEAN /\ LossBudget \in Nat
    /\ Prompt \in BOOLEAN
    /\ MaxRuns \in Nat /\ MaxReboots \in Nat

VARIABLES
    toDev, toHost,   \* frames on the line, in each direction
    lost,            \* damaged frames so far (when Metered)
    runs, reboots,   \* counted towards MaxRuns and MaxReboots
    hState,          \* where fsm_upload is blocked
    hResult,         \* what fsm_upload returned
    hImg,            \* the image being uploaded
    hRetries,        \* retries
    hLast,           \* last_chunk_no
    hReset, hResend, \* time since the host's timers were last cleared, or Off
    dState,          \* where fsm_download is blocked
    dImg,            \* META: the image announced by the accepted POLL
    dIden,           \* fsm.iden of the device
    dNum,            \* chunk_num
    dFed,            \* what platform_feed was given since platform_init_meta
    dBeats,          \* heartbeats sent by the running platform_load_image
    dOk,             \* boot.is_ok
    dReset, dResend, \* the device's timers
    verified,        \* history: images the device has found okay to boot
    told             \* history: <<image, verdict>> pairs the user was told

line == <<toDev, toHost, lost>>
aux == <<runs, reboots, verified, told>>
host == <<hState, hResult, hImg, hRetries, hLast, hReset, hResend>>
dev == <<dState, dImg, dIden, dNum, dFed, dBeats, dOk, dReset, dResend>>
vars == <<line, aux, host, dev>>

-----------------------------------------------------------------------------
(* Frames *)

Poll(i)            == [type |-> "POLL", iden |-> 0, img |-> i]
Chnk(id, i, n)     == [type |-> "CHNK", iden |-> id, img |-> i, num |-> n]
Rqch(id, n)        == [type |-> "RQCH", iden |-> id, num |-> n]
Beat(id)           == [type |-> "BEAT", iden |-> id]
Boot(id, ok)       == [type |-> "BOOT", iden |-> id, ok |-> ok]
Ack(id)            == [type |-> "ACK", iden |-> id]

Iden == 0 .. IdenMod - 1
ToDevFrame  == [type : {"POLL"}, iden : {0}, img : Images]
                 \cup [type : {"CHNK"}, iden : Iden, img : Images, num : Nat]
                 \cup [type : {"ACK"}, iden : Iden]
ToHostFrame == [type : {"RQCH"}, iden : Iden, num : Nat]
                 \cup [type : {"BEAT"}, iden : Iden]
                 \cup [type : {"BOOT"}, iden : Iden, ok : BOOLEAN]
                 \cup [type : {"ACK"}, iden : Iden]

\* fsm_send / fsm_send_ack: a frame sent into a full receiver is overrun.
Send(chan, f) == IF Len(chan) < Cap THEN Append(chan, f) ELSE chan

Arrives(chan, types) == chan # <<>> /\ Head(chan).type \in types

-----------------------------------------------------------------------------
(* Timers: the time since `last`, capped at the period, or Off (~active) *)

Off == -1
Age(period) == {Off} \cup 0 .. period

\* fsm_timer_clear: last = now, active = true.
Cleared == 0

\* timer_triggered: active and last + period <= now.
Triggered(age, period) == age = period

\* Mutant: an expired timer keeps counting, and an inactive one starts to.
OlderUncapped(age, period) == age + 1

\* One tick later.
Older(age, period) == IF age = Off \/ age = period THEN age ELSE age + 1

\* The receive loops have something to do: a frame to read or a timer to serve.
HostBusy ==
    /\ hState \in {"poll", "chunk", "beat"}
    /\ \/ toHost # <<>>
       \/ Triggered(hReset, ResetPeriod) \/ Triggered(hResend, ResendPeriod)
DevBusy ==
    \/ dState = "load"
    \/ dState \in {"init", "chunk", "boot"} /\ toDev # <<>>
    \/ /\ dState \in {"chunk", "boot"}
       /\ Triggered(dReset, ResetPeriod) \/ Triggered(dResend, ResendPeriod)

\* Time passes for both parties.
Tick ==
    /\ Prompt => ~HostBusy /\ ~DevBusy
    /\ hReset' = Older(hReset, ResetPeriod)
    /\ hResend' = Older(hResend, ResendPeriod)
    /\ dReset' = Older(dReset, ResetPeriod)
    /\ dResend' = Older(dResend, ResendPeriod)
    /\ UNCHANGED <<line, aux, hState, hResult, hImg, hRetries, hLast,
                   dState, dImg, dIden, dNum, dFed, dBeats, dOk>>

-----------------------------------------------------------------------------
(* The line *)

\* A frame is damaged: its FCS does not match and the receiver ignores it.
Damage ==
    /\ Metered => lost < LossBudget
    /\ lost' = IF Metered THEN lost + 1 ELSE lost
    /\ \/ toDev # <<>> /\ toDev' = Tail(toDev) /\ toHost' = toHost
       \/ toHost # <<>> /\ toHost' = Tail(toHost) /\ toDev' = toDev
    /\ UNCHANGED <<aux, host, dev>>

-----------------------------------------------------------------------------
(* The host: fsm_upload *)

HostWaiting == hState \in {"poll", "chunk", "beat"}

\* From label reset to the first receive of the poll loop.
HostPolls(i) ==
    /\ hState' = "poll"
    /\ hReset' = Cleared
    /\ hResend' = Cleared
    /\ toDev' = Send(toDev, Poll(i))

\* The user starts the host program, possibly killing one that still runs.
HostStart(i) ==
    /\ runs < MaxRuns
    /\ runs' = runs + 1
    /\ hImg' = i
    /\ hResult' = "none"
    /\ hRetries' = Retries
    /\ HostPolls(i)
    /\ UNCHANGED <<toHost, lost, reboots, verified, told, hLast, dev>>

\* Mutant: the retry counter is not decremented.
HostResetForever ==
    /\ HostWaiting
    /\ Triggered(hReset, ResetPeriod)
    /\ HostPolls(hImg)
    /\ UNCHANGED <<toHost, lost, aux, hResult, hImg, hRetries, hLast, dev>>

\* TIMER_RESET: start over, or give up when no retry is left.
HostReset ==
    /\ HostWaiting
    /\ Triggered(hReset, ResetPeriod)
    /\ \/ /\ hRetries = 0
          /\ hState' = "done"
          /\ hResult' = "TIMEOUT"
          /\ hReset' = Off /\ hResend' = Off
          /\ UNCHANGED <<toDev, hRetries>>
       \/ /\ hRetries > 0
          /\ hRetries' = hRetries - 1
          /\ HostPolls(hImg)
          /\ UNCHANGED hResult
    /\ UNCHANGED <<toHost, lost, aux, hImg, hLast, dev>>

\* TIMER_RESEND is only active in the poll loop.
HostResend ==
    /\ hState = "poll"
    /\ ~Triggered(hReset, ResetPeriod)
    /\ Triggered(hResend, ResendPeriod)
    /\ toDev' = Send(toDev, Poll(hImg))
    /\ hResend' = Cleared
    /\ UNCHANGED <<toHost, lost, aux, hState, hResult, hImg, hRetries,
                   hLast, hReset, dev>>

\* fsm_recv_ack(0) succeeds: on to the chunk loop.
HostPollAcked ==
    /\ hState = "poll"
    /\ Arrives(toHost, {"ACK"}) /\ Head(toHost).iden = 0
    /\ toHost' = Tail(toHost)
    /\ hState' = "chunk"
    /\ hReset' = Cleared
    /\ hResend' = Off
    /\ hLast' = 0
    /\ UNCHANGED <<toDev, lost, aux, hResult, hImg, hRetries, dev>>

\* Frames the current loop does not look for: fsm_recv_ack skips everything
\* but the right ACK, fsm_recv skips ACKs, the heartbeat loop ignores RQCH.
HostSkip ==
    /\ \/ hState = "poll" /\ Arrives(toHost, {"RQCH", "BEAT", "BOOT"})
       \/ hState = "poll" /\ Arrives(toHost, {"ACK"}) /\ Head(toHost).iden # 0
       \/ hState = "chunk" /\ Arrives(toHost, {"ACK"})
       \/ hState = "beat" /\ Arrives(toHost, {"ACK", "RQCH"})
    /\ toHost' = Tail(toHost)
    /\ UNCHANGED <<toDev, lost, aux, host, dev>>

\* A chunk request.  platform_marshal ends the program when the chunk is past
\* the end of the file; the reply carries the identifier of the request; only
\* a request for another chunk than the last one clears TIMER_RESET.
HostServe ==
    /\ hState = "chunk"
    /\ Arrives(toHost, {"RQCH"})
    /\ toHost' = Tail(toHost)
    /\ LET f == Head(toHost) IN
       \/ /\ f.num >= Chunks[hImg]
          /\ hState' = "done"
          /\ hResult' = "EXIT"
          /\ hReset' = Off /\ hResend' = Off
          /\ UNCHANGED <<toDev, hLast>>
       \/ /\ f.num < Chunks[hImg]
          /\ toDev' = Send(toDev, Chnk(f.iden, hImg, f.num))
          /\ hReset' = IF hLast # f.num THEN Cleared ELSE hReset
          /\ hLast' = f.num
          /\ UNCHANGED <<hState, hResult, hResend>>
    /\ UNCHANGED <<lost, aux, hImg, hRetries, dev>>

\* A heartbeat ends the chunk loop, and keeps the heartbeat loop alive.
HostBeat ==
    /\ hState \in {"chunk", "beat"}
    /\ Arrives(toHost, {"BEAT"})
    /\ toHost' = Tail(toHost)
    /\ hState' = "beat"
    /\ hReset' = Cleared
    /\ UNCHANGED <<toDev, lost, aux, hResult, hImg, hRetries, hLast,
                   hResend, dev>>

\* Mutant: the success flag of the BOOT frame is not looked at.
VerdictAlwaysOk(f) == "OK"

\* What fsm_upload returns for a BOOT frame.
Verdict(f) == IF f.ok THEN "OK" ELSE "FAILED"

\* Label received_boot: acknowledge and return.
HostBoot ==
    /\ hState \in {"chunk", "beat"}
    /\ Arrives(toHost, {"BOOT"})
    /\ toHost' = Tail(toHost)
    /\ toDev' = Send(toDev, Ack(Head(toHost).iden))
    /\ hState' = "done"
    /\ hResult' = Verdict(Head(toHost))
    /\ hReset' = Off /\ hResend' = Off
    /\ told' = told \cup {<<hImg, Verdict(Head(toHost)) = "OK">>}
    /\ UNCHANGED <<lost, runs, reboots, verified, hImg, hRetries, hLast, dev>>

-----------------------------------------------------------------------------
(* The device: fsm_download *)

\* Label reset: back to waiting for a POLL, with both timers off.
DevToInit ==
    /\ dState' = "init"
    /\ dIden' = 0
    /\ dReset' = Off
    /\ dResend' = Off

\* Mutant: TIMER_RESET is not started by a POLL.
DevPolledNoTimer ==
    /\ dState = "init"
    /\ Arrives(toDev, {"POLL"})
    /\ Chunks[Head(toDev).img] > 0
    /\ toDev' = Tail(toDev)
    /\ dImg' = Head(toDev).img
    /\ dFed' = <<>> /\ dNum' = 0 /\ dBeats' = 0
    /\ toHost' = Send(Send(toHost, Ack(0)), Rqch(dIden, 0))
    /\ dState' = "chunk"
    /\ dResend' = Cleared
    /\ UNCHANGED <<lost, aux, host, dIden, dOk, dReset>>

\* A POLL is only looked at while waiting for one, and acknowledged once.
DevPolled ==
    /\ dState = "init"
    /\ Arrives(toDev, {"POLL"})
    /\ Head(toDev).img \notin Rejected
    /\ toDev' = Tail(toDev)
    /\ dImg' = Head(toDev).img
    /\ dFed' = <<>>
    /\ dNum' = 0
    /\ dBeats' = 0
    /\ dReset' = Cleared
    /\ \/ /\ Chunks[Head(toDev).img] > 0
          /\ toHost' = Send(Send(toHost, Ack(0)), Rqch(dIden, 0))
          /\ dState' = "chunk"
          /\ dResend' = Cleared
       \/ /\ Chunks[Head(toDev).img] = 0
          /\ toHost' = Send(toHost, Ack(0))
          /\ dState' = "load"
          /\ UNCHANGED dResend
    /\ UNCHANGED <<lost, aux, host, dIden, dOk>>

\* Frames the current receive skips, a refused POLL included: nothing is sent.
DevSkip ==
    /\ \/ dState = "init" /\ Arrives(toDev, {"CHNK", "ACK"})
       \/ dState = "init" /\ Arrives(toDev, {"POLL"})
                          /\ Head(toDev).img \in Rejected
       \/ dState = "chunk" /\ Arrives(toDev, {"ACK"})
       \/ dState = "boot" /\ Arrives(toDev, {"POLL", "CHNK"})
       \/ dState = "boot" /\ Arrives(toDev, {"ACK"}) /\ Head(toDev).iden # dIden
    /\ toDev' = Tail(toDev)
    /\ UNCHANGED <<toHost, lost, aux, host, dev>>

\* Mutant: the identifier is not compared.
WantedAnyChunk(f) == f.type = "CHNK"

\* The chunk that was asked for, as far as the device can tell: only the
\* identifier is compared.
Wanted(f) == f.type = "CHNK" /\ f.iden = dIden

\* platform_feed succeeds: ask for the next chunk, or start loading.
DevFed ==
    /\ dState = "chunk"
    /\ Arrives(toDev, {"CHNK"}) /\ Wanted(Head(toDev))
    /\ toDev' = Tail(toDev)
    /\ dFed' = Append(dFed, <<Head(toDev).img, Head(toDev).num>>)
    /\ dReset' = Cleared
    /\ dIden' = (dIden + 1) % IdenMod
    /\ dNum' = dNum + 1
    /\ \/ /\ dNum + 1 < Chunks[dImg]
          /\ toHost' = Send(toHost, Rqch((dIden + 1) % IdenMod, dNum + 1))
          /\ dResend' = Cleared
          /\ UNCHANGED dState
       \/ /\ dNum + 1 >= Chunks[dImg]
          /\ dState' = "load"
          /\ UNCHANGED <<toHost, dResend>>
    /\ UNCHANGED <<lost, aux, host, dImg, dBeats, dOk>>

\* platform_feed fails: the XZ decoder refuses a file that is no good, or
\* where the data of another file begins or goes on.
DevFeedFails ==
    /\ dState = "chunk"
    /\ Arrives(toDev, {"CHNK"}) /\ Wanted(Head(toDev))
    /\ dImg \in Packed
    /\ \/ dImg \in Unloadable
       \/ Head(toDev).img # dImg
       \/ \E k \in 1 .. Len(dFed) : dFed[k][1] # dImg
    /\ toDev' = Tail(toDev)
    /\ DevToInit
    /\ UNCHANGED <<toHost, lost, aux, host, dImg, dNum, dFed, dBeats, dOk>>

\* Any other frame makes the inner loop go round: the request is sent again.
DevAsksAgain ==
    /\ dState = "chunk"
    /\ Arrives(toDev, {"CHNK", "POLL"}) /\ ~Wanted(Head(toDev))
    /\ toDev' = Tail(toDev)
    /\ toHost' = Send(toHost, Rqch(dIden, dNum))
    /\ dResend' = Cleared
    /\ UNCHANGED <<lost, aux, host, dState, dImg, dIden, dNum, dFed,
                   dBeats, dOk, dReset>>

\* Mutant: a resend counts as progress and clears TIMER_RESET too.
DevResendClearsReset ==
    /\ ~Triggered(dReset, ResetPeriod)
    /\ Triggered(dResend, ResendPeriod)
    /\ \/ dState = "chunk" /\ toHost' = Send(toHost, Rqch(dIden, dNum))
       \/ dState = "boot" /\ toHost' = Send(toHost, Boot(dIden, dOk))
    /\ dResend' = Cleared /\ dReset' = Cleared
    /\ UNCHANGED <<toDev, lost, aux, host, dState, dImg, dIden, dNum, dFed,
                   dBeats, dOk>>

\* TIMER_RESEND in the chunk loop and in the boot loop.
DevResend ==
    /\ ~Triggered(dReset, ResetPeriod)
    /\ Triggered(dResend, ResendPeriod)
    /\ \/ dState = "chunk" /\ toHost' = Send(toHost, Rqch(dIden, dNum))
       \/ dState = "boot" /\ toHost' = Send(toHost, Boot(dIden, dOk))
    /\ dResend' = Cleared
    /\ UNCHANGED <<toDev, lost, aux, host, dState, dImg, dIden, dNum, dFed,
                   dBeats, dOk, dReset>>

\* Mutant: giving up on the acknowledgement boots the image.
DevResetBoots ==
    /\ dState = "boot"
    /\ Triggered(dReset, ResetPeriod)
    /\ dState' = "booted"
    /\ UNCHANGED <<line, aux, host, dImg, dIden, dNum, dFed, dBeats, dOk,
                   dReset, dResend>>

\* TIMER_RESET in the chunk loop and in the boot loop.
DevReset ==
    /\ dState \in {"chunk", "boot"}
    /\ Triggered(dReset, ResetPeriod)
    /\ DevToInit
    /\ UNCHANGED <<line, aux, host, dImg, dNum, dFed, dBeats, dOk>>

\* Mutant: only the length of the image is checked.
IntactLength == Len(dFed) = Chunks[dImg]

\* What was fed is, chunk by chunk, the announced image.
Intact == dFed = [k \in 1 .. Chunks[dImg] |-> <<dImg, k - 1>>]

\* What platform_load_image may return.  The CRC of a plain image detects one
\* that is not the announced one.  No CRC is taken of an XZ upload: whatever
\* the decoder put out is good if it is as long as the announced image
\* (feed = end) and of a known format, another file's contents too.
Verdicts ==
    IF Intact THEN {dImg \notin Unloadable}
    ELSE IF dImg \in Packed THEN BOOLEAN ELSE {FALSE}

\* crc_with_heartbeat: one heartbeat for each CRC block.
DevBeat ==
    /\ dState = "load"
    /\ dBeats < Blocks[dImg]
    /\ dBeats' = dBeats + 1
    /\ toHost' = Send(toHost, Beat(dIden))
    /\ UNCHANGED <<toDev, lost, aux, host, dState, dImg, dIden, dNum, dFed,
                   dOk, dReset, dResend>>

\* platform_load_image returns; its verdict is sent with the BOOT.  An image
\* of the wrong length is refused before its CRC is taken.
DevLoaded ==
    /\ dState = "load"
    /\ Intact => dBeats = Blocks[dImg]
    /\ dOk' \in Verdicts
    /\ toHost' = Send(toHost, Boot(dIden, dOk'))
    /\ dState' = "boot"
    /\ dReset' = Cleared
    /\ dResend' = Cleared
    /\ verified' = IF dOk' THEN verified \cup {dImg} ELSE verified
    /\ UNCHANGED <<toDev, lost, runs, reboots, told, host,
                   dImg, dIden, dNum, dFed, dBeats>>

\* The BOOT is acknowledged: fsm_download returns and main calls trampoline,
\* whatever boot.is_ok says.  The boot loader, timers included, is gone.
DevBoots ==
    /\ dState = "boot"
    /\ Arrives(toDev, {"ACK"}) /\ Head(toDev).iden = dIden
    /\ toDev' = Tail(toDev)
    /\ dState' = "booted"
    /\ dReset' = Off /\ dResend' = Off
    /\ UNCHANGED <<toHost, lost, aux, host, dImg, dIden, dNum, dFed,
                   dBeats, dOk>>

\* Power cycle: memory is lost, the boot loader starts again.
DevReboot ==
    /\ reboots < MaxReboots
    /\ reboots' = reboots + 1
    /\ DevToInit
    /\ UNCHANGED <<line, runs, verified, told, host, dImg, dNum, dFed, dBeats, dOk>>

-----------------------------------------------------------------------------
(* The system *)

Init ==
    /\ toDev = <<>> /\ toHost = <<>> /\ lost = 0
    /\ runs = 0 /\ reboots = 0
    /\ hState = "idle" /\ hResult = "none" /\ hImg \in Images
    /\ hRetries = 0 /\ hLast = 0 /\ hReset = Off /\ hResend = Off
    /\ dState = "init" /\ dImg = hImg /\ dIden = 0 /\ dNum = 0
    /\ dFed = <<>> /\ dBeats = 0 /\ dOk = FALSE /\ dReset = Off /\ dResend = Off
    /\ verified = {} /\ told = {}

HostReceives ==
    \/ HostPollAcked
    \/ HostSkip
    \/ HostServe
    \/ HostBeat
    \/ HostBoot

DevReceives ==
    \/ DevPolled
    \/ DevSkip
    \/ DevFed
    \/ DevFeedFails
    \/ DevAsksAgain
    \/ DevBoots

DevLoads ==
    \/ DevBeat
    \/ DevLoaded

Next ==
    \/ Tick
    \/ Damage
    \/ \E i \in Images : HostStart(i)
    \/ HostReset
    \/ HostResend
    \/ HostReceives
    \/ DevReset
    \/ DevResend
    \/ DevReceives
    \/ DevLoads
    \/ DevReboot

Spec == Init /\ [][Next]_vars

\* Time passes; both receive loops look at their timers and at the line again
\* and again; loading an image takes finitely many steps.  Starting the host
\* program, damaging frames and power cycles are not fair.
Fairness ==
    /\ WF_vars(Tick)
    /\ WF_vars(HostReset) /\ WF_vars(HostResend) /\ WF_vars(HostReceives)
    /\ WF_vars(DevReset) /\ WF_vars(DevResend) /\ WF_vars(DevReceives)
    /\ WF_vars(DevLoads)

FairSpec == Spec /\ Fairness

-----------------------------------------------------------------------------
(* Properties *)

TypeOK ==
    /\ toDev \in Seq(ToDevFrame) /\ toHost \in Seq(ToHostFrame)
    /\ lost \in Nat /\ runs \in Nat /\ reboots \in Nat
    /\ hState \in {"idle", "poll", "chunk", "beat", "done"}
    /\ hResult \in {"none", "OK", "FAILED", "TIMEOUT", "EXIT"}
    /\ hImg \in Images /\ hRetries \in Nat /\ hLast \in Nat
    /\ hReset \in Age(ResetPeriod) /\ hResend \in Age(ResendPeriod)
    /\ dState \in {"init", "chunk", "load", "boot", "booted"}
    /\ dImg \in Images /\ dIden \in Iden /\ dNum \in Nat
    /\ dFed \in Seq(Images \X Nat) /\ dBeats \in Nat /\ dOk \in BOOLEAN
    /\ dReset \in Age(ResetPeriod) /\ dResend \in Age(ResendPeriod)
    /\ verified \subseteq Images /\ told \subseteq Images \X BOOLEAN

\* The chunks handed to platform_feed are chunk 0, 1, 2, ... of a file, each
\* once and in this order, although the device only compares identifiers and
\* CHNK frames of earlier requests, sessions and host invocations may still be
\* on the line (fsm_download, the chunk loop).
FedInOrder ==
    dState # "init" =>
        /\ Len(dFed) = dNum
        /\ \A k \in 1 .. Len(dFed) : dFed[k][2] = k - 1

\* The user is told that an upload succeeded only if the device has found an
\* image okay to boot; when the host program was started once, it is the
\* image that was being uploaded.  (fsm_upload trusts any BOOT frame: neither
\* the frame nor its acknowledgement names the image.)
OkMeansVerified ==
    \A i \in Images :
        <<i, TRUE>> \in told => /\ verified # {}
                                /\ runs = 1 => i \in verified

\* The device leaves the boot loader only after a user was told a verdict
\* (fsm_download waits for the ACK of its BOOT frame); when the host program
\* was started once, it is the device's own verdict on its own image.  (An ACK
\* names neither: after a restart the host may acknowledge the BOOT frame of
\* an earlier session, which the device takes for an answer to its own.)
BootedMeansTold ==
    dState = "booted" => /\ told # {}
                         /\ runs = 1 => <<dImg, dOk>> \in told

\* An image that failed its verification is not booted.
BootsOnlyVerified == dState = "booted" => dOk

\* fsm_upload returns, whatever the line and the device do.
HostTerminates == HostWaiting ~> hState = "done"

\* fsm_download never hangs in a session: it boots or waits for a POLL again.
DeviceReturns ==
    dState \in {"chunk", "load", "boot"} ~> dState \in {"init", "booted"}

\* On a prompt line that damages no more frames than there are retries, an
\* upload of a good image succeeds.
Succeeds == hState = "poll" ~> hResult = "OK"

\* "Device booted successfully!" is what the host prints for UPLOAD_OK.
OkMeansBooted == hResult = "OK" ~> dState = "booted"

\* What the boot loader promises by itself.
Phase == [init |-> "idle", chunk |-> "receiving", load |-> "receiving",
          boot |-> "verdict", booted |-> "booted"]

Download == INSTANCE ImageDownload
    WITH st <- Phase[dState], img <- dImg, got <- dFed, ok <- dOk

\* fsm_download implements the abstract boot loader of ImageDownload.
DownloadSpec == Download!Spec

=============================================================================
