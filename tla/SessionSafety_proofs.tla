------------------------ MODULE SessionSafety_proofs ------------------------
(***************************************************************************)
(* Two safety properties of SessionManager, for every value of its         *)
(* constants, on top of the inductive invariant Typed:                     *)
(*                                                                         *)
(*   OneNegotiationPerLink   the negotiating goroutines follow the link;   *)
(*   RetransmissionEarned    an I frame is repeated only when answered.    *)
(***************************************************************************)
EXTENDS SessionManager_proofs

USE ManagerAssumption, ModulusAssumption

-----------------------------------------------------------------------------
(* Where the building blocks leave the call *)

LEMMA PcOf ==
  ASSUME NEW o \in Op
  PROVE  /\ NextAttempt(o).pc = "ready"
         /\ Proceed(o).pc \in {"poll", "sendI", "awaitAck"}
         /\ PollFailed(o).pc \in {"idle", "poll", "ready"}
         /\ \A p \in OpPC : [o EXCEPT !.pc = p].pc = p
<1>1. NextAttempt(o).pc = "ready"
  BY DEF NextAttempt, Op
<1>2. Proceed(o).pc \in {"poll", "sendI", "awaitAck"}
  BY DEF Proceed, Op
<1>3. PollFailed(o).pc \in {"idle", "poll", "ready"}
  BY DEF PollFailed, NextAttempt, Op, Idle
<1>4. \A p \in OpPC : [o EXCEPT !.pc = p].pc = p
  BY DEF Op
<1> QED
  BY <1>1, <1>2, <1>3, <1>4

-----------------------------------------------------------------------------
(* The negotiating goroutines *)

Setup == {"announce", "sabm", "awaitUA", "accepted", "negotiate"}

\* Until Connect starts its own, no negotiation of an earlier link is live.
NobodyNegotiatesYet == op.pc \in Setup => \A s \in Slot : ~neg[s].live

LinkFollowed == NegotiationBelongsToLink /\ NobodyNegotiatesYet

\* A step that starts no link, ends none and starts no negotiation.
Quiet ==
    /\ xidCtx' = xidCtx
    /\ \A s \in Slot : neg'[s].live => neg[s].live
    /\ state' = "disconnected" /\ op'.pc # "announce" =>
           state = "disconnected" /\ op.pc # "announce"
    /\ op'.pc \in Setup => op.pc \in Setup

LEMMA QuietFollows == LinkFollowed /\ Quiet => LinkFollowed'
  BY DEF LinkFollowed, NegotiationBelongsToLink, NobodyNegotiatesYet, Quiet

\* A link that ends takes its negotiation with it.
LEMMA EndFollows ==
  ASSUME neg \in [Slot -> Neg], FailLink
  PROVE  LinkFollowed'
<1>1. \A s \in Slot : ~neg'[s].live
  BY DEF FailLink, Cancelled, Neg
<1> QED
  BY <1>1 DEF FailLink, LinkFollowed, NegotiationBelongsToLink, NobodyNegotiatesYet

LEMMA ConnectFollows ==
  ASSUME Typed, LinkFollowed,
         \/ ConnectStart \/ ConnectAnnounce \/ ConnectSend \/ ConnectEvent
         \/ ConnectT1 \/ ConnectAccepted \/ ConnectNegotiate \/ ConnectDone
  PROVE  LinkFollowed'
<1>0. op \in Op /\ neg \in [Slot -> Neg] /\ Idle.pc = "idle"
  BY DEF Typed, OpOK, Idle
<1>1. CASE ConnectStart
  <2>1. op'.pc = "announce"
    BY <1>1 DEF ConnectStart, Idle
  <2>2. \A s \in Slot : ~neg'[s].live
    BY <1>0, <1>1 DEF ConnectStart, Cancelled, Neg
  <2> QED
    BY <2>1, <2>2 DEF LinkFollowed, NegotiationBelongsToLink, NobodyNegotiatesYet
<1>2. CASE ConnectAnnounce
  <2>1. op'.pc = "sabm"
    BY <1>0, <1>2 DEF ConnectAnnounce, Goto, Op
  <2> QED
    BY <1>2, <2>1, QuietFollows DEF ConnectAnnounce, SetState, Quiet, Setup
<1>3. CASE ConnectSend
  <2>1. op'.pc = "awaitUA"
    BY <1>0, <1>3 DEF ConnectSend, Goto, Op
  <2> QED
    BY <1>3, <2>1, QuietFollows DEF ConnectSend, link, Quiet, Setup
<1>4. CASE ConnectEvent
  <2>1. ~FailLink => UNCHANGED <<link, neg>>
    BY <1>4 DEF ConnectEvent
  <2>2. op'.pc \in {"accepted", "idle", "sabm"} /\ op.pc = "awaitUA"
    BY <1>0, <1>4 DEF ConnectEvent, Goto, Return, Op
  <2> QED
    BY <1>0, <2>1, <2>2, QuietFollows, EndFollows DEF link, Quiet, Setup
<1>5. CASE ConnectT1
  <2>1. op'.pc = "sabm"
    BY <1>0, <1>5 DEF ConnectT1, Op
  <2> QED
    BY <1>5, <2>1, QuietFollows DEF ConnectT1, SetState, Quiet, Setup
<1>6. CASE ConnectAccepted
  <2>1. op'.pc = "negotiate"
    BY <1>0, <1>6 DEF ConnectAccepted, Goto, Op
  <2> QED
    BY <1>6, <2>1, QuietFollows DEF ConnectAccepted, Quiet, Setup
<1>7. CASE ConnectNegotiate
  <2>1. PICK s \in Slot :
          neg' = [neg EXCEPT ![s] = [pc |-> "send", tries |-> 0, live |-> xidCtx]]
    BY <1>7 DEF ConnectNegotiate
  <2>2. \A t \in Slot : ~neg[t].live
    BY <1>7 DEF ConnectNegotiate, LinkFollowed, NobodyNegotiatesYet, Setup
  <2>3. \A t \in Slot : neg'[t].live => t = s /\ xidCtx
    BY <1>0, <2>1, <2>2
  <2>4. op'.pc = "xidStart" /\ op.pc = "negotiate"
    BY <1>0, <1>7 DEF ConnectNegotiate, Goto, Op
  <2>5. xidCtx' = xidCtx /\ state' = state
    BY <1>7 DEF ConnectNegotiate, link
  <2> QED
    BY <2>3, <2>4, <2>5 DEF LinkFollowed, NegotiationBelongsToLink, NobodyNegotiatesYet, Setup
<1>8. CASE ConnectDone
  BY <1>0, <1>8, QuietFollows DEF ConnectDone, Return, link, Quiet, Setup
<1> QED
  BY <1>1, <1>2, <1>3, <1>4, <1>5, <1>6, <1>7, <1>8

\* Every other call leaves the negotiation alone or ends the link.
LEMMA CallFollows ==
  ASSUME Typed, LinkFollowed,
         \/ DisconnectStart \/ DisconnectAnnounce \/ DisconnectSend
         \/ DisconnectEvent \/ DisconnectT1
         \/ (\E msg \in Messages : SendStart(msg))
         \/ ChunkStart \/ ChunkAdvance \/ SendInfo \/ AwaitAck \/ AckT1
         \/ MarkBusy \/ Acked
  PROVE  LinkFollowed'
<1>0. op \in Op /\ neg \in [Slot -> Neg] /\ Idle.pc = "idle"
  BY DEF Typed, OpOK, Idle
<1> SUFFICES Quiet \/ FailLink
  BY <1>0, QuietFollows, EndFollows
<1>1. CASE DisconnectStart
  <2>1. op'.pc = "release"
    BY <1>1 DEF DisconnectStart, Idle
  <2> QED
    BY <1>1, <2>1 DEF DisconnectStart, link, Quiet, Setup
<1>2. CASE DisconnectAnnounce
  <2>1. op'.pc = "disc"
    BY <1>0, <1>2 DEF DisconnectAnnounce, Goto, Op
  <2> QED
    BY <1>2, <2>1 DEF DisconnectAnnounce, SetState, Quiet, Setup
<1>3. CASE DisconnectSend
  <2>1. op'.pc = "awaitRelease"
    BY <1>0, <1>3 DEF DisconnectSend, Goto, Op
  <2> QED
    BY <1>3, <2>1 DEF DisconnectSend, link, Quiet, Setup
<1>4. CASE DisconnectEvent
  <2>1. op'.pc \in {"idle", "disc"}
    BY <1>0, <1>4 DEF DisconnectEvent, Return, Op
  <2> QED
    BY <1>4, <2>1 DEF DisconnectEvent, link, Quiet, Setup
<1>5. CASE DisconnectT1
  <2>1. op'.pc = "disc"
    BY <1>0, <1>5 DEF DisconnectT1, Op
  <2> QED
    BY <1>5, <2>1 DEF DisconnectT1, link, Quiet, Setup
<1>6. CASE \E msg \in Messages : SendStart(msg)
  <2>1. op'.pc = "chunk"
    BY <1>6 DEF SendStart, Idle
  <2> QED
    BY <1>6, <2>1 DEF SendStart, link, Quiet, Setup
<1>7. CASE ChunkStart
  <2>1. op'.pc \in {"idle", "advance"}
    BY <1>0, <1>7 DEF ChunkStart, Return, Op
  <2> QED
    BY <1>7, <2>1 DEF ChunkStart, link, Quiet, Setup
<1>8. CASE ChunkAdvance
  <2>1. op'.pc = "ready"
    BY <1>0, <1>8 DEF ChunkAdvance, Goto, Op
  <2> QED
    BY <1>8, <2>1 DEF ChunkAdvance, Quiet, Setup
<1>9. CASE SendInfo
  <2>1. op'.pc = "awaitAck"
    BY <1>0, <1>9 DEF SendInfo, Op
  <2> QED
    BY <1>9, <2>1 DEF SendInfo, link, Quiet, Setup
<1>10. CASE AwaitAck
  <2>1. op'.pc \in {"idle", "markBusy", "acked", "ready", "awaitAck"}
    BY <1>0, <1>10 DEF AwaitAck, NextAttempt, Op
  <2> QED
    BY <1>10, <2>1 DEF AwaitAck, link, Quiet, Setup
<1>11. CASE AckT1
  <2>1. op'.pc = "poll"
    BY <1>0, <1>11 DEF AckT1, Goto, Op
  <2> QED
    BY <1>11, <2>1 DEF AckT1, link, Quiet, Setup
<1>12. CASE MarkBusy
  <2>1. op'.pc \in {"idle", "chunk", "ready"}
    BY <1>0, <1>12 DEF MarkBusy, ChunkSent, NextAttempt, Op
  <2> QED
    BY <1>12, <2>1 DEF MarkBusy, Quiet, Setup
<1>13. CASE Acked
  <2>1. op'.pc \in {"idle", "chunk"}
    BY <1>0, <1>13 DEF Acked, ChunkSent, Op
  <2> QED
    BY <1>13, <2>1 DEF Acked, Quiet, Setup
<1> QED
  BY <1>1, <1>2, <1>3, <1>4, <1>5, <1>6, <1>7, <1>8, <1>9, <1>10, <1>11, <1>12,
     <1>13

LEMMA PollFollows ==
  ASSUME Typed, LinkFollowed,
         \/ ReadyCheck \/ BusyPoll \/ BusyAck \/ BusyT1 \/ SendGivesUp
         \/ ProbeStart \/ Poll \/ PollAck \/ PollT1 \/ Recovered \/ Judge
         \/ CommandGivesUp \/ PortRefuses \/ Cancel \/ ObserveCancel
  PROVE  LinkFollowed'
<1>0. /\ op \in Op /\ neg \in [Slot -> Neg] /\ Idle.pc = "idle"
      /\ PollFailed(op).pc \in {"idle", "poll", "ready"}
      /\ Proceed(op).pc \in {"poll", "sendI", "awaitAck"}
      /\ \A p \in OpPC : [op EXCEPT !.pc = p].pc = p
  BY PcOf DEF Typed, OpOK, Idle
<1> SUFFICES Quiet \/ FailLink
  BY <1>0, QuietFollows, EndFollows
<1>1. CASE ReadyCheck
  <2>1. op'.pc \in {"busyPoll", "poll", "sendI", "awaitAck"}
    BY <1>0, <1>1 DEF ReadyCheck, Op
  <2> QED
    BY <1>1, <2>1 DEF ReadyCheck, link, Quiet, Setup
<1>2. CASE BusyPoll
  <2>1. op'.pc = "busyWait"
    BY <1>0, <1>2 DEF BusyPoll, Op
  <2> QED
    BY <1>2, <2>1 DEF BusyPoll, link, Quiet, Setup
<1>3. CASE BusyAck
  <2>1. op'.pc \in {"idle", "poll", "sendI", "awaitAck", "busyWait"}
    BY <1>0, <1>3 DEF BusyAck, Return
  <2>2. FailLink \/ UNCHANGED <<state, xidCtx, neg>>
    BY <1>3 DEF BusyAck, link
  <2>3. op.pc = "busyWait"
    BY <1>3 DEF BusyAck
  <2> QED
    BY <2>1, <2>2, <2>3 DEF Quiet, Setup
<1>4. CASE BusyT1
  <2>1. op'.pc = "ready"
    BY <1>0, <1>4 DEF BusyT1, Op
  <2> QED
    BY <1>4, <2>1 DEF BusyT1, link, Quiet, Setup
<1>5. CASE SendGivesUp
  BY <1>5 DEF SendGivesUp
<1>6. CASE ProbeStart
  <2>1. op'.pc = "poll"
    BY <1>6 DEF ProbeStart, Idle
  <2> QED
    BY <1>6, <2>1 DEF ProbeStart, link, Quiet, Setup
<1>7. CASE Poll
  <2>1. op'.pc \in {"pollWait", "idle", "poll", "ready"}
    BY <1>0, <1>7 DEF Poll, Goto, OpPC
  <2> QED
    BY <1>7, <2>1 DEF Poll, SetState, Quiet, Setup
<1>8. CASE PollAck
  <2>1. op'.pc \in {"idle", "recovered", "pollWait"}
    BY <1>0, <1>8, ZenonT(60) DEF PollAck, Return, Op
  <2> QED
    BY <1>8, <2>1 DEF PollAck, link, Quiet, Setup
<1>9. CASE PollT1
  BY <1>0, <1>9 DEF PollT1, link, Quiet, Setup
<1>10. CASE Recovered
  <2>1. op'.pc \in {"idle", "judge"}
    BY <1>0, <1>10 DEF Recovered, Return, Goto, OpPC
  <2> QED
    BY <1>10, <2>1 DEF Recovered, SetState, Quiet, Setup
<1>11. CASE Judge
  <2>1. op'.pc \in {"acked", "sendI", "ready"}
    BY <1>0, <1>11 DEF Judge, NextAttempt, Op
  <2> QED
    BY <1>11, <2>1 DEF Judge, Quiet, Setup
<1>12. CASE CommandGivesUp
  <2>1. op'.pc = "idle"
    BY <1>0, <1>12 DEF CommandGivesUp, Return
  <2>2. op.pc # "announce"
    BY <1>12 DEF CommandGivesUp
  <2> QED
    BY <1>12, <2>1, <2>2 DEF CommandGivesUp, link, Quiet, Setup
<1>13. CASE PortRefuses
  BY <1>13 DEF PortRefuses
<1>14. CASE Cancel
  <2>1. op'.pc = op.pc
    BY <1>0, <1>14 DEF Cancel, Op
  <2> QED
    BY <1>14, <2>1 DEF Cancel, link, Quiet
<1>15. CASE ObserveCancel
  <2>1. op'.pc \in {"idle", "poll", "ready"}
    BY <1>0, <1>15 DEF ObserveCancel, Return
  <2>2. FailLink \/ UNCHANGED <<link, neg>>
    BY <1>15 DEF ObserveCancel
  <2>3. op.pc # "announce"
    BY <1>15 DEF ObserveCancel
  <2> QED
    BY <2>1, <2>2, <2>3 DEF link, Quiet, Setup
<1> QED
  BY <1>1, <1>2, <1>3, <1>4, <1>5, <1>6, <1>7, <1>8, <1>9, <1>10, <1>11, <1>12,
     <1>13, <1>14, <1>15

\* The negotiating goroutines and Handle leave the call where it is; of them
\* only Handle ends a link.
LEMMA ServeFollows ==
  ASSUME Typed, LinkFollowed,
         \/ \E s \in Slot : Negotiate(s)
         \/ \E f \in RxFrames : RxStart(f)
         \/ RxStep \/ GraceEnds
  PROVE  LinkFollowed'
<1>0. neg \in [Slot -> Neg]
  BY DEF Typed
<1> SUFFICES Quiet \/ FailLink
  BY <1>0, QuietFollows, EndFollows
<1>1. ASSUME NEW s \in Slot, Negotiate(s) PROVE Quiet
  <2>1. neg[s] \in Neg /\ NegRetry(neg[s]).live = neg[s].live /\ ~FreeNeg.live
    BY <1>0 DEF Neg, NegRetry, FreeNeg
  <2>2. UNCHANGED <<state, xidCtx, op>>
    BY <1>1 DEF Negotiate, NegSend, NegEvent, NegTM201, NegCancelled, NegApply, link
  <2>3. \A t \in Slot : neg'[t].live => neg[t].live
    <3>1. CASE NegSend(s)
      <4>1. neg' = [neg EXCEPT ![s] = [neg[s] EXCEPT !.pc = "wait"]]
            \/ neg' = [neg EXCEPT ![s] = FreeNeg]
        BY <3>1 DEF NegSend
      <4>2. [neg[s] EXCEPT !.pc = "wait"].live = neg[s].live
        BY <2>1 DEF Neg
      <4> QED
        BY <1>0, <2>1, <4>1, <4>2
    <3>2. CASE NegEvent(s)
      <4>1. Head(xid) \in XidEvent
        BY <3>2, TailOK DEF NegEvent, Typed, QueuesOK
      <4>2. CASE Head(xid) = "refused"
        BY <1>0, <2>1, <3>2, <4>2 DEF NegEvent, Neg
      <4>3. CASE Head(xid) = "accepted"
        BY <1>0, <2>1, <3>2, <4>3 DEF NegEvent, Neg
      <4>4. CASE Head(xid) = "frmr"
        BY <1>0, <2>1, <3>2, <4>4 DEF NegEvent, Neg
      <4> QED
        BY <4>1, <4>2, <4>3, <4>4 DEF XidEvent
    <3>3. CASE NegTM201(s)
      BY <1>0, <2>1, <3>3 DEF NegTM201, Neg
    <3>4. CASE NegCancelled(s)
      BY <1>0, <2>1, <3>4 DEF NegCancelled, Neg
    <3>5. CASE NegApply(s)
      BY <1>0, <2>1, <3>5 DEF NegApply, Neg
    <3> QED
      BY <1>1, <3>1, <3>2, <3>3, <3>4, <3>5 DEF Negotiate
  <2> QED
    BY <2>2, <2>3 DEF Quiet
<1>2. (\E f \in RxFrames : RxStart(f)) \/ GraceEnds => Quiet
  BY DEF RxStart, GraceEnds, link, Quiet
<1>3. RxStep => FailLink \/ UNCHANGED <<state, xidCtx, neg, op>>
  BY DEF RxStep, RxAnswer, RxXIDCommand, RxXIDResponse, RxModeResponse, RxDISC,
         RxSABMCollision, RxSABMReset, RxSupervisory, RxReject, RxInformation,
         RxFinish, link
<1>4. RxStep => Quiet \/ FailLink
  BY <1>3 DEF Quiet
<1> QED
  BY <1>1, <1>2, <1>4

\* Of the goroutines negotiating link parameters at most one is not cancelled,
\* it belongs to the current link, and a link that ends takes it along: a late
\* answer to an earlier link's XID cannot be waited for by a live goroutine.
THEOREM OneNegotiationPerLink == Spec => []NegotiationBelongsToLink
<1>1. Init => Typed /\ LinkFollowed
  <2>1. Init => \A s \in Slot : ~neg[s].live
    BY DEF Init, FreeNeg
  <2> QED
    BY <2>1, InitTyped
    DEF Init, LinkFollowed, NegotiationBelongsToLink, NobodyNegotiatesYet
<1>2. Typed /\ LinkFollowed /\ [Next]_vars => (Typed /\ LinkFollowed)'
  <2> SUFFICES ASSUME Typed, LinkFollowed, [Next]_vars PROVE LinkFollowed'
    BY NextTyped
  <2>1. CASE Next
    BY <2>1, ConnectFollows, CallFollows, PollFollows, ServeFollows
    DEF Next, Call, Internal, Progress, TakeEvent, Expire
  <2>2. CASE UNCHANGED vars
    BY <2>2, QuietFollows DEF vars, link, Quiet
  <2> QED
    BY <2>1, <2>2
<1>3. LinkFollowed => NegotiationBelongsToLink
  BY DEF LinkFollowed
<1> QED
  BY <1>1, <1>2, <1>3, PTL DEF Spec

-----------------------------------------------------------------------------
(* Retransmissions *)

PollAnswer == {"RR", "RNR", "REJ"}

\* What an acknowledgement marked as the answer to an enquiry can be.
SoundAck == {a \in Ack : a.answer => a.type \in PollAnswer}

AcksAreSound == ack \in Seq(SoundAck) /\ rx.ack \in SoundAck

\* A call that will repeat its I frame holds the answer that permits it; one
\* that keeps polling will not repeat it.
Earned(o) ==
    /\ o.pollOnly => ~o.needSend
    /\ o.pc \in {"sendI", "awaitAck", "markBusy"} => ~o.pollOnly
    /\ o.pc = "advance" => o.tries = 0
    /\ o.pc \in {"ready", "busyPoll", "busyWait"} /\ o.tries > 0 /\ o.needSend =>
           o.got.type \in PollAnswer
    /\ o.pc = "sendI" /\ o.tries > 0 => o.got.type \in PollAnswer
    /\ o.pc \in {"recovered", "judge"} => o.got.type \in PollAnswer
    /\ o.pc = "markBusy" => o.got.type = "RNR"

Justified == AcksAreSound /\ Earned(op)

\* A call takes acknowledgements from the queue or throws them away.
Consumes == \/ ack' = ack \/ ack' = <<>>
            \/ ack # <<>> /\ ack' = Tail(ack)

LEMMA ConsumedAreSound ==
  ASSUME AcksAreSound, Consumes, rx' = rx
  PROVE  AcksAreSound'
<1>1. ack # <<>> => Tail(ack) \in Seq(SoundAck)
  BY DEF AcksAreSound
<1>2. <<>> \in Seq(SoundAck)
  BY EmptySeq
<1>3. ack' \in Seq(SoundAck)
  BY <1>1, <1>2 DEF AcksAreSound, Consumes
<1> QED
  BY <1>3 DEF AcksAreSound

LEMMA OfferedAreSound ==
  ASSUME AcksAreSound, NEW a \in SoundAck
  PROVE  Offer(ack, a, AckCap) \in Seq(SoundAck)
  BY DEF AcksAreSound, Offer

\* What Handle tells the sender: only a supervisory response answers a poll.
LEMMA AckOfSound ==
  ASSUME NEW f \in Frame, f.type \in {"I", "RR", "RNR", "REJ", "SREJ"},
         f.type = "I" => IsCommand(f)
  PROVE  AckOf(f) \in SoundAck
<1>1. AckOf(f) \in Ack
  BY AckOfOK
<1>2. AckOf(f).answer => AckOf(f).type \in PollAnswer
  BY DEF AckOf, IsResponse, IsCommand, PollAnswer
<1> QED
  BY <1>1, <1>2 DEF SoundAck

LEMMA NoticesAreSound ==
    NoAck \in SoundAck /\ \A t \in {"DM", "DISC", "SABM"} : Termination(t) \in SoundAck
<1>1. NoAck \in SoundAck
  BY NumbersOK DEF SoundAck, NoAck
<1>2. \A t \in {"DM", "DISC", "SABM"} : Termination(t) \in SoundAck
  BY TerminationOK DEF SoundAck, Termination
<1> QED
  BY <1>1, <1>2

\* Handle only adds sound acknowledgements and leaves the call alone.
LEMMA HandleKeepsSound ==
  ASSUME Typed, AcksAreSound,
         (\E f \in RxFrames : RxStart(f)) \/ RxStep
  PROVE  AcksAreSound' /\ op' = op
<1>0. /\ rx \in Rx /\ rx.frame \in Frame /\ rx.ack \in SoundAck
      /\ RxIdle.ack = NoAck /\ NoAck \in SoundAck
  BY NoticesAreSound DEF Typed, Rx, AcksAreSound, RxIdle
<1>1. \A a, r : Then(a, r) => rx'.ack = a
  BY DEF Then, RxIdle
<1>2. RxEnd => rx'.ack = NoAck
  BY DEF RxEnd, RxIdle
<1>3. ASSUME NEW f \in RxFrames, RxStart(f) PROVE AcksAreSound' /\ op' = op
  <2>1. rx'.ack = NoAck
    BY <1>3 DEF RxStart, RxIdle
  <2> QED
    BY <1>0, <1>3, <2>1 DEF RxStart, AcksAreSound, queues
<1>4. CASE RxAnswer
  BY <1>0, <1>2, <1>4 DEF RxAnswer, AcksAreSound, queues
<1>5. CASE RxXIDCommand
  BY <1>0, <1>2, <1>5 DEF RxXIDCommand, AcksAreSound, queues
<1>6. CASE RxXIDResponse
  BY <1>0, <1>2, <1>6 DEF RxXIDResponse, AcksAreSound, queues
<1>7. CASE RxModeResponse
  <2>1. rx'.ack \in {NoAck, Termination("DM")}
    BY <1>1, <1>2, <1>7 DEF RxModeResponse
  <2> QED
    BY <1>7, <2>1, NoticesAreSound DEF RxModeResponse, AcksAreSound
<1>8. CASE RxDISC
  <2>1. rx'.ack = Termination("DISC")
    BY <1>1, <1>8 DEF RxDISC
  <2> QED
    BY <1>8, <2>1, NoticesAreSound DEF RxDISC, AcksAreSound, queues
<1>9. CASE RxSABMCollision
  BY <1>0, <1>2, <1>9 DEF RxSABMCollision, AcksAreSound, queues
<1>10. CASE RxSABMReset
  <2>1. rx'.ack \in {NoAck, Termination("SABM")}
    BY <1>1, <1>2, <1>10 DEF RxSABMReset
  <2> QED
    BY <1>10, <2>1, NoticesAreSound DEF RxSABMReset, AcksAreSound, queues
<1>11. CASE RxSupervisory
  <2>1. rx'.ack = AckOf(rx.frame) /\ rx.frame.type \in {"RR", "RNR"}
    BY <1>1, <1>11 DEF RxSupervisory, Applying
  <2>2. rx'.ack \in SoundAck
    BY <1>0, <2>1, AckOfSound
  <2> QED
    BY <1>11, <2>2 DEF RxSupervisory, AcksAreSound, queues
<1>12. CASE RxReject
  <2>1. AckOf(rx.frame) \in SoundAck
    BY <1>0, <1>12, AckOfSound DEF RxReject, Applying
  <2>2. ack' \in Seq(SoundAck)
    BY <1>12, <2>1, OfferedAreSound DEF RxReject
  <2> QED
    BY <1>0, <1>2, <1>12, <2>2 DEF RxReject, AcksAreSound
<1>13. CASE RxInformation
  <2>1. rx'.ack \in SoundAck
    <3>1. CASE IsCommand(rx.frame)
      <4>1. AckOf(rx.frame) \in SoundAck
        BY <1>0, <1>13, <3>1, AckOfSound DEF RxInformation, Applying
      <4> QED
        BY <1>0, <1>1, <1>2, <1>13, <4>1 DEF RxInformation
    <3>2. CASE ~IsCommand(rx.frame)
      BY <1>0, <1>2, <1>13, <3>2 DEF RxInformation
    <3> QED
      BY <3>1, <3>2
  <2> QED
    BY <1>13, <2>1 DEF RxInformation, AcksAreSound, queues
<1>14. CASE RxFinish
  <2>1. ack' \in Seq(SoundAck)
    BY <1>0, <1>14, OfferedAreSound DEF RxFinish, AcksAreSound
  <2> QED
    BY <1>0, <1>2, <1>14, <2>1 DEF RxFinish, AcksAreSound
<1> QED
  BY <1>3, <1>4, <1>5, <1>6, <1>7, <1>8, <1>9, <1>10, <1>11, <1>12, <1>13, <1>14
  DEF RxStep

-----------------------------------------------------------------------------
(* The call in progress *)

\* The pcs of a call that carry no obligation of their own.
LEMMA EarnedElsewhere ==
  ASSUME NEW o, o.pollOnly => ~o.needSend,
         o.pc \notin {"advance", "ready", "busyPoll", "busyWait", "sendI", "awaitAck",
                      "recovered", "judge", "markBusy"}
  PROVE  Earned(o)
  BY DEF Earned

LEMMA IdleEarned == Earned(Idle)
  BY DEF Earned, Idle

\* A chunk attempted again, with the answer it was given.
LEMMA AttemptEarned ==
  ASSUME NEW o \in Op, o.pollOnly => ~o.needSend,
         o.needSend => o.got.type \in PollAnswer
  PROVE  Earned(NextAttempt(o))
  BY DEF NextAttempt, Earned, Op

LEMMA ProceedEarned ==
  ASSUME NEW o \in Op, Earned(o), o.pc \in {"ready", "busyWait"}
  PROVE  Earned(Proceed(o))
  BY DEF Proceed, Earned, Op

LEMMA PollFailedEarned ==
  ASSUME NEW o \in Op, o.pollOnly => ~o.needSend
  PROVE  Earned(PollFailed(o))
<1> DEFINE f == [o EXCEPT !.pollOnly = TRUE, !.needSend = FALSE]
<1>1. f \in Op /\ ~f.needSend
  BY DEF Op
<1>2. Earned(NextAttempt(f))
  BY <1>1, AttemptEarned
<1>3. Earned([o EXCEPT !.pc = "poll", !.tries = @ + 1])
  BY DEF Earned, Op
<1> QED
  BY <1>2, <1>3, IdleEarned DEF PollFailed

\* What a goroutine in a call does to the acknowledgements.
CallStep ==
    \/ ConnectStart \/ ConnectAnnounce \/ ConnectSend \/ ConnectEvent
    \/ ConnectT1 \/ ConnectAccepted \/ ConnectNegotiate \/ ConnectDone
    \/ DisconnectStart \/ DisconnectAnnounce \/ DisconnectSend
    \/ DisconnectEvent \/ DisconnectT1
    \/ (\E msg \in Messages : SendStart(msg))
    \/ ChunkStart \/ ChunkAdvance \/ SendInfo \/ AwaitAck \/ AckT1
    \/ MarkBusy \/ Acked
    \/ ReadyCheck \/ BusyPoll \/ BusyAck \/ BusyT1 \/ SendGivesUp
    \/ ProbeStart \/ Poll \/ PollAck \/ PollT1 \/ Recovered \/ Judge
    \/ CommandGivesUp \/ PortRefuses \/ Cancel \/ ObserveCancel

LEMMA CallConsumes == CallStep => Consumes /\ rx' = rx
<1>1. \/ ConnectStart \/ ConnectAnnounce \/ ConnectSend \/ ConnectEvent
      \/ ConnectT1 \/ ConnectAccepted \/ ConnectNegotiate \/ ConnectDone
      \/ DisconnectStart \/ DisconnectAnnounce \/ DisconnectSend
      \/ DisconnectEvent \/ DisconnectT1
      => Consumes /\ rx' = rx
  BY DEF ConnectStart, ConnectAnnounce, ConnectSend, ConnectEvent, ConnectT1,
         ConnectAccepted, ConnectNegotiate, ConnectDone, DisconnectStart,
         DisconnectAnnounce, DisconnectSend, DisconnectEvent, DisconnectT1,
         queues, Consumes
<1>2. \/ (\E msg \in Messages : SendStart(msg))
      \/ ChunkStart \/ ChunkAdvance \/ SendInfo \/ AwaitAck \/ AckT1
      \/ MarkBusy \/ Acked
      => Consumes /\ rx' = rx
  BY DEF SendStart, ChunkStart, ChunkAdvance, SendInfo, AwaitAck, AckT1,
         MarkBusy, Acked, queues, Consumes
<1>3. \/ ReadyCheck \/ BusyPoll \/ BusyAck \/ BusyT1 \/ SendGivesUp
      \/ ProbeStart \/ Poll \/ PollAck \/ PollT1 \/ Recovered \/ Judge
      => Consumes /\ rx' = rx
  BY DEF ReadyCheck, BusyPoll, BusyAck, BusyT1, SendGivesUp, ProbeStart, Poll,
         PollAck, PollT1, Recovered, Judge, queues, Consumes
<1>4. CommandGivesUp \/ PortRefuses \/ Cancel \/ ObserveCancel => Consumes /\ rx' = rx
  BY DEF CommandGivesUp, PortRefuses, Cancel, ObserveCancel, queues, Consumes
<1> QED
  BY <1>1, <1>2, <1>3, <1>4 DEF CallStep

\* Connecting and disconnecting transfer nothing.
LEMMA ModeEarned ==
  ASSUME Typed, Earned(op),
         \/ ConnectStart \/ ConnectAnnounce \/ ConnectSend \/ ConnectEvent
         \/ ConnectT1 \/ ConnectAccepted \/ ConnectNegotiate \/ ConnectDone
         \/ DisconnectStart \/ DisconnectAnnounce \/ DisconnectSend
         \/ DisconnectEvent \/ DisconnectT1
  PROVE  Earned(op')
<1> DEFINE pcs == {"announce", "sabm", "awaitUA", "accepted", "negotiate",
                   "xidStart", "release", "disc", "awaitRelease", "idle"}
<1>0. op \in Op /\ (op.pollOnly => ~op.needSend) /\ ~Idle.pollOnly /\ ~Idle.needSend
      /\ Idle.pc = "idle"
  BY DEF Typed, OpOK, Earned, Idle
<1> SUFFICES op'.pc \in pcs /\ (op'.pollOnly => ~op'.needSend)
  BY EarnedElsewhere
<1>1. CASE ConnectStart
  BY <1>0, <1>1 DEF ConnectStart, Idle
<1>2. CASE DisconnectStart
  BY <1>0, <1>2 DEF DisconnectStart, Idle
<1>3. CASE ConnectAnnounce \/ ConnectSend \/ ConnectAccepted \/ ConnectNegotiate
  BY <1>0, <1>3
  DEF ConnectAnnounce, ConnectSend, ConnectAccepted, ConnectNegotiate, Goto, Op
<1>4. CASE ConnectEvent \/ ConnectT1 \/ ConnectDone
  BY <1>0, <1>4 DEF ConnectEvent, ConnectT1, ConnectDone, Goto, Return, Op
<1>5. CASE DisconnectAnnounce \/ DisconnectSend \/ DisconnectEvent \/ DisconnectT1
  BY <1>0, <1>5
  DEF DisconnectAnnounce, DisconnectSend, DisconnectEvent, DisconnectT1, Goto, Return, Op
<1> QED
  BY <1>1, <1>2, <1>3, <1>4, <1>5

LEMMA ChunkEarned ==
  ASSUME Typed, Justified,
         \/ (\E msg \in Messages : SendStart(msg))
         \/ ChunkStart \/ ChunkAdvance \/ SendInfo \/ AwaitAck \/ AckT1
         \/ MarkBusy \/ Acked
  PROVE  Earned(op')
<1>0. op \in Op /\ Earned(op) /\ (op.pollOnly => ~op.needSend)
  BY DEF Typed, OpOK, Justified, Earned
<1>1. CASE \E msg \in Messages : SendStart(msg)
  BY <1>1, EarnedElsewhere DEF SendStart, Idle
<1>2. CASE ChunkStart
  <2>1. op' = Idle \/ (op'.pc = "advance" /\ ~op'.pollOnly /\ op'.tries = 0)
    BY <1>0, <1>2 DEF ChunkStart, Return, Op
  <2> QED
    BY <2>1, IdleEarned DEF Earned
<1>3. CASE ChunkAdvance
  BY <1>0, <1>3 DEF ChunkAdvance, Goto, Earned, Op
<1>4. CASE SendInfo
  BY <1>0, <1>4 DEF SendInfo, Earned, Op
<1>5. CASE AwaitAck
  <2> DEFINE a == Head(ack)
             f == [op EXCEPT !.needSend = TRUE, !.got = a]
  <2>1. a \in Ack /\ op.pc = "awaitAck" /\ ~op.pollOnly
    BY <1>0, <1>5, TailOK DEF AwaitAck, Typed, QueuesOK, Earned
  <2>2. a.type = "RNR" => Earned([op EXCEPT !.pc = "markBusy", !.got = a])
    BY <1>0, <2>1 DEF Earned, Op
  <2>3. Earned([op EXCEPT !.pc = "acked", !.got = a])
    BY <1>0, <2>1 DEF Earned, Op
  <2>4. f \in Op /\ ~f.pollOnly /\ f.got = a
    BY <1>0, <2>1 DEF Op
  <2>5. IsReject(a) => Earned(NextAttempt(f))
    BY <2>4, AttemptEarned DEF IsReject, PollAnswer
  <2> QED
    BY <1>0, <1>5, <2>2, <2>3, <2>5, IdleEarned DEF AwaitAck
<1>6. CASE AckT1
  BY <1>0, <1>6 DEF AckT1, Goto, Earned, Op
<1>7. CASE MarkBusy
  <2> DEFINE f == [op EXCEPT !.needSend = TRUE]
  <2>1. op.got.type = "RNR" /\ ~op.pollOnly
    BY <1>0, <1>7 DEF MarkBusy, Earned
  <2>2. f \in Op /\ ~f.pollOnly /\ f.got.type \in PollAnswer
    BY <1>0, <2>1 DEF Op, PollAnswer
  <2>3. Earned(NextAttempt(f))
    BY <2>2, AttemptEarned
  <2>4. ChunkSent => Earned(op')
    BY <1>0, IdleEarned DEF ChunkSent, Earned, Op
  <2> QED
    BY <1>7, <2>3, <2>4 DEF MarkBusy
<1>8. CASE Acked
  BY <1>0, <1>8, IdleEarned DEF Acked, ChunkSent, Earned, Op
<1> QED
  BY <1>1, <1>2, <1>3, <1>4, <1>5, <1>6, <1>7, <1>8

LEMMA PollEarned ==
  ASSUME Typed, Justified,
         \/ ReadyCheck \/ BusyPoll \/ BusyAck \/ BusyT1 \/ SendGivesUp
         \/ ProbeStart \/ Poll \/ PollAck \/ PollT1 \/ Recovered \/ Judge
         \/ CommandGivesUp \/ PortRefuses \/ Cancel \/ ObserveCancel
  PROVE  Earned(op')
<1>0. op \in Op /\ Earned(op) /\ (op.pollOnly => ~op.needSend)
  BY DEF Typed, OpOK, Justified, Earned
<1>a. Earned(PollFailed(op))
  BY <1>0, PollFailedEarned
<1>1. CASE ReadyCheck
  <2>1. Earned(Proceed(op))
    BY <1>0, <1>1, ProceedEarned DEF ReadyCheck
  <2>2. Earned([op EXCEPT !.pc = "busyPoll", !.busyNr = vr])
    BY <1>0, <1>1 DEF ReadyCheck, Earned, Op
  <2> QED
    BY <1>1, <2>1, <2>2 DEF ReadyCheck
<1>2. CASE BusyPoll
  BY <1>0, <1>2 DEF BusyPoll, Earned, Op
<1>3. CASE BusyAck
  <2>1. Earned(Proceed(op))
    BY <1>0, <1>3, ProceedEarned DEF BusyAck
  <2> QED
    BY <1>0, <1>3, <2>1, IdleEarned DEF BusyAck, Return
<1>4. CASE BusyT1
  BY <1>0, <1>4 DEF BusyT1, Earned, Op
<1>5. CASE ProbeStart
  BY <1>5, EarnedElsewhere DEF ProbeStart, Idle
<1>6. CASE Poll
  <2>1. Earned([op EXCEPT !.pc = "pollWait"])
    BY <1>0 DEF Earned, Op
  <2> QED
    BY <1>6, <1>a, <2>1 DEF Poll, Goto
<1>7. CASE PollAck
  <2> DEFINE a == Head(ack)
  <2>1. ack # <<>> /\ a \in SoundAck
    BY <1>7 DEF PollAck, Justified, AcksAreSound
  <2>2. a.answer => Earned([op EXCEPT !.pc = "recovered", !.got = a])
    BY <1>0, <2>1 DEF Earned, SoundAck, Op
  <2> QED
    BY <1>0, <1>7, <2>2, IdleEarned DEF PollAck, Return
<1>8. CASE PollT1
  BY <1>8, <1>a DEF PollT1
<1>9. CASE Recovered
  <2>1. Earned([op EXCEPT !.pc = "judge"])
    BY <1>0, <1>9 DEF Recovered, Earned, Op
  <2> QED
    BY <1>9, <2>1, IdleEarned DEF Recovered, Goto, Return
<1>10. CASE Judge
  <2> DEFINE f == [op EXCEPT !.needSend = TRUE]
  <2>1. op.pc = "judge" /\ op.got.type \in PollAnswer
    BY <1>0, <1>10 DEF Judge, Earned
  <2>2. Earned([op EXCEPT !.pc = "acked"])
    BY <1>0 DEF Earned, Op
  <2>3. Earned([op EXCEPT !.pc = "sendI", !.pollOnly = FALSE, !.needSend = TRUE])
    BY <1>0, <2>1 DEF Earned, Op
  <2>4. f \in Op /\ f.pollOnly = op.pollOnly /\ f.got = op.got
    BY <1>0 DEF Op
  <2>5. ~op.pollOnly => Earned(NextAttempt(f))
    BY <2>1, <2>4, AttemptEarned
  <2> QED
    BY <1>10, <2>2, <2>3, <2>5 DEF Judge
<1>11. CASE SendGivesUp \/ CommandGivesUp \/ PortRefuses
  BY <1>11, IdleEarned DEF SendGivesUp, CommandGivesUp, PortRefuses, Return
<1>12. CASE Cancel
  BY <1>0, <1>12 DEF Cancel, Earned, Op
<1>13. CASE ObserveCancel
  BY <1>13, <1>a, IdleEarned DEF ObserveCancel, Return
<1> QED
  BY <1>1, <1>2, <1>3, <1>4, <1>5, <1>6, <1>7, <1>8, <1>9, <1>10, <1>11, <1>12,
     <1>13

LEMMA NextJustified ==
  ASSUME Typed, Justified, [Next]_vars
  PROVE  Justified'
<1>0. AcksAreSound /\ Earned(op)
  BY DEF Justified
<1>1. CASE CallStep
  <2>1. AcksAreSound'
    BY <1>0, <1>1, CallConsumes, ConsumedAreSound
  <2>2. Earned(op')
    BY <1>0, <1>1, ModeEarned, ChunkEarned, PollEarned DEF CallStep
  <2> QED
    BY <2>1, <2>2 DEF Justified
<1>2. CASE (\E f \in RxFrames : RxStart(f)) \/ RxStep
  BY <1>0, <1>2, HandleKeepsSound DEF Justified
<1>3. CASE (\E s \in Slot : Negotiate(s)) \/ GraceEnds
  <2>1. op' = op /\ rx' = rx /\ ack' = ack
    BY <1>3 DEF Negotiate, NegSend, NegEvent, NegTM201, NegCancelled, NegApply,
                GraceEnds, queues
  <2> QED
    BY <1>0, <2>1 DEF Justified, AcksAreSound
<1>4. CASE UNCHANGED vars
  BY <1>0, <1>4 DEF vars, queues, Justified, AcksAreSound
<1> QED
  BY <1>1, <1>2, <1>3, <1>4
  DEF Next, Call, Internal, Progress, TakeEvent, Expire, CallStep

\* Whatever the peer, the port, T1 and the caller do, an I frame goes on the
\* air a second time only after the peer answered: with a reject or RNR, or
\* with the response (F=1) to an enquiry.
THEOREM RetransmissionEarned == Spec => []RetransmitOnlyWhenAnswered
<1>1. Init => Typed /\ Justified
  <2>1. Init => ack = <<>> /\ rx.ack = NoAck /\ op = Idle
    BY DEF Init, RxIdle
  <2>2. <<>> \in Seq(SoundAck)
    BY EmptySeq
  <2> QED
    BY <2>1, <2>2, InitTyped, NoticesAreSound, IdleEarned DEF Justified, AcksAreSound
<1>2. Typed /\ Justified /\ [Next]_vars => (Typed /\ Justified)'
  BY NextTyped, NextJustified
<1>3. Justified => RetransmitOnlyWhenAnswered
  BY DEF Justified, Earned, RetransmitOnlyWhenAnswered, PollAnswer
<1> QED
  BY <1>1, <1>2, <1>3, PTL DEF Spec
=============================================================================
