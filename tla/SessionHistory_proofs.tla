----------------------- MODULE SessionHistory_proofs -----------------------
(***************************************************************************)
(* The properties of SessionManager that speak of several steps:           *)
(*                                                                         *)
(*   RejectIsNamed   the outstanding REJ names the frame waited for;       *)
(*   WindowIsEmpty   between undisturbed calls the window is empty.        *)
(***************************************************************************)
EXTENDS SessionHistory, SessionSafety_proofs

USE ManagerAssumption, ModulusAssumption

-----------------------------------------------------------------------------
(* Rejects *)

\* Handle answers in a step of its own: between the two the REJ is decided on
\* and not sent.
RejectPending == rx.pc = "finish" /\ rx.reply = "REJ"

RejectKnown == rejectSent => RejectPending \/ lastReject = vr

\* A step that sends no REJ, and either keeps V(R) and the flag or clears it.
SendsNoReject == io'.tx = <<>> \/ io'.tx[1].type # "REJ"

KeepsVR == ~rejectSent' \/ (rejectSent' = rejectSent /\ vr' = vr)

LEMMA NoRejectSent ==
    /\ Silent => SendsNoReject
    /\ \A t, cr, pf : Sends(Unnumbered(t, cr, pf)) /\ t # "REJ" => SendsNoReject
    /\ \A cr, pf, d : Sends([Unnumbered("TEST", cr, pf) EXCEPT !.info = d]) => SendsNoReject
    /\ \A t, cr, pf, nr : Sends(Supervisory(t, cr, pf, nr)) /\ t # "REJ" => SendsNoReject
    /\ \A ns, nr, pf, d : Sends(Information(ns, nr, pf, d)) => SendsNoReject
  BY DEF Silent, Sends, SendsNoReject, Unnumbered, Supervisory, Information

LEMMA CallsSendNoReject == CallStep => SendsNoReject /\ KeepsVR
<1> USE NoRejectSent DEF KeepsVR
<1>0. FailLink => ~rejectSent'
  BY DEF FailLink
<1>s. \A s : SetState(s) => rejectSent' = rejectSent /\ vr' = vr
  BY DEF SetState, counters
<1>u. UNCHANGED link => rejectSent' = rejectSent /\ vr' = vr
  BY DEF link
<1>1. ConnectStart \/ ConnectAccepted \/ ConnectNegotiate \/ ConnectDone
      => SendsNoReject /\ KeepsVR
  BY <1>u DEF ConnectStart, ConnectAccepted, ConnectNegotiate, ConnectDone, counters
<1>2. ConnectAnnounce \/ ConnectSend \/ ConnectT1 => SendsNoReject /\ KeepsVR
  BY <1>s, <1>u DEF ConnectAnnounce, ConnectSend, ConnectT1
<1>3. ConnectEvent => SendsNoReject /\ KeepsVR
  BY <1>0, <1>u DEF ConnectEvent
<1>4. DisconnectStart \/ DisconnectAnnounce \/ DisconnectSend \/ DisconnectT1
      => SendsNoReject /\ KeepsVR
  BY <1>s, <1>u DEF DisconnectStart, DisconnectAnnounce, DisconnectSend, DisconnectT1
<1>5. DisconnectEvent => SendsNoReject /\ KeepsVR
  BY <1>0, <1>u DEF DisconnectEvent
<1>6. (\E msg \in Messages : SendStart(msg))
      \/ ChunkStart \/ ChunkAdvance \/ SendInfo \/ AwaitAck \/ AckT1
      => SendsNoReject /\ KeepsVR
  BY <1>u DEF SendStart, ChunkStart, ChunkAdvance, SendInfo, AwaitAck, AckT1
<1>7. ChunkSent => SendsNoReject
  BY DEF ChunkSent, SendsNoReject
<1>8. MarkBusy \/ Acked => SendsNoReject /\ KeepsVR
  BY <1>7 DEF MarkBusy, Acked
<1>9. ReadyCheck \/ BusyPoll \/ BusyT1 \/ SendGivesUp => SendsNoReject /\ KeepsVR
  BY <1>0, <1>u DEF ReadyCheck, BusyPoll, BusyT1, SendGivesUp
<1>10. BusyAck => SendsNoReject /\ KeepsVR
  BY <1>0, <1>u DEF BusyAck, counters
<1>11. ProbeStart \/ Poll \/ PollT1 \/ Recovered => SendsNoReject /\ KeepsVR
  BY <1>s, <1>u DEF ProbeStart, Poll, PollT1, Recovered
<1>12. PollAck \/ Judge => SendsNoReject /\ KeepsVR
  BY <1>0, <1>u DEF PollAck, Judge, counters
<1>13. CommandGivesUp \/ PortRefuses \/ Cancel \/ ObserveCancel
      => SendsNoReject /\ KeepsVR
  BY <1>0, <1>u DEF CommandGivesUp, PortRefuses, Cancel, ObserveCancel
<1> QED
  BY <1>1, <1>2, <1>3, <1>4, <1>5, <1>6, <1>8, <1>9, <1>10, <1>11, <1>12, <1>13
  DEF CallStep

\* A step after which a REJ is pending only if it was, and which sends none.
LEMMA RejectStaysKnown ==
  ASSUME RejectKnown, Rejects, SendsNoReject, KeepsVR,
         RejectPending => RejectPending'
  PROVE  RejectKnown'
  BY DEF RejectKnown, Rejects, SendsNoReject, KeepsVR

LEMMA HandleKnowsReject ==
  ASSUME Typed, RejectKnown, Rejects,
         (\E f \in RxFrames : RxStart(f)) \/ RxStep
  PROVE  RejectKnown'
<1> USE NoRejectSent DEF KeepsVR
<1>0. FailLink => ~rejectSent'
  BY DEF FailLink
<1>1. CASE \E f \in RxFrames : RxStart(f)
  BY <1>1, RejectStaysKnown DEF RxStart, RejectPending, link
<1>2. CASE RxAnswer
  <2>1. SendsNoReject
    <3>1. CASE rx.frame.type = "TEST" /\ IsCommand(rx.frame)
      BY <1>2, <3>1 DEF RxAnswer
    <3>2. CASE ~(rx.frame.type = "TEST" /\ IsCommand(rx.frame))
      BY <1>2, <3>2 DEF RxAnswer
    <3> QED
      BY <3>1, <3>2
  <2> QED
    BY <1>2, <2>1, RejectStaysKnown DEF RxAnswer, Applying, RejectPending, link
<1>3. CASE RxXIDCommand
  BY <1>3, RejectStaysKnown DEF RxXIDCommand, Applying, RejectPending, counters
<1>4. CASE RxXIDResponse
  BY <1>4, RejectStaysKnown DEF RxXIDResponse, Applying, RejectPending, link
<1>5. CASE RxModeResponse
  BY <1>0, <1>5, RejectStaysKnown DEF RxModeResponse, Applying, RejectPending, link
<1>6. CASE RxDISC
  BY <1>0, <1>6, RejectStaysKnown DEF RxDISC, Applying, RejectPending
<1>7. CASE RxSABMCollision
  BY <1>7, RejectStaysKnown DEF RxSABMCollision, Applying, RejectPending, link
<1>8. CASE RxSABMReset
  BY <1>8, RejectStaysKnown DEF RxSABMReset, Applying, RejectPending, counters
<1>9. CASE RxSupervisory
  BY <1>9, RejectStaysKnown DEF RxSupervisory, Applying, RejectPending, counters
<1>10. CASE RxReject
  <2>1. SendsNoReject
    BY <1>10 DEF RxReject
  <2> QED
    BY <1>10, <2>1, RejectStaysKnown DEF RxReject, Applying, RejectPending, link
<1>11. CASE RxInformation
  <2>1. Then(NoAck, "REJ") => RejectPending'
    BY DEF Then, RejectPending, RxIdle
  <2>2. SendsNoReject
    BY <1>11 DEF RxInformation, SendsNoReject
  <2>3. ~RejectPending
    BY <1>11 DEF RxInformation, Applying, RejectPending
  <2>4. CASE ~rejectSent'
    BY <2>4 DEF RejectKnown
  <2>5. CASE rejectSent' /\ rejectSent
    <3>1. vr' = vr
      BY <1>11, <2>5 DEF RxInformation
    <3> QED
      BY <2>2, <2>3, <2>5, <3>1, RejectStaysKnown
  <2>6. CASE rejectSent' /\ ~rejectSent
    <3>1. Then(NoAck, "REJ")
      BY <1>11, <2>6 DEF RxInformation
    <3> QED
      BY <2>1, <3>1 DEF RejectKnown
  <2> QED
    BY <2>4, <2>5, <2>6
<1>12. CASE RxFinish
  <2>1. rejectSent' = rejectSent /\ vr' = vr
    BY <1>12 DEF RxFinish, link
  <2>2. CASE rx.reply = "REJ"
    <3>1. Sends(Supervisory("REJ", "rsp", rx.frame.pf, vr))
      BY <1>12, <2>2 DEF RxFinish
    <3>2. lastReject' = vr
      BY <3>1 DEF Sends, Supervisory, Rejects
    <3> QED
      BY <2>1, <3>2 DEF RejectKnown
  <2>3. CASE rx.reply # "REJ"
    <3>1. rx.reply \in {"none", "UA", "RR"}
      BY <2>3 DEF Typed, Rx
    <3>2. SendsNoReject
      BY <1>12, <3>1 DEF RxFinish
    <3> QED
      BY <2>1, <2>3, <3>2, RejectStaysKnown DEF RejectPending
  <2> QED
    BY <2>2, <2>3
<1> QED
  BY <1>1, <1>2, <1>3, <1>4, <1>5, <1>6, <1>7, <1>8, <1>9, <1>10, <1>11, <1>12
  DEF RxStep

LEMMA NextKnowsReject ==
  ASSUME Typed, RejectKnown, Next, Rejects
  PROVE  RejectKnown'
<1>1. CASE CallStep
  <2>1. rx' = rx
    BY <1>1, CallConsumes
  <2> QED
    BY <1>1, <2>1, CallsSendNoReject, RejectStaysKnown DEF RejectPending
<1>2. CASE (\E f \in RxFrames : RxStart(f)) \/ RxStep
  BY <1>2, HandleKnowsReject
<1>3. CASE (\E s \in Slot : Negotiate(s)) \/ GraceEnds
  <2>1. rx' = rx /\ KeepsVR
    BY <1>3
    DEF Negotiate, NegSend, NegEvent, NegTM201, NegCancelled, NegApply, GraceEnds,
        KeepsVR, link, counters
  <2>a. SendsNoReject
    BY <1>3, NoRejectSent
    DEF Negotiate, NegSend, NegEvent, NegTM201, NegCancelled, NegApply, GraceEnds
  <2> QED
    BY <2>1, <2>a, RejectStaysKnown DEF RejectPending
<1> QED
  BY <1>1, <1>2, <1>3
  DEF Next, Call, Internal, Progress, TakeEvent, Expire, CallStep

\* Whatever frames come in whatever order, and however the link is reset,
\* failed and connected again meanwhile, a link that suppresses further rejects
\* has asked the peer for the very frame it waits for.
THEOREM RejectIsNamed == HistorySpec => []OutstandingRejectNamesVR
<1>1. HistoryInit => Typed /\ RejectKnown
  BY InitTyped DEF HistoryInit, Init, RejectKnown
<1>2. Typed /\ RejectKnown /\ [HistoryNext]_historyVars => (Typed /\ RejectKnown)'
  <2> SUFFICES ASSUME Typed, RejectKnown, [HistoryNext]_historyVars
               PROVE  Typed' /\ RejectKnown'
    OBVIOUS
  <2>1. CASE HistoryNext
    BY <2>1, NextTyped, NextKnowsReject DEF HistoryNext
  <2>2. CASE UNCHANGED historyVars
    <3>1. UNCHANGED vars /\ lastReject' = lastReject
      BY <2>2 DEF historyVars
    <3> QED
      BY <3>1, NextTyped DEF vars, link, RejectKnown, RejectPending
  <2> QED
    BY <2>1, <2>2
<1>3. RejectKnown => OutstandingRejectNamesVR
  BY DEF RejectKnown, RejectPending, OutstandingRejectNamesVR
<1> QED
  BY <1>1, <1>2, <1>3, PTL DEF HistorySpec
-----------------------------------------------------------------------------
(* The window *)

SendBody == {"ready", "busyPoll", "busyWait", "sendI", "awaitAck", "markBusy",
             "acked", "judge"}

\* A call that has moved V(S) for a chunk, or is about to.
InTransfer ==
    \/ op.pc = "advance" \/ op.pc \in SendBody
    \/ op.pc \in PollPC /\ op.kind = "send"

Window ==
    /\ op.pc \in {"idle", "chunk"} =>
           state = "disconnected" \/ (state = "connected" /\ va = vs)
    /\ op.pc \in {"announce", "sabm", "awaitUA", "accepted"} => va = vs
    /\ op.pc \in {"negotiate", "xidStart"} => state = "connected" /\ va = vs
    /\ op.kind = "probe" => va = vs
    /\ op.pc = "advance" => state = "connected" /\ va = op.ns
    /\ InTransfer /\ op.pc # "advance" => va = op.ns /\ vs = Expected
    /\ op.pc \in {"sendI", "awaitAck", "markBusy", "acked", "judge"} =>
           state = "connected"
    /\ op.pc \in {"ready", "busyPoll", "busyWait"} /\ ~op.pollOnly =>
           state = "connected"

\* Nothing on its way to the call says that the link is gone or reset.
Mild == {a \in Ack : ~IsLinkTermination(a)}

NoEnd == ack \in Seq(Mild) /\ (rx.pc = "finish" => rx.ack \in Mild)

Calm == ~disturbed => ~op.cancelled /\ Window /\ (InTransfer => NoEnd)

\* What makes a step of a call an undisturbed one.
Undisturbed ==
    /\ ~op'.cancelled
    /\ op.pc # "idle" /\ rx'.pc = "finish" => ~IsLinkTermination(rx'.ack)

LEMMA MildTail ==
  ASSUME ack \in Seq(Mild), Consumes
  PROVE  ack' \in Seq(Mild) /\ (ack # <<>> => ~IsLinkTermination(Head(ack)))
<1>1. ack # <<>> => Tail(ack) \in Seq(Mild) /\ Head(ack) \in Mild
  OBVIOUS
<1>2. <<>> \in Seq(Mild)
  BY EmptySeq
<1> QED
  BY <1>1, <1>2 DEF Consumes, Mild

\* A step of a call that is in a transfer or has just thrown the queue away.
LEMMA TransferIsMild ==
  ASSUME Typed', op.pc # "idle", Undisturbed,
         ack' = <<>> \/ (InTransfer /\ NoEnd /\ Consumes)
  PROVE  NoEnd'
<1>1. ack' \in Seq(Mild)
  BY MildTail, EmptySeq DEF NoEnd
<1>2. rx'.ack \in Ack
  BY DEF Typed, Rx
<1> QED
  BY <1>1, <1>2 DEF Undisturbed, NoEnd, Mild

\* The link is failed and the call returns.
LEMMA EndIsCalm ==
  ASSUME FailLink, op' = Idle
  PROVE  Window' /\ ~InTransfer'
<1> QED
  BY DEF FailLink, Idle, Window, InTransfer, SendBody, PollPC

\* A call that ends or is about to begin anew on a connected link.
LEMMA ReturnIsCalm ==
  ASSUME op' = Idle, state' = "disconnected" \/ (state' = "connected" /\ va' = vs')
  PROVE  Window' /\ ~InTransfer'
<1> QED
  BY DEF Idle, Window, InTransfer, SendBody, PollPC

\* What the building blocks make of a call.
LEMMA FieldsOf ==
  ASSUME NEW o \in Op
  PROVE  /\ NextAttempt(o).pc = "ready" /\ NextAttempt(o).ns = o.ns
         /\ NextAttempt(o).kind = o.kind /\ NextAttempt(o).pollOnly = o.pollOnly
         /\ Proceed(o).pc \in {"poll", "sendI", "awaitAck"}
         /\ o.pollOnly => Proceed(o).pc = "poll"
         /\ Proceed(o).ns = o.ns /\ Proceed(o).kind = o.kind
         /\ o.kind = "probe" /\ ~o.cancelled => PollFailed(o) = [o EXCEPT !.pc = "poll", !.tries = @ + 1]
         /\ o.kind # "probe" /\ ~o.cancelled =>
              /\ PollFailed(o).pc = "ready" /\ PollFailed(o).pollOnly
              /\ PollFailed(o).ns = o.ns /\ PollFailed(o).kind = o.kind
         /\ PollFailed(o) = Idle \/ PollFailed(o).cancelled = o.cancelled
<1>1. /\ NextAttempt(o).pc = "ready" /\ NextAttempt(o).ns = o.ns
      /\ NextAttempt(o).kind = o.kind /\ NextAttempt(o).pollOnly = o.pollOnly
  BY DEF NextAttempt, Op
<1>2. /\ Proceed(o).pc \in {"poll", "sendI", "awaitAck"}
      /\ o.pollOnly => Proceed(o).pc = "poll"
      /\ Proceed(o).ns = o.ns /\ Proceed(o).kind = o.kind
  BY DEF Proceed, Op
<1> DEFINE f == [o EXCEPT !.pollOnly = TRUE, !.needSend = FALSE]
<1>3. f \in Op /\ f.pollOnly /\ f.ns = o.ns /\ f.kind = o.kind /\ f.cancelled = o.cancelled
  BY DEF Op
<1>4. /\ NextAttempt(f).pc = "ready" /\ NextAttempt(f).pollOnly
      /\ NextAttempt(f).ns = o.ns /\ NextAttempt(f).kind = o.kind
      /\ NextAttempt(f).cancelled = o.cancelled
  BY <1>3 DEF NextAttempt, Op
<1>5. [o EXCEPT !.pc = "poll", !.tries = @ + 1].cancelled = o.cancelled
  BY DEF Op
<1> HIDE DEF f
<1>6. PollFailed(o) = IF o.cancelled /\ (o.kind = "probe" \/ o.pollOnly) THEN Idle
                      ELSE IF o.kind = "probe" THEN [o EXCEPT !.pc = "poll", !.tries = @ + 1]
                      ELSE NextAttempt(f)
  BY DEF PollFailed, f
<1>7. o.kind = "probe" /\ ~o.cancelled => PollFailed(o) = [o EXCEPT !.pc = "poll", !.tries = @ + 1]
  BY <1>6
<1>8. o.kind # "probe" /\ ~o.cancelled => PollFailed(o) = NextAttempt(f)
  BY <1>6
<1>9. PollFailed(o) = Idle \/ PollFailed(o).cancelled = o.cancelled
  BY <1>4, <1>5, <1>6
<1> QED
  BY <1>1, <1>2, <1>4, <1>7, <1>8, <1>9

\* The invariant one step later, from the facts of the step.
LEMMA ConnectIsCalm ==
  ASSUME Typed, Window, Undisturbed,
         \/ ConnectStart \/ ConnectAnnounce \/ ConnectSend \/ ConnectEvent
         \/ ConnectT1 \/ ConnectAccepted \/ ConnectNegotiate \/ ConnectDone
  PROVE  Window' /\ ~InTransfer'
<1> DEFINE Early == {"announce", "sabm", "awaitUA", "accepted"}
<1>0. op \in Op /\ (op.pc \in SendPC => op.kind = "send")
  BY DEF Typed, OpOK, Shape
<1>k. op.kind = "probe" => va = vs
  BY DEF Window
<1>1. ASSUME op'.pc \in Early, va' = vs' PROVE Window' /\ ~InTransfer'
  BY <1>1 DEF Window, InTransfer, SendBody, PollPC
<1>2. ASSUME op'.pc \in {"negotiate", "xidStart"}, state' = "connected", va' = vs'
      PROVE  Window' /\ ~InTransfer'
  BY <1>2 DEF Window, InTransfer, SendBody, PollPC
<1>3. CASE ConnectStart
  BY <1>1, <1>3 DEF ConnectStart, Idle
<1>4. CASE ConnectAnnounce \/ ConnectSend \/ ConnectT1
  <2>1. op.pc \in Early /\ op'.pc \in Early
    BY <1>0, <1>4 DEF ConnectAnnounce, ConnectSend, ConnectT1, Goto, Op
  <2>2. UNCHANGED counters
    BY <1>4 DEF ConnectAnnounce, ConnectSend, ConnectT1, SetState, link, counters
  <2> QED
    BY <1>1, <2>1, <2>2 DEF Window, counters
<1>5. CASE ConnectEvent
  <2>1. FailLink /\ op' = Idle => Window' /\ ~InTransfer'
    BY EndIsCalm
  <2>2. (FailLink /\ op' = Idle) \/ (op.pc \in Early /\ op'.pc \in Early /\ UNCHANGED link)
    BY <1>0, <1>5 DEF ConnectEvent, Goto, Return, Op
  <2> QED
    BY <1>1, <2>1, <2>2 DEF Window, link
<1>6. CASE ConnectAccepted
  <2>1. op.pc = "accepted" /\ op'.pc = "negotiate" /\ state' = "connected"
    BY <1>0, <1>6 DEF ConnectAccepted, Goto, Op
  <2> QED
    BY <1>2, <1>6, <2>1 DEF ConnectAccepted, counters, Window
<1>7. CASE ConnectNegotiate
  <2>1. op.pc = "negotiate" /\ op'.pc = "xidStart"
    BY <1>0, <1>7 DEF ConnectNegotiate, Goto, Op
  <2> QED
    BY <1>2, <1>7, <2>1 DEF ConnectNegotiate, link, Window
<1>8. CASE ConnectDone
  BY <1>8, ReturnIsCalm DEF ConnectDone, Return, link, Window
<1> QED
  BY <1>3, <1>4, <1>5, <1>6, <1>7, <1>8

LEMMA DisconnectIsCalm ==
  ASSUME Typed, Window, Undisturbed,
         \/ DisconnectStart \/ DisconnectAnnounce \/ DisconnectSend
         \/ DisconnectEvent \/ DisconnectT1
  PROVE  Window' /\ ~InTransfer'
<1>0. op \in Op
  BY DEF Typed, OpOK
<1>1. ASSUME op'.pc \in {"release", "disc", "awaitRelease"}, op'.kind = "probe" => va' = vs'
      PROVE  Window' /\ ~InTransfer'
  BY <1>1 DEF Window, InTransfer, SendBody, PollPC
<1>2. CASE DisconnectStart
  BY <1>1, <1>2 DEF DisconnectStart, Idle
<1>3. CASE DisconnectAnnounce \/ DisconnectSend \/ DisconnectT1
  <2>1. op'.pc \in {"release", "disc", "awaitRelease"} /\ op'.kind = op.kind
    BY <1>0, <1>3 DEF DisconnectAnnounce, DisconnectSend, DisconnectT1, Goto, Op
  <2>2. UNCHANGED counters
    BY <1>3 DEF DisconnectAnnounce, DisconnectSend, DisconnectT1, SetState, link, counters
  <2> QED
    BY <1>1, <2>1, <2>2 DEF Window, counters
<1>4. CASE DisconnectEvent
  <2>1. (FailLink /\ op' = Idle) \/ (op'.pc = "disc" /\ op'.kind = op.kind /\ UNCHANGED link)
    BY <1>0, <1>4 DEF DisconnectEvent, Return, Op
  <2> QED
    BY <1>1, <2>1, EndIsCalm DEF Window, link
<1> QED
  BY <1>2, <1>3, <1>4

\* A call in a transfer: where it is, whose number it carries, what the
\* counters and the state are then.
LEMMA TransferWindow ==
  ASSUME op'.pc \in SendBody \cup PollPC, op'.kind = "send",
         va' = op'.ns, vs' = Succ(op'.ns),
         op'.pc \in {"sendI", "awaitAck", "markBusy", "acked", "judge"} =>
            state' = "connected",
         op'.pc \in {"ready", "busyPoll", "busyWait"} /\ ~op'.pollOnly =>
            state' = "connected"
  PROVE  Window'
  BY DEF Window, InTransfer, SendBody, PollPC, Expected

\* The pieces of a transfer; NoEnd is about the queue alone.
LEMMA ChunkIsCalm ==
  ASSUME Typed, Typed', Window, InTransfer => NoEnd, Undisturbed,
         \/ (\E msg \in Messages : SendStart(msg))
         \/ ChunkStart \/ ChunkAdvance \/ SendInfo \/ AwaitAck \/ AckT1
         \/ MarkBusy \/ Acked
  PROVE  Window' /\ (InTransfer' => NoEnd')
<1>0. op \in Op /\ (op.pc \in SendPC => op.kind = "send")
  BY DEF Typed, OpOK, Shape
<1>1. CASE \E msg \in Messages : SendStart(msg)
  <2>1. op.pc = "idle" /\ op'.pc = "chunk" /\ op'.kind = "send" /\ UNCHANGED link
    BY <1>1 DEF SendStart, Idle
  <2> QED
    BY <2>1 DEF Window, InTransfer, SendBody, PollPC, link
<1>2. CASE ChunkStart
  <2>1. op.pc = "chunk" /\ UNCHANGED link
    BY <1>2 DEF ChunkStart
  <2>2. CASE state # "connected"
    BY <1>2, <2>1, <2>2, ReturnIsCalm DEF ChunkStart, Return, Window, link
  <2>3. CASE state = "connected"
    <3>1. op'.pc = "advance" /\ op'.ns = vs /\ op'.kind = "send" /\ ack' = <<>>
      BY <1>0, <1>2, <2>3 DEF ChunkStart, Op, SendPC
    <3>2. Window'
      BY <2>1, <2>3, <3>1 DEF Window, InTransfer, SendBody, PollPC, link
    <3> QED
      BY <2>1, <3>1, <3>2, TransferIsMild
  <2> QED
    BY <2>2, <2>3
<1> DEFINE Moved == {"ready", "sendI", "awaitAck", "markBusy", "acked", "poll"}
<1>3. ASSUME InTransfer, Consumes, op'.pc \in Moved, op'.kind = "send", op'.ns = op.ns,
             state = "connected", state' = state, va' = op.ns, vs' = Expected
      PROVE  Window' /\ NoEnd'
  <2>1. Window'
    BY <1>3, TransferWindow DEF SendBody, PollPC, Expected
  <2>2. op.pc # "idle"
    BY <1>3 DEF InTransfer, SendBody, PollPC
  <2> QED
    BY <1>3, <2>1, <2>2, TransferIsMild
<1>c. rx' = rx /\ Consumes
  BY CallConsumes DEF CallStep
<1>4. CASE ChunkAdvance
  <2>1. op.pc = "advance" /\ op'.pc = "ready" /\ op'.kind = "send" /\ op'.ns = op.ns
    BY <1>0, <1>4 DEF ChunkAdvance, Goto, Op, SendPC
  <2>2. state = "connected" /\ state' = state /\ va' = op.ns /\ vs' = Expected /\ InTransfer
    BY <1>4, <2>1 DEF ChunkAdvance, Window, InTransfer
  <2> QED
    BY <1>3, <1>c, <2>1, <2>2
<1>5. ASSUME op.pc \in {"sendI", "awaitAck", "markBusy", "acked"}
      PROVE  /\ state = "connected" /\ va = op.ns /\ vs = Expected /\ InTransfer
             /\ op.kind = "send"
  BY <1>0, <1>5 DEF Window, InTransfer, SendBody, SendPC
<1>6. CASE SendInfo
  <2>1. op.pc = "sendI" /\ op'.pc = "awaitAck" /\ op'.kind = op.kind /\ op'.ns = op.ns
    BY <1>0, <1>6 DEF SendInfo, Op
  <2>2. UNCHANGED link
    BY <1>6 DEF SendInfo
  <2> QED
    BY <1>3, <1>5, <1>c, <2>1, <2>2 DEF link
<1>7. CASE AwaitAck
  <2> DEFINE a == Head(ack)
             f == [op EXCEPT !.needSend = TRUE, !.got = a]
  <2>1. op.pc = "awaitAck" /\ UNCHANGED link /\ ack # <<>>
    BY <1>7 DEF AwaitAck
  <2>2. ~IsLinkTermination(a) /\ a \in Ack
    <3>1. ack \in Seq(Mild) /\ ack \in Seq(Ack)
      BY <1>5, <2>1 DEF NoEnd, Typed, QueuesOK
    <3> QED
      BY <1>c, <2>1, <3>1, MildTail
  <2>3. f \in Op /\ f.ns = op.ns /\ f.kind = op.kind
    BY <1>0, <2>2 DEF Op
  <2>4. /\ NextAttempt(f).pc = "ready" /\ NextAttempt(f).ns = op.ns
        /\ NextAttempt(f).kind = op.kind
    BY <2>3, FieldsOf, ZenonT(60)
  <2>5. op'.pc \in Moved /\ op'.kind = op.kind /\ op'.ns = op.ns
    <3>1. \/ op' = [op EXCEPT !.pc = "markBusy", !.got = a]
          \/ op' = [op EXCEPT !.pc = "acked", !.got = a]
          \/ op' = NextAttempt(f) \/ op' = op
      BY <1>7, <2>2 DEF AwaitAck
    <3> HIDE DEF f
    <3> QED
      BY <1>0, <2>1, <2>4, <3>1 DEF Op
  <2> QED
    BY <1>3, <1>5, <1>c, <2>1, <2>5 DEF link
<1>8. CASE AckT1
  <2>1. op.pc = "awaitAck" /\ op'.pc = "poll" /\ op'.kind = op.kind /\ op'.ns = op.ns
    BY <1>0, <1>8 DEF AckT1, Goto, Op
  <2>2. UNCHANGED link
    BY <1>8 DEF AckT1
  <2> QED
    BY <1>3, <1>5, <1>c, <2>1, <2>2 DEF link
<1>9. ASSUME ChunkSent, op.pc \in {"markBusy", "acked"}, state' = state,
             va' = Expected, vs' = vs
      PROVE  Window' /\ ~InTransfer'
  <2>1. op'.pc \in {"idle", "chunk"} /\ op'.kind # "probe"
    BY <1>0, <1>5, <1>9 DEF ChunkSent, Idle, Op
  <2> QED
    BY <1>5, <1>9, <2>1 DEF Window, InTransfer, SendBody, PollPC
<1>10. CASE MarkBusy
  <2>1. op.pc = "markBusy" /\ state' = state /\ vs' = vs
    BY <1>10 DEF MarkBusy
  <2>2. CASE op.got.nr = Expected
    BY <1>9, <1>10, <2>1, <2>2 DEF MarkBusy
  <2>3. CASE op.got.nr # Expected
    <3> DEFINE f == [op EXCEPT !.needSend = TRUE]
    <3>1. f \in Op /\ f.ns = op.ns /\ f.kind = op.kind
      BY <1>0 DEF Op
    <3>2. op' = NextAttempt(f) /\ va' = va
      BY <1>10, <2>3 DEF MarkBusy
    <3> HIDE DEF f
    <3>3. op'.pc = "ready" /\ op'.kind = op.kind /\ op'.ns = op.ns
      BY <3>1, <3>2, FieldsOf, ZenonT(60)
    <3> QED
      BY <1>3, <1>5, <1>c, <2>1, <3>2, <3>3
  <2> QED
    BY <2>2, <2>3
<1>11. CASE Acked
  BY <1>9, <1>11 DEF Acked
<1> QED
  BY <1>1, <1>2, <1>4, <1>6, <1>7, <1>8, <1>10, <1>11

LEMMA BusyIsCalm ==
  ASSUME Typed, Typed', Window, InTransfer => NoEnd, Undisturbed,
         ReadyCheck \/ BusyPoll \/ BusyAck \/ BusyT1 \/ SendGivesUp
  PROVE  Window' /\ (InTransfer' => NoEnd')
<1>0. op \in Op /\ (op.pc \in SendPC => op.kind = "send")
  BY DEF Typed, OpOK, Shape
<1>c. rx' = rx /\ Consumes
  BY CallConsumes DEF CallStep
<1>1. op.pc \in {"ready", "busyPoll", "busyWait"}
  BY DEF ReadyCheck, BusyPoll, BusyAck, BusyT1, SendGivesUp
<1>2. /\ InTransfer /\ op.kind = "send" /\ va = op.ns /\ vs = Expected
      /\ ~op.pollOnly => state = "connected"
  BY <1>0, <1>1 DEF Window, InTransfer, SendBody, SendPC
<1>3. ASSUME op'.pc \in {"ready", "busyPoll", "busyWait", "poll", "sendI", "awaitAck"},
             op'.kind = op.kind, op'.ns = op.ns, state' = state, UNCHANGED counters,
             op.pollOnly => op'.pollOnly /\ op'.pc \notin {"sendI", "awaitAck"}
      PROVE  Window' /\ NoEnd'
  <2>1. va' = op'.ns /\ vs' = Succ(op'.ns)
    BY <1>2, <1>3 DEF Expected, counters
  <2>2. ~(op'.pollOnly /\ op'.pc \notin {"sendI", "awaitAck"}) => state' = "connected"
    BY <1>2, <1>3
  <2>3. Window'
    BY <1>2, <1>3, <2>1, <2>2, TransferWindow DEF SendBody, PollPC
  <2> QED
    BY <1>1, <1>2, <1>c, <2>3, TransferIsMild
<1>4. ASSUME op' = Proceed(op), state' = state, UNCHANGED counters
      PROVE  Window' /\ NoEnd'
  <2>1. op'.pollOnly = op.pollOnly
    BY <1>0, <1>4 DEF Proceed, Op
  <2> QED
    BY <1>0, <1>3, <1>4, <2>1, FieldsOf
<1>5. CASE ReadyCheck
  <2>1. UNCHANGED link
    BY <1>5 DEF ReadyCheck
  <2>2. CASE ~peerBusy
    BY <1>4, <1>5, <2>1, <2>2 DEF ReadyCheck, link, counters
  <2>3. CASE peerBusy
    <3>1. /\ op'.pc = "busyPoll" /\ op'.kind = op.kind /\ op'.ns = op.ns
          /\ op'.pollOnly = op.pollOnly
      BY <1>0, <1>5, <2>3 DEF ReadyCheck, Op
    <3> QED
      BY <1>3, <2>1, <3>1 DEF link, counters
  <2> QED
    BY <2>2, <2>3
<1>6. CASE BusyPoll
  <2>1. /\ op'.pc = "busyWait" /\ op'.kind = op.kind /\ op'.ns = op.ns
        /\ op'.pollOnly = op.pollOnly
    BY <1>0, <1>6 DEF BusyPoll, Op
  <2> QED
    BY <1>3, <1>6, <2>1 DEF BusyPoll, link, counters
<1>7. CASE BusyAck
  <2>1. \/ FailLink /\ op' = Idle
        \/ op' = Proceed(op) /\ state' = state /\ UNCHANGED counters
        \/ op' = op /\ UNCHANGED link
    BY <1>7 DEF BusyAck, Return
  <2>2. CASE op' = op /\ UNCHANGED link
    BY <1>1, <1>3, <2>2 DEF link, counters
  <2> QED
    BY <1>4, <2>1, <2>2, EndIsCalm
<1>8. CASE BusyT1
  <2>1. /\ op'.pc = "ready" /\ op'.kind = op.kind /\ op'.ns = op.ns
        /\ op'.pollOnly = op.pollOnly
    BY <1>0, <1>8 DEF BusyT1, Op
  <2> QED
    BY <1>3, <1>8, <2>1 DEF BusyT1, link, counters
<1>9. CASE SendGivesUp
  BY <1>9, EndIsCalm DEF SendGivesUp, Return
<1> QED
  BY <1>5, <1>6, <1>7, <1>8, <1>9

\* A probe, or a chunk that polls: at the end of it the link is connected.
LEMMA PollIsCalm ==
  ASSUME Typed, Typed', Window, InTransfer => NoEnd, Undisturbed, ~op.cancelled,
         \/ ProbeStart \/ Poll \/ PollAck \/ PollT1 \/ Recovered \/ Judge
         \/ CommandGivesUp \/ PortRefuses \/ ObserveCancel
  PROVE  Window' /\ (InTransfer' => NoEnd')
<1>0. /\ op \in Op /\ (op.pc \in SendPC => op.kind = "send")
      /\ op.pc \in PollPC => op.kind \in {"send", "probe"}
  BY DEF Typed, OpOK, Shape
<1>c. rx' = rx /\ Consumes
  BY CallConsumes DEF CallStep
<1>1. CASE ProbeStart
  <2>1. op.pc = "idle" /\ state = "connected" /\ UNCHANGED link
    BY <1>1 DEF ProbeStart
  <2>2. op'.pc = "poll" /\ op'.kind = "probe"
    BY <1>1 DEF ProbeStart, Idle
  <2> QED
    BY <2>1, <2>2 DEF Window, InTransfer, SendBody, PollPC, link
<1>2. CASE CommandGivesUp \/ PortRefuses
  <2>1. FailLink /\ op' = Idle
    BY <1>2 DEF CommandGivesUp, PortRefuses, Return
  <2> QED
    BY <2>1, EndIsCalm
<1>3. CASE ObserveCancel
  BY <1>3 DEF ObserveCancel
<1>4. ASSUME op.pc \in PollPC, op.kind = "probe",
             op'.pc \in PollPC, op'.kind = "probe", UNCHANGED counters
      PROVE  Window' /\ ~InTransfer'
  BY <1>4 DEF Window, InTransfer, SendBody, PollPC, counters
<1>5. ASSUME op.pc \in PollPC \cup {"judge"}, op.kind = "send",
             op'.pc \in PollPC \cup {"ready", "judge", "acked", "sendI"},
             op'.kind = "send", op'.ns = op.ns, UNCHANGED counters,
             op'.pc \in {"judge", "acked", "sendI"} => state' = "connected",
             op'.pc = "ready" /\ ~op'.pollOnly => state' = "connected"
      PROVE  Window' /\ NoEnd'
  <2>1. InTransfer /\ op.pc # "advance" /\ op.pc # "idle"
    BY <1>5 DEF InTransfer, SendBody, PollPC
  <2>2. va' = op'.ns /\ vs' = Succ(op'.ns)
    BY <1>5, <2>1 DEF Window, Expected, counters
  <2>3. Window'
    BY <1>5, <2>2, TransferWindow DEF SendBody, PollPC
  <2> QED
    BY <1>c, <2>1, <2>3, TransferIsMild
<1>6. ASSUME op.pc \in PollPC, op' = PollFailed(op), UNCHANGED counters
      PROVE  Window' /\ (InTransfer' => NoEnd')
  <2>1. CASE op.kind = "probe"
    <3>a. op' = [op EXCEPT !.pc = "poll", !.tries = @ + 1]
      BY <1>0, <1>6, <2>1, FieldsOf
    <3>1. op'.pc = "poll" /\ op'.kind = "probe"
      BY <1>0, <2>1, <3>a DEF Op
    <3> QED
      BY <1>4, <1>6, <2>1, <3>1 DEF PollPC
  <2>2. CASE op.kind = "send"
    <3>1. op'.pc = "ready" /\ op'.pollOnly /\ op'.ns = op.ns /\ op'.kind = op.kind
      BY <1>0, <1>6, <2>2, FieldsOf
    <3> QED
      BY <1>5, <1>6, <2>2, <3>1
  <2> QED
    BY <1>0, <1>6, <2>1, <2>2
<1>7. ASSUME op.pc \in PollPC, op'.pc \in PollPC, op'.kind = op.kind, op'.ns = op.ns,
             UNCHANGED counters
      PROVE  Window' /\ (InTransfer' => NoEnd')
  BY <1>0, <1>4, <1>5, <1>7 DEF PollPC
<1>8. CASE Poll
  <2>1. op.pc = "poll" /\ UNCHANGED counters
    BY <1>8 DEF Poll, SetState, counters
  <2>2. CASE Goto("pollWait")
    <3>1. op'.pc = "pollWait" /\ op'.kind = op.kind /\ op'.ns = op.ns
      BY <1>0, <2>2 DEF Goto, Op
    <3> QED
      BY <1>7, <2>1, <3>1 DEF PollPC
  <2>3. CASE op' = PollFailed(op)
    BY <1>6, <2>1, <2>3 DEF PollPC
  <2> QED
    BY <1>8, <2>2, <2>3 DEF Poll
<1>9. CASE PollAck
  <2> DEFINE a == Head(ack)
  <2>1. op.pc = "pollWait" /\ ack # <<>>
    BY <1>9 DEF PollAck
  <2>2. CASE IsLinkTermination(a)
    <3>1. op.kind = "probe"
      <4>1. SUFFICES ASSUME op.kind = "send" PROVE FALSE
        BY <1>0, <2>1 DEF PollPC
      <4>2. ack \in Seq(Mild)
        BY <2>1, <4>1 DEF InTransfer, PollPC, NoEnd
      <4> QED
        BY <1>c, <2>1, <2>2, <4>2, MildTail
    <3>2. FailLink /\ op' = Idle
      BY <1>9, <2>2, <3>1 DEF PollAck, Return
    <3> QED
      BY <3>2, EndIsCalm
  <2>3. CASE ~IsLinkTermination(a)
    <3>1. op' = [op EXCEPT !.pc = "recovered", !.got = a] \/ op' = op
      BY <1>9, <2>3 DEF PollAck
    <3>2. op'.pc \in PollPC /\ op'.kind = op.kind /\ op'.ns = op.ns
      BY <1>0, <2>1, <3>1 DEF Op, PollPC
    <3>3. UNCHANGED counters
      BY <1>9, <2>3 DEF PollAck, link, counters
    <3> QED
      BY <1>7, <2>1, <3>2, <3>3 DEF PollPC
  <2> QED
    BY <2>2, <2>3
<1>10. CASE PollT1
  BY <1>6, <1>10 DEF PollT1, PollPC, link, counters
<1>11. CASE Recovered
  <2>1. op.pc = "recovered" /\ state' = "connected" /\ UNCHANGED counters
    BY <1>11 DEF Recovered, SetState, counters
  <2>2. CASE op.kind = "probe"
    <3>1. op' = Idle
      BY <1>11, <2>2 DEF Recovered, Return
    <3> QED
      BY <2>1, <2>2, <3>1, ReturnIsCalm DEF Window, counters
  <2>3. CASE op.kind = "send"
    <3>1. op'.pc = "judge" /\ op'.kind = op.kind /\ op'.ns = op.ns
      BY <1>0, <1>11, <2>3 DEF Recovered, Goto, Op
    <3> QED
      BY <1>5, <2>1, <2>3, <3>1 DEF PollPC
  <2> QED
    BY <1>0, <2>1, <2>2, <2>3 DEF PollPC
<1>12. CASE Judge
  <2> DEFINE f == [op EXCEPT !.needSend = TRUE]
  <2>1. op.pc = "judge" /\ op.kind = "send" /\ state' = state /\ UNCHANGED counters
    BY <1>0, <1>12 DEF Judge, SendPC, counters
  <2>2. state = "connected"
    BY <2>1 DEF Window
  <2>3. f \in Op /\ f.ns = op.ns /\ f.kind = op.kind
    BY <1>0 DEF Op
  <2>4. \/ op' = [op EXCEPT !.pc = "acked"]
        \/ op' = [op EXCEPT !.pc = "sendI", !.pollOnly = FALSE, !.needSend = TRUE]
        \/ op' = NextAttempt(f)
    BY <1>12 DEF Judge
  <2> HIDE DEF f
  <2>5. op'.pc \in {"acked", "sendI", "ready"} /\ op'.kind = op.kind /\ op'.ns = op.ns
    <3>1. /\ NextAttempt(f).pc = "ready" /\ NextAttempt(f).ns = op.ns
          /\ NextAttempt(f).kind = op.kind
      BY <2>3, FieldsOf, ZenonT(60)
    <3> QED
      BY <1>0, <2>4, <3>1 DEF Op
  <2> QED
    BY <1>5, <2>1, <2>2, <2>5
<1> QED
  BY <1>1, <1>2, <1>3, <1>8, <1>9, <1>10, <1>11, <1>12

\* Handle takes the link from no call without disturbing it; with no call in
\* progress a reset empties the window and the end of the link clears it.
LEMMA HandleIsCalm ==
  ASSUME Typed, Typed', Window, InTransfer => NoEnd, Undisturbed,
         (\E f \in RxFrames : RxStart(f)) \/ RxStep
  PROVE  Window' /\ (InTransfer' => NoEnd')
<1>0. op' = op /\ rx' \in Rx /\ rx \in Rx /\ rx.frame \in Frame /\ ack \in Seq(Ack)
  <2>1. op' = op
    BY DEF RxStep, RxStart, RxAnswer, RxXIDCommand, RxXIDResponse, RxModeResponse,
           RxDISC, RxSABMCollision, RxSABMReset, RxSupervisory, RxReject,
           RxInformation, RxFinish
  <2> QED
    BY <2>1 DEF Typed, Rx, QueuesOK
<1>1. ASSUME rx'.pc = "finish", IsLinkTermination(rx'.ack),
             va' = vs', state' = "disconnected" \/ state' = state
      PROVE  Window' /\ ~InTransfer'
  <2>1. op'.pc = "idle"
    BY <1>0, <1>1 DEF Undisturbed
  <2> QED
    BY <1>0, <1>1, <2>1 DEF Window, InTransfer, SendBody, PollPC
<1>2. ASSUME state' = state, va' = va, vs' = vs,
             \/ ack' = ack
             \/ \E a \in Ack : ack' = Offer(ack, a, AckCap) /\
                               (NoEnd => ~IsLinkTermination(a))
      PROVE  Window' /\ (InTransfer' => NoEnd')
  <2>1. Window' /\ InTransfer' = InTransfer
    BY <1>0, <1>2 DEF Window, InTransfer, Expected
  <2>2. ASSUME InTransfer PROVE NoEnd'
    <3>1. op.pc # "idle" /\ NoEnd
      BY <2>2 DEF InTransfer, SendBody, PollPC
    <3>2. rx'.pc = "finish" => rx'.ack \in Mild
      BY <1>0, <3>1 DEF Undisturbed, Mild, Rx
    <3>3. \A a \in Mild : Offer(ack, a, AckCap) \in Seq(Mild)
      BY <3>1 DEF NoEnd, Offer
    <3>4. ack' \in Seq(Mild)
      BY <1>2, <3>1, <3>3 DEF NoEnd, Mild
    <3> QED
      BY <3>2, <3>4 DEF NoEnd
  <2> QED
    BY <2>1, <2>2
<1>t. \A a, r : Then(a, r) => rx'.pc = "finish" /\ rx'.ack = a
  BY DEF Then, RxIdle
<1>e. \A t \in {"DM", "DISC", "SABM"} : IsLinkTermination(Termination(t))
  BY DEF Termination, IsLinkTermination
<1>f. FailLink => va' = vs' /\ state' = "disconnected"
  BY DEF FailLink
<1>3. CASE \E f \in RxFrames : RxStart(f)
  BY <1>2, <1>3 DEF RxStart, link, queues
<1>4. CASE RxAnswer
  BY <1>2, <1>4 DEF RxAnswer, link, queues
<1>5. CASE RxXIDCommand
  BY <1>2, <1>5 DEF RxXIDCommand, counters, queues
<1>6. CASE RxXIDResponse
  BY <1>2, <1>6 DEF RxXIDResponse, link
<1>7. CASE RxModeResponse
  <2>1. \/ FailLink /\ Then(Termination("DM"), "none")
        \/ UNCHANGED <<link, ack>>
    BY <1>7 DEF RxModeResponse
  <2> QED
    BY <1>1, <1>2, <1>t, <1>e, <1>f, <2>1 DEF link
<1>8. CASE RxDISC
  <2>1. FailLink /\ Then(Termination("DISC"), "none")
    BY <1>8 DEF RxDISC
  <2> QED
    BY <1>1, <1>t, <1>e, <1>f, <2>1
<1>9. CASE RxSABMCollision
  BY <1>2, <1>9 DEF RxSABMCollision, link
<1>10. CASE RxSABMReset
  <2>1. \/ /\ va' = vs' /\ state' = state
           /\ Then(Termination("SABM"), "UA")
        \/ UNCHANGED <<state, counters, ack>>
    BY <1>10 DEF RxSABMReset, queues
  <2> QED
    BY <1>1, <1>2, <1>t, <1>e, <2>1 DEF counters
<1>11. CASE RxSupervisory
  BY <1>2, <1>11 DEF RxSupervisory, counters, queues
<1>12. CASE RxReject
  <2>1. AckOf(rx.frame) \in Ack /\ ~IsLinkTermination(AckOf(rx.frame))
    BY <1>0, <1>12, AckOfOK DEF RxReject, Applying, AckOf, IsLinkTermination
  <2>2. UNCHANGED link /\ ack' = Offer(ack, AckOf(rx.frame), AckCap)
    BY <1>12 DEF RxReject
  <2> QED
    BY <1>2, <2>1, <2>2 DEF link
<1>13. CASE RxInformation
  BY <1>2, <1>13 DEF RxInformation, queues
<1>14. CASE RxFinish
  <2>1. rx.pc = "finish" /\ UNCHANGED link
        /\ (ack' = ack \/ ack' = Offer(ack, rx.ack, AckCap))
    BY <1>14 DEF RxFinish
  <2>2. rx.ack \in Ack /\ (NoEnd => ~IsLinkTermination(rx.ack))
    BY <1>0, <2>1 DEF NoEnd, Mild, Rx
  <2> QED
    BY <1>2, <2>1, <2>2 DEF link
<1> QED
  BY <1>3, <1>4, <1>5, <1>6, <1>7, <1>8, <1>9, <1>10, <1>11, <1>12, <1>13, <1>14
  DEF RxStep

LEMMA NextIsCalm ==
  ASSUME Typed, Typed', Calm, Next, Disturbs
  PROVE  Calm'
<1> SUFFICES ASSUME ~disturbed' PROVE ~op'.cancelled /\ Window' /\ (InTransfer' => NoEnd')
  BY DEF Calm
<1>1. CASE ConnectStart
  <2>1. op'.pc = "announce" /\ ~op'.cancelled /\ op'.kind = "connect"
    BY <1>1 DEF ConnectStart, Idle
  <2>2. Window' /\ ~InTransfer'
    BY <1>1, <2>1 DEF ConnectStart, Window, InTransfer, SendBody, PollPC
  <2> QED
    BY <2>1, <2>2
<1>2. CASE ~(op.pc = "idle" /\ op'.pc = "announce")
  <2>1. ~disturbed /\ Undisturbed
    BY <1>2 DEF Disturbs, Undisturbed
  <2>2. ~op.cancelled /\ ~op'.cancelled /\ Window /\ (InTransfer => NoEnd)
    BY <2>1 DEF Calm, Undisturbed
  <2>3. ~Cancel
    BY <2>2 DEF Cancel, Typed, OpOK, Op
  <2>4. CASE CallStep
    BY <2>1, <2>2, <2>3, <2>4, ConnectIsCalm, DisconnectIsCalm, ChunkIsCalm,
       BusyIsCalm, PollIsCalm DEF CallStep
  <2>5. CASE (\E f \in RxFrames : RxStart(f)) \/ RxStep
    BY <2>1, <2>2, <2>5, HandleIsCalm
  <2>6. CASE (\E s \in Slot : Negotiate(s)) \/ GraceEnds
    <3>1. UNCHANGED <<state, vs, va, op, rx, ack>>
      BY <2>6 DEF Negotiate, NegSend, NegEvent, NegTM201, NegCancelled, NegApply,
                  GraceEnds, link, counters, queues
    <3> QED
      BY <2>2, <3>1 DEF Window, InTransfer, NoEnd, Expected
  <2> QED
    BY <2>2, <2>4, <2>5, <2>6
    DEF Next, Call, Internal, Progress, TakeEvent, Expire, CallStep
<1>3. op.pc = "idle" /\ op'.pc = "announce" => ConnectStart
  <2> SUFFICES ASSUME op.pc = "idle", op'.pc = "announce", ~ConnectStart PROVE FALSE
    OBVIOUS
  <2>1. op \in Op
    BY DEF Typed, OpOK
  <2>2. CASE DisconnectStart \/ ProbeStart \/ (\E msg \in Messages : SendStart(msg)) \/ Cancel
    BY <2>1, <2>2 DEF DisconnectStart, ProbeStart, SendStart, Cancel, Idle, Op
  <2>3. CASE Progress \/ TakeEvent \/ Expire
    BY <2>3 DEF Progress, TakeEvent, Expire,
       ConnectAnnounce, ConnectSend, ConnectEvent, ConnectT1, ConnectAccepted,
       ConnectNegotiate, ConnectDone, DisconnectAnnounce, DisconnectSend,
       DisconnectEvent, DisconnectT1, ChunkStart, ChunkAdvance, SendInfo, AwaitAck,
       AckT1, MarkBusy, Acked, ReadyCheck, BusyPoll, BusyAck, BusyT1, SendGivesUp,
       Poll, PollAck, PollT1, Recovered, Judge, CommandGivesUp, PortRefuses, ObserveCancel
  <2>4. CASE \/ (\E s \in Slot : Negotiate(s)) \/ GraceEnds \/ RxStep
             \/ \E f \in RxFrames : RxStart(f)
    <3>1. op' = op
      BY <2>4 DEF Negotiate, NegSend, NegEvent, NegTM201, NegCancelled, NegApply,
           GraceEnds, RxStep, RxStart, RxAnswer, RxXIDCommand, RxXIDResponse,
           RxModeResponse, RxDISC, RxSABMCollision, RxSABMReset, RxSupervisory,
           RxReject, RxInformation, RxFinish
    <3> QED
      BY <3>1
  <2> QED
    BY <2>2, <2>3, <2>4 DEF Next, Call, Internal
<1> QED
  BY <1>1, <1>2, <1>3

\* Whatever acknowledgements, enquiries and timeouts a call went through, if no
\* context was cancelled and the peer neither ended nor reset the link under
\* it, the call leaves the link connected with an empty window, or down.
THEOREM WindowIsEmpty == HistorySpec => []QuiescentBetweenCalls
<1>1. HistoryInit => Typed /\ Calm
  <2> SUFFICES ASSUME HistoryInit PROVE Typed /\ Calm
    OBVIOUS
  <2>1. op = Idle /\ state = "disconnected" /\ Typed
    BY InitTyped DEF HistoryInit, Init
  <2> QED
    BY <2>1 DEF Calm, Window, InTransfer, SendBody, PollPC, Idle
<1>2. Typed /\ Calm /\ [HistoryNext]_historyVars => (Typed /\ Calm)'
  <2> SUFFICES ASSUME Typed, Calm, [HistoryNext]_historyVars PROVE Typed' /\ Calm'
    OBVIOUS
  <2>1. CASE HistoryNext
    <3>1. Typed'
      BY <2>1, NextTyped DEF HistoryNext
    <3> QED
      BY <2>1, <3>1, NextIsCalm DEF HistoryNext
  <2>2. CASE UNCHANGED historyVars
    <3>1. UNCHANGED vars /\ disturbed' = disturbed
      BY <2>2 DEF historyVars
    <3>2. Typed'
      BY <3>1, NextTyped
    <3>3. UNCHANGED <<state, vs, va, op, rx, ack>>
      BY <3>1 DEF vars, link, queues
    <3> QED
      BY <3>1, <3>2, <3>3 DEF Calm, Window, InTransfer, NoEnd, Expected
  <2> QED
    BY <2>1, <2>2
<1>3. Calm => QuiescentBetweenCalls
  BY DEF Calm, Window, QuiescentBetweenCalls, InDataState
<1> QED
  BY <1>1, <1>2, <1>3, PTL DEF HistorySpec
=============================================================================
