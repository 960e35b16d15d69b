--------------------------- MODULE SessionManager ---------------------------
(***************************************************************************)
(* session.Manager (internal/session/manager.go): the state machine of one *)
(* outgoing AX.25 link.  Three kinds of goroutine share its fields:        *)
(*                                                                         *)
(*   op   the caller that holds m.operation: Connect, Disconnect,          *)
(*        SendWithProgress or one KeepAlive probe;                         *)
(*   rx   the radio dispatcher inside Handle, one frame at a time;         *)
(*   neg  the goroutines running negotiateXID, one per established link.   *)
(*                                                                         *)
(* A step is one section under m.mu, one channel operation or one call of  *)
(* the port's Sender, with the local computation around it; everything a   *)
(* goroutine read in an earlier step may be stale.  Time is abstract: T1,  *)
(* TM201 and the UA grace period may end whenever they are running.  A     *)
(* caller blocked on m.operation is not a step of its own.  A call that    *)
(* fails the link does so in the step that received the reason: it alone   *)
(* reads its channels, so this only makes that receive come a little later.*)
(***************************************************************************)
EXTENDS AX25

CONSTANTS
    N2,             \* m.n2: transmissions of a command before giving up
    NM201,          \* retransmissions of the XID command
    AckCap,         \* capacity of m.ack (8 in the code)
    ControlCap,     \* capacity of m.control (8)
    XidCap,         \* capacity of m.xid (4)
    MaxNeg,         \* bound: negotiateXID goroutines alive at a time
    Messages,       \* messages a caller sends, already split into chunks
    RxFrames,       \* frames the radio may deliver for this link
    Cancellable     \* operations whose context the caller may cancel

ASSUME ManagerAssumption ==
    /\ {N2, AckCap, ControlCap, XidCap, MaxNeg} \subseteq Nat \ {0}
    /\ NM201 \in Nat
    /\ Messages \subseteq Seq(Data) \ {<<>>}
    /\ RxFrames \subseteq Frame
    /\ Cancellable \subseteq {"connect", "disconnect", "send", "probe"}

VARIABLES
    state, vs, va, vr, peerBusy, rejectSent,
    uaGrace,    \* time.Now() is before m.uaGraceUntil
    params,     \* where m.t1, m.n2 and m.paclen come from
    xidCtx,     \* the context of the current link's negotiation is not cancelled
    control, ack, xid,      \* the three event channels
    op, rx, neg,
    io          \* what the last step handed to the port and to the caller

link == <<state, vs, va, vr, peerBusy, rejectSent, uaGrace, params, xidCtx>>
counters == <<vs, va, vr>>
queues == <<control, ack, xid>>
vars == <<link, queues, op, rx, neg, io>>

LinkState == {"disconnected", "awaiting_connection", "connected",
              "awaiting_release", "timer_recovery"}

InDataState(s) == s \in {"connected", "timer_recovery"}

Params == {"configured", "negotiated", "legacy"}

XidEvent == {"accepted", "refused", "frmr"}

Slot == 1 .. MaxNeg

-----------------------------------------------------------------------------
(* Local variables of the goroutines *)

OpPC == {"idle",
         "announce", "sabm", "awaitUA", "accepted", "negotiate", "xidStart",
         "release", "disc", "awaitRelease",
         "chunk", "advance", "ready", "busyPoll", "busyWait", "sendI",
         "awaitAck", "markBusy", "acked",
         "poll", "pollWait", "recovered", "judge"}

Op == [pc : OpPC, kind : {"none", "connect", "disconnect", "send", "probe"},
       cancelled : BOOLEAN, chunks : Seq(Data),
       ns : SeqNo, nr : SeqNo, busyNr : SeqNo,
       tries : 0 .. N2, waits : 0 .. N2,
       pollOnly : BOOLEAN, needSend : BOOLEAN, got : Ack]

Idle == [pc |-> "idle", kind |-> "none", cancelled |-> FALSE, chunks |-> <<>>,
         ns |-> 0, nr |-> 0, busyNr |-> 0, tries |-> 0, waits |-> 0,
         pollOnly |-> FALSE, needSend |-> FALSE, got |-> NoAck]

Rx == [pc : {"idle", "apply", "finish"}, frame : Frame, seen : LinkState,
       grace : BOOLEAN, ack : Ack, reply : {"none", "UA", "RR", "REJ"}]

NoFrame == Unnumbered("UA", "v1", FALSE)

RxIdle == [pc |-> "idle", frame |-> NoFrame, seen |-> "disconnected",
           grace |-> FALSE, ack |-> NoAck, reply |-> "none"]

Neg == [pc : {"free", "send", "wait", "agree", "legacy"},
        tries : 0 .. NM201, live : BOOLEAN]

FreeNeg == [pc |-> "free", tries |-> 0, live |-> FALSE]

IO == [tx : Seq(Frame), up : Seq(Info), done : Seq(Data)]

LinkOK ==
    /\ state \in LinkState
    /\ vs \in SeqNo /\ va \in SeqNo /\ vr \in SeqNo
    /\ peerBusy \in BOOLEAN /\ rejectSent \in BOOLEAN /\ uaGrace \in BOOLEAN
    /\ params \in Params
    /\ xidCtx \in BOOLEAN

QueuesOK ==
    /\ control \in Seq(ControlEvent) /\ Len(control) <= ControlCap
    /\ ack \in Seq(Ack) /\ Len(ack) <= AckCap
    /\ xid \in Seq(XidEvent) /\ Len(xid) <= XidCap

TypeOK ==
    /\ LinkOK
    /\ QueuesOK
    /\ op \in Op
    /\ rx \in Rx
    /\ neg \in [Slot -> Neg]
    /\ io \in IO

Init ==
    /\ state = "disconnected"
    /\ vs = 0 /\ va = 0 /\ vr = 0
    /\ peerBusy = FALSE /\ rejectSent = FALSE /\ uaGrace = FALSE
    /\ params = "configured"
    /\ xidCtx = FALSE
    /\ control = <<>> /\ ack = <<>> /\ xid = <<>>
    /\ op = Idle /\ rx = RxIdle
    /\ neg = [s \in Slot |-> FreeNeg]
    /\ io = [tx |-> <<>>, up |-> <<>>, done |-> <<>>]

-----------------------------------------------------------------------------
(* Building blocks *)

Silent == io' = [tx |-> <<>>, up |-> <<>>, done |-> <<>>]

Sends(f) == io' = [tx |-> <<f>>, up |-> <<>>, done |-> <<>>]

Goto(pc) == op' = [op EXCEPT !.pc = pc]

Return == op' = Idle

\* Mutant: xidCancel is never called.
NotCancelled(negotiators) == negotiators

Cancelled(negotiators) == [s \in Slot |-> [negotiators[s] EXCEPT !.live = FALSE]]

SetState(s) ==
    /\ state' = s
    /\ UNCHANGED <<counters, peerBusy, rejectSent, uaGrace, params, xidCtx>>

\* The link is gone: everything a link owns is reset in one section.
FailLink ==
    /\ state' = "disconnected"
    /\ vs' = 0 /\ va' = 0 /\ vr' = 0
    /\ peerBusy' = FALSE /\ rejectSent' = FALSE /\ uaGrace' = FALSE
    /\ params' = "configured"
    /\ xidCtx' = FALSE
    /\ neg' = Cancelled(neg)

ValidNR(nr) == nr = va \/ nr = vs

Expected == Succ(op.ns)

\* N(R) of a frame the sender may take for an acknowledgement of its I frame.
Acknowledges(a) == ValidNR(a.nr) /\ a.nr = Expected /\ ~IsReject(a)

-----------------------------------------------------------------------------
(* Connect *)

ConnectStart ==
    /\ op.pc = "idle" /\ state = "disconnected"
    /\ vs' = 0 /\ va' = 0 /\ vr' = 0
    /\ peerBusy' = FALSE /\ rejectSent' = FALSE
    /\ xidCtx' = TRUE /\ neg' = Cancelled(neg)
    /\ control' = <<>> /\ xid' = <<>>
    /\ op' = [Idle EXCEPT !.pc = "announce", !.kind = "connect"]
    /\ Silent
    /\ UNCHANGED <<state, uaGrace, params, ack, rx>>

ConnectAnnounce ==
    /\ op.pc = "announce"
    /\ SetState("awaiting_connection")
    /\ Goto("sabm")
    /\ Silent
    /\ UNCHANGED <<queues, rx, neg>>

ConnectSend ==
    /\ op.pc = "sabm" /\ op.tries < N2
    /\ Sends(Unnumbered("SABM", "cmd", TRUE))
    /\ Goto("awaitUA")
    /\ UNCHANGED <<link, queues, rx, neg>>

\* UA or DM without F=1, or as a command, only uses up an attempt.
ConnectEvent ==
    /\ op.pc = "awaitUA" /\ control # <<>>
    /\ control' = Tail(control)
    /\ LET e == Head(control) IN
        \/ /\ e.answer /\ e.type = "UA"
           /\ Goto("accepted")
           /\ UNCHANGED <<link, neg>>
        \/ /\ e.answer /\ e.type = "DM"
           /\ Return
           /\ FailLink
        \/ /\ ~e.answer
           /\ op' = [op EXCEPT !.pc = "sabm", !.tries = @ + 1]
           /\ UNCHANGED <<link, neg>>
    /\ Silent
    /\ UNCHANGED <<ack, xid, rx>>

ConnectT1 ==
    /\ op.pc = "awaitUA"
    /\ SetState("awaiting_connection")
    /\ op' = [op EXCEPT !.pc = "sabm", !.tries = @ + 1]
    /\ Silent
    /\ UNCHANGED <<queues, rx, neg>>

ConnectAccepted ==
    /\ op.pc = "accepted"
    /\ uaGrace' = TRUE
    /\ state' = "connected"
    /\ Goto("negotiate")
    /\ Silent
    /\ UNCHANGED <<counters, peerBusy, rejectSent, params, xidCtx, queues, rx, neg>>

ConnectNegotiate ==
    /\ op.pc = "negotiate"
    /\ \E s \in Slot :
        /\ neg[s].pc = "free"
        /\ neg' = [neg EXCEPT ![s] = [pc |-> "send", tries |-> 0, live |-> xidCtx]]
    /\ Goto("xidStart")
    /\ Silent
    /\ UNCHANGED <<link, queues, rx>>

\* Connect waits until the first XID command was handed to the port.
ConnectDone ==
    /\ op.pc = "xidStart"
    /\ \A s \in Slot : ~(neg[s].pc = "send" /\ neg[s].tries = 0)
    /\ Return
    /\ Silent
    /\ UNCHANGED <<link, queues, rx, neg>>

-----------------------------------------------------------------------------
(* Disconnect *)

DisconnectStart ==
    /\ op.pc = "idle" /\ state # "disconnected"
    /\ control' = <<>>
    /\ op' = [Idle EXCEPT !.pc = "release", !.kind = "disconnect"]
    /\ Silent
    /\ UNCHANGED <<link, ack, xid, rx, neg>>

DisconnectAnnounce ==
    /\ op.pc = "release"
    /\ SetState("awaiting_release")
    /\ Goto("disc")
    /\ Silent
    /\ UNCHANGED <<queues, rx, neg>>

DisconnectSend ==
    /\ op.pc = "disc" /\ op.tries < N2
    /\ Sends(Unnumbered("DISC", "cmd", TRUE))
    /\ Goto("awaitRelease")
    /\ UNCHANGED <<link, queues, rx, neg>>

DisconnectEvent ==
    /\ op.pc = "awaitRelease" /\ control # <<>>
    /\ control' = Tail(control)
    /\ \/ /\ Head(control).answer
          /\ Return
          /\ FailLink
       \/ /\ ~Head(control).answer
          /\ op' = [op EXCEPT !.pc = "disc", !.tries = @ + 1]
          /\ UNCHANGED <<link, neg>>
    /\ Silent
    /\ UNCHANGED <<ack, xid, rx>>

\* T1 ends the wait; so does a cancelled context, whose `break' leaves only
\* the select: the next DISC goes out at once.
DisconnectT1 ==
    /\ op.pc = "awaitRelease"
    /\ op' = [op EXCEPT !.pc = "disc", !.tries = @ + 1]
    /\ Silent
    /\ UNCHANGED <<link, queues, rx, neg>>

-----------------------------------------------------------------------------
(* SendWithProgress, one chunk at a time *)

SendStart(msg) ==
    /\ op.pc = "idle"
    /\ op' = [Idle EXCEPT !.pc = "chunk", !.kind = "send", !.chunks = msg]
    /\ Silent
    /\ UNCHANGED <<link, queues, rx, neg>>

ChunkStart ==
    /\ op.pc = "chunk"
    /\ \/ /\ state # "connected"
          /\ Return
          /\ UNCHANGED ack
       \/ /\ state = "connected"
          /\ op' = [op EXCEPT !.pc = "advance", !.ns = vs, !.nr = vr,
                              !.tries = 0, !.waits = 0, !.pollOnly = FALSE,
                              !.needSend = TRUE, !.got = NoAck]
          /\ ack' = <<>>
    /\ Silent
    /\ UNCHANGED <<link, control, xid, rx, neg>>

\* V(S) moves in a second section: `m.vs = expected' with the earlier V(S).
ChunkAdvance ==
    /\ op.pc = "advance"
    /\ vs' = Expected
    /\ Goto("ready")
    /\ Silent
    /\ UNCHANGED <<state, va, vr, peerBusy, rejectSent, uaGrace, params, xidCtx,
                   queues, rx, neg>>

\* Where an attempt goes once the peer is ready.
Proceed(o) ==
    [o EXCEPT !.waits = 0,
              !.pc = IF o.pollOnly THEN "poll"
                     ELSE IF o.needSend THEN "sendI" ELSE "awaitAck"]

\* Mutant: the attempts are not counted.
NextAttemptUncounted(o) == [o EXCEPT !.pc = "ready", !.waits = 0]

NextAttempt(o) == [o EXCEPT !.pc = "ready", !.tries = @ + 1, !.waits = 0]

ReadyCheck ==
    /\ op.pc = "ready" /\ op.tries < N2 /\ op.waits < N2
    /\ op' = IF peerBusy THEN [op EXCEPT !.pc = "busyPoll", !.busyNr = vr]
                         ELSE Proceed(op)
    /\ Silent
    /\ UNCHANGED <<link, queues, rx, neg>>

BusyPoll ==
    /\ op.pc = "busyPoll"
    /\ ack' = <<>>
    /\ Sends(Supervisory("RR", "cmd", TRUE, op.busyNr))
    /\ op' = [op EXCEPT !.pc = "busyWait", !.busyNr = 0]
    /\ UNCHANGED <<link, control, xid, rx, neg>>

\* Any RR ends the busy condition; a repeated SABM does not end the wait.
BusyAck ==
    /\ op.pc = "busyWait" /\ ack # <<>>
    /\ ack' = Tail(ack)
    /\ LET a == Head(ack) IN
        \/ /\ a.type \in {"DM", "DISC"}
           /\ Return
           /\ FailLink
        \/ /\ a.type = "RR"
           /\ peerBusy' = FALSE
           /\ op' = Proceed(op)
           /\ UNCHANGED <<state, counters, rejectSent, uaGrace, params, xidCtx, neg>>
        \/ /\ a.type \notin {"DM", "DISC", "RR"}
           /\ UNCHANGED <<link, op, neg>>
    /\ Silent
    /\ UNCHANGED <<control, xid, rx>>

BusyT1 ==
    /\ op.pc = "busyWait"
    /\ op' = [op EXCEPT !.pc = "ready", !.waits = @ + 1]
    /\ Silent
    /\ UNCHANGED <<link, queues, rx, neg>>

SendInfo ==
    /\ op.pc = "sendI"
    /\ Sends(Information(op.ns, op.nr, FALSE, Head(op.chunks)))
    /\ op' = [op EXCEPT !.pc = "awaitAck", !.needSend = FALSE, !.got = NoAck]
    /\ UNCHANGED <<link, queues, rx, neg>>

AwaitAck ==
    /\ op.pc = "awaitAck" /\ ack # <<>>
    /\ ack' = Tail(ack)
    /\ LET a == Head(ack)
           resend == (IsReject(a) /\ a.nr = op.ns)
       IN
        op' = IF IsLinkTermination(a) THEN Idle
              ELSE IF a.type = "RNR" THEN [op EXCEPT !.pc = "markBusy", !.got = a]
              ELSE IF Acknowledges(a) THEN [op EXCEPT !.pc = "acked", !.got = a]
              ELSE IF resend THEN NextAttempt([op EXCEPT !.needSend = TRUE, !.got = a])
              ELSE op
    /\ Silent
    /\ UNCHANGED <<link, control, xid, rx, neg>>

AckT1 ==
    /\ op.pc = "awaitAck"
    /\ Goto("poll")
    /\ Silent
    /\ UNCHANGED <<link, queues, rx, neg>>

\* The chunk is reported sent; the next one starts or the call returns.
ChunkSent ==
    /\ io' = [tx |-> <<>>, up |-> <<>>, done |-> <<Head(op.chunks)>>]
    /\ op' = IF Len(op.chunks) = 1 THEN Idle
             ELSE [op EXCEPT !.pc = "chunk", !.chunks = Tail(@)]

MarkBusy ==
    /\ op.pc = "markBusy"
    /\ peerBusy' = TRUE
    /\ \/ /\ op.got.nr = Expected
          /\ va' = Expected
          /\ ChunkSent
       \/ /\ op.got.nr # Expected
          /\ op' = NextAttempt([op EXCEPT !.needSend = TRUE])
          /\ Silent
          /\ UNCHANGED va
    /\ UNCHANGED <<state, vs, vr, rejectSent, uaGrace, params, xidCtx,
                   queues, rx, neg>>

\* Mutant: V(A) does not follow the acknowledgement.
AckedWithoutVA ==
    /\ op.pc = "acked"
    /\ ChunkSent
    /\ UNCHANGED <<link, queues, rx, neg>>

Acked ==
    /\ op.pc = "acked"
    /\ va' = Expected
    /\ ChunkSent
    /\ UNCHANGED <<state, vs, vr, peerBusy, rejectSent, uaGrace, params, xidCtx,
                   queues, rx, neg>>

\* N2 attempts of a chunk, or N2 polls of a busy peer, are used up.
SendGivesUp ==
    /\ op.pc = "ready" /\ (op.tries = N2 \/ op.waits = N2)
    /\ Return
    /\ FailLink
    /\ Silent
    /\ UNCHANGED <<queues, rx>>

\* The same for the SABM, the DISC and the T3 probe.
CommandGivesUp ==
    /\ \/ op.pc \in {"sabm", "disc"}
       \/ op.pc = "poll" /\ op.kind = "probe"
    /\ op.tries = N2
    /\ Return
    /\ IF op.kind = "probe" /\ op.cancelled
       THEN UNCHANGED <<link, neg>> ELSE FailLink
    /\ Silent
    /\ UNCHANGED <<queues, rx>>

-----------------------------------------------------------------------------
(* pollAcknowledgement, for a chunk whose T1 expired and for the T3 probe *)

ProbeStart ==
    /\ op.pc = "idle" /\ state = "connected"
    /\ op' = [Idle EXCEPT !.pc = "poll", !.kind = "probe", !.nr = vr]
    /\ ack' = <<>>
    /\ Silent
    /\ UNCHANGED <<link, control, xid, rx, neg>>

\* Mutant: an unanswered enquiry leads to a retransmission.
PollFailedResends(o) ==
    IF o.cancelled THEN Idle
    ELSE IF o.kind = "probe" THEN [o EXCEPT !.pc = "poll", !.tries = @ + 1]
    ELSE NextAttempt([o EXCEPT !.needSend = TRUE])

\* An error of the poll: the probe tries again, a chunk keeps polling.  A done
\* context is looked at by both, but not by the first poll of a chunk.
PollFailed(o) ==
    IF o.cancelled /\ (o.kind = "probe" \/ o.pollOnly) THEN Idle
    ELSE IF o.kind = "probe" THEN [o EXCEPT !.pc = "poll", !.tries = @ + 1]
    ELSE NextAttempt([o EXCEPT !.pollOnly = TRUE, !.needSend = FALSE])

Poll ==
    /\ op.pc = "poll" /\ op.tries < N2
    /\ SetState("timer_recovery")
    /\ \/ /\ Sends(Supervisory("RR", "cmd", TRUE, op.nr))
          /\ Goto("pollWait")
       \/ /\ Silent                         \* the port refused the frame
          /\ op' = PollFailed(op)
    /\ UNCHANGED <<queues, rx, neg>>

PollAck ==
    /\ op.pc = "pollWait" /\ ack # <<>>
    /\ ack' = Tail(ack)
    /\ LET a == Head(ack) IN
        \/ /\ IsLinkTermination(a)
           /\ Return
           /\ IF op.kind = "probe" /\ ~op.cancelled
              THEN FailLink ELSE UNCHANGED <<link, neg>>
        \/ /\ ~IsLinkTermination(a)
           /\ op' = IF a.answer /\ ValidNR(a.nr)
                    THEN [op EXCEPT !.pc = "recovered", !.got = a] ELSE op
           /\ UNCHANGED <<link, neg>>
    /\ Silent
    /\ UNCHANGED <<control, xid, rx>>

PollT1 ==
    /\ op.pc = "pollWait"
    /\ op' = PollFailed(op)
    /\ Silent
    /\ UNCHANGED <<link, queues, rx, neg>>

Recovered ==
    /\ op.pc = "recovered"
    /\ SetState("connected")
    /\ IF op.kind = "probe" THEN Return ELSE Goto("judge")
    /\ Silent
    /\ UNCHANGED <<queues, rx, neg>>

\* A poll made by the attempt itself retransmits at once, without a second
\* waitRemoteReady; one made when T1 expired starts another attempt.
Judge ==
    /\ op.pc = "judge"
    /\ peerBusy' = (peerBusy \/ op.got.type = "RNR")
    /\ op' = IF Acknowledges(op.got) THEN [op EXCEPT !.pc = "acked"]
             ELSE IF op.pollOnly
             THEN [op EXCEPT !.pc = "sendI", !.pollOnly = FALSE, !.needSend = TRUE]
             ELSE NextAttempt([op EXCEPT !.needSend = TRUE])
    /\ Silent
    /\ UNCHANGED <<state, counters, rejectSent, uaGrace, params, xidCtx,
                   queues, rx, neg>>

-----------------------------------------------------------------------------
(* Failures of the port and of the caller *)

\* The Sender returned an error (queue full, context done): the link fails.
PortRefuses ==
    /\ op.pc \in {"sabm", "disc", "busyPoll", "sendI"}
    /\ op.pc \in {"sabm", "disc"} => op.tries < N2
    /\ Return
    /\ FailLink
    /\ ack' = IF op.pc = "busyPoll" THEN <<>> ELSE ack
    /\ Silent
    /\ UNCHANGED <<control, xid, rx>>

Cancel ==
    /\ op.kind \in Cancellable /\ ~op.cancelled
    /\ op' = [op EXCEPT !.cancelled = TRUE]
    /\ Silent
    /\ UNCHANGED <<link, queues, rx, neg>>

\* A done context fails a link being set up and one whose peer is busy, but
\* only abandons an I frame that waits for its acknowledgement.
ObserveCancel ==
    /\ op.cancelled
    /\ \/ /\ op.pc \in {"awaitUA", "busyWait"}
          /\ Return
          /\ FailLink
       \/ /\ op.pc = "awaitAck"
          /\ Return
          /\ UNCHANGED <<link, neg>>
       \/ /\ op.pc = "pollWait"
          /\ op' = PollFailed(op)
          /\ UNCHANGED <<link, neg>>
    /\ Silent
    /\ UNCHANGED <<queues, rx>>

-----------------------------------------------------------------------------
(* negotiateXID *)

NegRetry(n) ==
    IF n.tries < NM201 THEN [n EXCEPT !.pc = "send", !.tries = @ + 1]
                       ELSE [n EXCEPT !.pc = "legacy"]

NegSend(s) ==
    /\ neg[s].pc = "send"
    /\ \/ /\ Sends(Unnumbered("XID", "cmd", TRUE))
          /\ neg' = [neg EXCEPT ![s].pc = "wait"]
       \/ /\ Silent                         \* the port refused the frame
          /\ neg' = [neg EXCEPT ![s] = FreeNeg]
    /\ UNCHANGED <<link, queues, op, rx>>

NegEvent(s) ==
    /\ neg[s].pc = "wait" /\ xid # <<>>
    /\ xid' = Tail(xid)
    /\ neg' = [neg EXCEPT ![s] =
                 CASE Head(xid) = "frmr"     -> [@ EXCEPT !.pc = "legacy"]
                   [] Head(xid) = "accepted" -> [@ EXCEPT !.pc = "agree"]
                   [] Head(xid) = "refused"  -> NegRetry(@)]
    /\ Silent
    /\ UNCHANGED <<link, control, ack, op, rx>>

NegTM201(s) ==
    /\ neg[s].pc = "wait"
    /\ neg' = [neg EXCEPT ![s] = NegRetry(@)]
    /\ Silent
    /\ UNCHANGED <<link, queues, op, rx>>

NegCancelled(s) ==
    /\ neg[s].pc = "wait" /\ ~neg[s].live
    /\ neg' = [neg EXCEPT ![s] = FreeNeg]
    /\ Silent
    /\ UNCHANGED <<link, queues, op, rx>>

\* The parameters are written without another look at the context.
NegApply(s) ==
    /\ neg[s].pc \in {"agree", "legacy"}
    /\ params' = IF neg[s].pc = "agree" THEN "negotiated" ELSE "legacy"
    /\ neg' = [neg EXCEPT ![s] = FreeNeg]
    /\ Silent
    /\ UNCHANGED <<state, counters, peerBusy, rejectSent, uaGrace, xidCtx,
                   queues, op, rx>>

-----------------------------------------------------------------------------
(* Handle, called by the dispatcher for one frame at a time *)

\* A frame is taken only by a link that is not disconnected; Handle keeps the
\* state it saw for the rest of the call.
RxStart(f) ==
    /\ rx.pc = "idle"
    /\ state # "disconnected"
    /\ rx' = [RxIdle EXCEPT !.pc = "apply", !.frame = f, !.seen = state,
                            !.grace = (f.type = "UA" /\ uaGrace)]
    /\ Silent
    /\ UNCHANGED <<link, queues, op, neg>>

Applying(types) == rx.pc = "apply" /\ rx.frame.type \in types

\* What is left after the locked section: tell the sender, answer the peer.
Then(a, reply) == rx' = [RxIdle EXCEPT !.pc = "finish", !.ack = a, !.reply = reply,
                                       !.frame.pf = rx.frame.pf]

RxEnd == rx' = RxIdle

\* TEST and UI only answer; SABME is not one of Handle's cases.
RxAnswer ==
    /\ Applying({"TEST", "UI", "SABME"})
    /\ LET f == rx.frame IN
        CASE f.type = "TEST" /\ IsCommand(f) ->
                Sends([Unnumbered("TEST", "rsp", f.pf) EXCEPT !.info = f.info])
          [] f.type = "UI" /\ IsCommand(f) /\ f.pf /\ InDataState(rx.seen) ->
                Sends(Supervisory("RR", "rsp", TRUE, vr))
          [] OTHER -> Silent
    /\ RxEnd
    /\ UNCHANGED <<link, queues, op, neg>>

RxXIDCommand ==
    /\ Applying({"XID"}) /\ IsCommand(rx.frame)
    /\ \/ /\ rx.frame.pf /\ rx.frame.info # Unacceptable
          /\ params' = "negotiated"
          /\ Sends(Unnumbered("XID", "rsp", TRUE))
       \/ /\ ~rx.frame.pf \/ rx.frame.info = Unacceptable
          /\ UNCHANGED params
          /\ Silent
    /\ RxEnd
    /\ UNCHANGED <<state, counters, peerBusy, rejectSent, uaGrace, xidCtx,
                   queues, op, neg>>

RxXIDResponse ==
    /\ \/ Applying({"XID"}) /\ ~IsCommand(rx.frame)
       \/ Applying({"FRMR"})
    /\ LET f == rx.frame
           event == IF f.type = "FRMR" THEN "frmr"
                    ELSE IF f.pf /\ f.info # Unacceptable THEN "accepted"
                    ELSE "refused"
       IN xid' = IF f.type = "FRMR" /\ ~IsResponse(f) THEN xid
                 ELSE Offer(xid, event, XidCap)
    /\ RxEnd
    /\ Silent
    /\ UNCHANGED <<link, control, ack, op, neg>>

\* UA and DM end an established link, unless the UA is a late answer to a
\* repeated SABM; otherwise they answer the operation in progress.
RxModeResponse ==
    /\ Applying({"UA", "DM"})
    /\ LET f == rx.frame
           late == f.type = "UA" /\ f.pf /\ IsResponse(f) /\ rx.grace
       IN
        \/ /\ InDataState(rx.seen) /\ ~late
           /\ FailLink
           /\ Then(Termination("DM"), "none")
           /\ UNCHANGED control
        \/ /\ InDataState(rx.seen) /\ late
           /\ RxEnd
           /\ UNCHANGED <<link, neg, control>>
        \/ /\ ~InDataState(rx.seen)
           /\ control' = Offer(control,
                               [type |-> f.type, answer |-> IsResponse(f) /\ f.pf],
                               ControlCap)
           /\ RxEnd
           /\ UNCHANGED <<link, neg>>
    /\ Silent
    /\ UNCHANGED <<ack, xid, op>>

RxDISC ==
    /\ Applying({"DISC"})
    /\ Sends(Unnumbered("UA", "rsp", rx.frame.pf))
    /\ FailLink
    /\ Then(Termination("DISC"), "none")
    /\ UNCHANGED <<queues, op>>

\* Both stations call: the peer's SABM completes our connection.
RxSABMCollision ==
    /\ Applying({"SABM"}) /\ rx.seen = "awaiting_connection"
    /\ Sends(Unnumbered("UA", "rsp", rx.frame.pf))
    /\ control' = Offer(control, [type |-> "UA", answer |-> TRUE], ControlCap)
    /\ RxEnd
    /\ UNCHANGED <<link, ack, xid, op, neg>>

\* Mutant: a reset does not clear rejectSent.
RxSABMResetKeepsReject ==
    /\ Applying({"SABM"}) /\ InDataState(rx.seen)
    /\ vs' = 0 /\ va' = 0 /\ vr' = 0
    /\ peerBusy' = FALSE
    /\ Then(Termination("SABM"), "UA")
    /\ Silent
    /\ UNCHANGED <<state, rejectSent, uaGrace, params, xidCtx, queues, op, neg>>

RxSABMReset ==
    /\ Applying({"SABM"}) /\ rx.seen # "awaiting_connection"
    /\ \/ /\ InDataState(rx.seen)
          /\ vs' = 0 /\ va' = 0 /\ vr' = 0
          /\ peerBusy' = FALSE /\ rejectSent' = FALSE
          /\ Then(Termination("SABM"), "UA")
       \/ /\ ~InDataState(rx.seen)
          /\ UNCHANGED <<counters, peerBusy, rejectSent>>
          /\ RxEnd
    /\ Silent
    /\ UNCHANGED <<state, uaGrace, params, xidCtx, queues, op, neg>>

\* RR and RNR set the busy flag first, then tell the sender, then answer a poll.
RxSupervisory ==
    /\ Applying({"RR", "RNR"})
    /\ peerBusy' = (rx.frame.type = "RNR")
    /\ Then(AckOf(rx.frame),
            IF rx.frame.pf /\ IsCommand(rx.frame) THEN "RR" ELSE "none")
    /\ Silent
    /\ UNCHANGED <<state, counters, rejectSent, uaGrace, params, xidCtx,
                   queues, op, neg>>

RxReject ==
    /\ Applying({"REJ", "SREJ"})
    /\ IF rx.frame.pf /\ IsCommand(rx.frame)
       THEN Sends(Supervisory("RR", "rsp", TRUE, vr)) ELSE Silent
    /\ ack' = Offer(ack, AckOf(rx.frame), AckCap)
    /\ RxEnd
    /\ UNCHANGED <<link, control, xid, op, neg>>

RxInformation ==
    /\ Applying({"I"})
    /\ LET f == rx.frame IN
        \/ /\ ~InDataState(rx.seen) \/ ~IsCommand(f) \/ f.info = Oversize
           /\ RxEnd
           /\ Silent
           /\ UNCHANGED <<vr, rejectSent>>
        \/ /\ InDataState(rx.seen) /\ IsCommand(f) /\ f.info # Oversize
           /\ f.ns = vr
           /\ vr' = Succ(vr) /\ rejectSent' = FALSE
           /\ io' = [tx |-> <<>>, up |-> <<f.info>>, done |-> <<>>]
           /\ Then(AckOf(f), "RR")
        \/ /\ InDataState(rx.seen) /\ IsCommand(f) /\ f.info # Oversize
           /\ f.ns # vr
           /\ rejectSent' = TRUE
           /\ IF rejectSent THEN RxEnd ELSE Then(NoAck, "REJ")
           /\ Silent
           /\ UNCHANGED vr
    /\ UNCHANGED <<state, vs, va, peerBusy, uaGrace, params, xidCtx,
                   queues, op, neg>>

RxFinish ==
    /\ rx.pc = "finish"
    /\ ack' = IF rx.ack = NoAck THEN ack ELSE Offer(ack, rx.ack, AckCap)
    /\ CASE rx.reply = "none" -> Silent
         [] rx.reply = "UA"   -> Sends(Unnumbered("UA", "rsp", rx.frame.pf))
         [] OTHER -> Sends(Supervisory(rx.reply, "rsp", rx.frame.pf, vr))
    /\ RxEnd
    /\ UNCHANGED <<link, control, xid, op, neg>>

GraceEnds ==
    /\ uaGrace
    /\ uaGrace' = FALSE
    /\ Silent
    /\ UNCHANGED <<state, counters, peerBusy, rejectSent, params, xidCtx,
                   queues, op, rx, neg>>

-----------------------------------------------------------------------------
(* The specification *)

\* What a caller decides.
Call ==
    \/ ConnectStart \/ DisconnectStart \/ ProbeStart
    \/ \E msg \in Messages : SendStart(msg)
    \/ Cancel

\* T1 and the context end a wait even if events keep coming: a Go select
\* picks among the ready cases at random and an expired timer stays ready.
Expire == ConnectT1 \/ DisconnectT1 \/ BusyT1 \/ AckT1 \/ PollT1 \/ ObserveCancel

TakeEvent == ConnectEvent \/ DisconnectEvent \/ BusyAck \/ AwaitAck \/ PollAck

Progress ==
    \/ ConnectAnnounce \/ ConnectSend \/ ConnectAccepted \/ ConnectNegotiate
    \/ ConnectDone \/ DisconnectAnnounce \/ DisconnectSend
    \/ ChunkStart \/ ChunkAdvance \/ ReadyCheck \/ BusyPoll \/ SendInfo
    \/ MarkBusy \/ Acked \/ SendGivesUp \/ CommandGivesUp
    \/ Poll \/ Recovered \/ Judge \/ PortRefuses

Negotiate(s) ==
    NegSend(s) \/ NegEvent(s) \/ NegTM201(s) \/ NegCancelled(s) \/ NegApply(s)

RxStep ==
    \/ RxAnswer \/ RxXIDCommand \/ RxXIDResponse \/ RxModeResponse \/ RxDISC
    \/ RxSABMCollision \/ RxSABMReset \/ RxSupervisory \/ RxReject
    \/ RxInformation \/ RxFinish

\* Everything the Manager does by itself.
Internal ==
    \/ Progress \/ TakeEvent \/ Expire
    \/ (\E s \in Slot : Negotiate(s))
    \/ RxStep \/ GraceEnds

Next == Call \/ Internal \/ \E f \in RxFrames : RxStart(f)

Spec == Init /\ [][Next]_vars

\* Goroutines that can run are scheduled and timers that run expire.
Fairness ==
    /\ WF_vars(Progress)
    /\ SF_vars(Expire)
    /\ WF_vars(RxStep)
    /\ \A s \in Slot : WF_vars(Negotiate(s))

FairSpec == Spec /\ Fairness

-----------------------------------------------------------------------------
(* Properties *)

\* An I frame is put on the air again only after the peer answered the last
\* transmission: T1 expiry leads to an enquiry (RR, P=1), never straight to a
\* second copy (sendChunk and pollAcknowledgement, flags needSend and pollOnly).
RetransmitOnlyWhenAnswered ==
    op.pc = "sendI" /\ op.tries > 0 => op.got.type \in {"RR", "RNR", "REJ"}

\* A goroutine negotiating parameters outlives its link only as a cancelled
\* one, and two links never negotiate at the same time: the contexts handed
\* over by Connect, negotiateXID and failLink.
NegotiationBelongsToLink ==
    /\ \A s \in Slot : neg[s].live => xidCtx
    /\ \A s, t \in Slot : neg[s].live /\ neg[t].live => s = t
    /\ (state = "disconnected" /\ op.pc # "announce") => ~xidCtx

\* Every call returns, whatever frames keep arriving: Connect, Disconnect,
\* Send and the T3 probe all end within their N2 attempts.
OperationReturns == (op.pc # "idle") ~> (op.pc = "idle")
=============================================================================
