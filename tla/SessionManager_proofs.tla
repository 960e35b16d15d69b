----------------------- MODULE SessionManager_proofs -----------------------
(***************************************************************************)
(* Type correctness of SessionManager, for every value of its constants.   *)
(*                                                                         *)
(* TypeOK is not inductive: that a counter of attempts stays within N2,    *)
(* or that a chunk is at hand, follows from where the call is.  Shape adds *)
(* that, and Typed, the conjunction, is inductive.                         *)
(***************************************************************************)
EXTENDS SessionManager, SequenceTheorems, TLAPS

USE ManagerAssumption, ModulusAssumption

-----------------------------------------------------------------------------
(* The call in progress *)

SendPC == {"chunk", "advance", "ready", "busyPoll", "busyWait", "sendI",
           "awaitAck", "markBusy", "acked", "judge"}

PollPC == {"poll", "pollWait", "recovered"}

AttemptPC == {"awaitUA", "awaitRelease", "busyPoll", "busyWait", "sendI",
              "awaitAck", "markBusy", "acked", "pollWait", "recovered", "judge"}

\* Where each kind of call can be, and the attempts it still has there.
Shape(o) ==
    /\ o.pc \in SendPC => o.kind = "send"
    /\ o.pc \in PollPC => o.kind \in {"send", "probe"}
    /\ o.kind = "send" => o.chunks # <<>>
    /\ o.pc \in AttemptPC => o.tries < N2
    /\ o.pc = "poll" /\ o.kind = "send" => o.tries < N2
    /\ o.pc \in {"busyPoll", "busyWait"} => o.waits < N2

OpOK(o) == o \in Op /\ Shape(o)

Typed ==
    /\ LinkOK
    /\ QueuesOK
    /\ OpOK(op)
    /\ rx \in Rx
    /\ neg \in [Slot -> Neg]
    /\ io \in IO

\* The sequence numbers and the acknowledgements they make are well typed.
LEMMA NumbersOK ==
    /\ 0 \in SeqNo
    /\ NoAck \in Ack
    /\ \A n \in SeqNo : Succ(n) \in SeqNo
  BY DEF SeqNo, Succ, NoAck, Ack, AckType

\* A caller that is not calling.
LEMMA IdleOK == OpOK(Idle)
<1>1. Idle \in Op
  BY NumbersOK DEF Idle, Op, OpPC
<1> QED
  BY <1>1 DEF OpOK, Shape, Idle, SendPC, PollPC, AttemptPC

\* A call that only moves on.
LEMMA GotoOK ==
  ASSUME NEW o, OpOK(o), NEW p \in OpPC, Shape([o EXCEPT !.pc = p])
  PROVE  OpOK([o EXCEPT !.pc = p])
  BY DEF OpOK, Op

\* A command that is sent again.
LEMMA RetryOK ==
  ASSUME NEW o, OpOK(o), o.tries < N2,
         NEW p \in {"sabm", "disc", "poll"},
         p = "poll" => o.kind = "probe"
  PROVE  OpOK([o EXCEPT !.pc = p, !.tries = @ + 1])
<1>1. o \in Op /\ Shape(o) /\ p \in OpPC /\ o.tries + 1 \in 0 .. N2
  BY DEF OpOK, Op, OpPC
<1>2. [o EXCEPT !.pc = p, !.tries = @ + 1] \in Op
  BY <1>1 DEF Op
<1>3. Shape([o EXCEPT !.pc = p, !.tries = @ + 1])
  BY <1>1 DEF Op, Shape, SendPC, PollPC, AttemptPC
<1> QED
  BY <1>2, <1>3 DEF OpOK

\* A chunk that is attempted again.
LEMMA AttemptOK ==
  ASSUME NEW o, OpOK(o), o.kind = "send", o.tries < N2
  PROVE  OpOK(NextAttempt(o))
<1>1. o \in Op /\ Shape(o) /\ "ready" \in OpPC
      /\ o.tries + 1 \in 0 .. N2 /\ 0 \in 0 .. N2
  BY DEF OpOK, Op, OpPC
<1>2. NextAttempt(o) \in Op
  BY <1>1 DEF Op, NextAttempt
<1>3. Shape(NextAttempt(o))
  BY <1>1 DEF Op, Shape, NextAttempt, SendPC, PollPC, AttemptPC
<1> QED
  BY <1>2, <1>3 DEF OpOK

\* A chunk whose peer is ready.
LEMMA ProceedOK ==
  ASSUME NEW o, OpOK(o), o.kind = "send", o.tries < N2
  PROVE  OpOK(Proceed(o))
<1> DEFINE pcs == {"poll", "sendI", "awaitAck"}
<1>1. o \in Op /\ Shape(o) /\ pcs \subseteq OpPC /\ 0 \in 0 .. N2
  BY DEF OpOK, Op, OpPC
<1>2. \A p \in pcs : [o EXCEPT !.waits = 0, !.pc = p] \in Op
  BY <1>1 DEF Op
<1>3. \A p \in pcs : Shape([o EXCEPT !.waits = 0, !.pc = p])
  BY <1>1 DEF Op, Shape, SendPC, PollPC, AttemptPC
<1> QED
  BY <1>2, <1>3 DEF OpOK, Proceed

\* A chunk that is to be retransmitted, for the reason in got.
LEMMA ResendOK ==
  ASSUME NEW o, OpOK(o), o.kind = "send", o.tries < N2, NEW a \in Ack
  PROVE  /\ OpOK(NextAttempt([o EXCEPT !.needSend = TRUE]))
         /\ OpOK(NextAttempt([o EXCEPT !.needSend = TRUE, !.got = a]))
<1> DEFINE f == [o EXCEPT !.needSend = TRUE]
           g == [o EXCEPT !.needSend = TRUE, !.got = a]
<1>1. o \in Op /\ Shape(o)
  BY DEF OpOK
<1>2. f \in Op /\ g \in Op
  BY <1>1 DEF Op
<1>3. Shape(f) /\ Shape(g)
  BY <1>1 DEF Op, Shape
<1>4. f.tries = o.tries /\ f.kind = o.kind /\ g.tries = o.tries /\ g.kind = o.kind
  BY <1>1 DEF Op
<1> HIDE DEF f, g
<1>5. OpOK(NextAttempt(f)) /\ OpOK(NextAttempt(g))
  BY <1>2, <1>3, <1>4, AttemptOK DEF OpOK
<1> QED
  BY <1>5 DEF f, g

\* An enquiry that failed.
LEMMA PollFailedOK ==
  ASSUME NEW o, OpOK(o), o.tries < N2, o.kind \in {"send", "probe"}
  PROVE  OpOK(PollFailed(o))
<1> DEFINE f == [o EXCEPT !.pollOnly = TRUE, !.needSend = FALSE]
<1>1. o \in Op /\ Shape(o)
  BY DEF OpOK
<1>2. f \in Op
  BY <1>1 DEF Op
<1>3. Shape(f)
  BY <1>1 DEF Op, Shape
<1>4. f.tries = o.tries /\ f.kind = o.kind
  BY <1>1 DEF Op
<1>5. o.kind = "send" => OpOK(NextAttempt(f))
  BY <1>2, <1>3, <1>4, AttemptOK DEF OpOK
<1>6. o.kind = "probe" => OpOK([o EXCEPT !.pc = "poll", !.tries = @ + 1])
  BY RetryOK
<1> QED
  BY <1>5, <1>6, IdleOK DEF PollFailed

-----------------------------------------------------------------------------
(* The building blocks of the actions *)

LEMMA SilentOK == Silent => io' \in IO
  BY DEF Silent, IO

LEMMA SendsOK ==
  ASSUME NEW f \in Frame
  PROVE  Sends(f) => io' \in IO
  BY DEF Sends, IO

\* The commands a link sends, and its answers.
LEMMA CommandsOK ==
    /\ \A t \in {"SABM", "DISC", "XID"} : Unnumbered(t, "cmd", TRUE) \in Frame
    /\ \A nr \in SeqNo : Supervisory("RR", "cmd", TRUE, nr) \in Frame
    /\ \A ns \in SeqNo, nr \in SeqNo, d \in Data : Information(ns, nr, FALSE, d) \in Frame
  BY NumbersOK DEF Unnumbered, Supervisory, Information, Frame, FrameType, Role, Info

LEMMA AnswersOK ==
  ASSUME NEW pf \in BOOLEAN, NEW nr \in SeqNo
  PROVE  /\ \A t \in {"UA", "XID", "TEST"} : Unnumbered(t, "rsp", pf) \in Frame
         /\ \A t \in {"RR", "REJ"} : Supervisory(t, "rsp", pf, nr) \in Frame
  BY NumbersOK DEF Unnumbered, Supervisory, Frame, FrameType, Role, Info

\* What is left of a channel after a receive, and what a send leaves in it.
LEMMA TailOK ==
  ASSUME NEW S, NEW c \in Seq(S), c # <<>>, NEW cap \in Nat, Len(c) <= cap
  PROVE  Head(c) \in S /\ Tail(c) \in Seq(S) /\ Len(Tail(c)) <= cap
  OBVIOUS

LEMMA EmptyOK ==
  ASSUME NEW S, NEW cap \in {AckCap, ControlCap, XidCap}
  PROVE  <<>> \in Seq(S) /\ Len(<<>>) <= cap
  BY EmptySeq

LEMMA OfferOK ==
  ASSUME NEW S, NEW c \in Seq(S), NEW x \in S, NEW cap \in Nat, Len(c) <= cap
  PROVE  Offer(c, x, cap) \in Seq(S) /\ Len(Offer(c, x, cap)) <= cap
  BY DEF Offer

LEMMA SetStateOK ==
  ASSUME NEW s \in LinkState, LinkOK, SetState(s)
  PROVE  LinkOK'
  BY DEF SetState, LinkOK, counters

LEMMA CancelledOK == neg \in [Slot -> Neg] => Cancelled(neg) \in [Slot -> Neg]
  BY DEF Cancelled, Neg

LEMMA FailLinkOK ==
  ASSUME neg \in [Slot -> Neg], FailLink
  PROVE  LinkOK' /\ neg' \in [Slot -> Neg]
<1>1. LinkOK'
  BY NumbersOK DEF FailLink, LinkOK, LinkState, Params
<1>2. neg' \in [Slot -> Neg]
  BY CancelledOK DEF FailLink
<1> QED
  BY <1>1, <1>2

-----------------------------------------------------------------------------
(* Connect and Disconnect *)

LEMMA ConnectTyped ==
  ASSUME Typed,
         \/ ConnectStart \/ ConnectAnnounce \/ ConnectSend \/ ConnectEvent
         \/ ConnectT1 \/ ConnectAccepted \/ ConnectNegotiate \/ ConnectDone
  PROVE  Typed'
<1>0. OpOK(op) /\ op \in Op /\ Shape(op)
  BY DEF Typed, OpOK
<1>1. CASE ConnectStart
  <2> DEFINE o == [Idle EXCEPT !.pc = "announce", !.kind = "connect"]
  <2>1. Idle \in Op /\ "announce" \in OpPC
    BY IdleOK DEF OpOK, OpPC
  <2>2. o \in Op
    BY <2>1 DEF Op
  <2>3. Shape(o)
    BY DEF Idle, Shape, SendPC, PollPC, AttemptPC
  <2>4. LinkOK'
    BY <1>1, NumbersOK DEF ConnectStart, Typed, LinkOK
  <2>5. QueuesOK'
    BY <1>1 DEF ConnectStart, Typed, QueuesOK
  <2>6. neg' \in [Slot -> Neg]
    BY <1>1, CancelledOK DEF ConnectStart, Typed
  <2> QED
    BY <1>1, <2>2, <2>3, <2>4, <2>5, <2>6, SilentOK DEF ConnectStart, OpOK, Typed
<1>2. CASE ConnectAnnounce
  <2>1. "sabm" \in OpPC /\ "awaiting_connection" \in LinkState
    BY DEF OpPC, LinkState
  <2>2. Shape([op EXCEPT !.pc = "sabm"])
    BY <1>0 DEF Op, Shape, SendPC, PollPC, AttemptPC
  <2> QED
    BY <1>0, <1>2, <2>1, <2>2, GotoOK, SetStateOK, SilentOK
    DEF ConnectAnnounce, Goto, Typed, QueuesOK, queues
<1>3. CASE ConnectSend
  <2>1. "awaitUA" \in OpPC
    BY DEF OpPC
  <2>2. Shape([op EXCEPT !.pc = "awaitUA"])
    BY <1>0, <1>3 DEF ConnectSend, Op, Shape, SendPC, PollPC, AttemptPC
  <2>3. io' \in IO
    BY <1>3, CommandsOK, SendsOK DEF ConnectSend
  <2> QED
    BY <1>0, <1>3, <2>1, <2>2, <2>3, GotoOK
    DEF ConnectSend, Goto, Typed, LinkOK, link, QueuesOK, queues
<1>4. CASE ConnectEvent
  <2> DEFINE e == Head(control)
  <2>1. "accepted" \in OpPC
    BY DEF OpPC
  <2>2. Shape([op EXCEPT !.pc = "accepted"])
    BY <1>0 DEF Op, Shape, SendPC, PollPC, AttemptPC
  <2>3. OpOK([op EXCEPT !.pc = "sabm", !.tries = @ + 1])
    BY <1>0, <1>4, RetryOK DEF ConnectEvent, Shape, AttemptPC
  <2>4. OpOK([op EXCEPT !.pc = "accepted"])
    BY <1>0, <2>1, <2>2, GotoOK
  <2>5. QueuesOK'
    BY <1>4, TailOK DEF ConnectEvent, Typed, QueuesOK
  <2>6. LinkOK' /\ neg' \in [Slot -> Neg]
    BY <1>4, FailLinkOK DEF ConnectEvent, Typed, LinkOK, link
  <2> QED
    BY <1>4, <2>3, <2>4, <2>5, <2>6, IdleOK, SilentOK
    DEF ConnectEvent, Goto, Return, Typed
<1>5. CASE ConnectT1
  <2>1. OpOK([op EXCEPT !.pc = "sabm", !.tries = @ + 1])
    BY <1>0, <1>5, RetryOK DEF ConnectT1, Shape, AttemptPC
  <2>2. LinkOK'
    BY <1>5, SetStateOK DEF ConnectT1, Typed, LinkState
  <2> QED
    BY <1>5, <2>1, <2>2, SilentOK DEF ConnectT1, Typed, QueuesOK, queues
<1>6. CASE ConnectAccepted
  <2>1. "negotiate" \in OpPC
    BY DEF OpPC
  <2>2. Shape([op EXCEPT !.pc = "negotiate"])
    BY <1>0 DEF Op, Shape, SendPC, PollPC, AttemptPC
  <2>3. LinkOK'
    BY <1>6 DEF ConnectAccepted, Typed, LinkOK, LinkState, counters
  <2> QED
    BY <1>0, <1>6, <2>1, <2>2, <2>3, GotoOK, SilentOK
    DEF ConnectAccepted, Goto, Typed, QueuesOK, queues
<1>7. CASE ConnectNegotiate
  <2>1. "xidStart" \in OpPC
    BY DEF OpPC
  <2>2. Shape([op EXCEPT !.pc = "xidStart"])
    BY <1>0 DEF Op, Shape, SendPC, PollPC, AttemptPC
  <2>3. [pc |-> "send", tries |-> 0, live |-> xidCtx] \in Neg
    BY DEF Typed, LinkOK, Neg
  <2>4. neg' \in [Slot -> Neg]
    BY <1>7, <2>3 DEF ConnectNegotiate, Typed
  <2> QED
    BY <1>0, <1>7, <2>1, <2>2, <2>4, GotoOK, SilentOK
    DEF ConnectNegotiate, Goto, Typed, LinkOK, link, QueuesOK, queues
<1>8. CASE ConnectDone
  BY <1>8, IdleOK, SilentOK
  DEF ConnectDone, Return, Typed, LinkOK, link, QueuesOK, queues
<1> QED
  BY <1>1, <1>2, <1>3, <1>4, <1>5, <1>6, <1>7, <1>8

LEMMA DisconnectTyped ==
  ASSUME Typed,
         \/ DisconnectStart \/ DisconnectAnnounce \/ DisconnectSend
         \/ DisconnectEvent \/ DisconnectT1
  PROVE  Typed'
<1>0. OpOK(op) /\ op \in Op /\ Shape(op)
  BY DEF Typed, OpOK
<1>1. CASE DisconnectStart
  <2> DEFINE o == [Idle EXCEPT !.pc = "release", !.kind = "disconnect"]
  <2>1. Idle \in Op /\ "release" \in OpPC
    BY IdleOK DEF OpOK, OpPC
  <2>2. o \in Op
    BY <2>1 DEF Op
  <2>3. Shape(o)
    BY DEF Idle, Shape, SendPC, PollPC, AttemptPC
  <2>4. QueuesOK'
    BY <1>1 DEF DisconnectStart, Typed, QueuesOK
  <2> QED
    BY <1>1, <2>2, <2>3, <2>4, SilentOK DEF DisconnectStart, OpOK, Typed, LinkOK, link
<1>2. CASE DisconnectAnnounce
  <2>1. "disc" \in OpPC /\ "awaiting_release" \in LinkState
    BY DEF OpPC, LinkState
  <2>2. Shape([op EXCEPT !.pc = "disc"])
    BY <1>0 DEF Op, Shape, SendPC, PollPC, AttemptPC
  <2> QED
    BY <1>0, <1>2, <2>1, <2>2, GotoOK, SetStateOK, SilentOK
    DEF DisconnectAnnounce, Goto, Typed, QueuesOK, queues
<1>3. CASE DisconnectSend
  <2>1. "awaitRelease" \in OpPC
    BY DEF OpPC
  <2>2. Shape([op EXCEPT !.pc = "awaitRelease"])
    BY <1>0, <1>3 DEF DisconnectSend, Op, Shape, SendPC, PollPC, AttemptPC
  <2>3. io' \in IO
    BY <1>3, CommandsOK, SendsOK DEF DisconnectSend
  <2> QED
    BY <1>0, <1>3, <2>1, <2>2, <2>3, GotoOK
    DEF DisconnectSend, Goto, Typed, LinkOK, link, QueuesOK, queues
<1>4. CASE DisconnectEvent
  <2>1. OpOK([op EXCEPT !.pc = "disc", !.tries = @ + 1])
    BY <1>0, <1>4, RetryOK DEF DisconnectEvent, Shape, AttemptPC
  <2>2. QueuesOK'
    BY <1>4, TailOK DEF DisconnectEvent, Typed, QueuesOK
  <2>3. LinkOK' /\ neg' \in [Slot -> Neg]
    BY <1>4, FailLinkOK DEF DisconnectEvent, Typed, LinkOK, link
  <2> QED
    BY <1>4, <2>1, <2>2, <2>3, IdleOK, SilentOK DEF DisconnectEvent, Return, Typed
<1>5. CASE DisconnectT1
  <2>1. OpOK([op EXCEPT !.pc = "disc", !.tries = @ + 1])
    BY <1>0, <1>5, RetryOK DEF DisconnectT1, Shape, AttemptPC
  <2> QED
    BY <1>5, <2>1, SilentOK DEF DisconnectT1, Typed, LinkOK, link, QueuesOK, queues
<1> QED
  BY <1>1, <1>2, <1>3, <1>4, <1>5

-----------------------------------------------------------------------------
(* SendWithProgress *)

\* The chunk at hand, and the call once it is acknowledged.
LEMMA ChunkSentOK ==
  ASSUME Typed, op.kind = "send", ChunkSent
  PROVE  OpOK(op') /\ io' \in IO
<1>1. op \in Op /\ Shape(op) /\ "chunk" \in OpPC
  BY DEF Typed, OpOK, OpPC
<1>2. op.chunks \in Seq(Data) /\ op.chunks # <<>>
  BY <1>1 DEF Op, Shape
<1>3. Head(op.chunks) \in Data /\ Tail(op.chunks) \in Seq(Data)
  BY <1>2
<1>4. Len(op.chunks) # 1 => Tail(op.chunks) # <<>>
  <2>1. SUFFICES ASSUME Tail(op.chunks) = <<>> PROVE Len(op.chunks) = 1
    OBVIOUS
  <2>2. Len(Tail(op.chunks)) = Len(op.chunks) - 1 /\ Len(op.chunks) \in Nat
    BY <1>2
  <2>3. Len(Tail(op.chunks)) = 0
    BY <1>3, <2>1, EmptySeq
  <2> QED
    BY <2>2, <2>3
<1> DEFINE o == [op EXCEPT !.pc = "chunk", !.chunks = Tail(@)]
<1>5. o \in Op
  BY <1>1, <1>3 DEF Op
<1>6. Len(op.chunks) # 1 => Shape(o)
  BY <1>1, <1>4 DEF Op, Shape, SendPC, PollPC, AttemptPC
<1>7. OpOK(op')
  BY <1>5, <1>6, IdleOK DEF ChunkSent, OpOK
<1>8. io' \in IO
  BY <1>3 DEF ChunkSent, IO
<1> QED
  BY <1>7, <1>8

LEMMA ChunkTyped ==
  ASSUME Typed,
         \/ (\E msg \in Messages : SendStart(msg))
         \/ ChunkStart \/ ChunkAdvance \/ SendInfo \/ AwaitAck \/ AckT1
         \/ MarkBusy \/ Acked
  PROVE  Typed'
<1>0. OpOK(op) /\ op \in Op /\ Shape(op)
  BY DEF Typed, OpOK
<1>1. CASE \E msg \in Messages : SendStart(msg)
  <2>1. PICK msg \in Messages : SendStart(msg)
    BY <1>1
  <2> DEFINE o == [Idle EXCEPT !.pc = "chunk", !.kind = "send", !.chunks = msg]
  <2>2. Idle \in Op /\ "chunk" \in OpPC /\ msg \in Seq(Data) /\ msg # <<>>
    BY IdleOK DEF OpOK, OpPC
  <2>3. o \in Op
    BY <2>2 DEF Op
  <2>4. Shape(o)
    BY <2>2 DEF Idle, Shape, SendPC, PollPC, AttemptPC
  <2> QED
    BY <2>1, <2>3, <2>4, SilentOK
    DEF SendStart, OpOK, Typed, LinkOK, link, QueuesOK, queues
<1>2. CASE ChunkStart
  <2> DEFINE o == [op EXCEPT !.pc = "advance", !.ns = vs, !.nr = vr,
                             !.tries = 0, !.waits = 0, !.pollOnly = FALSE,
                             !.needSend = TRUE, !.got = NoAck]
  <2>1. "advance" \in OpPC /\ vs \in SeqNo /\ vr \in SeqNo
        /\ NoAck \in Ack /\ 0 \in 0 .. N2
    BY NumbersOK DEF OpPC, Typed, LinkOK
  <2>2. o \in Op
    BY <1>0, <2>1 DEF Op
  <2>3. op.pc = "chunk"
    BY <1>2 DEF ChunkStart
  <2>4. op.kind = "send"
    BY <1>0, <2>3 DEF Shape, SendPC
  <2>5. o.pc = "advance" /\ o.kind = "send" /\ o.chunks = op.chunks
    BY <1>0, <2>4 DEF Op
  <2>6. Shape(o)
    BY <1>0, <2>4, <2>5 DEF Shape, SendPC, PollPC, AttemptPC
  <2>7. OpOK(o)
    BY <2>2, <2>6 DEF OpOK
  <2>8. op' \in {Idle, o}
    BY <1>2 DEF ChunkStart, Return
  <2>9. QueuesOK'
    <3>1. ack' = ack \/ ack' = <<>>
      BY <1>2 DEF ChunkStart
    <3>2. ack' \in Seq(Ack) /\ Len(ack') <= AckCap
      BY <3>1, EmptyOK DEF Typed, QueuesOK
    <3> QED
      BY <1>2, <3>2 DEF ChunkStart, Typed, QueuesOK
  <2> QED
    BY <1>2, <2>7, <2>8, <2>9, IdleOK, SilentOK DEF ChunkStart, Typed, LinkOK, link
<1>3. CASE ChunkAdvance
  <2>1. "ready" \in OpPC
    BY DEF OpPC
  <2>2. Shape([op EXCEPT !.pc = "ready"])
    BY <1>0, <1>3 DEF ChunkAdvance, Op, Shape, SendPC, PollPC, AttemptPC
  <2>3. Expected \in SeqNo
    BY <1>0, NumbersOK DEF Expected, Op
  <2>4. LinkOK'
    BY <1>3, <2>3 DEF ChunkAdvance, Typed, LinkOK
  <2> QED
    BY <1>0, <1>3, <2>1, <2>2, <2>4, GotoOK, SilentOK
    DEF ChunkAdvance, Goto, Typed, QueuesOK, queues
<1>4. CASE SendInfo
  <2> DEFINE o == [op EXCEPT !.pc = "awaitAck", !.needSend = FALSE, !.got = NoAck]
  <2>1. "awaitAck" \in OpPC /\ op.pc = "sendI"
    BY <1>4 DEF OpPC, SendInfo
  <2>2. o \in Op
    BY <1>0, <2>1, NumbersOK DEF Op
  <2>3. Shape(o)
    BY <1>0, <2>1 DEF Op, Shape, SendPC, PollPC, AttemptPC
  <2>4. op.chunks \in Seq(Data) /\ op.chunks # <<>>
    BY <1>0, <2>1 DEF Op, Shape, SendPC
  <2>5. Head(op.chunks) \in Data /\ op.ns \in SeqNo /\ op.nr \in SeqNo
    BY <1>0, <2>4 DEF Op
  <2>6. io' \in IO
    BY <1>4, <2>5, CommandsOK, SendsOK DEF SendInfo
  <2> QED
    BY <1>4, <2>2, <2>3, <2>6 DEF SendInfo, OpOK, Typed, LinkOK, link, QueuesOK, queues
<1>5. CASE AwaitAck
  <2> DEFINE a == Head(ack)
             busy == [op EXCEPT !.pc = "markBusy", !.got = a]
             done == [op EXCEPT !.pc = "acked", !.got = a]
  <2>1. a \in Ack /\ QueuesOK'
    BY <1>5, TailOK DEF AwaitAck, Typed, QueuesOK
  <2>2. op.pc = "awaitAck" /\ op.kind = "send" /\ op.tries < N2
    BY <1>0, <1>5 DEF AwaitAck, Shape, SendPC, AttemptPC
  <2>3. {"markBusy", "acked"} \subseteq OpPC
    BY DEF OpPC
  <2>4. busy \in Op /\ done \in Op
    BY <1>0, <2>1, <2>3 DEF Op
  <2>5. Shape(busy) /\ Shape(done)
    BY <1>0, <2>2 DEF Op, Shape, SendPC, PollPC, AttemptPC
  <2>6. OpOK(NextAttempt([op EXCEPT !.needSend = TRUE, !.got = a]))
    BY <1>0, <2>1, <2>2, ResendOK
  <2>7. OpOK(op')
    BY <1>0, <1>5, <2>4, <2>5, <2>6, IdleOK DEF AwaitAck, OpOK
  <2> QED
    BY <1>5, <2>1, <2>7, SilentOK DEF AwaitAck, Typed, LinkOK, link
<1>6. CASE AckT1
  <2>1. "poll" \in OpPC
    BY DEF OpPC
  <2>2. Shape([op EXCEPT !.pc = "poll"])
    BY <1>0, <1>6 DEF AckT1, Op, Shape, SendPC, PollPC, AttemptPC
  <2> QED
    BY <1>0, <1>6, <2>1, <2>2, GotoOK, SilentOK
    DEF AckT1, Goto, Typed, LinkOK, link, QueuesOK, queues
<1>7. CASE MarkBusy
  <2>1. op.kind = "send" /\ op.tries < N2 /\ Expected \in SeqNo
    BY <1>0, <1>7, NumbersOK DEF MarkBusy, Shape, SendPC, AttemptPC, Expected, Op
  <2>2. LinkOK'
    BY <1>7, <2>1 DEF MarkBusy, Typed, LinkOK
  <2>3. OpOK(NextAttempt([op EXCEPT !.needSend = TRUE]))
    BY <1>0, <2>1, ResendOK, NumbersOK
  <2>4. OpOK(op') /\ io' \in IO
    BY <1>7, <2>1, <2>3, ChunkSentOK, SilentOK DEF MarkBusy
  <2> QED
    BY <1>7, <2>2, <2>4 DEF MarkBusy, Typed, QueuesOK, queues
<1>8. CASE Acked
  <2>1. op.kind = "send" /\ Expected \in SeqNo
    BY <1>0, <1>8, NumbersOK DEF Acked, Shape, SendPC, Expected, Op
  <2>2. LinkOK'
    BY <1>8, <2>1 DEF Acked, Typed, LinkOK
  <2>3. OpOK(op') /\ io' \in IO
    BY <1>8, <2>1, ChunkSentOK DEF Acked
  <2> QED
    BY <1>8, <2>2, <2>3 DEF Acked, Typed, QueuesOK, queues
<1> QED
  BY <1>1, <1>2, <1>3, <1>4, <1>5, <1>6, <1>7, <1>8

LEMMA ReadyTyped ==
  ASSUME Typed,
         ReadyCheck \/ BusyPoll \/ BusyAck \/ BusyT1 \/ SendGivesUp
  PROVE  Typed'
<1>0. OpOK(op) /\ op \in Op /\ Shape(op)
  BY DEF Typed, OpOK
<1>1. CASE ReadyCheck
  <2> DEFINE o == [op EXCEPT !.pc = "busyPoll", !.busyNr = vr]
  <2>1. op.pc = "ready" /\ op.tries < N2 /\ op.waits < N2
    BY <1>1 DEF ReadyCheck
  <2>2. op.kind = "send"
    BY <1>0, <2>1 DEF Shape, SendPC
  <2>3. "busyPoll" \in OpPC /\ vr \in SeqNo
    BY DEF OpPC, Typed, LinkOK
  <2>4. o \in Op
    BY <1>0, <2>3 DEF Op
  <2>5. Shape(o)
    BY <1>0, <2>1, <2>2 DEF Op, Shape, SendPC, PollPC, AttemptPC
  <2>6. OpOK(o) /\ OpOK(Proceed(op))
    BY <1>0, <2>1, <2>2, <2>4, <2>5, ProceedOK DEF OpOK
  <2>7. op' \in {o, Proceed(op)}
    BY <1>1 DEF ReadyCheck
  <2> QED
    BY <1>1, <2>6, <2>7, SilentOK DEF ReadyCheck, Typed, LinkOK, link, QueuesOK, queues
<1>2. CASE BusyPoll
  <2> DEFINE o == [op EXCEPT !.pc = "busyWait", !.busyNr = 0]
  <2>1. op.pc = "busyPoll" /\ "busyWait" \in OpPC /\ op.busyNr \in SeqNo
    BY <1>0, <1>2 DEF BusyPoll, OpPC, Op
  <2>2. o \in Op
    BY <1>0, <2>1, NumbersOK DEF Op
  <2>3. Shape(o)
    BY <1>0, <2>1 DEF Op, Shape, SendPC, PollPC, AttemptPC
  <2>4. io' \in IO
    BY <1>2, <2>1, CommandsOK, SendsOK DEF BusyPoll
  <2>5. QueuesOK'
    BY <1>2, EmptyOK DEF BusyPoll, Typed, QueuesOK
  <2> QED
    BY <1>2, <2>2, <2>3, <2>4, <2>5 DEF BusyPoll, OpOK, Typed, LinkOK, link
<1>3. CASE BusyAck
  <2>1. op.pc = "busyWait"
    BY <1>3 DEF BusyAck
  <2>2. op.kind = "send" /\ op.tries < N2
    BY <1>0, <2>1 DEF Shape, SendPC, AttemptPC
  <2>3. OpOK(Proceed(op))
    BY <1>0, <2>2, ProceedOK
  <2>4. QueuesOK'
    BY <1>3, TailOK DEF BusyAck, Typed, QueuesOK
  <2>5. LinkOK' /\ neg' \in [Slot -> Neg]
    <3>1. CASE FailLink
      BY <3>1, FailLinkOK DEF Typed
    <3>2. CASE ~FailLink
      BY <1>3, <3>2 DEF BusyAck, Typed, LinkOK, link, counters
    <3> QED
      BY <3>1, <3>2
  <2>6. op' \in {Idle, op, Proceed(op)}
    BY <1>3 DEF BusyAck, Return
  <2> QED
    BY <1>0, <1>3, <2>3, <2>4, <2>5, <2>6, IdleOK, SilentOK DEF BusyAck, Typed
<1>4. CASE BusyT1
  <2> DEFINE o == [op EXCEPT !.pc = "ready", !.waits = @ + 1]
  <2>1. op.pc = "busyWait" /\ "ready" \in OpPC
    BY <1>4 DEF BusyT1, OpPC
  <2>2. op.kind = "send" /\ op.waits + 1 \in 0 .. N2
    BY <1>0, <2>1 DEF Shape, SendPC, Op
  <2>3. o \in Op
    BY <1>0, <2>1, <2>2 DEF Op
  <2>4. Shape(o)
    BY <1>0, <2>2 DEF Op, Shape, SendPC, PollPC, AttemptPC
  <2> QED
    BY <1>4, <2>3, <2>4, SilentOK DEF BusyT1, OpOK, Typed, LinkOK, link, QueuesOK, queues
<1>5. CASE SendGivesUp
  BY <1>5, FailLinkOK, IdleOK, SilentOK DEF SendGivesUp, Return, Typed, QueuesOK, queues
<1> QED
  BY <1>1, <1>2, <1>3, <1>4, <1>5

-----------------------------------------------------------------------------
(* pollAcknowledgement, and the ways a call fails *)

LEMMA PollTyped ==
  ASSUME Typed,
         ProbeStart \/ Poll \/ PollAck \/ PollT1 \/ Recovered \/ Judge
  PROVE  Typed'
<1>0. OpOK(op) /\ op \in Op /\ Shape(op)
  BY DEF Typed, OpOK
<1>1. CASE ProbeStart
  <2> DEFINE o == [Idle EXCEPT !.pc = "poll", !.kind = "probe", !.nr = vr]
  <2>1. Idle \in Op /\ "poll" \in OpPC /\ vr \in SeqNo
    BY IdleOK DEF OpOK, OpPC, Typed, LinkOK
  <2>2. o \in Op
    BY <2>1 DEF Op
  <2>3. Shape(o)
    BY DEF Idle, Shape, SendPC, PollPC, AttemptPC
  <2>4. QueuesOK'
    BY <1>1, EmptyOK DEF ProbeStart, Typed, QueuesOK
  <2> QED
    BY <1>1, <2>2, <2>3, <2>4, SilentOK DEF ProbeStart, OpOK, Typed, LinkOK, link
<1>2. CASE Poll
  <2>1. op.pc = "poll" /\ op.tries < N2 /\ op.nr \in SeqNo
    BY <1>0, <1>2 DEF Poll, Op
  <2>2. "pollWait" \in OpPC /\ op.kind \in {"send", "probe"}
    BY <1>0, <2>1 DEF OpPC, Shape, PollPC
  <2>3. Shape([op EXCEPT !.pc = "pollWait"])
    BY <1>0, <2>1, <2>2 DEF Op, Shape, SendPC, PollPC, AttemptPC
  <2>4. OpOK([op EXCEPT !.pc = "pollWait"]) /\ OpOK(PollFailed(op))
    BY <1>0, <2>1, <2>2, <2>3, GotoOK, PollFailedOK
  <2>5. op' \in {[op EXCEPT !.pc = "pollWait"], PollFailed(op)}
    BY <1>2 DEF Poll, Goto
  <2>6. io' \in IO
    BY <1>2, <2>1, CommandsOK, SendsOK, SilentOK DEF Poll
  <2>7. LinkOK'
    BY <1>2, SetStateOK DEF Poll, Typed, LinkState
  <2> QED
    BY <1>2, <2>4, <2>5, <2>6, <2>7 DEF Poll, Typed, QueuesOK, queues
<1>3. CASE PollAck
  <2> DEFINE a == Head(ack)
             o == [op EXCEPT !.pc = "recovered", !.got = a]
  <2>1. a \in Ack /\ QueuesOK'
    BY <1>3, TailOK DEF PollAck, Typed, QueuesOK
  <2>2. op.pc = "pollWait" /\ "recovered" \in OpPC
    BY <1>3 DEF PollAck, OpPC
  <2>3. o \in Op
    BY <1>0, <2>1, <2>2 DEF Op
  <2>4. Shape(o)
    BY <1>0, <2>2 DEF Op, Shape, SendPC, PollPC, AttemptPC
  <2>5. op' \in {Idle, op, o}
    BY <1>3 DEF PollAck, Return
  <2>6. LinkOK' /\ neg' \in [Slot -> Neg]
    BY <1>3, FailLinkOK DEF PollAck, Typed, LinkOK, link
  <2> QED
    BY <1>0, <1>3, <2>1, <2>3, <2>4, <2>5, <2>6, IdleOK, SilentOK
    DEF PollAck, OpOK, Typed
<1>4. CASE PollT1
  <2>1. op.pc = "pollWait"
    BY <1>4 DEF PollT1
  <2>2. OpOK(PollFailed(op))
    BY <1>0, <2>1, PollFailedOK DEF Shape, PollPC, AttemptPC
  <2> QED
    BY <1>4, <2>2, SilentOK DEF PollT1, Typed, LinkOK, link, QueuesOK, queues
<1>5. CASE Recovered
  <2>1. op.pc = "recovered" /\ "judge" \in OpPC
    BY <1>5 DEF Recovered, OpPC
  <2>2. op.kind = "send" => Shape([op EXCEPT !.pc = "judge"])
    BY <1>0, <2>1 DEF Op, Shape, SendPC, PollPC, AttemptPC
  <2>3. op.kind = "probe" \/ op.kind = "send"
    BY <1>0, <2>1 DEF Shape, PollPC
  <2>4. OpOK(op')
    BY <1>0, <1>5, <2>1, <2>2, <2>3, GotoOK, IdleOK DEF Recovered, Goto, Return
  <2>5. LinkOK'
    BY <1>5, SetStateOK DEF Recovered, Typed, LinkState
  <2> QED
    BY <1>5, <2>4, <2>5, SilentOK DEF Recovered, Typed, QueuesOK, queues
<1>6. CASE Judge
  <2> DEFINE o == [op EXCEPT !.pc = "sendI", !.pollOnly = FALSE, !.needSend = TRUE]
             r == NextAttempt([op EXCEPT !.needSend = TRUE])
  <2>1. op.pc = "judge" /\ {"acked", "sendI"} \subseteq OpPC
    BY <1>6 DEF Judge, OpPC
  <2>2. op.kind = "send" /\ op.tries < N2
    BY <1>0, <2>1 DEF Shape, SendPC, AttemptPC
  <2>3. o \in Op
    BY <1>0, <2>1 DEF Op
  <2>4. Shape(o) /\ Shape([op EXCEPT !.pc = "acked"])
    BY <1>0, <2>2 DEF Op, Shape, SendPC, PollPC, AttemptPC
  <2>5. OpOK([op EXCEPT !.pc = "acked"]) /\ OpOK(o) /\ OpOK(r)
    BY <1>0, <2>1, <2>2, <2>3, <2>4, GotoOK, ResendOK, NumbersOK DEF OpOK
  <2>6. op' \in {[op EXCEPT !.pc = "acked"], o, r}
    BY <1>6 DEF Judge
  <2>7. peerBusy' \in BOOLEAN
    BY <1>6 DEF Judge, Typed, LinkOK
  <2>8. LinkOK'
    BY <1>6, <2>7 DEF Judge, Typed, LinkOK, counters
  <2> QED
    BY <1>6, <2>5, <2>6, <2>8, SilentOK DEF Judge, Typed, QueuesOK, queues
<1> QED
  BY <1>1, <1>2, <1>3, <1>4, <1>5, <1>6

LEMMA FailureTyped ==
  ASSUME Typed,
         CommandGivesUp \/ PortRefuses \/ Cancel \/ ObserveCancel
  PROVE  Typed'
<1>0. OpOK(op) /\ op \in Op /\ Shape(op)
  BY DEF Typed, OpOK
<1>1. CASE CommandGivesUp
  <2>1. LinkOK' /\ neg' \in [Slot -> Neg]
    BY <1>1, FailLinkOK DEF CommandGivesUp, Typed, LinkOK, link
  <2> QED
    BY <1>1, <2>1, IdleOK, SilentOK DEF CommandGivesUp, Return, Typed, QueuesOK, queues
<1>2. CASE PortRefuses
  <2>1. ack' = <<>> \/ ack' = ack
    BY <1>2 DEF PortRefuses
  <2>2. ack' \in Seq(Ack) /\ Len(ack') <= AckCap
    BY <2>1, EmptyOK DEF Typed, QueuesOK
  <2>3. QueuesOK'
    BY <1>2, <2>2 DEF PortRefuses, Typed, QueuesOK
  <2> QED
    BY <1>2, <2>3, FailLinkOK, IdleOK, SilentOK DEF PortRefuses, Return, Typed
<1>3. CASE Cancel
  <2> DEFINE o == [op EXCEPT !.cancelled = TRUE]
  <2>1. o \in Op
    BY <1>0 DEF Op
  <2>2. Shape(o)
    BY <1>0 DEF Op, Shape
  <2> QED
    BY <1>3, <2>1, <2>2, SilentOK DEF Cancel, OpOK, Typed, LinkOK, link, QueuesOK, queues
<1>4. CASE ObserveCancel
  <2>1. op' = Idle \/ (op.pc = "pollWait" /\ op' = PollFailed(op))
    BY <1>4 DEF ObserveCancel, Return
  <2>2. op.pc = "pollWait" => OpOK(PollFailed(op))
    BY <1>0, PollFailedOK DEF Shape, PollPC, AttemptPC
  <2>3. LinkOK' /\ neg' \in [Slot -> Neg]
    BY <1>4, FailLinkOK DEF ObserveCancel, Typed, LinkOK, link
  <2> QED
    BY <1>4, <2>1, <2>2, <2>3, IdleOK, SilentOK
    DEF ObserveCancel, Typed, QueuesOK, queues
<1> QED
  BY <1>1, <1>2, <1>3, <1>4

-----------------------------------------------------------------------------
(* negotiateXID *)

LEMMA NegRetryOK ==
  ASSUME NEW n \in Neg
  PROVE  NegRetry(n) \in Neg
<1>1. n.tries < NM201 => n.tries + 1 \in 0 .. NM201
  BY DEF Neg
<1>2. n.tries < NM201 => [n EXCEPT !.pc = "send", !.tries = @ + 1] \in Neg
  BY <1>1 DEF Neg
<1>3. [n EXCEPT !.pc = "legacy"] \in Neg
  BY DEF Neg
<1> QED
  BY <1>2, <1>3 DEF NegRetry

LEMMA NegotiateTyped ==
  ASSUME Typed, NEW s \in Slot, Negotiate(s)
  PROVE  Typed'
<1>0. neg \in [Slot -> Neg] /\ neg[s] \in Neg /\ FreeNeg \in Neg
  BY DEF Typed, FreeNeg, Neg
<1>1. CASE NegSend(s)
  <2>1. [neg[s] EXCEPT !.pc = "wait"] \in Neg
    BY <1>0 DEF Neg
  <2>2. neg' \in [Slot -> Neg]
    BY <1>0, <1>1, <2>1 DEF NegSend
  <2>3. io' \in IO
    BY <1>1, CommandsOK, SendsOK, SilentOK DEF NegSend
  <2> QED
    BY <1>1, <2>2, <2>3 DEF NegSend, Typed, LinkOK, link, QueuesOK, queues
<1>2. CASE NegEvent(s)
  <2>1. Head(xid) \in XidEvent /\ QueuesOK'
    BY <1>2, TailOK DEF NegEvent, Typed, QueuesOK
  <2>2. /\ [neg[s] EXCEPT !.pc = "legacy"] \in Neg
        /\ [neg[s] EXCEPT !.pc = "agree"] \in Neg
        /\ NegRetry(neg[s]) \in Neg
    BY <1>0, NegRetryOK DEF Neg
  <2>3. neg' \in [Slot -> Neg]
    <3>1. CASE Head(xid) = "frmr"
      BY <1>0, <1>2, <2>2, <3>1 DEF NegEvent
    <3>2. CASE Head(xid) = "accepted"
      BY <1>0, <1>2, <2>2, <3>2 DEF NegEvent
    <3>3. CASE Head(xid) = "refused"
      BY <1>0, <1>2, <2>2, <3>3 DEF NegEvent
    <3> QED
      BY <2>1, <3>1, <3>2, <3>3 DEF XidEvent
  <2> QED
    BY <1>2, <2>1, <2>3, SilentOK DEF NegEvent, Typed, LinkOK, link
<1>3. CASE NegTM201(s)
  <2>1. neg' \in [Slot -> Neg]
    BY <1>0, <1>3, NegRetryOK DEF NegTM201
  <2> QED
    BY <1>3, <2>1, SilentOK DEF NegTM201, Typed, LinkOK, link, QueuesOK, queues
<1>4. CASE NegCancelled(s)
  <2>1. neg' \in [Slot -> Neg]
    BY <1>0, <1>4 DEF NegCancelled
  <2> QED
    BY <1>4, <2>1, SilentOK DEF NegCancelled, Typed, LinkOK, link, QueuesOK, queues
<1>5. CASE NegApply(s)
  <2>1. neg' \in [Slot -> Neg]
    BY <1>0, <1>5 DEF NegApply
  <2>2. params' \in Params
    BY <1>5 DEF NegApply, Params
  <2>3. LinkOK'
    BY <1>5, <2>2 DEF NegApply, Typed, LinkOK, counters
  <2> QED
    BY <1>5, <2>1, <2>3, SilentOK DEF NegApply, Typed, QueuesOK, queues
<1> QED
  BY <1>1, <1>2, <1>3, <1>4, <1>5 DEF Negotiate

-----------------------------------------------------------------------------
(* Handle *)

LEMMA RxIdleOK == RxIdle \in Rx
  BY NumbersOK DEF RxIdle, NoFrame, Unnumbered, Rx, Frame, FrameType, Role, Info, LinkState

\* What Handle keeps after its locked section.
LEMMA ThenOK ==
  ASSUME rx \in Rx, NEW a \in Ack, NEW r \in {"none", "UA", "RR", "REJ"}, Then(a, r)
  PROVE  rx' \in Rx
<1>1. RxIdle.frame \in Frame /\ rx.frame.pf \in BOOLEAN
  BY RxIdleOK DEF Rx, Frame
<1>2. [RxIdle.frame EXCEPT !.pf = rx.frame.pf] \in Frame
  BY <1>1 DEF Frame
<1>3. rx' = [RxIdle EXCEPT !.pc = "finish", !.ack = a, !.reply = r,
                           !.frame = [RxIdle.frame EXCEPT !.pf = rx.frame.pf]]
  BY RxIdleOK DEF Then, Rx, Frame
<1> QED
  BY <1>2, <1>3, RxIdleOK DEF Rx

LEMMA TerminationOK ==
  \A t \in {"DM", "DISC", "SABM"} : Termination(t) \in Ack
  BY NumbersOK DEF Termination, Ack, AckType

LEMMA AckOfOK ==
  ASSUME NEW f \in Frame, f.type \in {"I", "RR", "RNR", "REJ", "SREJ"}
  PROVE  AckOf(f) \in Ack
  BY DEF AckOf, Ack, AckType, Frame, IsResponse

LEMMA ReceiveTyped ==
  ASSUME Typed,
         (\E f \in RxFrames : RxStart(f)) \/ RxStep \/ GraceEnds
  PROVE  Typed'
<1>0. /\ rx \in Rx /\ RxIdle \in Rx /\ rx.frame \in Frame
      /\ vr \in SeqNo /\ rx.frame.pf \in BOOLEAN
  BY RxIdleOK DEF Typed, LinkOK, Rx, Frame
<1>1. CASE \E f \in RxFrames : RxStart(f)
  <2>1. PICK f \in RxFrames : RxStart(f)
    BY <1>1
  <2>2. f \in Frame /\ state \in LinkState /\ (f.type = "UA" /\ uaGrace) \in BOOLEAN
    BY DEF Typed, LinkOK
  <2>3. rx' \in Rx
    BY <1>0, <2>1, <2>2 DEF RxStart, Rx
  <2> QED
    BY <2>1, <2>3, SilentOK DEF RxStart, Typed, LinkOK, link, QueuesOK, queues
<1>2. CASE RxAnswer
  <2>1. rx.frame.type = "TEST" => [Unnumbered("TEST", "rsp", rx.frame.pf) EXCEPT
                                      !.info = rx.frame.info] \in Frame
    BY <1>0, AnswersOK DEF Frame
  <2>2. Supervisory("RR", "rsp", TRUE, vr) \in Frame
    BY <1>0, AnswersOK
  <2>3. io' \in IO
    BY <1>2, <2>1, <2>2, SendsOK, SilentOK DEF RxAnswer
  <2> QED
    BY <1>0, <1>2, <2>3 DEF RxAnswer, RxEnd, Typed, LinkOK, link, QueuesOK, queues
<1>3. CASE RxXIDCommand
  <2>1. Unnumbered("XID", "rsp", TRUE) \in Frame
    BY NumbersOK DEF Unnumbered, Frame, FrameType, Role, Info
  <2>2. io' \in IO
    BY <1>3, <2>1, SendsOK, SilentOK DEF RxXIDCommand
  <2>3. params' \in Params
    BY <1>3 DEF RxXIDCommand, Typed, LinkOK, Params
  <2>4. LinkOK'
    BY <1>3, <2>3 DEF RxXIDCommand, Typed, LinkOK, counters
  <2> QED
    BY <1>0, <1>3, <2>2, <2>4 DEF RxXIDCommand, RxEnd, Typed, QueuesOK, queues
<1>4. CASE RxXIDResponse
  <2>1. \A e \in XidEvent : Offer(xid, e, XidCap) \in Seq(XidEvent)
                             /\ Len(Offer(xid, e, XidCap)) <= XidCap
    BY OfferOK DEF Typed, QueuesOK
  <2>2. xid' \in Seq(XidEvent) /\ Len(xid') <= XidCap
    BY <1>4, <2>1 DEF RxXIDResponse, XidEvent, Typed, QueuesOK
  <2>3. QueuesOK'
    BY <1>4, <2>2 DEF RxXIDResponse, Typed, QueuesOK
  <2> QED
    BY <1>0, <1>4, <2>3, SilentOK DEF RxXIDResponse, RxEnd, Typed, LinkOK, link
<1>5. CASE RxModeResponse
  <2> DEFINE e == [type |-> rx.frame.type,
                   answer |-> IsResponse(rx.frame) /\ rx.frame.pf]
  <2>1. e \in ControlEvent
    BY <1>0, <1>5 DEF RxModeResponse, Applying, ControlEvent, IsResponse
  <2>2. control' = control \/ control' = Offer(control, e, ControlCap)
    BY <1>5 DEF RxModeResponse
  <2>3. control' \in Seq(ControlEvent) /\ Len(control') <= ControlCap
    BY <2>1, <2>2, OfferOK DEF Typed, QueuesOK
  <2>4. QueuesOK'
    BY <1>5, <2>3 DEF RxModeResponse, Typed, QueuesOK
  <2>5. rx' \in Rx
    BY <1>0, <1>5, ThenOK, TerminationOK DEF RxModeResponse, RxEnd
  <2>6. LinkOK' /\ neg' \in [Slot -> Neg]
    BY <1>5, FailLinkOK DEF RxModeResponse, Typed, LinkOK, link
  <2> QED
    BY <1>5, <2>4, <2>5, <2>6, SilentOK DEF RxModeResponse, Typed
<1>6. CASE RxDISC
  <2>1. io' \in IO
    BY <1>0, <1>6, AnswersOK, SendsOK DEF RxDISC
  <2>2. rx' \in Rx
    BY <1>0, <1>6, ThenOK, TerminationOK DEF RxDISC
  <2> QED
    BY <1>6, <2>1, <2>2, FailLinkOK DEF RxDISC, Typed, QueuesOK, queues
<1>7. CASE RxSABMCollision
  <2>1. [type |-> "UA", answer |-> TRUE] \in ControlEvent
    BY DEF ControlEvent
  <2>2. control' \in Seq(ControlEvent) /\ Len(control') <= ControlCap
    BY <1>7, <2>1, OfferOK DEF RxSABMCollision, Typed, QueuesOK
  <2>3. QueuesOK'
    BY <1>7, <2>2 DEF RxSABMCollision, Typed, QueuesOK
  <2>4. io' \in IO
    BY <1>0, <1>7, AnswersOK, SendsOK DEF RxSABMCollision
  <2> QED
    BY <1>0, <1>7, <2>3, <2>4 DEF RxSABMCollision, RxEnd, Typed, LinkOK, link
<1>8. CASE RxSABMReset
  <2>1. rx' \in Rx
    BY <1>0, <1>8, ThenOK, TerminationOK DEF RxSABMReset, RxEnd
  <2>2. LinkOK'
    BY <1>8, NumbersOK DEF RxSABMReset, Typed, LinkOK, counters
  <2> QED
    BY <1>8, <2>1, <2>2, SilentOK DEF RxSABMReset, Typed, QueuesOK, queues
<1>9. CASE RxSupervisory
  <2>1. AckOf(rx.frame) \in Ack
    BY <1>0, <1>9, AckOfOK DEF RxSupervisory, Applying
  <2>2. rx' \in Rx
    BY <1>0, <1>9, <2>1, ThenOK DEF RxSupervisory
  <2>3. LinkOK'
    BY <1>9 DEF RxSupervisory, Typed, LinkOK, counters
  <2> QED
    BY <1>9, <2>2, <2>3, SilentOK DEF RxSupervisory, Typed, QueuesOK, queues
<1>10. CASE RxReject
  <2>1. AckOf(rx.frame) \in Ack
    BY <1>0, <1>10, AckOfOK DEF RxReject, Applying
  <2>2. ack' \in Seq(Ack) /\ Len(ack') <= AckCap
    BY <1>10, <2>1, OfferOK DEF RxReject, Typed, QueuesOK
  <2>3. QueuesOK'
    BY <1>10, <2>2 DEF RxReject, Typed, QueuesOK
  <2>4. Supervisory("RR", "rsp", TRUE, vr) \in Frame
    BY <1>0, AnswersOK
  <2>5. io' \in IO
    BY <1>10, <2>4, SendsOK, SilentOK DEF RxReject
  <2> QED
    BY <1>0, <1>10, <2>3, <2>5 DEF RxReject, RxEnd, Typed, LinkOK, link
<1>11. CASE RxInformation
  <2>1. AckOf(rx.frame) \in Ack /\ NoAck \in Ack
    BY <1>0, <1>11, AckOfOK, NumbersOK DEF RxInformation, Applying
  <2>2. rx' \in Rx
    BY <1>0, <1>11, <2>1, ThenOK DEF RxInformation, RxEnd
  <2>3. rx.frame.info \in Info
    BY <1>0 DEF Frame
  <2>4. io' \in IO
    <3>1. [tx |-> <<>>, up |-> <<rx.frame.info>>, done |-> <<>>] \in IO
      BY <2>3 DEF IO
    <3> QED
      BY <1>11, <3>1, SilentOK DEF RxInformation
  <2>5. vr' \in SeqNo
    BY <1>0, <1>11, NumbersOK DEF RxInformation
  <2>6. rejectSent' \in BOOLEAN
    BY <1>11 DEF RxInformation, Typed, LinkOK
  <2>7. LinkOK'
    BY <1>11, <2>5, <2>6 DEF RxInformation, Typed, LinkOK
  <2> QED
    BY <1>11, <2>2, <2>4, <2>7 DEF RxInformation, Typed, QueuesOK, queues
<1>12. CASE RxFinish
  <2>1. rx.ack \in Ack
    BY <1>0 DEF Rx
  <2>2. ack' \in Seq(Ack) /\ Len(ack') <= AckCap
    BY <1>12, <2>1, OfferOK DEF RxFinish, Typed, QueuesOK
  <2>3. QueuesOK'
    BY <1>12, <2>2 DEF RxFinish, Typed, QueuesOK
  <2>4. rx.reply \in {"none", "UA", "RR", "REJ"}
    BY <1>0 DEF Rx
  <2>5. io' \in IO
    BY <1>0, <1>12, <2>4, AnswersOK, SendsOK, SilentOK DEF RxFinish
  <2> QED
    BY <1>0, <1>12, <2>3, <2>5 DEF RxFinish, RxEnd, Typed, LinkOK, link
<1>13. CASE GraceEnds
  <2>1. LinkOK'
    BY <1>13 DEF GraceEnds, Typed, LinkOK, counters
  <2> QED
    BY <1>13, <2>1, SilentOK DEF GraceEnds, Typed, QueuesOK, queues
<1> QED
  BY <1>1, <1>2, <1>3, <1>4, <1>5, <1>6, <1>7, <1>8, <1>9, <1>10, <1>11, <1>12,
     <1>13 DEF RxStep

-----------------------------------------------------------------------------
(* Type correctness *)

LEMMA InitTyped == Init => Typed
<1> SUFFICES ASSUME Init PROVE Typed
  OBVIOUS
<1>1. LinkOK
  BY NumbersOK DEF Init, LinkOK, LinkState, Params
<1>2. QueuesOK
  BY EmptyOK DEF Init, QueuesOK
<1>3. neg \in [Slot -> Neg]
  BY DEF Init, FreeNeg, Neg
<1>4. io \in IO
  BY DEF Init, IO
<1> QED
  BY <1>1, <1>2, <1>3, <1>4, IdleOK, RxIdleOK DEF Init, Typed

LEMMA NextTyped == Typed /\ [Next]_vars => Typed'
<1> SUFFICES ASSUME Typed, [Next]_vars PROVE Typed'
  OBVIOUS
<1>1. CASE Next
  BY <1>1, ConnectTyped, DisconnectTyped, ChunkTyped, ReadyTyped, PollTyped,
     FailureTyped, NegotiateTyped, ReceiveTyped
  DEF Next, Call, Internal, Progress, TakeEvent, Expire
<1>2. CASE UNCHANGED vars
  BY <1>2 DEF vars, link, queues, Typed, LinkOK, QueuesOK
<1> QED
  BY <1>1, <1>2

\* In every reachable state each variable has its type: no channel holds more
\* than its capacity, and no call makes more than N2 attempts.
THEOREM TypeCorrect == Spec => []TypeOK
<1>1. Spec => []Typed
  BY InitTyped, NextTyped, PTL DEF Spec
<1>2. Typed => TypeOK
  BY DEF Typed, TypeOK, OpOK
<1> QED
  BY <1>1, <1>2, PTL
=============================================================================
