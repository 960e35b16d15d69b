-------------------------- MODULE InboundMux_proofs --------------------------
(***************************************************************************)
(* Type correctness of InboundMux and the agreement of m.links with the    *)
(* links, for any number of stations and objects, any capacities and any   *)
(* modulus.                                                                *)
(***************************************************************************)
EXTENDS InboundMux, SequenceTheorems, TLAPS

USE ModulusAssumption, InfoAssumption, InboundAssumption

\* A sending goroutine beyond `take' has a chunk, one that waits an attempt left.
Busy(t) == t.pc \in {"busyWait", "send", "await", "poll", "pollWait"}

Sound(l) ==
    /\ Busy(l.t) => l.t.tries < N2
    /\ l.t.pc = "busyWait" => l.t.waits < N2
    /\ l.t.pc \notin {"take", "fail", "done"} => l.tx # <<>>
    /\ l.r.pc = "awaitRelease" => l.r.tries < N2

Fits(l) ==
    /\ Len(l.in) <= InCap /\ Len(l.tx) <= TxCap /\ Len(l.ack) <= AckCap
    /\ Len(l.control) <= ControlCap /\ Len(l.p.hand) <= 1

Good(l) == l \in Link /\ Fits(l) /\ Sound(l)

\* What all but the first and the last step of a link keep: it is not opened
\* again, nor given another station, and its object stays in use.
Evolves(l, m) ==
    /\ Good(m) /\ m.remote = l.remote /\ (m.open => l.open)
    /\ l.r.pc # "free" => m.r.pc # "free"

-----------------------------------------------------------------------------
(* One component of a link at a time *)

\* What transmit may make of its registers, and run of its.
Transmits(t) ==
    /\ t \in Transmit /\ (Busy(t) => t.tries < N2)
    /\ t.pc = "busyWait" => t.waits < N2

Runs(r) == r \in Run /\ r.pc # "free" /\ (r.pc = "awaitRelease" => r.tries < N2)

LEMMA SetT ==
  ASSUME NEW l, Good(l), NEW t, Transmits(t),
         t.pc \in {"take", "fail", "done"} \/ l.tx # <<>>
  PROVE  Evolves(l, [l EXCEPT !.t = t])
  BY DEF Transmits, Good, Link, Fits, Sound, Evolves

LEMMA SetP ==
  ASSUME NEW l, Good(l), NEW p \in Pump, Len(p.hand) <= 1
  PROVE  Evolves(l, [l EXCEPT !.p = p])
  BY DEF Good, Link, Fits, Sound, Evolves

LEMMA SetIn ==
  ASSUME NEW l, Good(l), NEW q \in Seq(Info), Len(q) <= InCap
  PROVE  Evolves(l, [l EXCEPT !.in = q])
  BY DEF Good, Link, Fits, Sound, Evolves

LEMMA SetTx ==
  ASSUME NEW l, Good(l), NEW q \in Seq(Data), Len(q) <= TxCap,
         q # <<>> \/ l.t.pc \in {"take", "fail", "done"}
  PROVE  Evolves(l, [l EXCEPT !.tx = q])
  BY DEF Good, Link, Fits, Sound, Evolves

LEMMA SetAck ==
  ASSUME NEW l, Good(l), NEW q \in Seq(Ack), Len(q) <= AckCap
  PROVE  Evolves(l, [l EXCEPT !.ack = q])
  BY DEF Good, Link, Fits, Sound, Evolves

LEMMA SetControl ==
  ASSUME NEW l, Good(l), NEW q \in Seq(ControlEvent), Len(q) <= ControlCap
  PROVE  Evolves(l, [l EXCEPT !.control = q])
  BY DEF Good, Link, Fits, Sound, Evolves

LEMMA SetNumbers ==
  ASSUME NEW l, Good(l), NEW n \in SeqNo, NEW b \in BOOLEAN
  PROVE  /\ Evolves(l, [l EXCEPT !.vr = n]) /\ Evolves(l, [l EXCEPT !.vs = n])
         /\ Evolves(l, [l EXCEPT !.va = n]) /\ Evolves(l, [l EXCEPT !.peerBusy = b])
         /\ Evolves(l, [l EXCEPT !.rejectSent = b])
  BY DEF Good, Link, Fits, Sound, Evolves

LEMMA Close ==
  ASSUME NEW l, Good(l)
  PROVE  /\ Evolves(l, [l EXCEPT !.open = FALSE])
         /\ Evolves(l, [l EXCEPT !.writing = FALSE])
  BY DEF Good, Link, Fits, Sound, Evolves

LEMMA SetAckT ==
  ASSUME NEW l, Good(l), NEW t, Transmits(t),
         t.pc \in {"take", "fail", "done"} \/ l.tx # <<>>,
         NEW q \in Seq(Ack), Len(q) <= AckCap
  PROVE  Evolves(l, [l EXCEPT !.ack = q, !.t = t])
  BY DEF Transmits, Good, Link, Fits, Sound, Evolves

LEMMA SetVST ==
  ASSUME NEW l, Good(l), NEW t, Transmits(t), l.tx # <<>>, NEW n \in SeqNo
  PROVE  Evolves(l, [l EXCEPT !.vs = n, !.t = t])
  BY DEF Transmits, Good, Link, Fits, Sound, Evolves

LEMMA SetVATxT ==
  ASSUME NEW l, Good(l), NEW t, Transmits(t), t.pc = "take", NEW n \in SeqNo,
         NEW q \in Seq(Data), Len(q) <= TxCap
  PROVE  Evolves(l, [l EXCEPT !.va = n, !.tx = q, !.t = t])
  BY DEF Transmits, Good, Link, Fits, Sound, Evolves

LEMMA CloseT ==
  ASSUME NEW l, Good(l), NEW t, Transmits(t), t.pc = "done"
  PROVE  Evolves(l, [[l EXCEPT !.open = FALSE] EXCEPT !.t = t])
  BY DEF Transmits, Good, Link, Fits, Sound, Evolves

LEMMA SetControlR ==
  ASSUME NEW l, Good(l), NEW r, Runs(r), NEW q \in Seq(ControlEvent), Len(q) <= ControlCap
  PROVE  Evolves(l, [l EXCEPT !.control = q, !.r = r])
  BY DEF Runs, Good, Link, Fits, Sound, Evolves

LEMMA CloseR ==
  ASSUME NEW l, Good(l), NEW r, Runs(r)
  PROVE  /\ Evolves(l, [[l EXCEPT !.open = FALSE] EXCEPT !.r = r])
         /\ Evolves(l, [l EXCEPT !.r = r, !.writing = FALSE])
         /\ Evolves(l, [l EXCEPT !.r = r])
  BY DEF Runs, Good, Link, Fits, Sound, Evolves

LEMMA SetInP ==
  ASSUME NEW l, Good(l), NEW p \in Pump, Len(p.hand) <= 1, NEW q \in Seq(Info),
         Len(q) <= InCap
  PROVE  Evolves(l, [l EXCEPT !.p = p, !.in = q])
  BY DEF Good, Link, Fits, Sound, Evolves

LEMMA SetReceived ==
  ASSUME NEW l, Good(l), NEW n \in SeqNo
  PROVE  /\ Evolves(l, [l EXCEPT !.vr = n, !.rejectSent = FALSE])
         /\ Evolves(l, [l EXCEPT !.vr = 0, !.vs = 0, !.va = 0])
<1>1. 0 \in SeqNo
  BY DEF SeqNo
<1> QED
  BY <1>1 DEF Good, Link, Fits, Sound, Evolves

LEMMA Fields ==
  ASSUME NEW l, Good(l)
  PROVE  /\ l.remote \in Remote /\ l.open \in BOOLEAN
         /\ l.vr \in SeqNo /\ l.vs \in SeqNo /\ l.va \in SeqNo
         /\ l.peerBusy \in BOOLEAN /\ l.rejectSent \in BOOLEAN
         /\ l.in \in Seq(Info) /\ Len(l.in) <= InCap
         /\ l.tx \in Seq(Data) /\ Len(l.tx) <= TxCap
         /\ l.ack \in Seq(Ack) /\ Len(l.ack) <= AckCap
         /\ l.control \in Seq(ControlEvent) /\ Len(l.control) <= ControlCap
         /\ l.t \in Transmit /\ l.r \in Run /\ l.p \in Pump /\ Len(l.p.hand) <= 1
  BY DEF Good, Link, Fits

LEMMA Dequeue ==
  ASSUME NEW S, NEW q \in Seq(S), q # <<>>, NEW c \in Nat, Len(q) <= c
  PROVE  Head(q) \in S /\ Tail(q) \in Seq(S) /\ Len(Tail(q)) <= c
  BY HeadTailProperties, LenProperties

LEMMA Enqueue ==
  ASSUME NEW S, NEW q \in Seq(S), NEW x \in S, NEW c \in Nat, Len(q) < c
  PROVE  /\ Append(q, x) \in Seq(S) /\ Len(Append(q, x)) <= c
         /\ Append(q, x) # <<>>
<1>1. Append(q, x) \in Seq(S) /\ Len(Append(q, x)) = Len(q) + 1 /\ Len(q) \in Nat
  BY AppendProperties, LenProperties
<1> QED
  BY <1>1, EmptySeq

LEMMA OfferFits ==
  ASSUME NEW S, NEW q \in Seq(S), NEW x \in S, NEW c \in Nat, Len(q) <= c
  PROVE  Offer(q, x, c) \in Seq(S) /\ Len(Offer(q, x, c)) <= c
  BY Enqueue DEF Offer

LEMMA SuccIn == \A n \in SeqNo : Succ(n) \in SeqNo
  BY DEF Succ, SeqNo

LEMMA One ==
  ASSUME NEW S, NEW x \in S
  PROVE  <<x>> \in Seq(S) /\ Len(<<x>>) = 1
  OBVIOUS

-----------------------------------------------------------------------------
(* A link that begins, and one nobody holds *)

LEMMA NewGood == \A r \in Remote : Good(NewLink(r))
<1> SUFFICES ASSUME NEW r \in Remote PROVE Good(NewLink(r))
  OBVIOUS
<1>1. 0 \in SeqNo
  BY DEF SeqNo
<1>2. NewLink(r).t \in Transmit /\ NewLink(r).r \in Run /\ NewLink(r).p \in Pump
  BY <1>1, EmptySeq DEF NewLink, IdleTransmit, Transmit, Run, Pump
<1>3. NewLink(r) \in Link
  <2> DEFINE t == NewLink(r).t
             u == NewLink(r).r
             p == NewLink(r).p
  <2>1. NewLink(r) =
          [remote |-> r, open |-> TRUE, vr |-> 0, vs |-> 0, va |-> 0,
           peerBusy |-> FALSE, rejectSent |-> FALSE,
           in |-> <<>>, tx |-> <<>>, writing |-> TRUE, ack |-> <<>>, control |-> <<>>,
           t |-> t, r |-> u, p |-> p]
    BY DEF NewLink
  <2> HIDE DEF t, u, p
  <2>2. t \in Transmit /\ u \in Run /\ p \in Pump
    BY <1>2 DEF t, u, p
  <2> QED
    BY <1>1, <2>1, <2>2, EmptySeq DEF Link
<1> QED
  BY <1>3, EmptySeq DEF Good, Fits, Sound, Busy, NewLink, IdleTransmit

LEMMA FreeGood == Good(FreeLink) /\ FreeLink.r.pc = "free" /\ ~FreeLink.open
<1> DEFINE r == CHOOSE r \in Remote : TRUE
           l == NewLink(r)
           t0 == IdleTransmit
           u0 == [pc |-> "service", tries |-> 0]
           p0 == [pc |-> "run", hand |-> <<>>]
           t == [t0 EXCEPT !.pc = "done"]
           u == [u0 EXCEPT !.pc = "free"]
           p == [p0 EXCEPT !.pc = "ended"]
<1>0. r \in Remote /\ 0 \in SeqNo
  BY DEF SeqNo
<1>1. l = [remote |-> r, open |-> TRUE, vr |-> 0, vs |-> 0, va |-> 0,
           peerBusy |-> FALSE, rejectSent |-> FALSE,
           in |-> <<>>, tx |-> <<>>, writing |-> TRUE, ack |-> <<>>, control |-> <<>>,
           t |-> t0, r |-> u0, p |-> p0]
  BY DEF NewLink
<1>2. FreeLink = [l EXCEPT !.open = FALSE, !.writing = FALSE, !.t.pc = "done",
                           !.r.pc = "free", !.p.pc = "ended"]
  BY DEF FreeLink
<1>3. t \in Transmit /\ t.pc = "done"
  <2>1. t0 \in Transmit
    BY <1>0 DEF IdleTransmit, Transmit
  <2> HIDE DEF t0
  <2> QED
    BY <2>1 DEF Transmit
<1>4. u \in Run /\ u.pc = "free"
  BY DEF Run
<1>5. p \in Pump /\ p.hand = <<>>
  BY EmptySeq DEF Pump
<1>6. FreeLink =
        [remote |-> r, open |-> FALSE, vr |-> 0, vs |-> 0, va |-> 0,
         peerBusy |-> FALSE, rejectSent |-> FALSE,
         in |-> <<>>, tx |-> <<>>, writing |-> FALSE, ack |-> <<>>, control |-> <<>>,
         t |-> t, r |-> u, p |-> p]
  <2> HIDE DEF l, t0, u0, p0, r
  <2> QED
    BY <1>1, <1>2
<1> HIDE DEF l, t, u, p, r
<1>7. FreeLink \in Link
  BY <1>0, <1>6, <1>3, <1>4, <1>5, EmptySeq DEF Link
<1>8. Fits(FreeLink)
  BY <1>6, <1>5, EmptySeq DEF Fits
<1>9. Sound(FreeLink)
  BY <1>6, <1>3, <1>4 DEF Sound, Busy
<1> QED
  BY <1>6, <1>4, <1>7, <1>8, <1>9 DEF Good

-----------------------------------------------------------------------------
(* The state *)

RxSound ==
    /\ rx.pc # "idle" => rx.obj \in Obj
    /\ rx.pc \in {"deliver", "finish"} =>
          rx.frame.type \in {"I", "RR", "RNR", "REJ", "SREJ"}

Typed ==
    /\ links \in [Remote -> Obj \cup {NoObj}]
    /\ obj \in [Obj -> Link] /\ \A o \in Obj : Good(obj[o])
    /\ rx \in Rx /\ RxSound
    /\ io \in IO

\* One object changes, by a step that may come after its first.
Moves(o) == obj' = obj \/ \E m : Evolves(obj[o], m) /\ Update(o, m)

LEMMA MovesTyped ==
  ASSUME Typed, NEW o \in Obj, Moves(o)
  PROVE  /\ obj' \in [Obj -> Link] /\ \A p \in Obj : Good(obj'[p])
         /\ \A p \in Obj : Evolves(obj[p], obj'[p])
<1>1. \A p \in Obj : Evolves(obj[p], obj[p])
  BY DEF Typed, Evolves
<1>2. CASE obj' = obj
  BY <1>1, <1>2 DEF Typed
<1>3. ASSUME NEW m, Evolves(obj[o], m), Update(o, m)
      PROVE  /\ obj' \in [Obj -> Link] /\ \A p \in Obj : Good(obj'[p])
             /\ \A p \in Obj : Evolves(obj[p], obj'[p])
  <2>1. m \in Link /\ Good(m)
    BY <1>3 DEF Evolves, Good
  <2>2. obj' \in [Obj -> Link] /\ obj'[o] = m /\ \A p \in Obj \ {o} : obj'[p] = obj[p]
    BY <1>3, <2>1 DEF Typed, Update
  <2> QED
    BY <1>1, <1>3, <2>1, <2>2 DEF Typed
<1> QED
  BY <1>2, <1>3 DEF Moves

LEMMA SilentIO == Silent => io' \in IO
  BY EmptySeq DEF Silent, IO

LEMMA SendsIO ==
  ASSUME NEW to \in Remote, NEW f \in Frame, Sends(to, f)
  PROVE  io' \in IO
<1> DEFINE a == [to |-> to, frame |-> f]
<1>1. a \in Addressed
  BY DEF Addressed
<1>2. io' = [tx |-> <<a>>, up |-> <<>>, done |-> <<>>]
  BY DEF Sends
<1>3. <<a>> \in Seq(Addressed)
  BY <1>1, One
<1> HIDE DEF a
<1> QED
  BY <1>2, <1>3, EmptySeq DEF IO

LEMMA FramesOK ==
  ASSUME NEW n \in SeqNo, NEW m \in SeqNo, NEW b \in BOOLEAN, NEW cr \in Role
  PROVE  /\ \A type \in {"UA", "DM", "DISC", "XID", "TEST"} :
              Unnumbered(type, cr, b) \in Frame
         /\ Supervisory("RR", cr, b, n) \in Frame /\ Supervisory("REJ", cr, b, n) \in Frame
         /\ \A d \in Data : Information(n, m, b, d) \in Frame
<1>1. 0 \in SeqNo /\ NoInfo \in Info /\ Data \subseteq Info
  BY DEF SeqNo, Info
<1> QED
  BY <1>1 DEF Unnumbered, Supervisory, Information, Frame, FrameType, Role

-----------------------------------------------------------------------------
(* transmit *)

LEMMA Bounds ==
  /\ N2 \in Nat \ {0} /\ InCap \in Nat /\ TxCap \in Nat /\ AckCap \in Nat
  /\ ControlCap \in Nat
  OBVIOUS

LEMMA AttemptOK ==
  ASSUME NEW t \in Transmit, t.tries < N2
  PROVE  Transmits(Attempt(t)) /\ Attempt(t).pc = "ready"
<1>1. t.tries + 1 \in 0 .. N2 /\ 0 \in 0 .. N2
  BY Bounds DEF Transmit
<1>2. Attempt(t) = [t EXCEPT !.pc = "ready", !.tries = t.tries + 1, !.waits = 0]
  BY DEF Attempt
<1> QED
  BY <1>1, <1>2 DEF Transmits, Transmit, Busy

LEMMA ProceedOK ==
  ASSUME NEW t \in Transmit, t.tries < N2
  PROVE  Transmits(Proceed(t)) /\ Proceed(t).pc \in {"send", "await"}
<1>1. 0 \in 0 .. N2
  BY Bounds
<1>2. \E pc \in {"send", "await"} : Proceed(t) = [t EXCEPT !.waits = 0, !.pc = pc]
  BY DEF Proceed
<1> QED
  BY <1>1, <1>2 DEF Transmits, Transmit, Busy

LEMMA WaitOK ==
  ASSUME NEW t \in Transmit, t.waits < N2
  PROVE  Transmits([t EXCEPT !.pc = "ready", !.waits = @ + 1])
<1>1. t.waits + 1 \in 0 .. N2
  BY Bounds DEF Transmit
<1> QED
  BY <1>1 DEF Transmits, Transmit, Busy

LEMMA IdleOK ==
  LET t == [IdleTransmit EXCEPT !.pc = "done"] IN Transmits(t) /\ t.pc = "done"
<1>1. IdleTransmit \in Transmit
  BY DEF IdleTransmit, Transmit, SeqNo
<1> HIDE DEF IdleTransmit
<1> QED
  BY <1>1 DEF Transmits, Transmit, Busy

\* Changes of the place alone.
LEMMA PlaceOK ==
  ASSUME NEW t \in Transmit
  PROVE  /\ \A pc \in {"ready", "acked", "fail", "take"} : Transmits([t EXCEPT !.pc = pc])
         /\ t.tries < N2 => /\ Transmits([t EXCEPT !.pc = "poll"])
                            /\ Transmits([t EXCEPT !.pc = "pollWait"])
                            /\ Transmits([t EXCEPT !.pc = "await", !.needSend = FALSE])
         /\ t.tries < N2 /\ t.waits < N2 => Transmits([t EXCEPT !.pc = "busyWait"])
  BY DEF Transmits, Transmit, Busy

LEMMA TxStepOK ==
  ASSUME Typed, NEW o \in Obj, TxStep(o) \/ TxT1(o)
  PROVE  Moves(o) /\ io' \in IO
<1> DEFINE l == obj[o]
           t == l.t
<1>0. Good(l) /\ t \in Transmit /\ l.tx \in Seq(Data) /\ l.ack \in Seq(Ack)
      /\ l.vs \in SeqNo /\ l.vr \in SeqNo /\ l.remote \in Remote
      /\ Len(l.ack) <= AckCap /\ Len(l.tx) <= TxCap
  BY Fields DEF Typed
<1>1. /\ Busy(t) => t.tries < N2
      /\ t.pc = "busyWait" => t.waits < N2
      /\ t.pc \notin {"take", "fail", "done"} => l.tx # <<>>
  BY <1>0 DEF Good, Sound
<1>2. /\ l.ack # <<>> => /\ Head(l.ack) \in Ack /\ Tail(l.ack) \in Seq(Ack)
                         /\ Len(Tail(l.ack)) <= AckCap
      /\ l.tx # <<>> => /\ Head(l.tx) \in Data /\ Tail(l.tx) \in Seq(Data)
                        /\ Len(Tail(l.tx)) <= TxCap
      /\ <<>> \in Seq(Ack) /\ Len(<<>>) <= AckCap
  BY <1>0, Dequeue, Bounds, EmptySeq
<1>3. t.ns \in SeqNo /\ t.nr \in SeqNo /\ Succ(t.ns) \in SeqNo
  BY <1>0, SuccIn DEF Transmit
<1>4. CASE TxTake(o)
  <2>1. CASE l.tx # <<>> /\ Step(o, [t EXCEPT !.pc = "advance", !.ns = l.vs, !.nr = l.vr,
                                    !.tries = 0, !.waits = 0, !.needSend = TRUE])
    <3> DEFINE u == [t EXCEPT !.pc = "advance", !.ns = l.vs, !.nr = l.vr,
                              !.tries = 0, !.waits = 0, !.needSend = TRUE]
    <3>1. Transmits(u)
      <4>1. 0 \in 0 .. N2
        BY Bounds
      <4>2. t \in Transmit /\ l.vs \in SeqNo /\ l.vr \in SeqNo
        BY <1>0
      <4> HIDE DEF l, t
      <4> QED
        BY <4>1, <4>2 DEF Transmits, Transmit, Busy
    <3> HIDE DEF u
    <3> QED
      BY <1>0, <1>4, <2>1, <3>1, SetT, SilentIO DEF TxTake, Step, Moves, u
  <2>2. CASE Step(o, [IdleTransmit EXCEPT !.pc = "done"])
    BY <1>0, <1>4, <2>2, IdleOK, SetT, SilentIO DEF TxTake, Step, Moves
  <2> QED
    BY <1>4, <2>1, <2>2 DEF TxTake
<1>5. CASE TxAdvance(o)
  <2> DEFINE u == [t EXCEPT !.pc = "ready"]
  <2>1. Transmits(u) /\ t.pc = "advance" /\ io' \in IO
    BY <1>0, <1>5, PlaceOK, SilentIO DEF TxAdvance, At
  <2>2. Update(o, [l EXCEPT !.vs = Succ(t.ns), !.t = u])
    BY <1>5 DEF TxAdvance
  <2> HIDE DEF u
  <2> QED
    BY <1>0, <1>1, <1>3, <2>1, <2>2, SetVST DEF Moves
<1>6. CASE TxReady(o)
  <2>1. t.pc = "ready" /\ t.tries < N2 /\ t.waits < N2
    BY <1>6 DEF TxReady, At
  <2>2. CASE Step(o, Proceed(t)) /\ Silent
    BY <1>0, <1>1, <2>1, <2>2, ProceedOK, SetT, SilentIO DEF Step, Moves
  <2>3. CASE /\ Update(o, [l EXCEPT !.ack = <<>>, !.t.pc = "busyWait"])
             /\ Sends(l.remote, Supervisory("RR", "rsp", TRUE, l.vr))
    <3> DEFINE u == [t EXCEPT !.pc = "busyWait"]
    <3>1. Transmits(u)
      BY <1>0, <2>1, PlaceOK
    <3>2. Update(o, [l EXCEPT !.ack = <<>>, !.t = u])
      BY <2>3
    <3>3. io' \in IO
      BY <1>0, <2>3, FramesOK, SendsIO DEF Role
    <3> HIDE DEF u
    <3> QED
      BY <1>0, <1>1, <1>2, <2>1, <3>1, <3>2, <3>3, SetAckT DEF Moves
  <2> QED
    BY <1>6, <2>2, <2>3 DEF TxReady
<1>7. CASE TxBusyAck(o)
  <2>1. t.pc = "busyWait" /\ l.ack # <<>> /\ io' \in IO
    BY <1>7, SilentIO DEF TxBusyAck, At
  <2>2. t.tries < N2 /\ t.waits < N2
    BY <1>1, <2>1 DEF Busy
  <2>3. \E u : /\ u = Proceed(t) \/ u = [t EXCEPT !.pc = "ready", !.waits = @ + 1]
               /\ Update(o, [l EXCEPT !.ack = Tail(l.ack), !.t = u])
    <3> DEFINE w == [t EXCEPT !.pc = "ready", !.waits = @ + 1]
    <3>1. \/ Update(o, [l EXCEPT !.ack = Tail(l.ack), !.t = Proceed(t)])
          \/ Update(o, [l EXCEPT !.ack = Tail(l.ack), !.t = w])
      BY <1>7 DEF TxBusyAck
    <3> HIDE DEF w
    <3>2. w = [t EXCEPT !.pc = "ready", !.waits = @ + 1]
      BY DEF w
    <3> QED
      BY <3>1, <3>2
  <2>4. PICK u : /\ u = Proceed(t) \/ u = [t EXCEPT !.pc = "ready", !.waits = @ + 1]
                 /\ Update(o, [l EXCEPT !.ack = Tail(l.ack), !.t = u])
    BY <2>3
  <2>5. Transmits(u)
    BY <1>0, <2>2, <2>4, ProceedOK, WaitOK
  <2> QED
    BY <1>0, <1>1, <1>2, <2>1, <2>4, <2>5, SetAckT DEF Moves
<1>8. CASE TxSend(o)
  <2>1. t.pc = "send" /\ Step(o, [t EXCEPT !.pc = "await", !.needSend = FALSE])
        /\ Sends(l.remote, Information(t.ns, t.nr, FALSE, Head(l.tx)))
    BY <1>8 DEF TxSend, At
  <2>2. Transmits([t EXCEPT !.pc = "await", !.needSend = FALSE])
    BY <1>0, <1>1, <2>1, PlaceOK DEF Busy
  <2>3. Information(t.ns, t.nr, FALSE, Head(l.tx)) \in Frame
    BY <1>1, <1>2, <1>3, <2>1, FramesOK DEF Role
  <2> QED
    BY <1>0, <1>1, <2>1, <2>2, <2>3, SetT, SendsIO DEF Step, Moves
<1>9. CASE TxAck(o)
  <2>1. t.pc = "await" /\ l.ack # <<>> /\ io' \in IO
    BY <1>9, SilentIO DEF TxAck, At
  <2>2. PICK u : /\ \/ u = [t EXCEPT !.pc = "acked"]
                    \/ \E b \in BOOLEAN : u = Attempt([t EXCEPT !.needSend = b])
                 /\ Update(o, [l EXCEPT !.ack = Tail(l.ack), !.t = u])
    <3> DEFINE b == t.needSend \/ (IsReject(Head(l.ack)) /\ Head(l.ack).nr = t.ns)
    <3>1. b \in BOOLEAN
      OBVIOUS
    <3>2. \/ Update(o, [l EXCEPT !.ack = Tail(l.ack), !.t = [t EXCEPT !.pc = "acked"]])
          \/ Update(o, [l EXCEPT !.ack = Tail(l.ack),
                                 !.t = Attempt([t EXCEPT !.needSend = b])])
      BY <1>9 DEF TxAck
    <3> HIDE DEF b
    <3> QED
      BY <3>1, <3>2
  <2>3. Transmits(u)
    <3>1. \A b \in BOOLEAN : [t EXCEPT !.needSend = b] \in Transmit
                             /\ [t EXCEPT !.needSend = b].tries = t.tries
      BY <1>0 DEF Transmit
    <3> QED
      BY <1>0, <1>1, <2>1, <2>2, <3>1, AttemptOK, PlaceOK DEF Busy
  <2> QED
    BY <1>0, <1>1, <1>2, <2>1, <2>2, <2>3, SetAckT DEF Moves
<1>10. CASE TxPoll(o)
  <2>1. /\ t.pc = "poll" /\ Step(o, [t EXCEPT !.pc = "pollWait"])
        /\ Sends(l.remote, Supervisory("RR", "rsp", TRUE, t.nr))
    BY <1>10 DEF TxPoll, At
  <2>2. Transmits([t EXCEPT !.pc = "pollWait"])
    BY <1>0, <1>1, <2>1, PlaceOK DEF Busy
  <2>3. Supervisory("RR", "rsp", TRUE, t.nr) \in Frame
    BY <1>3, FramesOK DEF Role
  <2> QED
    BY <1>0, <1>1, <2>1, <2>2, <2>3, SetT, SendsIO DEF Step, Moves
<1>11. CASE TxPollAck(o)
  <2>1. t.pc = "pollWait" /\ l.ack # <<>> /\ io' \in IO
    BY <1>11, SilentIO DEF TxPollAck, At
  <2>2. PICK u : /\ \/ u = t \/ u = [t EXCEPT !.pc = "acked"]
                    \/ u = Attempt([t EXCEPT !.needSend = TRUE])
                 /\ Update(o, [l EXCEPT !.ack = Tail(l.ack), !.t = u])
    BY <1>11 DEF TxPollAck
  <2>3. Transmits(u)
    <3>1. [t EXCEPT !.needSend = TRUE] \in Transmit
          /\ [t EXCEPT !.needSend = TRUE].tries = t.tries
      BY <1>0 DEF Transmit
    <3>2. Transmits(t)
      BY <1>0, <1>1 DEF Transmits
    <3> QED
      BY <1>0, <1>1, <2>1, <2>2, <3>1, <3>2, AttemptOK, PlaceOK DEF Busy
  <2> QED
    BY <1>0, <1>1, <1>2, <2>1, <2>2, <2>3, SetAckT DEF Moves
<1>12. CASE TxT1(o)
  <2>1. PICK u : /\ \/ t.pc = "await" /\ u = [t EXCEPT !.pc = "poll"]
                    \/ t.pc = "pollWait" /\ u = Attempt(t)
                    \/ t.pc = "busyWait" /\ u = [t EXCEPT !.pc = "ready", !.waits = @ + 1]
                 /\ Step(o, u)
    BY <1>12 DEF TxT1
  <2>2. Transmits(u)
    BY <1>0, <1>1, <2>1, AttemptOK, PlaceOK, WaitOK DEF Busy
  <2> QED
    BY <1>0, <1>1, <1>12, <2>1, <2>2, SetT, SilentIO DEF Step, Moves, TxT1
<1>13. CASE TxAcked(o)
  <2> DEFINE u == [t EXCEPT !.pc = "take"]
  <2>1. /\ t.pc = "acked"
        /\ Update(o, [l EXCEPT !.va = Succ(t.ns), !.tx = Tail(l.tx), !.t = u])
        /\ io' = [tx |-> <<>>, up |-> <<>>, done |-> <<Head(l.tx)>>]
    BY <1>13 DEF TxAcked, At
  <2>2. Transmits(u) /\ u.pc = "take"
    BY <1>0, PlaceOK DEF Transmit
  <2>3. io' \in IO
    BY <1>1, <1>2, <2>1, One, EmptySeq DEF IO
  <2> HIDE DEF u
  <2> QED
    BY <1>0, <1>1, <1>2, <1>3, <2>1, <2>2, <2>3, SetVATxT DEF Moves
<1>14. CASE TxFails(o)
  <2>1. Step(o, [t EXCEPT !.pc = "fail"]) /\ io' \in IO
    BY <1>14, SilentIO DEF TxFails
  <2>2. Transmits([t EXCEPT !.pc = "fail"]) /\ [t EXCEPT !.pc = "fail"].pc = "fail"
    BY <1>0, PlaceOK DEF Transmit
  <2> QED
    BY <1>0, <2>1, <2>2, SetT DEF Step, Moves
<1>15. CASE TxClose(o)
  <2> DEFINE u == [IdleTransmit EXCEPT !.pc = "done"]
  <2>1. Update(o, [[l EXCEPT !.open = FALSE] EXCEPT !.t = u]) /\ io' \in IO
    BY <1>15, SilentIO DEF TxClose, Closed
  <2>2. Transmits(u) /\ u.pc = "done"
    BY IdleOK
  <2> HIDE DEF u
  <2> QED
    BY <1>0, <2>1, <2>2, CloseT DEF Moves
<1>16. CASE TxSeesClosed(o)
  BY <1>0, <1>16, IdleOK, SetT, SilentIO DEF TxSeesClosed, Step, Moves
<1> QED
  BY <1>4, <1>5, <1>6, <1>7, <1>8, <1>9, <1>10, <1>11, <1>12, <1>13, <1>14, <1>15, <1>16
  DEF TxStep

-----------------------------------------------------------------------------
(* run, the pump and the service *)

\* Changes of run's registers.
LEMMA RunOK ==
  ASSUME NEW r \in Run
  PROVE  /\ \A pc \in {"closing", "disc", "close", "done"} : Runs([r EXCEPT !.pc = pc])
         /\ r.tries < N2 => Runs([r EXCEPT !.pc = "awaitRelease"])
                            /\ Runs([r EXCEPT !.pc = "disc", !.tries = @ + 1])
         /\ Runs([pc |-> "done", tries |-> 0])
<1>1. 0 \in 0 .. N2 /\ (r.tries < N2 => r.tries + 1 \in 0 .. N2)
  BY Bounds DEF Run
<1>2. Runs([pc |-> "done", tries |-> 0])
  BY <1>1 DEF Runs, Run
<1>3. \A pc \in {"closing", "disc", "close", "done"} : Runs([r EXCEPT !.pc = pc])
  BY DEF Runs, Run
<1>4. ASSUME r.tries < N2
      PROVE  Runs([r EXCEPT !.pc = "awaitRelease"])
             /\ Runs([r EXCEPT !.pc = "disc", !.tries = @ + 1])
  BY <1>1, <1>4 DEF Runs, Run
<1> QED
  BY <1>2, <1>3, <1>4

LEMMA RunStepOK ==
  ASSUME Typed, NEW o \in Obj, RunStep(o)
  PROVE  Moves(o) /\ io' \in IO
<1> DEFINE l == obj[o]
           r == l.r
<1>0. Good(l) /\ r \in Run /\ l.control \in Seq(ControlEvent) /\ l.remote \in Remote
      /\ Len(l.control) <= ControlCap
  BY Fields DEF Typed
<1>1. r.pc = "awaitRelease" => r.tries < N2
  BY <1>0 DEF Good, Sound
<1>2. <<>> \in Seq(ControlEvent) /\ Len(<<>>) <= ControlCap
  BY Bounds, EmptySeq
<1>3. CASE RunWaits(o)
  <2> DEFINE u == [r EXCEPT !.pc = "disc"]
             v == [r EXCEPT !.pc = "done"]
  <2>1. io' \in IO /\ Runs(u) /\ Runs(v)
    BY <1>0, <1>3, SilentIO, RunOK DEF RunWaits
  <2>2. \/ Update(o, [l EXCEPT !.control = <<>>, !.r = u])
        \/ Update(o, [l EXCEPT !.r = v])
    BY <1>3 DEF RunWaits
  <2> HIDE DEF u, v
  <2> QED
    BY <1>0, <1>2, <2>1, <2>2, SetControlR, CloseR DEF Moves
<1>4. CASE RunSendsDISC(o)
  <2> DEFINE u == [r EXCEPT !.pc = "awaitRelease"]
             v == [r EXCEPT !.pc = "close"]
  <2>1. Runs(u) /\ Runs(v)
    BY <1>0, <1>4, RunOK DEF RunSendsDISC
  <2>2. \/ /\ Update(o, [l EXCEPT !.r = u])
           /\ Sends(l.remote, Unnumbered("DISC", "cmd", TRUE))
        \/ Update(o, [l EXCEPT !.r = v]) /\ Silent
    BY <1>4 DEF RunSendsDISC
  <2>3. io' \in IO
    <3>1. Unnumbered("DISC", "cmd", TRUE) \in Frame
      <4>1. 0 \in SeqNo /\ "cmd" \in Role
        BY DEF Role, SeqNo
      <4> QED
        BY <4>1, FramesOK
    <3> QED
      BY <1>0, <2>2, <3>1, SilentIO, SendsIO
  <2> HIDE DEF u, v
  <2> QED
    BY <1>0, <2>1, <2>2, <2>3, CloseR DEF Moves
<1>5. CASE RunAwaitsRelease(o)
  <2> DEFINE u == [r EXCEPT !.pc = "close"]
             again == [r EXCEPT !.pc = "disc", !.tries = @ + 1]
  <2>1. io' \in IO /\ Runs(u) /\ Runs(again)
    BY <1>0, <1>1, <1>5, SilentIO, RunOK DEF RunAwaitsRelease
  <2>2. \/ l.control # <<>> /\ Update(o, [l EXCEPT !.control = Tail(l.control), !.r = u])
        \/ l.control # <<>> /\ Update(o, [l EXCEPT !.control = Tail(l.control), !.r = again])
        \/ Update(o, [l EXCEPT !.r = again])
        \/ Update(o, [l EXCEPT !.r = u])
    BY <1>5 DEF RunAwaitsRelease
  <2>3. l.control # <<>> => /\ Tail(l.control) \in Seq(ControlEvent)
                            /\ Len(Tail(l.control)) <= ControlCap
    BY <1>0, Dequeue, Bounds
  <2> HIDE DEF u, again
  <2> QED
    BY <1>0, <2>1, <2>2, <2>3, SetControlR, CloseR DEF Moves
<1>6. CASE RunCloses(o)
  <2>1. io' \in IO /\ Update(o, [[l EXCEPT !.open = FALSE] EXCEPT
                                !.r = [pc |-> "done", tries |-> 0]])
    BY <1>6, SilentIO DEF RunCloses, Closed
  <2>2. Runs([pc |-> "done", tries |-> 0])
    BY <1>0, RunOK
  <2> QED
    BY <1>0, <2>1, <2>2, CloseR DEF Moves
<1> QED
  BY <1>3, <1>4, <1>5, <1>6 DEF RunStep

LEMMA HandOK ==
  ASSUME NEW p \in Pump, NEW q \in Seq(Info)
  PROVE  [p EXCEPT !.hand = q] \in Pump /\ [p EXCEPT !.hand = q].hand = q
  BY DEF Pump

LEMMA PumpStepOK ==
  ASSUME Typed, NEW o \in Obj, PumpStep(o)
  PROVE  Moves(o) /\ io' \in IO
<1> DEFINE l == obj[o]
           p == l.p
<1>0. Good(l) /\ p \in Pump /\ l.in \in Seq(Info) /\ Len(l.in) <= InCap
      /\ Len(p.hand) <= 1
  BY Fields DEF Typed
<1> DEFINE u == [p EXCEPT !.hand = <<Head(l.in)>>]
           v == [p EXCEPT !.pc = "ended"]
<1>1. \/ l.in # <<>> /\ Update(o, [l EXCEPT !.p = u, !.in = Tail(l.in)])
      \/ Update(o, [l EXCEPT !.p = v])
  BY DEF PumpStep
<1>2. ASSUME l.in # <<>>
      PROVE  /\ u \in Pump /\ Len(u.hand) <= 1
             /\ Tail(l.in) \in Seq(Info) /\ Len(Tail(l.in)) <= InCap
  <2>1. Head(l.in) \in Info /\ Tail(l.in) \in Seq(Info) /\ Len(Tail(l.in)) <= InCap
    BY <1>0, <1>2, Dequeue, Bounds
  <2> DEFINE q == <<Head(l.in)>>
  <2>2. q \in Seq(Info) /\ Len(q) <= 1
    BY <2>1, One
  <2>3. u = [p EXCEPT !.hand = q] /\ p \in Pump
    BY <1>0
  <2> HIDE DEF q, u, p, l
  <2>4. u \in Pump /\ u.hand = q
    BY <2>2, <2>3, HandOK
  <2>5. Len(u.hand) <= 1
    BY <2>2, <2>4
  <2> QED
    BY <2>1, <2>4, <2>5
<1>3. v \in Pump /\ Len(v.hand) <= 1
  BY <1>0 DEF Pump
<1>4. io' \in IO
  BY SilentIO DEF PumpStep
<1> HIDE DEF u, v
<1> QED
  BY <1>0, <1>1, <1>2, <1>3, <1>4, SetInP, SetP DEF Moves

LEMMA ServiceOK ==
  ASSUME Typed, NEW o \in Obj, Service(o)
  PROVE  Moves(o) /\ io' \in IO
<1> DEFINE l == obj[o]
<1>0. Good(l) /\ l.p \in Pump /\ l.r \in Run /\ l.tx \in Seq(Data) /\ Len(l.tx) <= TxCap
      /\ Len(l.p.hand) <= 1
  BY Fields DEF Typed
<1>1. ASSUME NEW d \in Writes, ServiceWrites(o, d) PROVE Moves(o) /\ io' \in IO
  <2>1. Update(o, [l EXCEPT !.tx = Append(l.tx, d)]) /\ Len(l.tx) < TxCap /\ io' \in IO
    BY <1>1, SilentIO DEF ServiceWrites
  <2>2. Append(l.tx, d) \in Seq(Data) /\ Len(Append(l.tx, d)) <= TxCap
        /\ Append(l.tx, d) # <<>>
    BY <1>0, <2>1, Enqueue, Bounds
  <2> QED
    BY <1>0, <2>1, <2>2, SetTx DEF Moves
<1>2. CASE ServiceReads(o)
  <2> DEFINE u == [l.p EXCEPT !.hand = <<>>]
  <2>1. Update(o, [l EXCEPT !.p = u]) /\ io' = [tx |-> <<>>, up |-> l.p.hand, done |-> <<>>]
    BY <1>2 DEF ServiceReads
  <2>2. u \in Pump /\ Len(u.hand) <= 1
    <3>1. <<>> \in Seq(Info) /\ Len(<<>>) <= 1
      BY EmptySeq
    <3> QED
      BY <1>0, <3>1, HandOK
  <2>3. io' \in IO
    <3>1. l.p.hand \in Seq(Info)
      BY <1>0 DEF Pump
    <3> QED
      BY <2>1, <3>1, EmptySeq DEF IO
  <2> HIDE DEF u
  <2> QED
    BY <1>0, <2>1, <2>2, <2>3, SetP DEF Moves
<1>3. CASE ServiceReturns(o)
  <2> DEFINE u == [l.r EXCEPT !.pc = "closing"]
  <2>1. Update(o, [l EXCEPT !.r = u, !.writing = FALSE]) /\ io' \in IO /\ Runs(u)
    BY <1>0, <1>3, SilentIO, RunOK DEF ServiceReturns
  <2> HIDE DEF u
  <2> QED
    BY <1>0, <2>1, CloseR DEF Moves
<1> QED
  BY <1>1, <1>2, <1>3 DEF Service

-----------------------------------------------------------------------------
(* The dispatcher *)

\* A step for a link it looked up.
LEMMA RxStepOK ==
  ASSUME Typed, RxStep
  PROVE  rx.obj \in Obj /\ Moves(rx.obj) /\ io' \in IO /\ rx' \in Rx /\ RxSound'
         /\ links' = links
<1> DEFINE l == L
           f == rx.frame
<1>0. rx \in Rx /\ RxSound
  BY DEF Typed
<1>1. rx.pc # "idle"
  BY DEF RxStep, RxAnswer, RxModeResponse, RxDISC, RxSABM, RxSupervisory, RxInformation,
         RxDeliver, RxFinish, RxClose, Applying
<1>2. rx.obj \in Obj /\ f \in Frame
  BY <1>0, <1>1 DEF RxSound, Rx
<1>3. /\ Good(l) /\ l.remote \in Remote /\ l.vr \in SeqNo
      /\ l.in \in Seq(Info) /\ Len(l.in) <= InCap
      /\ l.ack \in Seq(Ack) /\ Len(l.ack) <= AckCap
      /\ l.control \in Seq(ControlEvent) /\ Len(l.control) <= ControlCap
  BY <1>2, Fields DEF Typed, L
<1>4. /\ f.type \in FrameType /\ f.pf \in BOOLEAN /\ f.ns \in SeqNo /\ f.nr \in SeqNo
      /\ f.info \in Info
  BY <1>2 DEF Frame
<1>5. /\ 0 \in SeqNo /\ {"cmd", "rsp"} \subseteq Role
      /\ Moves(rx.obj) <=> obj' = obj \/ \E m : Evolves(l, m) /\ Update(rx.obj, m)
  BY DEF SeqNo, Role, Moves, L
<1>6. RxEnd => rx' \in Rx /\ RxSound'
  <2>1. RxIdle \in Rx
    <3>1. Unnumbered("UA", "v1", FALSE) \in Frame
      <4>1. "v1" \in Role
        BY DEF Role
      <4> QED
        BY <1>5, <4>1, FramesOK
    <3> QED
      BY <1>5, <3>1 DEF RxIdle, Rx
  <2> QED
    BY <2>1 DEF RxEnd, RxIdle, RxSound
<1>7. \A pc \in {"close", "closing"} :
        rx' = [rx EXCEPT !.pc = pc] => rx' \in Rx /\ RxSound'
  BY <1>0, <1>2 DEF Rx, RxSound
<1>8. \A pc \in {"deliver", "finish"} :
        f.type \in {"I", "RR", "RNR", "REJ", "SREJ"} /\ rx' = [rx EXCEPT !.pc = pc]
          => rx' \in Rx /\ RxSound'
  BY <1>0, <1>2 DEF Rx, RxSound
<1>9. /\ Unnumbered("UA", "rsp", f.pf) \in Frame /\ Unnumbered("XID", "rsp", TRUE) \in Frame
      /\ \A b \in BOOLEAN, n \in SeqNo : /\ Supervisory("RR", "rsp", b, n) \in Frame
                                        /\ Supervisory("REJ", "rsp", b, n) \in Frame
  BY <1>4, <1>5, FramesOK
<1>10. CASE RxAnswer
  <2>1. [Unnumbered("TEST", "rsp", f.pf) EXCEPT !.info = f.info] \in Frame
    <3>1. Unnumbered("TEST", "rsp", f.pf) \in Frame
      BY <1>4, <1>5, FramesOK
    <3> QED
      BY <1>4, <3>1 DEF Frame
  <2>2. Silent \/ \E g \in Frame : Sends(l.remote, g)
    BY <1>3, <1>9, <1>10, <2>1 DEF RxAnswer
  <2> QED
    BY <1>2, <1>3, <1>5, <1>6, <1>10, <2>2, SilentIO, SendsIO DEF RxAnswer
<1>11. CASE RxModeResponse
  <2> DEFINE e == [type |-> f.type, answer |-> f.pf]
  <2>1. e \in ControlEvent
    BY <1>4, <1>11 DEF RxModeResponse, Applying, ControlEvent
  <2>2. \/ Update(rx.obj, [l EXCEPT !.control = Offer(l.control, e, ControlCap)])
        \/ obj' = obj
    BY <1>11 DEF RxModeResponse
  <2>3. rx' \in Rx /\ RxSound'
    BY <1>6, <1>7, <1>11 DEF RxModeResponse
  <2> HIDE DEF e
  <2>4. Offer(l.control, e, ControlCap) \in Seq(ControlEvent)
        /\ Len(Offer(l.control, e, ControlCap)) <= ControlCap
    BY <1>3, <2>1, OfferFits, Bounds
  <2>5. Moves(rx.obj)
    BY <1>3, <1>5, <2>2, <2>4, SetControl
  <2> QED
    BY <1>2, <1>11, <2>3, <2>5, SilentIO DEF RxModeResponse
<1>12. CASE RxDISC
  BY <1>2, <1>3, <1>5, <1>6, <1>7, <1>9, <1>12, SilentIO, SendsIO DEF RxDISC
<1>13. CASE RxSABM
  BY <1>2, <1>3, <1>5, <1>6, <1>9, <1>13, SetReceived, SilentIO, SendsIO DEF RxSABM
<1>14. CASE RxSupervisory
  <2>1. rx' = [rx EXCEPT !.pc = "finish", !.nr = l.vr]
        /\ f.type \in {"RR", "RNR", "REJ", "SREJ"}
    BY <1>14 DEF RxSupervisory, Applying
  <2>2. rx' \in Rx /\ RxSound'
    BY <1>0, <1>2, <1>3, <2>1 DEF Rx, RxSound
  <2>3. Update(rx.obj, [l EXCEPT !.peerBusy = (f.type = "RNR")])
    BY <1>14 DEF RxSupervisory
  <2>4. Moves(rx.obj)
    BY <1>3, <1>5, <2>3, SetNumbers
  <2> QED
    BY <1>2, <1>14, <2>2, <2>4, SilentIO DEF RxSupervisory
<1>15. CASE RxInformation
  <2>1. \/ /\ Update(rx.obj, [l EXCEPT !.vr = Succ(l.vr), !.rejectSent = FALSE])
           /\ rx' = [rx EXCEPT !.pc = "deliver"] /\ Silent
        \/ /\ Update(rx.obj, [l EXCEPT !.rejectSent = TRUE])
           /\ Silent \/ Sends(l.remote, Supervisory("REJ", "rsp", f.pf, l.vr))
           /\ RxEnd
        \/ RxEnd /\ Silent /\ obj' = obj
    BY <1>15 DEF RxInformation
  <2>2. f.type = "I" /\ links' = links /\ Succ(l.vr) \in SeqNo
    BY <1>3, <1>15, SuccIn DEF RxInformation, Applying
  <2>3. rx' \in Rx /\ RxSound'
    BY <1>6, <1>8, <2>1, <2>2
  <2>4. io' \in IO
    BY <1>3, <1>4, <1>9, <2>1, SilentIO, SendsIO
  <2>5. Moves(rx.obj)
    BY <1>3, <1>5, <2>1, <2>2, SetReceived, SetNumbers
  <2> QED
    BY <1>2, <2>2, <2>3, <2>4, <2>5
<1>16. CASE RxDeliver
  <2>1. \/ Len(l.in) < InCap /\ Update(rx.obj, [l EXCEPT !.in = Append(l.in, f.info)])
        \/ obj' = obj
    BY <1>16 DEF RxDeliver
  <2>2. Len(l.in) < InCap => /\ Append(l.in, f.info) \in Seq(Info)
                             /\ Len(Append(l.in, f.info)) <= InCap
    BY <1>3, <1>4, Enqueue, Bounds
  <2>3. Moves(rx.obj)
    BY <1>3, <1>5, <2>1, <2>2, SetIn
  <2>4. rx' \in Rx /\ RxSound'
    BY <1>0, <1>8, <1>16 DEF RxDeliver, RxSound
  <2> QED
    BY <1>2, <1>16, <2>3, <2>4, SilentIO DEF RxDeliver
<1>17. CASE RxFinish
  <2>1. AckOf(f) \in Ack
    <3>1. f.type \in {"I", "RR", "RNR", "REJ", "SREJ"}
      BY <1>0, <1>17 DEF RxFinish, RxSound
    <3> QED
      BY <1>4, <3>1 DEF AckOf, Ack, AckType, IsResponse
  <2>2. Offer(l.ack, AckOf(f), AckCap) \in Seq(Ack) /\ Len(Offer(l.ack, AckOf(f), AckCap)) <= AckCap
    BY <1>3, <2>1, OfferFits, Bounds
  <2>3. Update(rx.obj, [l EXCEPT !.ack = Offer(l.ack, AckOf(f), AckCap)])
    BY <1>17 DEF RxFinish
  <2>4. Moves(rx.obj)
    BY <1>3, <1>5, <2>2, <2>3, SetAck
  <2>5. Silent \/ \E g \in Frame : Sends(l.remote, g)
    <3>1. rx.nr \in SeqNo
      BY <1>0 DEF Rx
    <3> QED
      BY <1>3, <1>4, <1>9, <1>17, <3>1 DEF RxFinish
  <2> QED
    BY <1>2, <1>3, <1>6, <1>17, <2>4, <2>5, SilentIO, SendsIO DEF RxFinish
<1>18. CASE RxClose
  <2>1. \/ /\ Update(rx.obj, [l EXCEPT !.open = FALSE]) /\ rx' = [rx EXCEPT !.pc = "closing"]
        \/ RxEnd /\ obj' = obj
    BY <1>18 DEF RxClose, Closed
  <2>2. Silent /\ links' = links
    BY <1>18 DEF RxClose
  <2> QED
    BY <1>2, <1>3, <1>5, <1>6, <1>7, <2>1, <2>2, Close, SilentIO
<1> QED
  BY <1>10, <1>11, <1>12, <1>13, <1>14, <1>15, <1>16, <1>17, <1>18 DEF RxStep

LEMMA Same ==
  ASSUME Typed, obj' = obj
  PROVE  /\ obj' \in [Obj -> Link] /\ \A p \in Obj : Good(obj'[p])
         /\ \A p \in Obj : Evolves(obj[p], obj'[p])
  BY DEF Typed, Evolves

\* A station calls, or a frame comes for a link.
LEMMA ReceiveOK ==
  ASSUME Typed, NEW r \in Remote, NEW f \in RxFrames, Receive(r, f)
  PROVE  Typed'
<1>0. rx \in Rx /\ RxSound /\ f \in Frame /\ 0 \in SeqNo /\ "rsp" \in Role
  BY DEF Typed, SeqNo, Role
<1>1. f.pf \in BOOLEAN /\ f.info \in Info
  BY <1>0 DEF Frame
<1>2. /\ Unnumbered("UA", "rsp", f.pf) \in Frame /\ Unnumbered("XID", "rsp", TRUE) \in Frame
      /\ Unnumbered("DM", "rsp", TRUE) \in Frame
      /\ [Unnumbered("TEST", "rsp", f.pf) EXCEPT !.info = f.info] \in Frame
  <2>1. Unnumbered("TEST", "rsp", f.pf) \in Frame
    BY <1>0, <1>1, FramesOK
  <2>2. [Unnumbered("TEST", "rsp", f.pf) EXCEPT !.info = f.info] \in Frame
    BY <1>1, <2>1 DEF Frame
  <2> QED
    BY <1>0, <1>1, <2>2, FramesOK
<1>3. CASE RxNoLink(r, f)
  <2>1. links' = links /\ obj' = obj /\ rx' = rx
    BY <1>3 DEF RxNoLink
  <2>2. Silent \/ \E g \in Frame : Sends(r, g)
    BY <1>2, <1>3 DEF RxNoLink
  <2>3. io' \in IO
    BY <2>2, SilentIO, SendsIO
  <2> QED
    BY <2>1, <2>3 DEF Typed, RxSound
<1>4. CASE RxAccept(r, f)
  <2>1. PICK o \in Obj : Update(o, NewLink(r)) /\ links' = [links EXCEPT ![r] = o]
    BY <1>4 DEF RxAccept
  <2>2. rx' = rx /\ io' \in IO
    BY <1>2, <1>4, SendsIO DEF RxAccept
  <2>3. Good(NewLink(r)) /\ NewLink(r) \in Link
    BY NewGood DEF Good
  <2>4. obj' \in [Obj -> Link] /\ \A p \in Obj : Good(obj'[p])
    BY <2>1, <2>3 DEF Typed, Update
  <2>5. links' \in [Remote -> Obj \cup {NoObj}]
    BY <2>1 DEF Typed
  <2> QED
    BY <2>2, <2>4, <2>5 DEF Typed, RxSound
<1>5. CASE RxStart(r, f)
  <2>1. /\ rx' = [pc |-> "apply", obj |-> links[r], frame |-> f, nr |-> 0]
        /\ links[r] # NoObj /\ links' = links /\ obj' = obj /\ io' \in IO
    BY <1>5, SilentIO DEF RxStart
  <2>2. links[r] \in Obj
    BY <2>1 DEF Typed
  <2>3. rx' \in Rx /\ RxSound'
    BY <1>0, <2>1, <2>2 DEF Rx, RxSound
  <2> QED
    BY <2>1, <2>3 DEF Typed
<1> QED
  BY <1>3, <1>4, <1>5 DEF Receive

\* close: the entry of the link goes, if it is still the link's.
LEMMA UnlinkOK ==
  ASSUME Typed, NEW o \in Obj, Unlink(o)
  PROVE  Typed'
<1>1. links' \in [Remote -> Obj \cup {NoObj}] /\ obj' = obj /\ rx' = rx /\ io' \in IO
  BY SilentIO DEF Typed, Unlink
<1> QED
  BY <1>1 DEF Typed, RxSound

LEMMA CollectOK ==
  ASSUME Typed, NEW o \in Obj, Collect(o)
  PROVE  Typed'
<1>1. FreeLink \in Link /\ Good(FreeLink)
  BY FreeGood DEF Good
<1>2. Update(o, FreeLink) /\ links' = links /\ rx' = rx /\ io' \in IO
  BY SilentIO DEF Collect
<1>3. obj' \in [Obj -> Link] /\ \A p \in Obj : Good(obj'[p])
  BY <1>1, <1>2 DEF Typed, Update
<1> QED
  BY <1>2, <1>3 DEF Typed, RxSound

\* The steps that leave m.links alone and change one link that is in use.
Local == RxStep \/ \E o \in Obj : TxStep(o) \/ TxT1(o) \/ RunStep(o) \/ PumpStep(o) \/ Service(o)

LEMMA LocalOK ==
  ASSUME Typed, Local
  PROVE  Typed' /\ links' = links /\ \A p \in Obj : Evolves(obj[p], obj'[p])
<1>1. CASE RxStep
  BY <1>1, RxStepOK, MovesTyped DEF Typed
<1>2. ASSUME NEW o \in Obj,
             TxStep(o) \/ TxT1(o) \/ RunStep(o) \/ PumpStep(o) \/ Service(o)
      PROVE  Typed' /\ links' = links /\ \A p \in Obj : Evolves(obj[p], obj'[p])
  <2>1. Moves(o) /\ io' \in IO
    BY <1>2, TxStepOK, RunStepOK, PumpStepOK, ServiceOK
  <2>2. links' = links /\ rx' = rx
    BY <1>2 DEF TxStep, TxTake, TxAdvance, TxReady, TxBusyAck, TxSend, TxAck, TxPoll, TxPollAck,
                TxAcked, TxFails, TxClose, TxSeesClosed, TxT1, At, RunStep, RunWaits,
                RunSendsDISC, RunAwaitsRelease, RunCloses, PumpStep, Service, ServiceWrites,
                ServiceReads, ServiceReturns
  <2> QED
    BY <2>1, <2>2, MovesTyped DEF Typed, RxSound
<1> QED
  BY <1>1, <1>2 DEF Local

LEMMA NextSplits ==
  Next => \/ \E r \in Remote, f \in RxFrames : Receive(r, f)
          \/ Local \/ \E o \in Obj : Unlink(o) \/ Collect(o)
  BY DEF Next, Local, Goroutine

LEMMA InitTyped == Init => Typed
<1> SUFFICES ASSUME Init PROVE Typed
  OBVIOUS
<1>1. FreeLink \in Link /\ Good(FreeLink)
  BY FreeGood DEF Good
<1>2. rx \in Rx /\ RxSound
  <2>1. 0 \in SeqNo /\ "v1" \in Role
    BY DEF SeqNo, Role
  <2>2. Unnumbered("UA", "v1", FALSE) \in Frame
    BY <2>1, FramesOK
  <2> QED
    BY <2>1, <2>2 DEF Init, RxIdle, Rx, RxSound
<1>3. io \in IO
  BY EmptySeq DEF Init, IO
<1> QED
  BY <1>1, <1>2, <1>3 DEF Init, Typed

LEMMA NextTyped == Typed /\ [Next]_vars => Typed'
<1> SUFFICES ASSUME Typed, [Next]_vars PROVE Typed'
  OBVIOUS
<1>1. CASE UNCHANGED vars
  BY <1>1 DEF vars, Typed, RxSound
<1> QED
  BY <1>1, NextSplits, ReceiveOK, LocalOK, UnlinkOK, CollectOK

\* Every queue stays within its channel's capacity, every counter within N2,
\* every register in its range, whatever frames the radio delivers, for any
\* capacities, modulus and number of links (inboundLink, Handle).
THEOREM TypeCorrect == Spec => []TypeOK
<1>1. Typed => TypeOK
  BY DEF Typed, Good, Fits, TypeOK
<1> QED
  BY <1>1, InitTyped, NextTyped, PTL DEF Spec

-----------------------------------------------------------------------------
(* m.links and the objects *)

Agreement == Typed /\ OpenLinksAreListed

LEMMA InitListed == Init => OpenLinksAreListed
  BY FreeGood DEF Init, OpenLinksAreListed

LEMMA NextListed == Agreement /\ [Next]_vars => OpenLinksAreListed'
<1> SUFFICES ASSUME Agreement, [Next]_vars PROVE OpenLinksAreListed'
  OBVIOUS
<1>0. Typed /\ OpenLinksAreListed
  BY DEF Agreement
<1>t. /\ links \in [Remote -> Obj \cup {NoObj}] /\ obj \in [Obj -> Link]
      /\ \A o \in Obj : obj[o].remote \in Remote
  BY <1>0, Fields DEF Typed
<1>1. CASE UNCHANGED vars
  BY <1>0, <1>1 DEF vars, OpenLinksAreListed
<1>2. ASSUME NEW r \in Remote, NEW f \in RxFrames, Receive(r, f)
      PROVE  OpenLinksAreListed'
  <2>1. CASE links' = links /\ obj' = obj
    BY <1>0, <2>1 DEF OpenLinksAreListed
  <2>2. CASE RxAccept(r, f)
    \* The object is in no entry, and no open link has the key.
    <3>1. PICK o \in Obj : /\ obj[o].r.pc = "free" /\ Update(o, NewLink(r))
                           /\ links' = [links EXCEPT ![r] = o]
      BY <2>2 DEF RxAccept
    <3>2. links[r] = NoObj
      BY <2>2 DEF RxAccept
    <3>3. /\ NewLink(r).remote = r /\ NewLink(r).open /\ NewLink(r).r.pc # "free"
          /\ NewLink(r) \in Link
      BY NewGood DEF NewLink, Good
    <3>4. obj'[o] = NewLink(r) /\ \A p \in Obj \ {o} : obj'[p] = obj[p]
      BY <1>t, <3>1, <3>3 DEF Update
    <3>5. links'[r] = o /\ \A q \in Remote \ {r} : links'[q] = links[q] /\ links[q] # o
      BY <1>0, <1>t, <3>1 DEF OpenLinksAreListed
    <3>6. \A p \in Obj \ {o} : obj[p].open => obj[p].remote # r
      BY <1>0, <1>t, <3>2 DEF OpenLinksAreListed
    <3>7. \A p \in Obj : obj'[p].open => links'[obj'[p].remote] = p
      BY <1>0, <1>t, <3>3, <3>4, <3>5, <3>6 DEF OpenLinksAreListed
    <3>8. \A q \in Remote : links'[q] # NoObj =>
             obj'[links'[q]].remote = q /\ obj'[links'[q]].r.pc # "free"
      BY <1>0, <1>t, <3>3, <3>4, <3>5 DEF OpenLinksAreListed
    <3> QED
      BY <3>7, <3>8 DEF OpenLinksAreListed
  <2> QED
    BY <1>2, <2>1, <2>2 DEF Receive, RxNoLink, RxStart
<1>3. CASE Local
  <2>1. links' = links /\ \A p \in Obj : Evolves(obj[p], obj'[p])
    BY <1>0, <1>3, LocalOK
  <2>2. \A p \in Obj : /\ obj'[p].remote = obj[p].remote /\ (obj'[p].open => obj[p].open)
                       /\ obj[p].r.pc # "free" => obj'[p].r.pc # "free"
    BY <2>1 DEF Evolves
  <2> QED
    BY <1>0, <1>t, <2>1, <2>2 DEF OpenLinksAreListed
<1>4. ASSUME NEW o \in Obj, Unlink(o)
      PROVE  OpenLinksAreListed'
  <2>1. /\ ~obj[o].open /\ links[obj[o].remote] = o /\ obj' = obj
        /\ links' = [links EXCEPT ![obj[o].remote] = NoObj]
    BY <1>4 DEF Unlink
  <2> QED
    BY <1>0, <1>t, <2>1 DEF OpenLinksAreListed
<1>5. ASSUME NEW o \in Obj, Collect(o)
      PROVE  OpenLinksAreListed'
  <2>1. links[obj[o].remote] # o /\ Update(o, FreeLink) /\ links' = links
    BY <1>5 DEF Collect
  <2>2. obj'[o] = FreeLink /\ \A p \in Obj \ {o} : obj'[p] = obj[p]
    BY <1>t, <2>1 DEF Update
  <2>3. \A r \in Remote : links[r] # o
    BY <1>0, <1>t, <2>1 DEF OpenLinksAreListed
  <2> QED
    BY <1>0, <1>t, <2>1, <2>2, <2>3, FreeGood DEF OpenLinksAreListed
<1> QED
  BY <1>1, <1>2, <1>3, <1>4, <1>5, NextSplits

\* m.links and the links agree through every way a link begins and ends: an
\* open link is the one its station's entry names, so no station ever has two,
\* and no entry names a link of another station or an object given up.
THEOREM LinksAgree == Spec => []OpenLinksAreListed
<1>1. Init => Agreement
  BY InitTyped, InitListed DEF Agreement
<1>2. Agreement /\ [Next]_vars => Agreement'
  BY NextTyped, NextListed DEF Agreement
<1>3. Agreement => OpenLinksAreListed
  BY DEF Agreement
<1> QED
  BY <1>1, <1>2, <1>3, PTL DEF Spec
=============================================================================
