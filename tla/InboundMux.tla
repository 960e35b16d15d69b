----------------------------- MODULE InboundMux -----------------------------
(***************************************************************************)
(* session.InboundMux and its inboundLinks (internal/session/inbound.go):  *)
(* the links other stations open to the services of this node.  For every  *)
(* link four goroutines share one inboundLink:                             *)
(*                                                                         *)
(*   rx    the radio dispatcher inside Handle, one frame at a time for     *)
(*         every link and port of the node;                                *)
(*   .t    transmit, sending the service's output chunk by chunk;          *)
(*   .r    run, waiting for the service and then releasing the link;       *)
(*   .p    the pump moving received data into the service's pipe.          *)
(*                                                                         *)
(* The pump in the other direction only adds one slot to l.tx and is left  *)
(* out; a chunk here is what fits into paclen.  The service is external:   *)
(* it reads, writes and returns when it likes.  Link parameters (T1, N2,   *)
(* paclen) only change durations and lengths, so XID only answers.         *)
(***************************************************************************)
EXTENDS AX25

CONSTANTS
    N2,             \* l.n2
    InCap,          \* capacity of l.in (32 in the code)
    TxCap,          \* capacity of l.tx (32)
    AckCap,         \* capacity of l.ack (8)
    ControlCap,     \* capacity of l.control (4)
    Remote,         \* calling stations, that is link keys
    Obj,            \* bound: inboundLink objects alive at a time
    NoObj,          \* `nil'
    RxFrames,       \* frames the radio may deliver for a link key
    Writes          \* chunks a service may write

ASSUME InboundAssumption ==
    /\ {N2, InCap, TxCap, AckCap, ControlCap} \subseteq Nat \ {0}
    /\ NoObj \notin Obj
    /\ Remote # {}
    /\ RxFrames \subseteq Frame
    /\ Writes \subseteq Data

VARIABLES
    links,      \* m.links
    obj,        \* the inboundLink objects
    rx,         \* the dispatcher
    io          \* what the last step handed to the ports and to the services

vars == <<links, obj, rx, io>>

-----------------------------------------------------------------------------
Transmit == [pc : {"take", "advance", "ready", "busyWait", "send",
                   "await", "poll", "pollWait", "acked", "fail", "done"},
             ns : SeqNo, nr : SeqNo, tries : 0 .. N2, waits : 0 .. N2,
             needSend : BOOLEAN]

Run == [pc : {"free", "service", "closing", "disc", "awaitRelease", "close", "done"},
        tries : 0 .. N2]

Pump == [pc : {"run", "ended"}, hand : Seq(Info)]

Link == [remote : Remote, open : BOOLEAN,
         vr : SeqNo, vs : SeqNo, va : SeqNo,
         peerBusy : BOOLEAN, rejectSent : BOOLEAN,
         in : Seq(Info), tx : Seq(Data), writing : BOOLEAN,
         ack : Seq(Ack), control : Seq(ControlEvent),
         t : Transmit, r : Run, p : Pump]

IdleTransmit == [pc |-> "take", ns |-> 0, nr |-> 0, tries |-> 0, waits |-> 0,
                 needSend |-> FALSE]

NewLink(remote) ==
    [remote |-> remote, open |-> TRUE, vr |-> 0, vs |-> 0, va |-> 0,
     peerBusy |-> FALSE, rejectSent |-> FALSE,
     in |-> <<>>, tx |-> <<>>, writing |-> TRUE, ack |-> <<>>, control |-> <<>>,
     t |-> IdleTransmit,
     r |-> [pc |-> "service", tries |-> 0],
     p |-> [pc |-> "run", hand |-> <<>>]]

\* An object nobody holds any more.
FreeLink ==
    [NewLink(CHOOSE r \in Remote : TRUE) EXCEPT
        !.open = FALSE, !.writing = FALSE, !.t.pc = "done", !.r.pc = "free",
        !.p.pc = "ended"]

Rx == [pc : {"idle", "apply", "deliver", "finish", "close", "closing"},
       obj : Obj \cup {NoObj}, frame : Frame, nr : SeqNo]

RxIdle == [pc |-> "idle", obj |-> NoObj, frame |-> Unnumbered("UA", "v1", FALSE),
           nr |-> 0]

Addressed == [to : Remote, frame : Frame]

IO == [tx : Seq(Addressed), up : Seq(Info), done : Seq(Data)]

TypeOK ==
    /\ links \in [Remote -> Obj \cup {NoObj}]
    /\ obj \in [Obj -> Link]
    /\ \A o \in Obj : /\ Len(obj[o].in) <= InCap
                      /\ Len(obj[o].tx) <= TxCap
                      /\ Len(obj[o].ack) <= AckCap
                      /\ Len(obj[o].control) <= ControlCap
                      /\ Len(obj[o].p.hand) <= 1
    /\ rx \in Rx
    /\ io \in IO

Init ==
    /\ links = [r \in Remote |-> NoObj]
    /\ obj = [o \in Obj |-> FreeLink]
    /\ rx = RxIdle
    /\ io = [tx |-> <<>>, up |-> <<>>, done |-> <<>>]

-----------------------------------------------------------------------------
(* Building blocks *)

Silent == io' = [tx |-> <<>>, up |-> <<>>, done |-> <<>>]

Sends(to, f) ==
    io' = [tx |-> <<[to |-> to, frame |-> f]>>, up |-> <<>>, done |-> <<>>]

Update(o, l) == obj' = [obj EXCEPT ![o] = l]

ValidNR(l, nr) == nr = l.va \/ nr = l.vs

Acknowledges(l, a) ==
    ValidNR(l, a.nr) /\ a.nr = Succ(l.t.ns) /\ ~IsReject(a)

\* close(l.closed) comes first, the entry of m.links goes in a second section.
Closed(l) == [l EXCEPT !.open = FALSE]

Unlink(o) ==
    /\ ~obj[o].open
    /\ links[obj[o].remote] = o
    /\ links' = [links EXCEPT ![obj[o].remote] = NoObj]
    /\ Silent
    /\ UNCHANGED <<obj, rx>>

\* All goroutines of the link have ended and nothing refers to it.
Collect(o) ==
    /\ obj[o].r.pc = "done" /\ obj[o].t.pc = "done" /\ obj[o].p.pc = "ended"
    /\ rx.obj # o /\ links[obj[o].remote] # o
    /\ Update(o, FreeLink)
    /\ Silent
    /\ UNCHANGED <<links, rx>>

-----------------------------------------------------------------------------
(* Handle without a link for the key *)

\* Every command but SABM is refused with DM(F=1); XID and TEST are answered.
RxNoLink(r, f) ==
    /\ rx.pc = "idle" /\ links[r] = NoObj
    /\ f.type # "SABM" \/ ~IsCommand(f)
    /\ CASE ~IsCommand(f) -> Silent
         [] IsCommand(f) /\ f.type = "XID" ->
               IF f.pf /\ f.info # Unacceptable
               THEN Sends(r, Unnumbered("XID", "rsp", TRUE)) ELSE Silent
         [] IsCommand(f) /\ f.type = "TEST" ->
               Sends(r, [Unnumbered("TEST", "rsp", f.pf) EXCEPT !.info = f.info])
         [] IsCommand(f) /\ f.type = "UI" /\ ~f.pf -> Silent
         [] OTHER -> Sends(r, Unnumbered("DM", "rsp", TRUE))
    /\ UNCHANGED <<links, obj, rx>>

\* Mutant: every SABM opens a link, even one for a key in use.
RxAcceptAlways(r, f) ==
    /\ rx.pc = "idle"
    /\ f.type = "SABM" /\ IsCommand(f)
    /\ \E o \in Obj :
        /\ obj[o].r.pc = "free"
        /\ Update(o, NewLink(r))
        /\ links' = [links EXCEPT ![r] = o]
    /\ Sends(r, Unnumbered("UA", "rsp", f.pf))
    /\ UNCHANGED rx

RxAccept(r, f) ==
    /\ rx.pc = "idle" /\ links[r] = NoObj
    /\ f.type = "SABM" /\ IsCommand(f)
    /\ \E o \in Obj :
        /\ obj[o].r.pc = "free"
        /\ Update(o, NewLink(r))
        /\ links' = [links EXCEPT ![r] = o]
    /\ Sends(r, Unnumbered("UA", "rsp", f.pf))
    /\ UNCHANGED rx

-----------------------------------------------------------------------------
(* Handle for a link it looked up; the link may close under it *)

RxStart(r, f) ==
    /\ rx.pc = "idle" /\ links[r] # NoObj
    /\ rx' = [pc |-> "apply", obj |-> links[r], frame |-> f, nr |-> 0]
    /\ Silent
    /\ UNCHANGED <<links, obj>>

Applying(types) == rx.pc = "apply" /\ rx.frame.type \in types

L == obj[rx.obj]

RxEnd == rx' = RxIdle

RxAnswer ==
    /\ Applying({"TEST", "UI", "XID", "SABME", "FRMR"})
    /\ LET f == rx.frame IN
        CASE f.type = "TEST" /\ IsCommand(f) ->
               Sends(L.remote, [Unnumbered("TEST", "rsp", f.pf) EXCEPT !.info = f.info])
          [] f.type = "UI" /\ IsCommand(f) /\ f.pf ->
               Sends(L.remote, Supervisory("RR", "rsp", TRUE, L.vr))
          [] f.type = "XID" /\ IsCommand(f) /\ f.pf /\ f.info # Unacceptable ->
               Sends(L.remote, Unnumbered("XID", "rsp", TRUE))
          [] OTHER -> Silent
    /\ RxEnd
    /\ UNCHANGED <<links, obj>>

\* UA and DM answer a DISC of run; DM also ends the link.
RxModeResponse ==
    /\ Applying({"UA", "DM"})
    /\ LET f == rx.frame IN
        IF IsResponse(f)
        THEN /\ Update(rx.obj, [L EXCEPT !.control =
                    Offer(@, [type |-> f.type, answer |-> f.pf], ControlCap)])
             /\ IF f.type = "DM" THEN rx' = [rx EXCEPT !.pc = "close"] ELSE RxEnd
        ELSE RxEnd /\ UNCHANGED obj
    /\ Silent
    /\ UNCHANGED links

RxDISC ==
    /\ Applying({"DISC"})
    /\ IF IsCommand(rx.frame)
       THEN /\ Sends(L.remote, Unnumbered("UA", "rsp", rx.frame.pf))
            /\ rx' = [rx EXCEPT !.pc = "close"]
       ELSE Silent /\ RxEnd
    /\ UNCHANGED <<links, obj>>

\* A repeated SABM resets the numbers, neither peerBusy nor rejectSent, and
\* transmit is not told.
RxSABM ==
    /\ Applying({"SABM"})
    /\ IF IsCommand(rx.frame)
       THEN /\ Update(rx.obj, [L EXCEPT !.vr = 0, !.vs = 0, !.va = 0])
            /\ Sends(L.remote, Unnumbered("UA", "rsp", rx.frame.pf))
       ELSE Silent /\ UNCHANGED obj
    /\ RxEnd
    /\ UNCHANGED links

RxSupervisory ==
    /\ Applying({"RR", "RNR", "REJ", "SREJ"})
    /\ Update(rx.obj, [L EXCEPT !.peerBusy = (rx.frame.type = "RNR")])
    /\ rx' = [rx EXCEPT !.pc = "finish", !.nr = L.vr]
    /\ Silent
    /\ UNCHANGED links

\* An I frame that is a response, too long or not of PID F0 is ignored.
RxInformation ==
    /\ Applying({"I"})
    /\ LET f == rx.frame
           usable == IsCommand(f) /\ f.info \notin {Oversize, Unacceptable}
       IN
        \/ /\ usable /\ f.ns = L.vr
           /\ Update(rx.obj, [L EXCEPT !.vr = Succ(@), !.rejectSent = FALSE])
           /\ rx' = [rx EXCEPT !.pc = "deliver"]
           /\ Silent
        \/ /\ usable /\ f.ns # L.vr
           /\ Update(rx.obj, [L EXCEPT !.rejectSent = TRUE])
           /\ IF L.rejectSent THEN Silent
              ELSE Sends(L.remote, Supervisory("REJ", "rsp", f.pf, L.vr))
           /\ RxEnd
        \/ /\ ~usable
           /\ RxEnd
           /\ Silent
           /\ UNCHANGED obj
    /\ UNCHANGED links

\* Mutant: the dispatcher does not see that the link closes.
RxDeliverStubbornly ==
    /\ rx.pc = "deliver" /\ Len(L.in) < InCap
    /\ Update(rx.obj, [L EXCEPT !.in = Append(@, rx.frame.info)])
    /\ rx' = [rx EXCEPT !.pc = "finish"]
    /\ Silent
    /\ UNCHANGED links

\* The dispatcher itself waits for room in l.in, or for the link to close.
RxDeliver ==
    /\ rx.pc = "deliver"
    /\ \/ /\ Len(L.in) < InCap
          /\ Update(rx.obj, [L EXCEPT !.in = Append(@, rx.frame.info)])
       \/ /\ ~L.open
          /\ UNCHANGED obj
    /\ rx' = [rx EXCEPT !.pc = "finish"]
    /\ Silent
    /\ UNCHANGED links

\* Tell transmit about N(R), then answer: a poll with the V(R) read before,
\* an I frame with the current one.
RxFinish ==
    /\ rx.pc = "finish"
    /\ LET f == rx.frame IN
        /\ Update(rx.obj, [L EXCEPT !.ack = Offer(@, AckOf(f), AckCap)])
        /\ IF f.type = "I" THEN Sends(L.remote, Supervisory("RR", "rsp", f.pf, L.vr))
           ELSE IF f.pf /\ IsCommand(f) /\ f.type \in {"RR", "RNR", "REJ", "SREJ"}
           THEN Sends(L.remote, Supervisory("RR", "rsp", TRUE, rx.nr))
           ELSE Silent
    /\ RxEnd
    /\ UNCHANGED links

\* link.close() returns when the entry is gone, whoever closes it first.
RxClose ==
    \/ /\ rx.pc = "close"
       /\ Update(rx.obj, Closed(L))
       /\ rx' = [rx EXCEPT !.pc = "closing"]
       /\ Silent
       /\ UNCHANGED links
    \/ /\ rx.pc = "closing" /\ links[L.remote] # rx.obj
       /\ RxEnd
       /\ Silent
       /\ UNCHANGED <<links, obj>>

-----------------------------------------------------------------------------
(* transmit: the goroutine that sends what the service writes *)

Step(o, t) == Update(o, [obj[o] EXCEPT !.t = t])

At(o, pc) == obj[o].t.pc = pc /\ UNCHANGED <<links, rx>>

Proceed(t) ==
    [t EXCEPT !.waits = 0, !.pc = IF t.needSend THEN "send" ELSE "await"]

\* Mutant: the attempts are not counted.
AttemptUncounted(t) == [t EXCEPT !.pc = "ready", !.waits = 0]

Attempt(t) == [t EXCEPT !.pc = "ready", !.tries = @ + 1, !.waits = 0]

TxTake(o) ==
    /\ At(o, "take")
    /\ LET l == obj[o] IN
        \/ /\ l.tx # <<>>
           /\ Step(o, [l.t EXCEPT !.pc = "advance", !.ns = l.vs, !.nr = l.vr,
                                  !.tries = 0, !.waits = 0, !.needSend = TRUE])
        \/ /\ l.tx = <<>> /\ ~l.writing
           /\ Step(o, [IdleTransmit EXCEPT !.pc = "done"])
    /\ Silent

TxAdvance(o) ==
    /\ At(o, "advance")
    /\ Update(o, [obj[o] EXCEPT !.vs = Succ(obj[o].t.ns), !.t.pc = "ready"])
    /\ Silent

\* Mutant: one attempt more than N2.
TxReadyOnceMore(o) ==
    /\ At(o, "ready")
    /\ LET l == obj[o] IN
        /\ l.t.tries <= N2 /\ l.t.waits < N2
        /\ ~l.peerBusy
        /\ Step(o, Proceed(l.t))
    /\ Silent

\* waitRemoteReady: an idle peer lets the attempt go on, a busy one is polled
\* after the queued acknowledgements were thrown away.
TxReady(o) ==
    /\ At(o, "ready")
    /\ LET l == obj[o] IN
        /\ l.t.tries < N2 /\ l.t.waits < N2
        /\ \/ /\ ~l.peerBusy
              /\ Step(o, Proceed(l.t))
              /\ Silent
           \/ /\ l.peerBusy
              /\ Update(o, [l EXCEPT !.ack = <<>>, !.t.pc = "busyWait"])
              /\ Sends(l.remote, Supervisory("RR", "rsp", TRUE, l.vr))

\* Any acknowledgement but the awaited one uses up one of the N2 polls.
TxBusyAck(o) ==
    /\ At(o, "busyWait")
    /\ LET l == obj[o] IN
        /\ l.ack # <<>>
        /\ LET a == Head(l.ack)
               ready == a.answer /\ a.type = "RR" /\ ~l.peerBusy
           IN Update(o, [l EXCEPT !.ack = Tail(@),
                 !.t = IF ready THEN Proceed(@) ELSE [l.t EXCEPT !.pc = "ready", !.waits = @ + 1]])
    /\ Silent

TxSend(o) ==
    /\ At(o, "send")
    /\ LET l == obj[o] IN
        /\ Step(o, [l.t EXCEPT !.pc = "await", !.needSend = FALSE])
        /\ Sends(l.remote, Information(l.t.ns, l.t.nr, FALSE, Head(l.tx)))

\* An acknowledgement of something else uses up an attempt as T1 does.
TxAck(o) ==
    /\ At(o, "await")
    /\ LET l == obj[o] IN
        /\ l.ack # <<>>
        /\ LET a == Head(l.ack) IN
            Update(o, [l EXCEPT !.ack = Tail(@),
                !.t = IF Acknowledges(l, a) THEN [@ EXCEPT !.pc = "acked"]
                      ELSE Attempt([@ EXCEPT !.needSend =
                               l.t.needSend \/ (IsReject(a) /\ a.nr = l.t.ns)])])
    /\ Silent

\* The enquiry goes out through sendControl, that is as a response.
TxPoll(o) ==
    /\ At(o, "poll")
    /\ Step(o, [obj[o].t EXCEPT !.pc = "pollWait"])
    /\ Sends(obj[o].remote, Supervisory("RR", "rsp", TRUE, obj[o].t.nr))

TxPollAck(o) ==
    /\ At(o, "pollWait")
    /\ LET l == obj[o] IN
        /\ l.ack # <<>>
        /\ LET a == Head(l.ack) IN
            Update(o, [l EXCEPT !.ack = Tail(@),
                !.t = IF ~a.answer THEN @
                      ELSE IF Acknowledges(l, a) THEN [@ EXCEPT !.pc = "acked"]
                      ELSE Attempt([@ EXCEPT !.needSend = TRUE])])
    /\ Silent

TxT1(o) ==
    /\ UNCHANGED <<links, rx>>
    /\ LET t == obj[o].t IN
        \/ t.pc = "await"    /\ Step(o, [t EXCEPT !.pc = "poll"])
        \/ t.pc = "pollWait" /\ Step(o, Attempt(t))
        \/ t.pc = "busyWait" /\ Step(o, [t EXCEPT !.pc = "ready", !.waits = @ + 1])
    /\ Silent

TxAcked(o) ==
    /\ At(o, "acked")
    /\ LET l == obj[o] IN
        /\ Update(o, [l EXCEPT !.va = Succ(l.t.ns), !.tx = Tail(@), !.t.pc = "take"])
        /\ io' = [tx |-> <<>>, up |-> <<>>, done |-> <<Head(l.tx)>>]

\* The attempts are used up, or the port refused a frame.
TxFails(o) ==
    /\ UNCHANGED <<links, rx>>
    /\ LET t == obj[o].t IN
        /\ \/ t.pc = "ready" /\ (t.tries = N2 \/ t.waits = N2 \/ obj[o].peerBusy)
           \/ t.pc \in {"send", "poll"}
        /\ Step(o, [t EXCEPT !.pc = "fail"])
    /\ Silent

\* transmit closes the link without a DISC.
TxClose(o) ==
    /\ At(o, "fail")
    /\ Update(o, [Closed(obj[o]) EXCEPT !.t = [IdleTransmit EXCEPT !.pc = "done"]])
    /\ Silent

TxSeesClosed(o) ==
    /\ UNCHANGED <<links, rx>>
    /\ ~obj[o].open
    /\ obj[o].t.pc \in {"take", "await", "pollWait", "busyWait"}
    /\ Step(o, [IdleTransmit EXCEPT !.pc = "done"])
    /\ Silent

-----------------------------------------------------------------------------
(* The service, the pump that feeds it, and run around it *)

ServiceWrites(o, d) ==
    /\ obj[o].r.pc = "service" /\ obj[o].open
    /\ Len(obj[o].tx) < TxCap
    /\ Update(o, [obj[o] EXCEPT !.tx = Append(@, d)])
    /\ Silent
    /\ UNCHANGED <<links, rx>>

ServiceReads(o) ==
    /\ obj[o].r.pc = "service" /\ obj[o].p.hand # <<>>
    /\ io' = [tx |-> <<>>, up |-> obj[o].p.hand, done |-> <<>>]
    /\ Update(o, [obj[o] EXCEPT !.p.hand = <<>>])
    /\ UNCHANGED <<links, rx>>

\* The service is done; run closes the writing end of its pipe.
ServiceReturns(o) ==
    /\ obj[o].r.pc = "service"
    /\ Update(o, [obj[o] EXCEPT !.r.pc = "closing", !.writing = FALSE])
    /\ Silent
    /\ UNCHANGED <<links, rx>>

\* pw.Write blocks until the service reads; nothing closes the reading end.
PumpStep(o) ==
    /\ obj[o].p.pc = "run" /\ obj[o].p.hand = <<>>
    /\ \/ /\ obj[o].in # <<>>
          /\ Update(o, [obj[o] EXCEPT !.p.hand = <<Head(obj[o].in)>>, !.in = Tail(@)])
       \/ /\ ~obj[o].open
          /\ Update(o, [obj[o] EXCEPT !.p.pc = "ended"])
    /\ Silent
    /\ UNCHANGED <<links, rx>>

\* All output was acknowledged: release the link; or it is closed already.
RunWaits(o) ==
    /\ obj[o].r.pc = "closing"
    /\ \/ /\ obj[o].t.pc = "done"
          /\ Update(o, [obj[o] EXCEPT !.r.pc = "disc", !.control = <<>>])
       \/ /\ ~obj[o].open
          /\ Update(o, [obj[o] EXCEPT !.r.pc = "done"])
    /\ Silent
    /\ UNCHANGED <<links, rx>>

RunSendsDISC(o) ==
    /\ obj[o].r.pc = "disc" /\ obj[o].r.tries < N2
    /\ \/ /\ Sends(obj[o].remote, Unnumbered("DISC", "cmd", TRUE))
          /\ Update(o, [obj[o] EXCEPT !.r.pc = "awaitRelease"])
       \/ /\ Silent                         \* the port refused the frame
          /\ Update(o, [obj[o] EXCEPT !.r.pc = "close"])
    /\ UNCHANGED <<links, rx>>

RunAwaitsRelease(o) ==
    /\ obj[o].r.pc = "awaitRelease"
    /\ LET l == obj[o]
           again == [l.r EXCEPT !.pc = "disc", !.tries = @ + 1]
       IN
        \/ /\ l.control # <<>>
           /\ Update(o, [l EXCEPT !.control = Tail(@),
                 !.r = IF Head(l.control).answer THEN [@ EXCEPT !.pc = "close"]
                                                 ELSE again])
        \/ Update(o, [l EXCEPT !.r = again])                        \* T1
        \/ ~l.open /\ Update(o, [l EXCEPT !.r.pc = "close"])
    /\ Silent
    /\ UNCHANGED <<links, rx>>

RunCloses(o) ==
    /\ \/ obj[o].r.pc = "close"
       \/ obj[o].r.pc = "disc" /\ obj[o].r.tries = N2
    /\ Update(o, [Closed(obj[o]) EXCEPT !.r = [pc |-> "done", tries |-> 0]])
    /\ Silent
    /\ UNCHANGED <<links, rx>>

-----------------------------------------------------------------------------
(* The specification *)

Receive(r, f) == RxNoLink(r, f) \/ RxAccept(r, f) \/ RxStart(r, f)

RxStep ==
    \/ RxAnswer \/ RxModeResponse \/ RxDISC \/ RxSABM \/ RxSupervisory
    \/ RxInformation \/ RxDeliver \/ RxFinish \/ RxClose

TxStep(o) ==
    \/ TxTake(o) \/ TxAdvance(o) \/ TxReady(o) \/ TxBusyAck(o) \/ TxSend(o)
    \/ TxAck(o) \/ TxPoll(o) \/ TxPollAck(o) \/ TxAcked(o) \/ TxFails(o)
    \/ TxClose(o) \/ TxSeesClosed(o)

RunStep(o) ==
    RunWaits(o) \/ RunSendsDISC(o) \/ RunAwaitsRelease(o) \/ RunCloses(o)

Goroutine(o) ==
    TxStep(o) \/ TxT1(o) \/ RunStep(o) \/ PumpStep(o) \/ Unlink(o)

Service(o) ==
    \/ \E d \in Writes : ServiceWrites(o, d)
    \/ ServiceReads(o) \/ ServiceReturns(o)

Next ==
    \/ \E r \in Remote, f \in RxFrames : Receive(r, f)
    \/ RxStep
    \/ \E o \in Obj : Goroutine(o) \/ Service(o) \/ Collect(o)

Spec == Init /\ [][Next]_vars

\* Goroutines that can run are scheduled and timers expire.
Scheduling ==
    /\ WF_vars(RxStep)
    /\ \A o \in Obj :
        /\ WF_vars(TxStep(o)) /\ SF_vars(TxT1(o)) /\ WF_vars(RunStep(o))
        /\ WF_vars(PumpStep(o)) /\ WF_vars(Unlink(o)) /\ WF_vars(Collect(o))

\* A service whose link is closed sees end of file, or an error, and returns.
ServiceEnds(o) == ~obj[o].open /\ (ServiceReads(o) \/ ServiceReturns(o))

FairSpec == Spec /\ Scheduling /\ \A o \in Obj : WF_vars(ServiceEnds(o))

-----------------------------------------------------------------------------
(* Properties *)

\* m.links and the objects agree through every way a link ends: an open link
\* is the one its key names, so a station never has two, and an entry never
\* names an object of another station or one given up (Handle, close).
OpenLinksAreListed ==
    /\ \A o \in Obj : obj[o].open => links[obj[o].remote] = o
    /\ \A r \in Remote : links[r] # NoObj =>
           obj[links[r]].remote = r /\ obj[links[r]].r.pc # "free"

\* However a link is closed (by its peer, by transmit or by run) and whatever
\* its goroutines wait for then, transmit and run end and its key is free.
ClosedLinksWindDown ==
    \A o \in Obj :
        (obj[o].r.pc # "free" /\ ~obj[o].open) ~>
            (/\ obj[o].t.pc = "done"
             /\ obj[o].r.pc \in {"done", "free"}
             /\ links[obj[o].remote] # o)

\* docs/architecture.md: a slow subscriber must not block a radio port, so the
\* dispatcher gets every frame off its hands (`link.in <- data' in Handle).
DispatcherReturns == (rx.pc # "idle") ~> (rx.pc = "idle")
=============================================================================
