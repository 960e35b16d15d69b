----------------------------- MODULE Forwarding -----------------------------
(***************************************************************************)
(* BBSs that forward mail to one another (internal/bbs): the stores and    *)
(* their files, the two goroutines of each BBS that plan queues, its       *)
(* forwarder, and the handlers that take messages in for its partners.     *)
(*                                                                         *)
(* The B2F protocol itself is the library wl2k-go; its order of proposals, *)
(* answers, messages and confirmation is modelled from the calls it makes  *)
(* into b2fMailbox.  All proposals of a session fit in one of its blocks.  *)
(* The queue of a session and what is on its way are sets of messages,     *)
(* which are proposed, sent and taken in by number, the oldest first.      *)
(***************************************************************************)
EXTENDS BBSStore

CONSTANTS
    Bbs,          \* BBSs, also the identifiers of partners
    Letter,       \* what users will post: at, type, from, to, dest, text
    Login,        \* [Bbs -> SUBSET User]: who reads and kills where
    Partners,     \* [Bbs -> Seq(Bbs)]: the enabled telnet peers, in order
    Routes,       \* [Bbs -> [Bbs -> SUBSET Address]]: PrivateRoutes
    Scopes,       \* [Bbs -> [Bbs -> SUBSET Address]]: BulletinScopes
    Deferring,    \* BBSs of other software, which may answer "later"
    MaxMessages,  \* messages per plan and per session
    MaxFaults     \* failed saves and crashes in a behaviour

ASSUME ForwardingAssumption ==
    /\ Peer = Bbs
    /\ Partners \in [Bbs -> Seq(Bbs)] /\ Login \in [Bbs -> SUBSET User]
    /\ Letter \subseteq [home: Bbs, type: {"P", "B"}, from: User, to: Address,
                         at: Address \cup {NoAddress}, text: Text]
    /\ MaxMessages \in Nat \ {0} /\ MaxFaults \in Nat

VARIABLES
    mem,        \* Store.data of each BBS
    disk,       \* its file
    plan,       \* <<peer, number>> pairs a planning round has still to queue
    fwd,        \* the forwarder of each BBS and the session it has open
    wire,       \* messages of that session its peer has still to take in
    late,       \* the same for a session the forwarder has already given up
    posted,     \* texts handed to a BBS
    faults      \* failed saves and crashes so far

vars == <<mem, disk, plan, fwd, wire, late, posted, faults>>

-----------------------------------------------------------------------------
\* Both the QueuePlanner and the Forwarder prepare the queues.
Planner == {"planner", "forwarder"}

PartnerSet(b) == {Partners[b][i] : i \in DOMAIN Partners[b]}

\* matchesPeer; a pattern is the set of addresses it matches.
MatchesPeer(b, m, p) ==
    \/ m.type = "P" /\ (IF m.at = NoAddress THEN m.to ELSE m.at) \in Routes[b][p]
    \/ m.type = "B" /\ m.to \in Scopes[b][p]

Wanted(b, m, p) == m.forward[p] = "none" /\ MatchesPeer(b, m, p)

\* PlanForwarding over the messages of now: the first ones of every peer.
PlanForwarding(b) ==
    LET mail == mem[b].mail
        Before(j, p) == {k \in 1..(j - 1) : Wanted(b, mail[k], p)}
    IN  UNION {{<<p, mail[j].id>> :
            j \in {i \in DOMAIN mail :
                Wanted(b, mail[i], p) /\ Cardinality(Before(i, p)) < MaxMessages}} :
            p \in PartnerSet(b)}

Idle == [pc |-> "idle", left |-> <<>>, queue |-> {}, sent |-> {}, deferred |-> {}]

PeerOf(b) == Head(fwd[b].left)

InSession(b) == fwd[b].pc \in {"answer", "sent"}

Proposed(queue) == {m.bid : m \in queue}

HungUpAsSent(f) ==
    [f EXCEPT !.pc = "flush", !.sent = Proposed(f.queue) \ f.deferred]

\* The session is over, by FQ or by a broken connection: flushResults is next.
HungUp(f) == [f EXCEPT !.pc = "flush"]

\* The forwarder turns to its next peer or waits for the next round.
Onward(f) ==
    IF Len(f.left) = 1 THEN Idle
    ELSE [Idle EXCEPT !.pc = "peers", !.left = Tail(f.left)]

OnWireWithAt(m) ==
    [id |-> m.id, type |-> m.type, from |-> m.from, to |-> m.to, at |-> m.at,
     bid |-> m.bid, text |-> m.text]

\* GetOutbound sends To and not At: the peer sees no further address.
OnWire(m) == [id |-> m.id, type |-> m.type, from |-> m.from, to |-> m.to,
              at |-> NoAddress, bid |-> m.bid, text |-> m.text]

IsOldest(m, messages) == \A n \in messages : m.id <= n.id

\* byMID: of two queued messages with one BID the map has the last.
InMap(m, queue) == \A n \in queue : n.bid = m.bid => n.id <= m.id

-----------------------------------------------------------------------------
Init ==
    /\ mem = [b \in Bbs |-> EmptyStore]
    /\ disk = mem
    /\ plan = [b \in Bbs |-> [g \in Planner |-> {}]]
    /\ fwd = [b \in Bbs |-> Idle]
    /\ wire = [b \in Bbs |-> {}]
    /\ late = [b \in Bbs |-> {}]
    /\ posted = {}
    /\ faults = 0

\* saveLocked: the file is replaced as a whole, or an error is returned and
\* the change stays in memory.
Saved(b, s) ==
    /\ mem' = [mem EXCEPT ![b] = s]
    /\ disk' = [disk EXCEPT ![b] = s]
    /\ UNCHANGED faults

SaveFails(b, s) ==
    /\ faults < MaxFaults
    /\ mem' = [mem EXCEPT ![b] = s]
    /\ faults' = faults + 1
    /\ UNCHANGED disk

Written(b, s) == Saved(b, s) \/ SaveFails(b, s)

-----------------------------------------------------------------------------
(* Users at the BBS.                                                       *)

\* compose: the trigger that follows only hastens the forwarder's next round.
Post(l) ==
    /\ l.text \notin posted
    /\ posted' = posted \cup {l.text}
    /\ Written(l.home, Send(mem[l.home], l))
    /\ UNCHANGED <<plan, fwd, wire, late>>

UserReads(b, u, m) ==
    /\ m \in Visible(mem[b], u)
    /\ u \notin m.read
    /\ Written(b, Read(mem[b], u, m.id))
    /\ UNCHANGED <<plan, fwd, wire, late, posted>>

\* K by number: the listing need not show the message any more.
UserKills(b, u, m) ==
    /\ Addressed(m, u)
    /\ Written(b, Delete(mem[b], u, m.id))
    /\ UNCHANGED <<plan, fwd, wire, late, posted>>

-----------------------------------------------------------------------------
(* Planning: a look at the messages, later one QueueForward per peer.      *)

PlannerLooks(b) ==
    /\ plan[b]["planner"] = {}
    /\ plan' = [plan EXCEPT ![b]["planner"] = PlanForwarding(b)]
    /\ UNCHANGED <<mem, disk, fwd, wire, late, posted, faults>>

\* A round of Forwarder.Run, on its ticker or after a trigger.
ForwarderLooks(b) ==
    /\ fwd[b].pc = "idle" /\ Partners[b] # <<>>
    /\ plan' = [plan EXCEPT ![b]["forwarder"] = PlanForwarding(b)]
    /\ fwd' = [fwd EXCEPT ![b] = [Idle EXCEPT !.pc = "peers", !.left = Partners[b]]]
    /\ UNCHANGED <<mem, disk, wire, late, posted, faults>>

\* PrepareQueues stops at the first save that fails.
QueuePeer(b, g) ==
    \E p \in {x[1] : x \in plan[b][g]} :
        LET ids == {x[2] : x \in {y \in plan[b][g] : y[1] = p}}
            s   == QueueForward(mem[b], p, ids)
        IN  /\ \/ /\ Saved(b, s)
                  /\ plan' = [plan EXCEPT ![b][g] = {x \in @ : x[1] # p}]
               \/ /\ SaveFails(b, s)
                  /\ plan' = [plan EXCEPT ![b][g] = {}]
            /\ UNCHANGED <<fwd, wire, late, posted>>

-----------------------------------------------------------------------------
(* The session of a forwarder with the peer at the head of its list.       *)

AtPeer(b) == fwd[b].pc = "peers" /\ plan[b]["forwarder"] = {}

QueueOfPeer(b) == ForwardQueue(mem[b], PeerOf(b), MaxMessages)

\* A dial that fails is a connection that breaks before the first answer.
Dial(b) ==
    /\ AtPeer(b) /\ QueueOfPeer(b) # {}
    /\ fwd' = [fwd EXCEPT ![b].pc = "answer", ![b].queue = QueueOfPeer(b)]
    /\ UNCHANGED <<mem, disk, plan, wire, late, posted, faults>>

NothingToSend(b) ==
    /\ AtPeer(b) /\ QueueOfPeer(b) = {}
    /\ fwd' = [fwd EXCEPT ![b] = Onward(@)]
    /\ UNCHANGED <<mem, disk, plan, wire, late, posted, faults>>

\* GetInboundAnswer of the peer for every proposal; what it accepts is sent.
\* A UltimatePR never defers, other software may.
Answer(b, deferred) ==
    /\ fwd[b].pc = "answer"
    /\ fwd' = [fwd EXCEPT ![b].pc = "sent", ![b].deferred = deferred]
    /\ wire' = [wire EXCEPT ![b] =
            {OnWire(m) : m \in {n \in fwd[b].queue :
                ~HasBID(mem[PeerOf(b)], n.bid) /\ n.bid \notin deferred}}]
    /\ UNCHANGED <<mem, disk, plan, late, posted, faults>>

PeerAnswers(b) ==
    /\ fwd[b].pc = "answer"
    /\ \E deferred \in SUBSET Proposed(fwd[b].queue) :
        /\ (deferred = {} \/ PeerOf(b) \in Deferring)
        /\ Answer(b, deferred)

\* ProcessInbound, message by message; a duplicate is not saved, a failed save
\* ends the session.
TakeIn(b) ==
    /\ fwd[b].pc = "sent"
    /\ \E m \in wire[b] :
        /\ IsOldest(m, wire[b])
        /\ LET p == PeerOf(b)
               s == Import(mem[p], m)
           IN  \/ /\ \/ s = mem[p] /\ UNCHANGED <<mem, disk, faults>>
                     \/ s # mem[p] /\ Saved(p, s)
                  /\ wire' = [wire EXCEPT ![b] = @ \ {m}]
                  /\ UNCHANGED fwd
               \/ /\ s # mem[p] /\ SaveFails(p, s)
                  /\ wire' = [wire EXCEPT ![b] = {}]
                  /\ fwd' = [fwd EXCEPT ![b] = HungUp(@)]
    /\ UNCHANGED <<plan, late, posted>>

\* The peer's turn: the library reports accepted and rejected proposals sent.
Confirm(b) ==
    /\ fwd[b].pc = "sent" /\ wire[b] = {}
    /\ fwd' = [fwd EXCEPT ![b] =
            [HungUp(@) EXCEPT !.sent = Proposed(fwd[b].queue) \ fwd[b].deferred]]
    /\ UNCHANGED <<mem, disk, plan, wire, late, posted, faults>>

\* The other handler keeps at most what it had received already.
Abandon(b) ==
    /\ wire' = [wire EXCEPT ![b] = {}]
    /\ \/ UNCHANGED late
       \/ /\ late[b] = {}
          /\ \E last \in wire[b] :
              late' = [late EXCEPT ![b] =
                  {[to |-> PeerOf(b), msg |-> m] : m \in {n \in wire[b] : n.id <= last.id}}]

\* The connection breaks or its deadline passes: nothing was confirmed.
Break(b) ==
    /\ InSession(b)
    /\ fwd' = [fwd EXCEPT ![b] = HungUp(@)]
    /\ Abandon(b)
    /\ UNCHANGED <<mem, disk, plan, posted, faults>>

TakeInLate(b) ==
    /\ \E x \in late[b] :
        /\ \A y \in late[b] : x.msg.id <= y.msg.id
        /\ LET s == Import(mem[x.to], x.msg)
           IN  \/ /\ \/ s = mem[x.to] /\ UNCHANGED <<mem, disk, faults>>
                     \/ s # mem[x.to] /\ Saved(x.to, s)
                  /\ late' = [late EXCEPT ![b] = @ \ {x}]
               \/ /\ s # mem[x.to] /\ SaveFails(x.to, s)
                  /\ late' = [late EXCEPT ![b] = {}]
    /\ UNCHANGED <<plan, fwd, wire, posted>>

\* flushResults: one RecordForward, and one save, per result; errors ignored.
Record(b) ==
    /\ fwd[b].pc = "flush"
    /\ \E m \in fwd[b].queue :
        /\ m.bid \in fwd[b].sent \cup fwd[b].deferred /\ InMap(m, fwd[b].queue)
        /\ Written(b, RecordForward(mem[b], PeerOf(b), m.id, m.bid \in fwd[b].sent))
        /\ fwd' = [fwd EXCEPT ![b].sent = @ \ {m.bid}, ![b].deferred = @ \ {m.bid}]
    /\ UNCHANGED <<plan, wire, late, posted>>

Flushed(b) ==
    /\ fwd[b].pc = "flush" /\ fwd[b].sent \cup fwd[b].deferred = {}
    /\ fwd' = [fwd EXCEPT ![b] = Onward(@)]
    /\ UNCHANGED <<mem, disk, plan, wire, late, posted, faults>>

-----------------------------------------------------------------------------
\* A crash or a restart: the file is all that is left of a BBS, and its
\* sessions, in both directions, are broken.
Crash(b) ==
    LET Broken(c) == c # b /\ InSession(c) /\ PeerOf(c) = b IN
    /\ faults < MaxFaults /\ faults' = faults + 1
    /\ mem' = [mem EXCEPT ![b] = disk[b]]
    /\ plan' = [plan EXCEPT ![b] = [g \in Planner |-> {}]]
    /\ fwd' = [c \in Bbs |-> IF c = b THEN Idle
                             ELSE IF Broken(c) THEN HungUp(fwd[c]) ELSE fwd[c]]
    /\ wire' = [c \in Bbs |-> IF c = b \/ Broken(c) THEN {} ELSE wire[c]]
    /\ late' = [c \in Bbs |-> {x \in late[c] : x.to # b}]
    /\ UNCHANGED <<disk, posted>>

-----------------------------------------------------------------------------
AtUser ==
    \/ \E l \in Letter : Post(l)
    \/ \E b \in Bbs : \E u \in Login[b] :
        \E m \in {mem[b].mail[i] : i \in Numbers(mem[b])} :
            UserReads(b, u, m) \/ UserKills(b, u, m)

Forwards(b) ==
    \/ PlannerLooks(b) \/ ForwarderLooks(b) \/ \E g \in Planner : QueuePeer(b, g)
    \/ Dial(b) \/ NothingToSend(b) \/ PeerAnswers(b) \/ TakeIn(b) \/ Confirm(b)
    \/ Break(b) \/ TakeInLate(b) \/ Record(b) \/ Flushed(b)

Next == AtUser \/ \E b \in Bbs : Forwards(b) \/ Crash(b)

Spec == Init /\ [][Next]_vars

\* The forwarder runs where letters are posted, its sessions have a deadline;
\* its partner does not defer for ever, and the connection does not break for
\* ever at the same point of an exchange.
Fairness ==
    \A b \in {l.home : l \in Letter} :
        /\ WF_vars(\/ ForwarderLooks(b) \/ QueuePeer(b, "forwarder")
                   \/ NothingToSend(b) \/ Dial(b) \/ TakeIn(b) \/ Confirm(b) \/ Break(b)
                   \/ Record(b) \/ Flushed(b))
        /\ SF_vars(Answer(b, {}))
        /\ SF_vars(TakeIn(b))
        /\ SF_vars(Confirm(b) /\ fwd[b].deferred = {})

FairSpec == Spec /\ Fairness

-----------------------------------------------------------------------------
PlanType == SUBSET (Bbs \X Nat)

WireMessage ==
    [id: Nat, type: {"P", "B"}, from: User, to: Address, at: {NoAddress}, bid: BID,
     text: Text]

TypeOK ==
    /\ mem \in [Bbs -> Store] /\ disk \in [Bbs -> Store]
    /\ plan \in [Bbs -> [Planner -> PlanType]]
    /\ fwd \in [Bbs -> [pc: {"idle", "peers", "answer", "sent", "flush"},
                        left: Seq(Bbs), queue: SUBSET Message,
                        sent: SUBSET BID, deferred: SUBSET BID]]
    /\ \A b \in Bbs : Cardinality(fwd[b].queue) <= MaxMessages
    /\ wire \in [Bbs -> SUBSET WireMessage]
    /\ late \in [Bbs -> SUBSET [to: Bbs, msg: WireMessage]]
    /\ posted \subseteq Text
    /\ faults \in 0..MaxFaults

\* No text lies twice in a store: not when two sessions bring it at the same
\* time, not when it comes back from a BBS it was sent to, not after a restart.
NoDuplicates ==
    \A b \in Bbs : \A i, j \in Numbers(mem[b]) :
        mem[b].mail[i].text = mem[b].mail[j].text => i = j

\* docs/node-and-bbs-model.md:28: every new message gets a unique BID.
UniqueBID ==
    \A b, c \in Bbs : \A i \in Numbers(mem[b]), j \in Numbers(mem[c]) :
        mem[b].mail[i].bid = mem[c].mail[j].bid =>
            mem[b].mail[i].text = mem[c].mail[j].text

\* No plan made from an old look at the messages, no second session and no
\* crash puts a message back in the queue of a partner that has it.
DeliveredStaysDelivered ==
    [][\A b, p \in Bbs : \A i \in Numbers(mem[b]) :
        mem[b].mail[i].forward[p] = "delivered" =>
            i \in Numbers(mem'[b]) /\ mem'[b].mail[i].forward[p] = "delivered"]_vars

\* What a user has killed does not come back to him, with a second session
\* that brings what the first did not get confirmed, or after a restart.
KilledStaysKilled ==
    [][\A b \in Bbs : \A u \in Login[b] : \A i \in Numbers(mem[b]) :
        u \in mem[b].mail[i].deleted =>
            \A m \in Visible(mem'[b], u) : m.text # mem[b].mail[i].text]_vars

\* A letter that some route of its home BBS takes arrives at that partner, and
\* stays there.
MailArrives ==
    <>[](\A l \in Letter : \A p \in PartnerSet(l.home) :
            MatchesPeer(l.home, l, p) /\ l.text \in posted => Holds(mem[p], l.text))

-----------------------------------------------------------------------------
\* The stores seen as sets of texts, their Forward entries as records.
Held == UNION {{<<mem[b].mail[i].text, b>> : i \in Numbers(mem[b])} : b \in Bbs}

RecordedDelivered ==
    UNION {UNION {{<<mem[b].mail[i].text, p>> :
        p \in {q \in Bbs : mem[b].mail[i].forward[q] = "delivered"}} :
        i \in Numbers(mem[b])} : b \in Bbs}

Delivery == INSTANCE MailDelivery WITH held <- Held, recorded <- RecordedDelivered

\* The stores keep the promise of MailDelivery: what is posted or taken in is
\* never lost, and "delivered" is entered only for a partner that has the
\* message, whatever broke in between, and whether it was sent or rejected.
ImplementsDelivery == Delivery!Spec
=============================================================================
