-------------------------- MODULE Forwarding_proofs --------------------------
(***************************************************************************)
(* What forwarding promises, for any number of BBSs, letters, routes and   *)
(* limits: that the state is well typed, that no store has a text twice,   *)
(* and, as long as no BBS crashes with a change it could not save, that    *)
(* what is delivered stays delivered, what is killed stays killed and the  *)
(* stores implement MailDelivery.                                          *)
(***************************************************************************)
EXTENDS Forwarding, FiniteSetTheorems, SequenceTheorems, TLAPS

USE AddressAssumption, ForwardingAssumption

-----------------------------------------------------------------------------
(* Operations of a store *)

\* Messages are numbered as they come in, without a gap.
Numbered(s) ==
    /\ s.next = Len(s.mail) + 1
    /\ \A i \in Numbers(s) : s.mail[i].id = i

\* The same message, of which more may have been killed.
Kin(m, n) ==
    /\ n.id = m.id /\ n.text = m.text /\ n.bid = m.bid
    /\ m.deleted \subseteq n.deleted

\* What every operation does to the messages there are, and what those do that
\* file none.
Grows(s, t) ==
    /\ t \in Store /\ Numbered(t) /\ s.next <= t.next
    /\ \A i \in Numbers(s) : i \in Numbers(t) /\ Kin(s.mail[i], t.mail[i])

Reworks(s, t) == Grows(s, t) /\ t.next = s.next /\ Numbers(t) = Numbers(s)

\* Partners are recorded to have the same messages.
SameForward(s, t) ==
    \A i \in Numbers(s), p \in Peer :
        s.mail[i].forward[p] = "delivered" <=> t.mail[i].forward[p] = "delivered"

LEMMA StoreFields ==
  ASSUME NEW s \in Store
  PROVE  /\ s.next \in Nat /\ s.mail \in Seq(Message) /\ Len(s.mail) \in Nat
         /\ Numbers(s) = 1 .. Len(s.mail)
         /\ \A i \in Numbers(s) : s.mail[i] \in Message
<1>1. s.next \in Nat /\ s.mail \in Seq(Message)
  BY DEF Store
<1> QED
  BY <1>1, LenProperties, ElementOfSeq DEF Numbers

\* Messages that change in place.
LEMMA InPlace ==
  ASSUME NEW s \in Store, Numbered(s), NEW t,
         NEW f \in [Numbers(s) -> Message], t = [s EXCEPT !.mail = f],
         \A i \in Numbers(s) : Kin(s.mail[i], f[i])
  PROVE  Reworks(s, t) /\ t.mail = f
<1>1. /\ s.next \in Nat /\ s.mail \in Seq(Message) /\ Len(s.mail) \in Nat
      /\ Numbers(s) = 1 .. Len(s.mail)
  BY StoreFields
<1>2. f \in Seq(Message) /\ Len(f) = Len(s.mail) /\ DOMAIN f = Numbers(s)
  <2> DEFINE n == Len(s.mail)
  <2>1. n \in Nat /\ f \in [1 .. n -> Message] /\ DOMAIN f = 1 .. n
    BY <1>1
  <2> HIDE DEF n
  <2>2. f \in Seq(Message)
    BY <2>1, SeqDef
  <2>3. Len(f) \in Nat /\ 1 .. Len(f) = 1 .. n
    BY <2>1, <2>2, LenProperties
  <2>4. Len(f) = n
    BY <2>1, <2>3
  <2> QED
    BY <1>1, <2>1, <2>2, <2>4 DEF n
<1>3. t.mail = f /\ t.next = s.next /\ t \in Store
  BY <1>1, <1>2 DEF Store
<1>4. Numbers(t) = Numbers(s)
  BY <1>2, <1>3 DEF Numbers
<1>5. Numbered(t)
  BY <1>2, <1>3, <1>4 DEF Numbered, Kin
<1>6. s.next <= t.next
  BY <1>1, <1>3
<1> QED
  BY <1>3, <1>4, <1>5, <1>6 DEF Reworks, Grows

LEMMA ReadReworks ==
  ASSUME NEW s \in Store, Numbered(s), NEW u \in User, NEW id
  PROVE  Reworks(s, Read(s, u, id)) /\ SameForward(s, Read(s, u, id))
<1> DEFINE g(m) == [m EXCEPT !.read = m.read \cup {u}]
           f == [i \in Numbers(s) |-> IF s.mail[i].id \in {id} THEN g(s.mail[i]) ELSE s.mail[i]]
<1>1. Read(s, u, id) = [s EXCEPT !.mail = f]
  BY DEF Read, Amended
<1>2. \A m \in Message : g(m) \in Message /\ Kin(m, g(m)) /\ g(m).forward = m.forward
  BY DEF Message, Kin
<1>3. \A i \in Numbers(s) : s.mail[i] \in Message /\ Kin(s.mail[i], s.mail[i])
  BY StoreFields DEF Kin
<1> HIDE DEF g
<1>4. /\ f \in [Numbers(s) -> Message]
      /\ \A i \in Numbers(s) : Kin(s.mail[i], f[i]) /\ f[i].forward = s.mail[i].forward
  BY <1>2, <1>3
<1> HIDE DEF f
<1>5. Reworks(s, Read(s, u, id)) /\ Read(s, u, id).mail = f
  BY <1>1, <1>4, InPlace
<1> QED
  BY <1>4, <1>5 DEF SameForward

LEMMA DeleteReworks ==
  ASSUME NEW s \in Store, Numbered(s), NEW u \in User, NEW id
  PROVE  Reworks(s, Delete(s, u, id)) /\ SameForward(s, Delete(s, u, id))
<1> DEFINE g(m) == [m EXCEPT !.deleted = m.deleted \cup {u}]
           f == [i \in Numbers(s) |-> IF s.mail[i].id \in {id} THEN g(s.mail[i]) ELSE s.mail[i]]
<1>1. Delete(s, u, id) = [s EXCEPT !.mail = f]
  BY DEF Delete, Amended
<1>2. \A m \in Message : g(m) \in Message /\ Kin(m, g(m)) /\ g(m).forward = m.forward
  BY DEF Message, Kin
<1>3. \A i \in Numbers(s) : s.mail[i] \in Message /\ Kin(s.mail[i], s.mail[i])
  BY StoreFields DEF Kin
<1> HIDE DEF g
<1>4. /\ f \in [Numbers(s) -> Message]
      /\ \A i \in Numbers(s) : Kin(s.mail[i], f[i]) /\ f[i].forward = s.mail[i].forward
  BY <1>2, <1>3
<1> HIDE DEF f
<1>5. Reworks(s, Delete(s, u, id)) /\ Delete(s, u, id).mail = f
  BY <1>1, <1>4, InPlace
<1> QED
  BY <1>4, <1>5 DEF SameForward

LEMMA QueueForwardReworks ==
  ASSUME NEW s \in Store, Numbered(s), NEW p \in Bbs, NEW ids
  PROVE  Reworks(s, QueueForward(s, p, ids)) /\ SameForward(s, QueueForward(s, p, ids))
<1> DEFINE v(m) == IF m.forward[p] = "none" THEN "pending" ELSE m.forward[p]
           g(m) == [m EXCEPT !.forward = [m.forward EXCEPT ![p] = v(m)]]
           f == [i \in Numbers(s) |-> IF s.mail[i].id \in ids THEN g(s.mail[i]) ELSE s.mail[i]]
<1>1. QueueForward(s, p, ids) = [s EXCEPT !.mail = f]
  BY DEF QueueForward, Amended
<1>2. \A m \in Message : /\ g(m) \in Message /\ Kin(m, g(m))
                         /\ \A q \in Peer : m.forward[q] = "delivered"
                                              <=> g(m).forward[q] = "delivered"
  <2> SUFFICES ASSUME NEW m \in Message
               PROVE  /\ g(m) \in Message /\ Kin(m, g(m))
                      /\ \A q \in Peer : m.forward[q] = "delivered"
                                           <=> g(m).forward[q] = "delivered"
    OBVIOUS
  <2>1. m.forward \in [Peer -> Status] /\ v(m) \in Status
        /\ (v(m) = "delivered" <=> m.forward[p] = "delivered")
    BY DEF Message, Status
  <2> DEFINE h == [m.forward EXCEPT ![p] = v(m)]
  <2>2. h \in [Peer -> Status]
        /\ \A q \in Peer : m.forward[q] = "delivered" <=> h[q] = "delivered"
    BY <2>1
  <2> HIDE DEF h, v
  <2>3. g(m) = [m EXCEPT !.forward = h]
    BY DEF h
  <2>4. g(m) \in Message /\ g(m).forward = h /\ Kin(m, g(m))
    BY <2>2, <2>3 DEF Message, Kin
  <2> QED
    BY <2>2, <2>4
<1>3. \A i \in Numbers(s) : s.mail[i] \in Message /\ Kin(s.mail[i], s.mail[i])
  BY StoreFields DEF Kin
<1> HIDE DEF g
<1>4. /\ f \in [Numbers(s) -> Message]
      /\ \A i \in Numbers(s) :
            /\ Kin(s.mail[i], f[i])
            /\ \A q \in Peer : s.mail[i].forward[q] = "delivered"
                                 <=> f[i].forward[q] = "delivered"
  BY <1>2, <1>3
<1> HIDE DEF f
<1>5. Reworks(s, QueueForward(s, p, ids)) /\ QueueForward(s, p, ids).mail = f
  BY <1>1, <1>4, InPlace
<1> QED
  BY <1>4, <1>5 DEF SameForward

\* One message gets the result of its session, the others keep theirs.
LEMMA RecordForwardReworks ==
  ASSUME NEW s \in Store, Numbered(s), NEW p \in Bbs, NEW id \in Numbers(s),
         NEW delivered \in BOOLEAN
  PROVE  LET t == RecordForward(s, p, id, delivered)
         IN  /\ Reworks(s, t)
             /\ t.mail[id].forward[p] = IF delivered THEN "delivered" ELSE "failed"
             /\ \A i \in Numbers(s), q \in Peer :
                   i # id \/ q # p => t.mail[i].forward[q] = s.mail[i].forward[q]
<1> DEFINE v == IF delivered THEN "delivered" ELSE "failed"
           g(m) == [m EXCEPT !.forward = [m.forward EXCEPT ![p] = v]]
           f == [i \in Numbers(s) |-> IF s.mail[i].id \in {id} THEN g(s.mail[i]) ELSE s.mail[i]]
<1>1. RecordForward(s, p, id, delivered) = [s EXCEPT !.mail = f]
  BY DEF RecordForward, Amended
<1>2. \A m \in Message : /\ g(m) \in Message /\ Kin(m, g(m)) /\ g(m).forward[p] = v
                         /\ \A q \in Peer : q # p => g(m).forward[q] = m.forward[q]
  <2> SUFFICES ASSUME NEW m \in Message
               PROVE  /\ g(m) \in Message /\ Kin(m, g(m)) /\ g(m).forward[p] = v
                      /\ \A q \in Peer : q # p => g(m).forward[q] = m.forward[q]
    OBVIOUS
  <2>1. m.forward \in [Peer -> Status] /\ v \in Status
    BY DEF Message, Status
  <2> DEFINE h == [m.forward EXCEPT ![p] = v]
  <2>2. h \in [Peer -> Status] /\ h[p] = v
        /\ \A q \in Peer : q # p => h[q] = m.forward[q]
    BY <2>1
  <2> HIDE DEF h, v
  <2>3. g(m) = [m EXCEPT !.forward = h]
    BY DEF h
  <2>4. g(m) \in Message /\ g(m).forward = h /\ Kin(m, g(m))
    BY <2>2, <2>3 DEF Message, Kin
  <2> QED
    BY <2>2, <2>4
<1>3. \A i \in Numbers(s) : s.mail[i] \in Message /\ Kin(s.mail[i], s.mail[i])
                            /\ s.mail[i].id = i
  BY StoreFields DEF Kin, Numbered
<1> HIDE DEF g
<1>4. /\ f \in [Numbers(s) -> Message]
      /\ \A i \in Numbers(s) : Kin(s.mail[i], f[i])
      /\ f[id].forward[p] = v
      /\ \A i \in Numbers(s), q \in Peer :
            i # id \/ q # p => f[i].forward[q] = s.mail[i].forward[q]
  BY <1>2, <1>3
<1> HIDE DEF f
<1>5. Reworks(s, RecordForward(s, p, id, delivered))
      /\ RecordForward(s, p, id, delivered).mail = f
  BY <1>1, <1>4, InPlace
<1> QED
  BY <1>4, <1>5

\* A message that is filed.
MessageFiled(s, type, from, to, at, bid, text) ==
    [id |-> s.next, type |-> type, from |-> from, to |-> to, at |-> at,
     bid |-> bid, text |-> text, read |-> {}, deleted |-> {},
     forward |-> [p \in Peer |-> "none"]]

LEMMA FiledGrows ==
  ASSUME NEW s \in Store, Numbered(s), NEW type \in {"P", "B"}, NEW from \in User,
         NEW to \in Address, NEW at \in Address \cup {NoAddress}, NEW bid \in BID,
         NEW text \in Text
  PROVE  LET t == Filed(s, type, from, to, at, bid, text)
             n == Len(s.mail) + 1
         IN  /\ Grows(s, t) /\ t.next = s.next + 1
             /\ Numbers(t) = Numbers(s) \cup {n} /\ n \notin Numbers(s) /\ n = s.next
             /\ \A i \in Numbers(s) : t.mail[i] = s.mail[i]
             /\ t.mail[n] = MessageFiled(s, type, from, to, at, bid, text)
<1> DEFINE t == Filed(s, type, from, to, at, bid, text)
           n == Len(s.mail) + 1
           m == MessageFiled(s, type, from, to, at, bid, text)
<1>1. /\ s.next \in Nat /\ s.mail \in Seq(Message) /\ Len(s.mail) \in Nat
      /\ Numbers(s) = 1 .. Len(s.mail) /\ s.next = n
  BY StoreFields DEF Numbered
<1>2. m \in Message /\ m.id = n
  BY <1>1 DEF MessageFiled, Message, Status
<1>3. t = [next |-> s.next + 1, mail |-> Append(s.mail, m)]
  BY DEF Filed, MessageFiled
<1> HIDE DEF m
<1>4. /\ Append(s.mail, m) \in Seq(Message) /\ Len(Append(s.mail, m)) = n
      /\ \A i \in 1 .. Len(s.mail) : Append(s.mail, m)[i] = s.mail[i]
      /\ Append(s.mail, m)[n] = m
  BY <1>1, <1>2, AppendProperties
<1>5. t.mail = Append(s.mail, m) /\ t.next = s.next + 1 /\ t \in Store
  BY <1>1, <1>3, <1>4 DEF Store
<1> HIDE DEF t
<1>6. Numbers(t) = 1 .. n
  BY <1>4, <1>5, StoreFields
<1>7. Numbers(t) = Numbers(s) \cup {n} /\ n \notin Numbers(s)
  <2> DEFINE k == Len(s.mail)
  <2>1. k \in Nat /\ Numbers(s) = 1 .. k /\ Numbers(t) = 1 .. (k + 1) /\ n = k + 1
    BY <1>1, <1>6
  <2> HIDE DEF k, n
  <2> QED
    BY <2>1
<1>8. \A i \in Numbers(s) : t.mail[i] = s.mail[i]
  BY <1>1, <1>4, <1>5
<1>9. Numbered(t)
  BY <1>1, <1>2, <1>4, <1>5, <1>7, <1>8 DEF Numbered
<1>10. Grows(s, t)
  BY <1>1, <1>5, <1>7, <1>8, <1>9 DEF Grows, Kin
<1> QED
  BY <1>1, <1>4, <1>5, <1>7, <1>8, <1>10 DEF t, m

\* What is taken in is a new message, or changes nothing.
LEMMA ImportGrows ==
  ASSUME NEW s \in Store, Numbered(s), NEW m \in WireMessage
  PROVE  LET t == Import(s, m)
         IN  /\ Grows(s, t) /\ HasBID(t, m.bid)
             /\ \/ t = s
                \/ /\ ~HasBID(s, m.bid)
                   /\ t = Filed(s, m.type, m.from, m.to, m.at, m.bid, m.text)
<1>1. /\ m.type \in {"P", "B"} /\ m.from \in User /\ m.to \in Address
      /\ m.at \in Address \cup {NoAddress} /\ m.bid \in BID /\ m.text \in Text
  BY DEF WireMessage
<1>2. CASE HasBID(s, m.bid)
  <2>1. Grows(s, s)
    BY StoreFields DEF Grows, Kin
  <2> QED
    BY <1>2, <2>1 DEF Import
<1>3. CASE ~HasBID(s, m.bid)
  <2> DEFINE t == Filed(s, m.type, m.from, m.to, m.at, m.bid, m.text)
             n == Len(s.mail) + 1
  <2>1. /\ Grows(s, t) /\ n \in Numbers(t)
        /\ t.mail[n] = MessageFiled(s, m.type, m.from, m.to, m.at, m.bid, m.text)
    BY <1>1, FiledGrows
  <2>2. t.mail[n].bid = m.bid
    BY <2>1 DEF MessageFiled
  <2>3. HasBID(t, m.bid)
    BY <2>1, <2>2 DEF HasBID
  <2> QED
    BY <1>3, <2>1, <2>3 DEF Import
<1> QED
  BY <1>2, <1>3

\* A queue holds waiting messages of the store, never more than the limit.
LEMMA QueueBound ==
  ASSUME NEW s \in Store, Numbered(s), NEW p \in Bbs, NEW limit \in Nat
  PROVE  LET q == ForwardQueue(s, p, limit)
         IN  /\ q \subseteq Message /\ Cardinality(q) <= limit
             /\ \A m \in q : m.id \in Numbers(s) /\ m = s.mail[m.id] /\ Waiting(m, p)
<1> DEFINE waiting == {i \in Numbers(s) : Waiting(s.mail[i], p)}
           Before(i) == {k \in waiting : k < i}
           q == ForwardQueue(s, p, limit)
           rank == [m \in q |-> Cardinality(Before(m.id))]
<1>1. /\ Numbers(s) = 1 .. Len(s.mail) /\ Len(s.mail) \in Nat
      /\ \A i \in Numbers(s) : s.mail[i] \in Message /\ s.mail[i].id = i
  BY StoreFields DEF Numbered
<1>2. q = {s.mail[i] : i \in {j \in waiting : Cardinality(Before(j)) < limit}}
  BY DEF ForwardQueue
<1>3. \A m \in q : /\ m.id \in waiting /\ m = s.mail[m.id]
                   /\ Cardinality(Before(m.id)) < limit
  <2> HIDE DEF q, Before
  <2> QED
    BY <1>1, <1>2
<1>4. \A i : /\ Before(i) \subseteq 1 .. Len(s.mail) /\ IsFiniteSet(Before(i))
             /\ Cardinality(Before(i)) \in Nat
  <2> SUFFICES ASSUME NEW i
               PROVE  /\ Before(i) \subseteq 1 .. Len(s.mail) /\ IsFiniteSet(Before(i))
                      /\ Cardinality(Before(i)) \in Nat
    OBVIOUS
  <2>1. Before(i) \subseteq 1 .. Len(s.mail)
    BY <1>1
  <2>2. IsFiniteSet(1 .. Len(s.mail))
    BY <1>1, FS_Interval
  <2> HIDE DEF Before
  <2> QED
    BY <2>1, <2>2, FS_Subset, FS_CardinalityType
<1>5. \A i, j \in waiting : i < j => Cardinality(Before(i)) # Cardinality(Before(j))
  <2> SUFFICES ASSUME NEW i \in waiting, NEW j \in waiting, i < j
               PROVE  Cardinality(Before(i)) # Cardinality(Before(j))
    OBVIOUS
  <2>1. i \in Nat /\ j \in Nat
    BY <1>1
  <2>2. Before(i) \subseteq Before(j) /\ i \in Before(j) /\ i \notin Before(i)
    BY <1>1, <2>1
  <2> HIDE DEF Before
  <2> QED
    BY <1>4, <2>2, FS_Subset
<1>6. rank \in Injection(q, 0 .. (limit - 1))
  <2>1. rank \in [q -> 0 .. (limit - 1)]
    <3> HIDE DEF q, Before
    <3> QED
      BY <1>3, <1>4
  <2>2. ASSUME NEW m \in q, NEW n \in q, rank[m] = rank[n] PROVE m = n
    <3> HIDE DEF q, Before, waiting
    <3>1. Cardinality(Before(m.id)) = Cardinality(Before(n.id))
      BY <2>2
    <3>2. m.id \in waiting /\ n.id \in waiting
      BY <1>3
    <3>3. m.id \in Nat /\ n.id \in Nat
      BY <1>1, <1>3 DEF waiting
    <3>4. m.id = n.id
      BY <1>5, <3>1, <3>2, <3>3
    <3> QED
      BY <1>3, <3>4
  <2> HIDE DEF rank, q
  <2> QED
    BY <2>1, <2>2 DEF Injection, IsInjective
<1>7. Cardinality(q) <= limit
  <2>1. IsFiniteSet(0 .. (limit - 1)) /\ Cardinality(0 .. (limit - 1)) = limit
    BY FS_Interval
  <2> HIDE DEF rank, q
  <2> QED
    BY <1>6, <2>1, FS_Injection
<1> HIDE DEF q
<1> QED
  BY <1>1, <1>3, <1>7 DEF q

-----------------------------------------------------------------------------
(* The state *)

Forwarder == [pc: {"idle", "peers", "answer", "sent", "flush"}, left: Seq(Bbs),
              queue: SUBSET Message, sent: SUBSET BID, deferred: SUBSET BID]

\* A forwarder that is not idle has a peer, and only results of its queue.
Sane(f) ==
    /\ f \in Forwarder /\ Cardinality(f.queue) <= MaxMessages
    /\ f.pc # "idle" => f.left # <<>>
    /\ f.sent \cup f.deferred \subseteq Proposed(f.queue)
    /\ f.pc # "flush" => f.sent = {}
    /\ f.pc \in {"idle", "peers", "answer"} => f.deferred = {}
    /\ f.pc \in {"idle", "peers"} => f.queue = {}

StoresOK ==
    /\ mem \in [Bbs -> Store] /\ disk \in [Bbs -> Store]
    /\ \A b \in Bbs : Numbered(mem[b]) /\ Numbered(disk[b])
    /\ faults \in 0 .. MaxFaults

FwdOK == fwd \in [Bbs -> Forwarder] /\ \A b \in Bbs : Sane(fwd[b])

AirOK ==
    /\ wire \in [Bbs -> SUBSET WireMessage]
    /\ late \in [Bbs -> SUBSET [to: Bbs, msg: WireMessage]]
    /\ \A b \in Bbs : wire[b] # {} => fwd[b].pc = "sent"

Typed ==
    /\ StoresOK /\ FwdOK /\ AirOK
    /\ plan \in [Bbs -> [Planner -> PlanType]]
    /\ posted \subseteq Text

LEMMA IdleSane == Sane(Idle)
<1>1. Cardinality({}) <= MaxMessages
  BY FS_EmptySet
<1> QED
  BY <1>1, EmptySeq DEF Idle, Sane, Forwarder, Proposed

LEMMA HungUpSane ==
  ASSUME NEW f, Sane(f), f.pc \in {"answer", "sent"}
  PROVE  /\ Sane(HungUp(f)) /\ HungUp(f).pc = "flush" /\ HungUp(f).sent = {}
         /\ HungUp(f).left = f.left /\ HungUp(f).queue = f.queue
         /\ HungUp(f).deferred = f.deferred
  BY DEF Sane, HungUp, Forwarder

LEMMA OnwardSane ==
  ASSUME NEW f, Sane(f), f.pc # "idle"
  PROVE  /\ Sane(Onward(f)) /\ Onward(f).pc \in {"idle", "peers"}
         /\ Onward(f).queue = {} /\ Onward(f).sent = {} /\ Onward(f).deferred = {}
<1>1. f.left \in Seq(Bbs) /\ f.left # <<>>
  BY DEF Sane, Forwarder
<1>2. CASE Len(f.left) = 1
  BY <1>2, IdleSane DEF Onward, Idle
<1>3. CASE Len(f.left) # 1
  <2>1. Tail(f.left) \in Seq(Bbs) /\ Len(Tail(f.left)) = Len(f.left) - 1
        /\ Len(f.left) \in Nat \ {0}
    BY <1>1, HeadTailProperties, EmptySeq
  <2>2. Tail(f.left) # <<>>
    <3>1. Len(<<>>) = 0 /\ Len(Tail(f.left)) # 0
      BY <1>3, <2>1, EmptySeq
    <3> QED
      BY <3>1
  <2>3. Onward(f) = [pc |-> "peers", left |-> Tail(f.left), queue |-> {}, sent |-> {},
                     deferred |-> {}]
    BY <1>3 DEF Onward, Idle
  <2>4. Cardinality({}) <= MaxMessages
    BY FS_EmptySet
  <2> QED
    BY <2>1, <2>2, <2>3, <2>4 DEF Sane, Forwarder, Proposed
<1> QED
  BY <1>2, <1>3

LEMMA FwdStep ==
  ASSUME FwdOK, NEW b \in Bbs, NEW f, Sane(f), fwd' = [fwd EXCEPT ![b] = f]
  PROVE  FwdOK' /\ fwd'[b] = f /\ \A c \in Bbs \ {b} : fwd'[c] = fwd[c]
  BY DEF FwdOK, Sane

LEMMA Writes ==
  ASSUME StoresOK, NEW b \in Bbs, NEW t, Grows(mem[b], t), Written(b, t)
  PROVE  /\ StoresOK' /\ mem'[b] = t
         /\ \A c \in Bbs \ {b} : mem'[c] = mem[c] /\ disk'[c] = disk[c]
         /\ disk'[b] = t \/ disk'[b] = disk[b]
<1>1. t \in Store /\ Numbered(t)
  BY DEF Grows
<1>2. mem' = [mem EXCEPT ![b] = t] /\ (disk' = [disk EXCEPT ![b] = t] \/ disk' = disk)
  BY DEF Written, Saved, SaveFails
<1>3. faults' \in 0 .. MaxFaults
  <2>1. faults \in 0 .. MaxFaults /\ MaxFaults \in Nat
    BY DEF StoresOK
  <2>2. faults' = faults \/ (faults < MaxFaults /\ faults' = faults + 1)
    BY DEF Written, Saved, SaveFails
  <2> QED
    BY <2>1, <2>2
<1>4. /\ mem' \in [Bbs -> Store] /\ mem'[b] = t
      /\ \A c \in Bbs \ {b} : mem'[c] = mem[c]
  BY <1>1, <1>2 DEF StoresOK
<1>5. /\ disk' \in [Bbs -> Store] /\ (disk'[b] = t \/ disk'[b] = disk[b])
      /\ \A c \in Bbs \ {b} : disk'[c] = disk[c]
  BY <1>1, <1>2 DEF StoresOK
<1> QED
  BY <1>1, <1>3, <1>4, <1>5 DEF StoresOK

LEMMA Facts ==
  ASSUME Typed, NEW b \in Bbs
  PROVE  /\ mem[b] \in Store /\ Numbered(mem[b]) /\ disk[b] \in Store /\ Numbered(disk[b])
         /\ Sane(fwd[b]) /\ fwd[b].left \in Seq(Bbs)
         /\ wire[b] \subseteq WireMessage /\ late[b] \subseteq [to: Bbs, msg: WireMessage]
         /\ fwd[b].pc # "idle" => PeerOf(b) \in Bbs
<1>1. Sane(fwd[b]) /\ fwd[b].left \in Seq(Bbs)
  BY DEF Typed, FwdOK, Sane, Forwarder
<1>2. fwd[b].pc # "idle" => PeerOf(b) \in Bbs
  BY <1>1, HeadTailProperties DEF Sane, PeerOf
<1> QED
  BY <1>1, <1>2 DEF Typed, StoresOK, AirOK

LEMMA StillAir ==
  ASSUME AirOK, wire' = wire, late' = late,
         \A b \in Bbs : fwd[b].pc = "sent" => fwd'[b].pc = "sent" \/ wire[b] = {}
  PROVE  AirOK'
  BY DEF AirOK

LEMMA StillStores == StoresOK /\ UNCHANGED <<mem, disk, faults>> => StoresOK'
  BY DEF StoresOK

LEMMA InitTyped == Init => Typed
<1> SUFFICES ASSUME Init PROVE Typed
  OBVIOUS
<1>1. EmptyStore \in Store /\ Numbered(EmptyStore)
  BY EmptySeq DEF EmptyStore, Store, Numbered, Numbers
<1>2. StoresOK
  BY <1>1 DEF Init, StoresOK
<1>3. FwdOK
  BY IdleSane DEF Init, FwdOK, Sane
<1> QED
  BY <1>2, <1>3 DEF Init, Typed, AirOK, PlanType, Planner

\* A store changes by an operation under its mutex, and nothing else does.
LEMMA StoreStepTyped ==
  ASSUME Typed, NEW b \in Bbs, NEW t, Grows(mem[b], t), Written(b, t),
         UNCHANGED <<plan, fwd, wire, late>>, posted' \subseteq Text
  PROVE  Typed'
<1>1. StoresOK'
  BY Writes DEF Typed
<1> QED
  BY <1>1 DEF Typed, FwdOK, AirOK, Sane

LEMMA PostGrows ==
  ASSUME Typed, NEW l \in Letter
  PROVE  /\ l.home \in Bbs /\ l.text \in Text /\ l.from \in User
         /\ LET s == mem[l.home]
                t == Send(s, l)
            IN  /\ Grows(s, t) /\ t = Filed(s, l.type, l.from, l.to, l.at, <<s.next, l.from>>, l.text)
                /\ <<s.next, l.from>> \in BID
<1>1. /\ l.home \in Bbs /\ l.type \in {"P", "B"} /\ l.from \in User /\ l.to \in Address
      /\ l.at \in Address \cup {NoAddress} /\ l.text \in Text
  OBVIOUS
<1>2. mem[l.home] \in Store /\ Numbered(mem[l.home]) /\ mem[l.home].next \in Nat
  BY <1>1, Facts, StoreFields
<1>3. <<mem[l.home].next, l.from>> \in BID
  BY <1>1, <1>2 DEF BID
<1> QED
  BY <1>1, <1>2, <1>3, FiledGrows DEF Send

LEMMA AtUserTyped == Typed /\ AtUser => Typed'
<1> SUFFICES ASSUME Typed, AtUser PROVE Typed'
  OBVIOUS
<1>1. ASSUME NEW l \in Letter, Post(l) PROVE Typed'
  <2>1. posted' \subseteq Text /\ Written(l.home, Send(mem[l.home], l))
        /\ UNCHANGED <<plan, fwd, wire, late>>
    BY <1>1, PostGrows DEF Post, Typed
  <2> QED
    BY <2>1, PostGrows, StoreStepTyped
<1>2. ASSUME NEW b \in Bbs, NEW u \in Login[b], NEW m, UserReads(b, u, m) \/ UserKills(b, u, m)
      PROVE  Typed'
  <2>1. PICK t : (t = Read(mem[b], u, m.id) \/ t = Delete(mem[b], u, m.id)) /\ Written(b, t)
    BY <1>2 DEF UserReads, UserKills
  <2>2. u \in User /\ mem[b] \in Store /\ Numbered(mem[b])
    BY Facts
  <2>3. Grows(mem[b], t)
    BY <2>1, <2>2, ReadReworks, DeleteReworks DEF Reworks
  <2>4. UNCHANGED <<plan, fwd, wire, late>> /\ posted' \subseteq Text
    BY <1>2 DEF UserReads, UserKills, Typed
  <2> QED
    BY <2>1, <2>3, <2>4, StoreStepTyped
<1> QED
  BY <1>1, <1>2 DEF AtUser

LEMMA PlanTyped ==
  ASSUME Typed, NEW b \in Bbs
  PROVE  PlanForwarding(b) \in PlanType
<1>1. \A p \in PartnerSet(b) : p \in Bbs
  <2>1. Partners[b] \in Seq(Bbs)
    OBVIOUS
  <2> QED
    BY <2>1, ElementOfSeq, LenProperties DEF PartnerSet
<1>2. \A j \in DOMAIN mem[b].mail : mem[b].mail[j].id \in Nat
  BY Facts, StoreFields DEF Message, Numbers
<1>3. ASSUME NEW x \in PlanForwarding(b) PROVE x \in Bbs \X Nat
  <2>1. PICK p \in PartnerSet(b) : \E j \in DOMAIN mem[b].mail : x = <<p, mem[b].mail[j].id>>
    BY <1>3 DEF PlanForwarding
  <2> QED
    BY <1>1, <1>2, <2>1
<1> QED
  BY <1>3 DEF PlanType

LEMMA PlanningTyped ==
  ASSUME Typed, NEW b \in Bbs,
         PlannerLooks(b) \/ ForwarderLooks(b) \/ \E g \in Planner : QueuePeer(b, g)
  PROVE  Typed'
<1>1. CASE PlannerLooks(b)
  <2>1. plan' \in [Bbs -> [Planner -> PlanType]]
    BY <1>1, PlanTyped DEF PlannerLooks, Typed, Planner
  <2> QED
    BY <1>1, <2>1, StillStores DEF PlannerLooks, Typed, FwdOK, AirOK, Sane
<1>2. CASE ForwarderLooks(b)
  <2> DEFINE f == [Idle EXCEPT !.pc = "peers", !.left = Partners[b]]
  <2>1. plan' \in [Bbs -> [Planner -> PlanType]]
    BY <1>2, PlanTyped DEF ForwarderLooks, Typed, Planner
  <2>2. Sane(f)
    <3>1. Partners[b] \in Seq(Bbs) /\ Partners[b] # <<>> /\ Cardinality({}) <= MaxMessages
      BY <1>2, FS_EmptySet DEF ForwarderLooks
    <3> QED
      BY <3>1 DEF Idle, Sane, Forwarder, Proposed
  <2> HIDE DEF f
  <2>3. FwdOK' /\ fwd'[b] = f /\ \A c \in Bbs \ {b} : fwd'[c] = fwd[c]
    BY <1>2, <2>2, FwdStep DEF ForwarderLooks, Typed, f
  <2>4. AirOK'
    <3>1. fwd[b].pc = "idle" /\ wire' = wire /\ late' = late
      BY <1>2 DEF ForwarderLooks
    <3> QED
      BY <2>3, <3>1, StillAir DEF Typed
  <2> QED
    BY <1>2, <2>1, <2>3, <2>4, StillStores DEF ForwarderLooks, Typed
<1>3. ASSUME NEW g \in Planner, QueuePeer(b, g) PROVE Typed'
  <2>1. PICK p \in {x[1] : x \in plan[b][g]} :
          LET ids == {x[2] : x \in {y \in plan[b][g] : y[1] = p}}
              s   == QueueForward(mem[b], p, ids)
          IN  /\ \/ /\ Saved(b, s)
                    /\ plan' = [plan EXCEPT ![b][g] = {x \in @ : x[1] # p}]
                 \/ /\ SaveFails(b, s)
                    /\ plan' = [plan EXCEPT ![b][g] = {}]
              /\ UNCHANGED <<fwd, wire, late, posted>>
    BY <1>3 DEF QueuePeer
  <2>2. plan[b][g] \in PlanType /\ p \in Bbs
    BY <2>1 DEF Typed, PlanType
  <2>3. PICK t : Grows(mem[b], t) /\ Written(b, t)
    BY <2>1, <2>2, Facts, QueueForwardReworks DEF Reworks, Written
  <2>4. plan' \in [Bbs -> [Planner -> PlanType]]
    <3>1. \E q \in PlanType : plan' = [plan EXCEPT ![b][g] = q]
      <4>1. {x \in plan[b][g] : x[1] # p} \in PlanType /\ {} \in PlanType
        BY <2>2 DEF PlanType
      <4> QED
        BY <2>1, <4>1
    <3> QED
      BY <3>1 DEF Typed
  <2>5. StoresOK'
    BY <2>3, Writes DEF Typed
  <2> QED
    BY <2>1, <2>4, <2>5 DEF Typed, FwdOK, AirOK, Sane
<1> QED
  BY <1>1, <1>2, <1>3

\* What the forwarder and its peer do without a change of a store.
LEMMA SessionTyped ==
  ASSUME Typed, NEW b \in Bbs,
         Dial(b) \/ NothingToSend(b) \/ PeerAnswers(b) \/ Confirm(b) \/ Break(b) \/ Flushed(b)
  PROVE  Typed'
<1> DEFINE f == fwd[b]
<1>0. /\ Sane(f) /\ StoresOK /\ FwdOK /\ AirOK /\ fwd \in [Bbs -> Forwarder]
      /\ mem[b] \in Store /\ Numbered(mem[b])
  BY Facts DEF Typed, FwdOK
<1>1. StoresOK' /\ plan' \in [Bbs -> [Planner -> PlanType]] /\ posted' \subseteq Text
  BY StillStores DEF Typed, Dial, NothingToSend, PeerAnswers, Answer, Confirm, Break, Flushed
<1> SUFFICES FwdOK' /\ AirOK'
  BY <1>1 DEF Typed
<1>2. CASE Dial(b)
  <2> DEFINE q == QueueOfPeer(b)
             h == [f EXCEPT !.pc = "answer", !.queue = q]
  <2>1. /\ f.pc = "peers" /\ fwd' = [fwd EXCEPT ![b] = h]
        /\ wire' = wire /\ late' = late
    BY <1>2 DEF Dial, AtPeer
  <2>2. q \subseteq Message /\ Cardinality(q) <= MaxMessages
    BY <1>0, <2>1, Facts, QueueBound DEF QueueOfPeer
  <2>3. Sane(h)
    <3>1. f.sent = {} /\ f.deferred = {}
      BY <1>0, <2>1 DEF Sane
    <3> HIDE DEF q, f
    <3> QED
      BY <1>0, <2>1, <2>2, <3>1 DEF Sane, Forwarder, Proposed
  <2> HIDE DEF h
  <2> QED
    BY <1>0, <2>1, <2>3, FwdStep, StillAir
<1>3. CASE NothingToSend(b) \/ Flushed(b)
  <2>1. /\ f.pc \in {"peers", "flush"} /\ fwd' = [fwd EXCEPT ![b] = Onward(f)]
        /\ wire' = wire /\ late' = late
    BY <1>3 DEF NothingToSend, Flushed, AtPeer
  <2> QED
    BY <1>0, <2>1, OnwardSane, FwdStep, StillAir
<1>4. CASE PeerAnswers(b)
  <2>1. PICK deferred \in SUBSET Proposed(f.queue) : Answer(b, deferred)
    BY <1>4 DEF PeerAnswers
  <2> DEFINE h == [f EXCEPT !.pc = "sent", !.deferred = deferred]
  <2>2. f.pc = "answer" /\ fwd' = [fwd EXCEPT ![b] = h] /\ late' = late
    BY <2>1 DEF Answer
  <2>3. Sane(h) /\ h.pc = "sent"
    <3>1. f.sent = {} /\ deferred \subseteq BID
      BY <1>0, <2>2 DEF Sane, Forwarder, Message, Proposed
    <3> HIDE DEF f
    <3> QED
      BY <1>0, <2>2, <3>1 DEF Sane, Forwarder, Proposed
  <2>4. wire' \in [Bbs -> SUBSET WireMessage] /\ \A c \in Bbs \ {b} : wire'[c] = wire[c]
    <3>1. \A m \in f.queue : OnWire(m) \in WireMessage
      BY <1>0 DEF Sane, Forwarder, Message, OnWire, WireMessage
    <3>2. PICK w : w \subseteq WireMessage /\ wire' = [wire EXCEPT ![b] = w]
      BY <2>1, <3>1 DEF Answer
    <3> QED
      BY <1>0, <3>2 DEF AirOK
  <2> HIDE DEF h
  <2>5. FwdOK' /\ fwd'[b] = h /\ \A c \in Bbs \ {b} : fwd'[c] = fwd[c]
    BY <1>0, <2>2, <2>3, FwdStep
  <2> QED
    BY <1>0, <2>2, <2>3, <2>4, <2>5 DEF AirOK
<1>5. CASE Confirm(b)
  <2> DEFINE h == [HungUp(f) EXCEPT !.sent = Proposed(f.queue) \ f.deferred]
  <2>1. /\ f.pc = "sent" /\ wire[b] = {} /\ fwd' = [fwd EXCEPT ![b] = h]
        /\ wire' = wire /\ late' = late
    BY <1>5 DEF Confirm
  <2>2. Sane(h)
    <3>1. Proposed(f.queue) \subseteq BID
      BY <1>0 DEF Sane, Forwarder, Message, Proposed
    <3> HIDE DEF f
    <3> QED
      BY <1>0, <2>1, <3>1 DEF Sane, HungUp, Forwarder
  <2> HIDE DEF h
  <2> QED
    BY <1>0, <2>1, <2>2, FwdStep, StillAir
<1>6. CASE Break(b)
  <2>1. f.pc \in {"answer", "sent"} /\ fwd' = [fwd EXCEPT ![b] = HungUp(f)] /\ Abandon(b)
    BY <1>6 DEF Break, InSession
  <2>2. FwdOK' /\ \A c \in Bbs \ {b} : fwd'[c] = fwd[c]
    BY <1>0, <2>1, HungUpSane, FwdStep
  <2>3. wire' = [wire EXCEPT ![b] = {}]
    BY <2>1 DEF Abandon
  <2>4. late' \in [Bbs -> SUBSET [to: Bbs, msg: WireMessage]]
    <3>1. PeerOf(b) \in Bbs /\ wire[b] \subseteq WireMessage
      BY <2>1, Facts
    <3>2. late' = late \/ \E w \in SUBSET [to: Bbs, msg: WireMessage] : late' = [late EXCEPT ![b] = w]
      <4>1. CASE late' = late
        BY <4>1
      <4>2. ASSUME NEW last \in wire[b],
                   late' = [late EXCEPT ![b] =
                       {[to |-> PeerOf(b), msg |-> m] : m \in {n \in wire[b] : n.id <= last.id}}]
            PROVE  \E w \in SUBSET [to: Bbs, msg: WireMessage] : late' = [late EXCEPT ![b] = w]
        <5> DEFINE w == {[to |-> PeerOf(b), msg |-> m] : m \in {n \in wire[b] : n.id <= last.id}}
        <5>1. w \subseteq [to: Bbs, msg: WireMessage]
          BY <3>1
        <5> HIDE DEF w
        <5> QED
          BY <4>2, <5>1 DEF w
      <4> QED
        BY <2>1, <4>1, <4>2 DEF Abandon
    <3> QED
      BY <1>0, <3>2 DEF AirOK
  <2> QED
    BY <1>0, <2>2, <2>3, <2>4 DEF AirOK
<1> QED
  BY <1>2, <1>3, <1>4, <1>5, <1>6

LEMMA TakeInTyped ==
  ASSUME Typed, NEW b \in Bbs, TakeIn(b) \/ TakeInLate(b)
  PROVE  Typed'
<1> DEFINE f == fwd[b]
<1>1. /\ Sane(f) /\ StoresOK /\ FwdOK /\ AirOK
      /\ wire[b] \subseteq WireMessage /\ late[b] \subseteq [to: Bbs, msg: WireMessage]
  BY Facts DEF Typed
<1>2. CASE TakeIn(b)
  <2>1. PICK m \in wire[b] :
          LET p == PeerOf(b)
              s == Import(mem[p], m)
          IN  \/ /\ \/ s = mem[p] /\ UNCHANGED <<mem, disk, faults>>
                    \/ s # mem[p] /\ Saved(p, s)
                 /\ wire' = [wire EXCEPT ![b] = @ \ {m}]
                 /\ UNCHANGED fwd
              \/ /\ s # mem[p] /\ SaveFails(p, s)
                 /\ wire' = [wire EXCEPT ![b] = {}]
                 /\ fwd' = [fwd EXCEPT ![b] = HungUp(f)]
    BY <1>2 DEF TakeIn
  <2>2. f.pc = "sent" /\ PeerOf(b) \in Bbs /\ UNCHANGED <<plan, late, posted>>
    BY <1>2, Facts DEF TakeIn
  <2>3. mem[PeerOf(b)] \in Store /\ Numbered(mem[PeerOf(b)]) /\ m \in WireMessage
    BY <1>1, <2>2, Facts
  <2>4. StoresOK'
    <3>1. Grows(mem[PeerOf(b)], Import(mem[PeerOf(b)], m))
      BY <2>3, ImportGrows
    <3> QED
      BY <1>1, <2>1, <2>2, <3>1, StillStores, Writes DEF Written
  <2>5. CASE wire' = [wire EXCEPT ![b] = @ \ {m}] /\ fwd' = fwd
    BY <1>1, <2>2, <2>4, <2>5 DEF Typed, FwdOK, AirOK, Sane
  <2>6. CASE wire' = [wire EXCEPT ![b] = {}] /\ fwd' = [fwd EXCEPT ![b] = HungUp(f)]
    <3>1. FwdOK' /\ \A c \in Bbs \ {b} : fwd'[c] = fwd[c]
      BY <1>1, <2>2, <2>6, HungUpSane, FwdStep
    <3>2. AirOK'
      BY <1>1, <2>2, <2>6, <3>1 DEF AirOK
    <3> QED
      BY <2>2, <2>4, <3>1, <3>2 DEF Typed
  <2> QED
    BY <2>1, <2>5, <2>6
<1>3. CASE TakeInLate(b)
  <2>1. PICK x \in late[b] :
          LET s == Import(mem[x.to], x.msg)
          IN  \/ /\ \/ s = mem[x.to] /\ UNCHANGED <<mem, disk, faults>>
                    \/ s # mem[x.to] /\ Saved(x.to, s)
                 /\ late' = [late EXCEPT ![b] = @ \ {x}]
              \/ /\ s # mem[x.to] /\ SaveFails(x.to, s)
                 /\ late' = [late EXCEPT ![b] = {}]
    BY <1>3 DEF TakeInLate
  <2>2. x.to \in Bbs /\ x.msg \in WireMessage /\ UNCHANGED <<plan, fwd, wire, posted>>
    BY <1>1, <1>3 DEF TakeInLate
  <2>3. mem[x.to] \in Store /\ Numbered(mem[x.to])
    BY <2>2, Facts
  <2>4. StoresOK'
    <3>1. Grows(mem[x.to], Import(mem[x.to], x.msg))
      BY <2>2, <2>3, ImportGrows
    <3> QED
      BY <1>1, <2>1, <2>2, <3>1, StillStores, Writes DEF Written
  <2>5. late' \in [Bbs -> SUBSET [to: Bbs, msg: WireMessage]]
    BY <1>1, <2>1 DEF AirOK
  <2> QED
    BY <1>1, <2>2, <2>4, <2>5 DEF Typed, FwdOK, AirOK, Sane
<1> QED
  BY <1>2, <1>3

\* What the forwarder has the results of lies in its store.
Recordable ==
    \A b \in Bbs : \A m \in fwd[b].queue : m.id \in Numbers(mem[b])

LEMMA RecordTyped ==
  ASSUME Typed, Recordable, NEW b \in Bbs, Record(b)
  PROVE  Typed'
<1> DEFINE f == fwd[b]
<1>1. PICK m \in f.queue :
        /\ m.bid \in f.sent \cup f.deferred
        /\ Written(b, RecordForward(mem[b], PeerOf(b), m.id, m.bid \in f.sent))
        /\ fwd' = [fwd EXCEPT ![b].sent = @ \ {m.bid}, ![b].deferred = @ \ {m.bid}]
  BY DEF Record
<1> DEFINE h == [f EXCEPT !.sent = f.sent \ {m.bid}, !.deferred = f.deferred \ {m.bid}]
<1>2. f.pc = "flush" /\ PeerOf(b) \in Bbs /\ Sane(f) /\ UNCHANGED <<plan, wire, late, posted>>
  BY Facts DEF Record
<1>3. Grows(mem[b], RecordForward(mem[b], PeerOf(b), m.id, m.bid \in f.sent))
  <2> DEFINE d == m.bid \in f.sent
  <2>1. d \in BOOLEAN /\ m.id \in Numbers(mem[b]) /\ mem[b] \in Store /\ Numbered(mem[b])
    BY Facts DEF Recordable
  <2> HIDE DEF d
  <2>2. Grows(mem[b], RecordForward(mem[b], PeerOf(b), m.id, d))
    BY <1>2, <2>1, RecordForwardReworks DEF Reworks
  <2> QED
    BY <2>2 DEF d
<1>4. StoresOK'
  BY <1>1, <1>3, Writes DEF Typed
<1>5. fwd' = [fwd EXCEPT ![b] = h]
  BY <1>1 DEF Typed, FwdOK
<1>6. Sane(h)
  <2> HIDE DEF f
  <2> QED
    BY <1>2 DEF Sane, Forwarder
<1> HIDE DEF h
<1>7. FwdOK' /\ \A c \in Bbs \ {b} : fwd'[c] = fwd[c]
  BY <1>5, <1>6, FwdStep DEF Typed
<1>8. AirOK'
  BY <1>2, <1>7, StillAir DEF Typed
<1> QED
  BY <1>2, <1>4, <1>7, <1>8 DEF Typed

LEMMA CrashTyped ==
  ASSUME Typed, NEW b \in Bbs, Crash(b)
  PROVE  Typed'
<1>1. StoresOK'
  <2>1. faults < MaxFaults /\ faults' = faults + 1 /\ disk' = disk
        /\ mem' = [mem EXCEPT ![b] = disk[b]]
    BY DEF Crash
  <2>2. faults' \in 0 .. MaxFaults
    BY <2>1 DEF Typed, StoresOK
  <2> QED
    BY <2>1, <2>2 DEF Typed, StoresOK
<1>2. \A c \in Bbs : \/ c = b /\ fwd'[c] = Idle /\ wire'[c] = {}
                     \/ c # b /\ fwd[c].pc \in {"answer", "sent"}
                           /\ fwd'[c] = HungUp(fwd[c]) /\ wire'[c] = {}
                     \/ c # b /\ fwd'[c] = fwd[c] /\ wire'[c] = wire[c]
  BY DEF Crash, InSession
<1>3. \A c \in Bbs : Sane(fwd'[c])
  <2> SUFFICES ASSUME NEW c \in Bbs PROVE Sane(fwd'[c])
    OBVIOUS
  <2>1. CASE fwd'[c] = Idle
    BY <2>1, IdleSane
  <2>2. CASE fwd[c].pc \in {"answer", "sent"} /\ fwd'[c] = HungUp(fwd[c])
    BY <2>2, Facts, HungUpSane
  <2>3. CASE fwd'[c] = fwd[c]
    BY <2>3, Facts
  <2> QED
    BY <1>2, <2>1, <2>2, <2>3
<1>4. FwdOK'
  <2>1. DOMAIN fwd' = Bbs /\ fwd' = [c \in Bbs |-> fwd'[c]]
    BY DEF Crash
  <2>2. fwd' \in [Bbs -> Forwarder]
    BY <1>3, <2>1 DEF Sane
  <2> QED
    BY <1>3, <2>2 DEF FwdOK
<1>5. AirOK'
  <2>1. wire' = [c \in Bbs |-> wire'[c]] /\ late' = [c \in Bbs |-> {x \in late[c] : x.to # b}]
    BY DEF Crash
  <2>2. late' \in [Bbs -> SUBSET [to: Bbs, msg: WireMessage]]
    BY <2>1 DEF Typed, AirOK
  <2>3. \A c \in Bbs : wire'[c] \subseteq WireMessage /\ (wire'[c] # {} => fwd'[c].pc = "sent")
    BY <1>2 DEF Typed, AirOK
  <2>4. wire' \in [Bbs -> SUBSET WireMessage]
    BY <2>1, <2>3
  <2> QED
    BY <2>2, <2>3, <2>4 DEF AirOK
<1>6. plan' \in [Bbs -> [Planner -> PlanType]] /\ posted' \subseteq Text
  BY DEF Crash, Typed, PlanType
<1> QED
  BY <1>1, <1>4, <1>5, <1>6 DEF Typed

-----------------------------------------------------------------------------
(* What a step does to the stores *)

OnAir(m) == \E b \in Bbs : m \in wire[b] \/ \E x \in late[b] : x.msg = m

Amends(b) ==
    \E t : Reworks(mem[b], t) /\ SameForward(mem[b], t) /\ Written(b, t)

Files(b, m) ==
    /\ ~HasBID(mem[b], m.bid)
    /\ Written(b, Filed(mem[b], m.type, m.from, m.to, m.at, m.bid, m.text))

LEMMA StoreSteps ==
  ASSUME Typed, Next
  PROVE  \/ \E l \in Letter : Post(l)
         \/ \E b \in Bbs : Crash(b)
         \/ \E b \in Bbs : Record(b)
         \/ posted' = posted /\ UNCHANGED <<mem, disk>>
         \/ posted' = posted /\ \E b \in Bbs : Amends(b)
         \/ posted' = posted /\ \E b \in Bbs, m \in WireMessage : OnAir(m) /\ Files(b, m)
<1> DEFINE Goal ==
         \/ \E l \in Letter : Post(l)
         \/ \E b \in Bbs : Crash(b)
         \/ \E b \in Bbs : Record(b)
         \/ posted' = posted /\ UNCHANGED <<mem, disk>>
         \/ posted' = posted /\ \E b \in Bbs : Amends(b)
         \/ posted' = posted /\ \E b \in Bbs, m \in WireMessage : OnAir(m) /\ Files(b, m)
<1> SUFFICES Goal
  OBVIOUS
<1>1. ASSUME NEW b \in Bbs, NEW u \in Login[b], NEW m, UserReads(b, u, m) \/ UserKills(b, u, m)
      PROVE  Goal
  <2>1. PICK t : (t = Read(mem[b], u, m.id) \/ t = Delete(mem[b], u, m.id)) /\ Written(b, t)
    BY <1>1 DEF UserReads, UserKills
  <2>2. u \in User /\ mem[b] \in Store /\ Numbered(mem[b])
    BY Facts
  <2>3. Reworks(mem[b], t) /\ SameForward(mem[b], t)
    BY <2>1, <2>2, ReadReworks, DeleteReworks
  <2>4. posted' = posted
    BY <1>1 DEF UserReads, UserKills
  <2> QED
    BY <2>1, <2>3, <2>4 DEF Amends
<1>2. ASSUME NEW b \in Bbs, NEW g \in Planner, QueuePeer(b, g)
      PROVE  Goal
  <2>1. PICK p \in {x[1] : x \in plan[b][g]} :
          /\ Written(b, QueueForward(mem[b], p, {x[2] : x \in {y \in plan[b][g] : y[1] = p}}))
          /\ posted' = posted
    BY <1>2 DEF QueuePeer, Written
  <2>2. p \in Bbs
    BY <2>1 DEF Typed, PlanType
  <2> QED
    BY <2>1, <2>2, Facts, QueueForwardReworks DEF Amends
<1>3. ASSUME NEW b \in Bbs, TakeIn(b) \/ TakeInLate(b)
      PROVE  Goal
  <2>1. PICK p \in Bbs, m \in WireMessage :
          
          /\ OnAir(m)
          /\ \/ UNCHANGED <<mem, disk>>
             \/ Import(mem[p], m) # mem[p] /\ Written(p, Import(mem[p], m))
    <3>1. CASE TakeIn(b)
      <4> DEFINE p == PeerOf(b)
      <4>1. PICK m \in wire[b] :
              LET s == Import(mem[p], m)
              IN  \/ (s = mem[p] /\ UNCHANGED <<mem, disk, faults>>) \/ (s # mem[p] /\ Saved(p, s))
                  \/ (s # mem[p] /\ SaveFails(p, s))
        BY <3>1 DEF TakeIn
      <4>2. p \in Bbs /\ m \in WireMessage /\ OnAir(m)
        BY <3>1, <4>1, Facts DEF TakeIn, OnAir
      <4> HIDE DEF p
      <4>3. \/ UNCHANGED <<mem, disk>>
            \/ Import(mem[p], m) # mem[p] /\ Written(p, Import(mem[p], m))
        BY <4>1 DEF Written
      <4> QED
        BY <4>2, <4>3
    <3>2. CASE TakeInLate(b)
      <4>1. PICK x \in late[b] :
              LET s == Import(mem[x.to], x.msg)
              IN  \/ (s = mem[x.to] /\ UNCHANGED <<mem, disk, faults>>)
                  \/ (s # mem[x.to] /\ Saved(x.to, s))
                  \/ (s # mem[x.to] /\ SaveFails(x.to, s))
        BY <3>2 DEF TakeInLate
      <4>2. x.to \in Bbs /\ x.msg \in WireMessage /\ OnAir(x.msg)
        BY <4>1, Facts DEF OnAir
      <4>3. \/ UNCHANGED <<mem, disk>>
            \/ Import(mem[x.to], x.msg) # mem[x.to] /\ Written(x.to, Import(mem[x.to], x.msg))
        BY <4>1 DEF Written
      <4> QED
        BY <4>2, <4>3
    <3> QED
      BY <1>3, <3>1, <3>2
  <2>2. posted' = posted
    BY <1>3 DEF TakeIn, TakeInLate
  <2>3. Import(mem[p], m) # mem[p] /\ Written(p, Import(mem[p], m)) => Files(p, m)
    BY Facts, ImportGrows DEF Files
  <2> QED
    BY <2>1, <2>2, <2>3
<1>4. ASSUME NEW b \in Bbs, PlannerLooks(b) \/ ForwarderLooks(b) \/ Dial(b) \/ NothingToSend(b)
             \/ PeerAnswers(b) \/ Confirm(b) \/ Break(b) \/ Flushed(b)
      PROVE  posted' = posted /\ UNCHANGED <<mem, disk>>
  BY <1>4 DEF PlannerLooks, ForwarderLooks, Dial, NothingToSend, PeerAnswers, Answer, Confirm,
              Break, Flushed
<1> HIDE DEF Goal
<1>5. (\E l \in Letter : Post(l)) \/ (\E b \in Bbs : Crash(b) \/ Record(b)) => Goal
  BY DEF Goal
<1>6. (posted' = posted /\ UNCHANGED <<mem, disk>>) => Goal
  BY DEF Goal
<1> QED
  BY <1>1, <1>2, <1>3, <1>4, <1>5, <1>6 DEF Next, AtUser, Forwards

\* A result is recorded for a message of the store.
LEMMA RecordAmends ==
  ASSUME Typed, Recordable, NEW b \in Bbs, Record(b)
  PROVE  /\ posted' = posted
         /\ \E m \in fwd[b].queue, d \in BOOLEAN :
               LET t == RecordForward(mem[b], PeerOf(b), m.id, d)
               IN  /\ m.bid \in fwd[b].sent \cup fwd[b].deferred /\ (d <=> m.bid \in fwd[b].sent)
                   /\ m.id \in Numbers(mem[b]) /\ Reworks(mem[b], t) /\ Written(b, t)
                   /\ t.mail[m.id].forward[PeerOf(b)] = IF d THEN "delivered" ELSE "failed"
                   /\ \A i \in Numbers(mem[b]), q \in Peer :
                         i # m.id \/ q # PeerOf(b) =>
                             t.mail[i].forward[q] = mem[b].mail[i].forward[q]
                   /\ fwd' = [fwd EXCEPT ![b].sent = @ \ {m.bid}, ![b].deferred = @ \ {m.bid}]
<1>1. PICK m \in fwd[b].queue :
        /\ m.bid \in fwd[b].sent \cup fwd[b].deferred
        /\ Written(b, RecordForward(mem[b], PeerOf(b), m.id, m.bid \in fwd[b].sent))
        /\ fwd' = [fwd EXCEPT ![b].sent = @ \ {m.bid}, ![b].deferred = @ \ {m.bid}]
  BY DEF Record
<1> DEFINE d == m.bid \in fwd[b].sent
           t == RecordForward(mem[b], PeerOf(b), m.id, d)
<1>2. /\ d \in BOOLEAN /\ m.id \in Numbers(mem[b]) /\ mem[b] \in Store /\ Numbered(mem[b])
      /\ PeerOf(b) \in Bbs
  BY Facts DEF Recordable, Record
<1>3. (d <=> m.bid \in fwd[b].sent) /\ Written(b, t)
  BY <1>1
<1> HIDE DEF d
<1>4. /\ Reworks(mem[b], t)
      /\ t.mail[m.id].forward[PeerOf(b)] = IF d THEN "delivered" ELSE "failed"
      /\ \A i \in Numbers(mem[b]), q \in Peer :
            i # m.id \/ q # PeerOf(b) => t.mail[i].forward[q] = mem[b].mail[i].forward[q]
  BY <1>2, RecordForwardReworks
<1>5. posted' = posted
  BY DEF Record
<1> QED
  BY <1>1, <1>2, <1>3, <1>4, <1>5

\* Beside posting and crashes, stores only grow, and no step but Record enters
\* a delivery.
LEMMA StoresGrow ==
  ASSUME Typed, Recordable, Next, NEW b \in Bbs, ~Crash(b)
  PROVE  Grows(mem[b], mem'[b]) /\ (~Record(b) => SameForward(mem[b], mem'[b]))
<1>0. /\ StoresOK /\ mem[b] \in Store /\ Numbered(mem[b])
      /\ Grows(mem[b], mem[b]) /\ SameForward(mem[b], mem[b])
  BY Facts, StoreFields DEF Typed, Grows, Kin, SameForward
<1>1. ASSUME NEW l \in Letter, Post(l) PROVE Grows(mem[b], mem'[b]) /\ SameForward(mem[b], mem'[b])
  <2> DEFINE s == mem[l.home]
             t == Send(s, l)
  <2>1. /\ Grows(s, t) /\ l.home \in Bbs
        /\ t = Filed(s, l.type, l.from, l.to, l.at, <<s.next, l.from>>, l.text)
        /\ <<s.next, l.from>> \in BID
    BY PostGrows
  <2>2. \A i \in Numbers(s) : t.mail[i] = s.mail[i]
    <3>1. s \in Store /\ Numbered(s)
      BY <2>1, Facts
    <3>2. /\ l.type \in {"P", "B"} /\ l.from \in User /\ l.to \in Address
          /\ l.at \in Address \cup {NoAddress} /\ l.text \in Text
      OBVIOUS
    <3> DEFINE bid == <<s.next, l.from>>
    <3>3. bid \in BID
      BY <2>1
    <3> HIDE DEF bid
    <3>4. \A i \in Numbers(s) : Filed(s, l.type, l.from, l.to, l.at, bid, l.text).mail[i] = s.mail[i]
      BY <3>1, <3>2, <3>3, FiledGrows
    <3> QED
      BY <2>1, <3>4 DEF bid
  <2>3. Written(l.home, t)
    BY <1>1 DEF Post
  <2> HIDE DEF t
  <2>4. mem'[l.home] = t /\ \A c \in Bbs \ {l.home} : mem'[c] = mem[c]
    BY <1>0, <2>1, <2>3, Writes
  <2>5. SameForward(s, t)
    BY <2>2 DEF SameForward
  <2> QED
    BY <1>0, <2>1, <2>4, <2>5
<1>2. ASSUME NEW c \in Bbs, Crash(c) PROVE Grows(mem[b], mem'[b]) /\ SameForward(mem[b], mem'[b])
  <2>1. mem'[b] = mem[b]
    BY <1>2, <1>0 DEF Crash, StoresOK
  <2> QED
    BY <1>0, <2>1
<1>3. ASSUME NEW c \in Bbs, Record(c)
      PROVE  Grows(mem[b], mem'[b]) /\ (c # b => SameForward(mem[b], mem'[b]))
  <2>1. PICK t : Reworks(mem[c], t) /\ Written(c, t)
    BY <1>3, RecordAmends
  <2>2. mem'[c] = t /\ \A d \in Bbs \ {c} : mem'[d] = mem[d]
    BY <1>0, <2>1, Writes DEF Reworks
  <2> QED
    BY <1>0, <2>1, <2>2 DEF Reworks
<1>4. CASE UNCHANGED <<mem, disk>>
  BY <1>0, <1>4
<1>5. ASSUME NEW c \in Bbs, Amends(c) PROVE Grows(mem[b], mem'[b]) /\ SameForward(mem[b], mem'[b])
  <2>1. PICK t : Reworks(mem[c], t) /\ SameForward(mem[c], t) /\ Written(c, t)
    BY <1>5 DEF Amends
  <2>2. mem'[c] = t /\ \A d \in Bbs \ {c} : mem'[d] = mem[d]
    BY <1>0, <2>1, Writes DEF Reworks
  <2> QED
    BY <1>0, <2>1, <2>2 DEF Reworks
<1>6. ASSUME NEW c \in Bbs, NEW m \in WireMessage, Files(c, m)
      PROVE  Grows(mem[b], mem'[b]) /\ SameForward(mem[b], mem'[b])
  <2> DEFINE t == Filed(mem[c], m.type, m.from, m.to, m.at, m.bid, m.text)
  <2>1. Grows(mem[c], t) /\ \A i \in Numbers(mem[c]) : t.mail[i] = mem[c].mail[i]
    <3>1. /\ m.type \in {"P", "B"} /\ m.from \in User /\ m.to \in Address
          /\ m.at \in Address \cup {NoAddress} /\ m.bid \in BID /\ m.text \in Text
      BY DEF WireMessage
    <3> QED
      BY <3>1, Facts, FiledGrows
  <2>2. Written(c, t)
    BY <1>6 DEF Files
  <2> HIDE DEF t
  <2>3. mem'[c] = t /\ \A d \in Bbs \ {c} : mem'[d] = mem[d]
    BY <1>0, <2>1, <2>2, Writes
  <2> QED
    BY <1>0, <2>1, <2>3 DEF SameForward
<1> QED
  BY <1>1, <1>2, <1>3, <1>4, <1>5, <1>6, StoreSteps

-----------------------------------------------------------------------------
(* What a forwarder has in hand *)

\* What a step does to a forwarder.
LEMMA ForwarderSteps ==
  ASSUME Typed, Next, NEW b \in Bbs
  PROVE  \/ fwd'[b] = fwd[b]
         \/ fwd'[b].queue = {}
         \/ Dial(b)
         \/ \E deferred \in SUBSET Proposed(fwd[b].queue) : Answer(b, deferred)
         \/ Confirm(b)
         \/ Record(b)
         \/ InSession(b) /\ fwd'[b] = HungUp(fwd[b])
<1> DEFINE Goal ==
         \/ fwd'[b] = fwd[b]
         \/ fwd'[b].queue = {}
         \/ Dial(b)
         \/ \E deferred \in SUBSET Proposed(fwd[b].queue) : Answer(b, deferred)
         \/ Confirm(b)
         \/ Record(b)
         \/ InSession(b) /\ fwd'[b] = HungUp(fwd[b])
<1> SUFFICES Goal
  OBVIOUS
<1>0. fwd \in [Bbs -> Forwarder] /\ Sane(fwd[b])
  BY Facts DEF Typed, FwdOK
<1>1. CASE UNCHANGED fwd
  BY <1>1
<1>2. ASSUME NEW c \in Bbs, NEW f, fwd' = [fwd EXCEPT ![c] = f], b # c PROVE fwd'[b] = fwd[b]
  BY <1>0, <1>2
<1>3. ASSUME NEW c \in Bbs, NothingToSend(c) \/ Flushed(c) PROVE Goal
  <2>1. fwd' = [fwd EXCEPT ![c] = Onward(fwd[c])] /\ fwd[c].pc # "idle"
    BY <1>3 DEF NothingToSend, Flushed, AtPeer
  <2>2. Onward(fwd[c]).queue = {}
    BY <2>1, Facts, OnwardSane
  <2> QED
    BY <1>0, <2>1, <2>2
<1>4. ASSUME NEW c \in Bbs, ForwarderLooks(c) PROVE Goal
  <2> DEFINE f == [Idle EXCEPT !.pc = "peers", !.left = Partners[c]]
  <2>1. fwd' = [fwd EXCEPT ![c] = f] /\ f.queue = {}
    BY <1>4 DEF ForwarderLooks, Idle
  <2> HIDE DEF f
  <2> QED
    BY <1>0, <2>1
<1>5. ASSUME NEW c \in Bbs, Dial(c) \/ PeerAnswers(c) \/ Confirm(c) \/ Record(c) PROVE Goal
  <2>1. CASE c = b
    BY <1>5, <2>1 DEF PeerAnswers
  <2>2. CASE c # b
    <3>1. PICK f : fwd' = [fwd EXCEPT ![c] = f]
      <4>1. \E f : fwd' = [fwd EXCEPT ![c] = f]
        <5>1. CASE Dial(c)
          BY <5>1 DEF Dial
        <5>2. CASE PeerAnswers(c)
          BY <5>2 DEF PeerAnswers, Answer
        <5>3. CASE Confirm(c)
          BY <5>3 DEF Confirm
        <5>4. CASE Record(c)
          BY <5>4 DEF Record
        <5> QED
          BY <1>5, <5>1, <5>2, <5>3, <5>4
      <4> QED
        BY <4>1
    <3> QED
      BY <1>2, <2>2, <3>1
  <2> QED
    BY <2>1, <2>2
<1>6. ASSUME NEW c \in Bbs, Break(c) \/ TakeIn(c) PROVE Goal
  <2>1. InSession(c) /\ (UNCHANGED fwd \/ fwd' = [fwd EXCEPT ![c] = HungUp(fwd[c])])
    <3>1. CASE Break(c)
      BY <3>1 DEF Break
    <3>2. CASE TakeIn(c)
      BY <3>2 DEF TakeIn, InSession
    <3> QED
      BY <1>6, <3>1, <3>2
  <2> QED
    BY <1>0, <2>1
<1>7. ASSUME NEW c \in Bbs, Crash(c) PROVE Goal
  <2>1. fwd'[b] = Idle \/ fwd'[b] = fwd[b] \/ (InSession(b) /\ fwd'[b] = HungUp(fwd[b]))
    BY <1>7 DEF Crash
  <2> QED
    BY <2>1 DEF Idle
<1>8. ASSUME NEW c \in Bbs,
             PlannerLooks(c) \/ (\E g \in Planner : QueuePeer(c, g)) \/ TakeInLate(c)
      PROVE  UNCHANGED fwd
  BY <1>8 DEF PlannerLooks, QueuePeer, TakeInLate
<1>9. AtUser => UNCHANGED fwd
  BY DEF AtUser, Post, UserReads, UserKills
<1> HIDE DEF Goal
<1>10. UNCHANGED fwd => Goal
  BY DEF Goal
<1> QED
  BY <1>3, <1>4, <1>5, <1>6, <1>7, <1>8, <1>9, <1>10 DEF Next, Forwards

\* The queue of a session are messages of the store; those whose result is
\* still to come or to be recorded are not recorded as delivered.
Awaited(b, m) == InSession(b) \/ m.bid \in fwd[b].sent \cup fwd[b].deferred

Sending ==
    \A b \in Bbs : \A m \in fwd[b].queue :
        /\ m.id \in Numbers(mem[b])
        /\ mem[b].mail[m.id].bid = m.bid /\ mem[b].mail[m.id].text = m.text
        /\ Awaited(b, m) => mem[b].mail[m.id].forward[PeerOf(b)] # "delivered"

LEMMA SendingRecordable == Sending => Recordable
  BY DEF Sending, Recordable

LEMMA NextTyped == Typed /\ Sending /\ Next => Typed'
  BY AtUserTyped, PlanningTyped, SessionTyped, TakeInTyped, RecordTyped, CrashTyped,
     SendingRecordable DEF Next, Forwards

LEMMA SendingStep ==
  ASSUME Typed, Sending, Next
  PROVE  Sending'
<1> SUFFICES ASSUME NEW b \in Bbs, NEW m \in fwd'[b].queue
             PROVE  /\ m.id \in Numbers(mem'[b])
                    /\ mem'[b].mail[m.id].bid = m.bid /\ mem'[b].mail[m.id].text = m.text
                    /\ Awaited(b, m)' => mem'[b].mail[m.id].forward[PeerOf(b)'] # "delivered"
  BY DEF Sending
<1>0. /\ Sane(fwd[b]) /\ fwd \in [Bbs -> Forwarder] /\ mem[b] \in Store /\ Numbered(mem[b])
      /\ Recordable /\ fwd[b].queue \subseteq Message
  BY Facts, SendingRecordable DEF Typed, FwdOK, Forwarder
<1>1. ~Crash(b)
  BY <1>0 DEF Crash, Idle
<1>2. Grows(mem[b], mem'[b]) /\ (~Record(b) => SameForward(mem[b], mem'[b]))
  BY <1>0, <1>1, StoresGrow
<1>3. ASSUME m.id \in Numbers(mem[b]), mem[b].mail[m.id].bid = m.bid,
             mem[b].mail[m.id].text = m.text
      PROVE  /\ m.id \in Numbers(mem'[b])
             /\ mem'[b].mail[m.id].bid = m.bid /\ mem'[b].mail[m.id].text = m.text
             /\ ~Record(b) => \A p \in Bbs : mem[b].mail[m.id].forward[p] # "delivered"
                                   => mem'[b].mail[m.id].forward[p] # "delivered"
  BY <1>2, <1>3 DEF Grows, Kin, SameForward
<1>4. ASSUME ~Record(b), m \in fwd[b].queue, fwd'[b].left = fwd[b].left, fwd[b].pc # "idle",
             Awaited(b, m)' => Awaited(b, m)
      PROVE  /\ m.id \in Numbers(mem'[b])
             /\ mem'[b].mail[m.id].bid = m.bid /\ mem'[b].mail[m.id].text = m.text
             /\ Awaited(b, m)' => mem'[b].mail[m.id].forward[PeerOf(b)'] # "delivered"
  <2>1. PeerOf(b)' = PeerOf(b) /\ PeerOf(b) \in Bbs
    BY <1>4, Facts DEF PeerOf
  <2> QED
    BY <1>3, <1>4, <2>1 DEF Sending
<1>5. CASE Dial(b)
  <2>1. /\ fwd'[b].queue = QueueOfPeer(b) /\ fwd'[b].left = fwd[b].left /\ PeerOf(b) \in Bbs
        /\ ~Record(b)
    BY <1>0, <1>5, Facts DEF Dial, AtPeer, Record
  <2>2. m.id \in Numbers(mem[b]) /\ m = mem[b].mail[m.id] /\ Waiting(m, PeerOf(b))
    BY <1>0, <2>1, QueueBound DEF QueueOfPeer
  <2>3. PeerOf(b)' = PeerOf(b)
    BY <2>1 DEF PeerOf
  <2> QED
    BY <1>3, <2>1, <2>2, <2>3 DEF Waiting
<1>6. CASE Record(b)
  <2>1. PICK n \in fwd[b].queue, d \in BOOLEAN :
          LET t == RecordForward(mem[b], PeerOf(b), n.id, d)
          IN  /\ n.bid \in fwd[b].sent \cup fwd[b].deferred /\ (d <=> n.bid \in fwd[b].sent)
              /\ n.id \in Numbers(mem[b]) /\ Reworks(mem[b], t) /\ Written(b, t)
              /\ t.mail[n.id].forward[PeerOf(b)] = IF d THEN "delivered" ELSE "failed"
              /\ \A i \in Numbers(mem[b]), q \in Peer :
                    i # n.id \/ q # PeerOf(b) =>
                        t.mail[i].forward[q] = mem[b].mail[i].forward[q]
              /\ fwd' = [fwd EXCEPT ![b].sent = @ \ {n.bid}, ![b].deferred = @ \ {n.bid}]
    BY <1>0, <1>6, RecordAmends
  <2>2. mem'[b] = RecordForward(mem[b], PeerOf(b), n.id, d)
    BY <2>1, Writes DEF Reworks, Typed
  <2>3. /\ fwd'[b].queue = fwd[b].queue /\ fwd'[b].left = fwd[b].left /\ fwd'[b].pc = fwd[b].pc
        /\ fwd'[b].sent = fwd[b].sent \ {n.bid} /\ fwd'[b].deferred = fwd[b].deferred \ {n.bid}
        /\ fwd[b].pc = "flush" /\ PeerOf(b) \in Bbs
    BY <1>0, <1>6, <2>1, Facts DEF Record, Forwarder
  <2>4. m \in fwd[b].queue /\ PeerOf(b)' = PeerOf(b)
    BY <2>3 DEF PeerOf
  <2>5. /\ m.id \in Numbers(mem[b]) /\ mem[b].mail[m.id].bid = m.bid
        /\ mem[b].mail[m.id].text = m.text
    BY <2>4 DEF Sending
  <2>6. ASSUME Awaited(b, m)' PROVE mem'[b].mail[m.id].forward[PeerOf(b)] # "delivered"
    <3>1. m.bid \in fwd[b].sent \cup fwd[b].deferred /\ m.bid # n.bid
      BY <2>3, <2>6 DEF Awaited, InSession
    <3>2. m.id # n.id
      BY <2>5, <3>1 DEF Sending
    <3>3. mem'[b].mail[m.id].forward[PeerOf(b)] = mem[b].mail[m.id].forward[PeerOf(b)]
      BY <2>1, <2>2, <2>3, <2>5, <3>2
    <3> QED
      BY <2>4, <3>1, <3>3 DEF Sending, Awaited
  <2> QED
    BY <1>3, <2>4, <2>5, <2>6
<1>7. CASE ~Record(b) /\ \E deferred \in SUBSET Proposed(fwd[b].queue) : Answer(b, deferred)
  <2>1. PICK deferred \in SUBSET Proposed(fwd[b].queue) : Answer(b, deferred)
    BY <1>7
  <2>2. /\ fwd[b].pc = "answer" /\ fwd'[b].queue = fwd[b].queue /\ fwd'[b].left = fwd[b].left
    BY <1>0, <2>1 DEF Answer, Forwarder
  <2> QED
    BY <1>4, <1>7, <2>2 DEF Awaited, InSession
<1>8. CASE Confirm(b) \/ (InSession(b) /\ fwd'[b] = HungUp(fwd[b]))
  <2>1. /\ fwd'[b].queue = fwd[b].queue /\ fwd'[b].left = fwd[b].left /\ InSession(b)
    BY <1>0, <1>8 DEF Confirm, HungUp, InSession, Forwarder
  <2> QED
    BY <1>4, <2>1 DEF Awaited, InSession, Record
<1>9. CASE ~Record(b) /\ fwd'[b] = fwd[b]
  BY <1>0, <1>4, <1>9 DEF Awaited, InSession, Sane
<1> QED
  BY <1>5, <1>6, <1>7, <1>8, <1>9, ForwarderSteps

LEMMA Stutter == Typed /\ Sending /\ UNCHANGED vars => Typed' /\ Sending'
<1> SUFFICES ASSUME Typed, Sending, UNCHANGED vars PROVE Typed' /\ Sending'
  OBVIOUS
<1>1. Typed'
  BY DEF vars, Typed, StoresOK, FwdOK, AirOK, Sane, InSession, PeerOf
<1>2. Sending'
  BY DEF vars, Sending, Awaited, InSession, PeerOf
<1> QED
  BY <1>1, <1>2

\* The state of a network of BBSs is well typed: a session never holds more
\* messages than the limit, and records results only of messages it proposed.
THEOREM TypeCorrect == Spec => []TypeOK
<1>1. Init => Typed /\ Sending
  BY InitTyped DEF Init, Sending, Idle
<1>2. Typed /\ Sending /\ [Next]_vars => Typed' /\ Sending'
  BY NextTyped, SendingStep, Stutter
<1>3. Typed => TypeOK
  BY DEF Typed, StoresOK, FwdOK, AirOK, Sane, Forwarder, TypeOK
<1> QED
  BY <1>1, <1>2, <1>3, PTL DEF Spec

-----------------------------------------------------------------------------
(* Texts and their BIDs *)

\* One message more, the others as they were.
Gains(s, t, text, bid) ==
    /\ Grows(s, t) /\ t.next = s.next + 1
    /\ \A i \in Numbers(s) : t.mail[i] = s.mail[i]
    /\ \E n : /\ Numbers(t) = Numbers(s) \cup {n} /\ n \notin Numbers(s)
              /\ t.mail[n].text = text /\ t.mail[n].bid = bid
              /\ \A p \in Peer : t.mail[n].forward[p] # "delivered"

\* One store changes, and its file follows or does not.
OnlyAt(b) ==
    /\ \A c \in Bbs \ {b} : mem'[c] = mem[c] /\ disk'[c] = disk[c]
    /\ disk'[b] = disk[b] \/ disk'[b] = mem'[b]

Posted(l) ==
    /\ l.home \in Bbs /\ l.text \notin posted /\ posted' = posted \cup {l.text}
    /\ OnlyAt(l.home)
    /\ Gains(mem[l.home], mem'[l.home], l.text, <<mem[l.home].next, l.from>>)

TakenIn(b, m) ==
    /\ OnAir(m) /\ ~HasBID(mem[b], m.bid) /\ OnlyAt(b)
    /\ Gains(mem[b], mem'[b], m.text, m.bid)

LEMMA FiledGains ==
  ASSUME NEW s \in Store, Numbered(s), NEW type \in {"P", "B"}, NEW from \in User,
         NEW to \in Address, NEW at \in Address \cup {NoAddress}, NEW bid \in BID,
         NEW text \in Text
  PROVE  Gains(s, Filed(s, type, from, to, at, bid, text), text, bid)
<1> DEFINE t == Filed(s, type, from, to, at, bid, text)
           n == Len(s.mail) + 1
<1>1. /\ Grows(s, t) /\ t.next = s.next + 1
      /\ Numbers(t) = Numbers(s) \cup {n} /\ n \notin Numbers(s)
      /\ \A i \in Numbers(s) : t.mail[i] = s.mail[i]
      /\ t.mail[n] = MessageFiled(s, type, from, to, at, bid, text)
  BY FiledGrows
<1>2. /\ t.mail[n].text = text /\ t.mail[n].bid = bid
      /\ \A p \in Peer : t.mail[n].forward[p] = "none"
  BY <1>1 DEF MessageFiled
<1> HIDE DEF t, n
<1>3. Gains(s, t, text, bid)
  BY <1>1, <1>2 DEF Gains
<1> QED
  BY <1>3 DEF t

LEMMA OnlyWritten ==
  ASSUME Typed, NEW b \in Bbs, NEW t, Grows(mem[b], t), Written(b, t)
  PROVE  OnlyAt(b) /\ mem'[b] = t
<1>1. /\ mem'[b] = t
      /\ \A c \in Bbs \ {b} : mem'[c] = mem[c] /\ disk'[c] = disk[c]
      /\ disk'[b] = t \/ disk'[b] = disk[b]
  BY Writes DEF Typed
<1> QED
  BY <1>1 DEF OnlyAt

\* What a step does to all the stores.
LEMMA StoresChange ==
  ASSUME Typed, Sending, Next
  PROVE  \/ \E l \in Letter : Posted(l)
         \/ posted' = posted /\ \E b \in Bbs, m \in WireMessage : TakenIn(b, m)
         \/ posted' = posted /\ \E b \in Bbs : OnlyAt(b) /\ Reworks(mem[b], mem'[b])
         \/ posted' = posted /\ UNCHANGED <<mem, disk>>
         \/ posted' = posted /\ \E b \in Bbs : Crash(b)
<1> DEFINE Goal ==
         \/ \E l \in Letter : Posted(l)
         \/ posted' = posted /\ \E b \in Bbs, m \in WireMessage : TakenIn(b, m)
         \/ posted' = posted /\ \E b \in Bbs : OnlyAt(b) /\ Reworks(mem[b], mem'[b])
         \/ posted' = posted /\ UNCHANGED <<mem, disk>>
         \/ posted' = posted /\ \E b \in Bbs : Crash(b)
<1> SUFFICES Goal
  OBVIOUS
<1>1. ASSUME NEW l \in Letter, Post(l) PROVE Posted(l)
  <2> DEFINE s == mem[l.home]
             bid == <<s.next, l.from>>
             t == Filed(s, l.type, l.from, l.to, l.at, bid, l.text)
  <2>1. /\ l.home \in Bbs /\ l.text \in Text /\ l.from \in User /\ bid \in BID
        /\ t = Send(s, l) /\ s \in Store /\ Numbered(s)
    BY PostGrows, Facts
  <2>2. l.type \in {"P", "B"} /\ l.to \in Address /\ l.at \in Address \cup {NoAddress}
    OBVIOUS
  <2>3. l.text \notin posted /\ posted' = posted \cup {l.text} /\ Written(l.home, t)
    BY <1>1, <2>1 DEF Post
  <2> HIDE DEF bid
  <2>4. Gains(s, t, l.text, bid)
    BY <2>1, <2>2, FiledGains
  <2> HIDE DEF t
  <2>5. OnlyAt(l.home) /\ mem'[l.home] = t
    BY <2>1, <2>3, <2>4, OnlyWritten DEF Gains
  <2> QED
    BY <2>1, <2>3, <2>4, <2>5 DEF Posted, bid
<1>2. ASSUME NEW b \in Bbs, NEW m \in WireMessage, OnAir(m), Files(b, m) PROVE TakenIn(b, m)
  <2> DEFINE t == Filed(mem[b], m.type, m.from, m.to, m.at, m.bid, m.text)
  <2>1. Gains(mem[b], t, m.text, m.bid)
    <3>1. /\ m.type \in {"P", "B"} /\ m.from \in User /\ m.to \in Address
          /\ m.at \in Address \cup {NoAddress} /\ m.bid \in BID /\ m.text \in Text
      BY DEF WireMessage
    <3> QED
      BY <3>1, Facts, FiledGains
  <2>2. Written(b, t) /\ ~HasBID(mem[b], m.bid)
    BY <1>2 DEF Files
  <2> HIDE DEF t
  <2>3. OnlyAt(b) /\ mem'[b] = t
    BY <2>1, <2>2, OnlyWritten DEF Gains
  <2> QED
    BY <1>2, <2>1, <2>2, <2>3 DEF TakenIn
<1>3. ASSUME NEW b \in Bbs, Amends(b) PROVE OnlyAt(b) /\ Reworks(mem[b], mem'[b])
  <2>1. PICK t : Reworks(mem[b], t) /\ Written(b, t)
    BY <1>3 DEF Amends
  <2> QED
    BY <2>1, OnlyWritten DEF Reworks
<1>4. ASSUME NEW b \in Bbs, Record(b)
      PROVE  posted' = posted /\ OnlyAt(b) /\ Reworks(mem[b], mem'[b])
  <2>1. PICK t : Reworks(mem[b], t) /\ Written(b, t)
    BY <1>4, RecordAmends, SendingRecordable
  <2> QED
    BY <1>4, <2>1, OnlyWritten DEF Reworks, Record
<1>5. ASSUME NEW b \in Bbs, Crash(b) PROVE posted' = posted
  BY <1>5 DEF Crash
<1> QED
  BY <1>1, <1>2, <1>3, <1>4, <1>5, StoreSteps

\* What is on its way after a step was so before, or has just been sent.
LEMMA AirSteps ==
  ASSUME Typed, Next, NEW m, OnAir(m)'
  PROVE  OnAir(m) \/ \E b \in Bbs : \E n \in fwd[b].queue : InSession(b) /\ m = OnWire(n)
<1> DEFINE Goal == OnAir(m) \/ \E b \in Bbs : \E n \in fwd[b].queue : InSession(b) /\ m = OnWire(n)
<1> SUFFICES Goal
  OBVIOUS
<1>0. /\ wire \in [Bbs -> SUBSET WireMessage]
      /\ late \in [Bbs -> SUBSET [to: Bbs, msg: WireMessage]]
  BY DEF Typed, AirOK
<1>1. PICK b \in Bbs : m \in wire'[b] \/ \E x \in late'[b] : x.msg = m
  BY DEF OnAir
<1>2. CASE wire'[b] \subseteq wire[b] /\ late'[b] \subseteq late[b]
  BY <1>1, <1>2 DEF OnAir
<1>3. ASSUME NEW c \in Bbs, PeerAnswers(c) PROVE Goal
  <2>1. PICK deferred : Answer(c, deferred)
    BY <1>3 DEF PeerAnswers
  <2>2. late' = late /\ InSession(c) /\ \A d \in Bbs \ {c} : wire'[d] = wire[d]
    BY <1>0, <2>1 DEF Answer, InSession
  <2>3. \A w \in wire'[c] : \E n \in fwd[c].queue : w = OnWire(n)
    BY <1>0, <2>1 DEF Answer
  <2> QED
    BY <1>1, <2>2, <2>3 DEF OnAir
<1>4. ASSUME NEW c \in Bbs, Break(c) PROVE Goal
  <2>1. wire' = [wire EXCEPT ![c] = {}]
    BY <1>4 DEF Break, Abandon
  <2>2. \/ late' = late
        \/ \E last \in wire[c] : late' = [late EXCEPT ![c] =
              {[to |-> PeerOf(c), msg |-> n] : n \in {k \in wire[c] : k.id <= last.id}}]
    BY <1>4 DEF Break, Abandon
  <2>3. \A d \in Bbs : \A x \in late'[d] : x \in late[d] \/ x.msg \in wire[c]
    <3>1. ASSUME NEW last \in wire[c], late' = [late EXCEPT ![c] =
              {[to |-> PeerOf(c), msg |-> n] : n \in {k \in wire[c] : k.id <= last.id}}],
                 NEW d \in Bbs, NEW x \in late'[d]
          PROVE  x \in late[d] \/ x.msg \in wire[c]
      <4>1. CASE d # c
        BY <1>0, <3>1, <4>1
      <4>2. CASE d = c
        <5>1. \E n \in wire[c] : x = [to |-> PeerOf(c), msg |-> n]
          BY <1>0, <3>1, <4>2
        <5> QED
          BY <5>1
      <4> QED
        BY <4>1, <4>2
    <3> QED
      BY <2>2, <3>1
  <2>4. \A d \in Bbs : wire'[d] \subseteq wire[d]
    BY <1>0, <2>1
  <2> QED
    BY <1>1, <2>3, <2>4 DEF OnAir
<1>5. ASSUME NEW c \in Bbs, TakeIn(c) \/ TakeInLate(c) \/ Crash(c)
      PROVE  wire'[b] \subseteq wire[b] /\ late'[b] \subseteq late[b]
  <2>1. CASE TakeIn(c)
    <3>1. late' = late /\ \E w \in SUBSET wire[c] : wire' = [wire EXCEPT ![c] = w]
      BY <1>0, <2>1 DEF TakeIn
    <3> QED
      BY <1>0, <3>1
  <2>2. CASE TakeInLate(c)
    <3>1. wire' = wire /\ \E w \in SUBSET late[c] : late' = [late EXCEPT ![c] = w]
      BY <1>0, <2>2 DEF TakeInLate
    <3> QED
      BY <1>0, <3>1
  <2>3. CASE Crash(c)
    BY <1>0, <2>3 DEF Crash
  <2> QED
    BY <1>5, <2>1, <2>2, <2>3
<1>6. ASSUME NEW c \in Bbs,
             PlannerLooks(c) \/ ForwarderLooks(c) \/ (\E g \in Planner : QueuePeer(c, g))
             \/ Dial(c) \/ NothingToSend(c) \/ Confirm(c) \/ Record(c) \/ Flushed(c)
      PROVE  wire' = wire /\ late' = late
  BY <1>6 DEF PlannerLooks, ForwarderLooks, QueuePeer, Dial, NothingToSend, Confirm, Record,
              Flushed
<1>7. AtUser => wire' = wire /\ late' = late
  BY DEF AtUser, Post, UserReads, UserKills
<1> HIDE DEF Goal
<1> QED
  BY <1>2, <1>3, <1>4, <1>5, <1>6, <1>7 DEF Next, Forwards

Lies(s, t, x) == \E i \in Numbers(s) : s.mail[i].text = t /\ s.mail[i].bid = x

\* A text and a BID in some store, on some disk or on its way between two.
Carried(t, x) ==
    \/ \E b \in Bbs : Lies(mem[b], t, x) \/ Lies(disk[b], t, x)
    \/ \E m \in WireMessage : OnAir(m) /\ m.text = t /\ m.bid = x

Single(s) == \A i, j \in Numbers(s) : s.mail[i].text = s.mail[j].text => i = j

\* A text keeps the BID under which it was posted, wherever it gets.
OneBID == \A t, x, y : Carried(t, x) /\ Carried(t, y) => x = y

Identified ==
    /\ OneBID
    /\ \A t, x : Carried(t, x) => t \in posted
    /\ \A b \in Bbs : Single(mem[b]) /\ Single(disk[b])

LEMMA CarriedSteps ==
  ASSUME Typed, Sending, Next
  PROVE  \/ posted' = posted /\ \A t, x : Carried(t, x)' => Carried(t, x)
         \/ \E l \in Letter :
              /\ Posted(l)
              /\ \A t, x : Carried(t, x)' =>
                    Carried(t, x) \/ (t = l.text /\ x = <<mem[l.home].next, l.from>>)
<1>1. ASSUME NEW m \in WireMessage, OnAir(m)' PROVE Carried(m.text, m.bid)
  <2>1. CASE OnAir(m)
    BY <2>1 DEF Carried
  <2>2. ASSUME NEW b \in Bbs, NEW n \in fwd[b].queue, m = OnWire(n)
        PROVE  Carried(m.text, m.bid)
    <3>1. m.text = n.text /\ m.bid = n.bid
      BY <2>2 DEF OnWire
    <3>2. Lies(mem[b], n.text, n.bid)
      BY DEF Sending, Lies
    <3> QED
      BY <3>1, <3>2 DEF Carried
  <2> QED
    BY <1>1, <2>1, <2>2, AirSteps
<1>2. ASSUME NEW t, NEW x, Carried(t, x)', ~Carried(t, x)
      PROVE  \E b \in Bbs : Lies(mem'[b], t, x) \/ Lies(disk'[b], t, x)
  BY <1>1, <1>2 DEF Carried
<1>3. ASSUME NEW s, NEW u, Reworks(s, u), NEW t, NEW x, Lies(u, t, x) PROVE Lies(s, t, x)
  BY <1>3 DEF Reworks, Grows, Kin, Lies
<1>4. ASSUME NEW s, NEW u, NEW text, NEW bid, Gains(s, u, text, bid), NEW t, NEW x, Lies(u, t, x)
      PROVE  Lies(s, t, x) \/ (t = text /\ x = bid)
  BY <1>4 DEF Gains, Lies
<1>5. ASSUME NEW l \in Letter, Posted(l), NEW t, NEW x, Carried(t, x)', ~Carried(t, x)
      PROVE  t = l.text /\ x = <<mem[l.home].next, l.from>>
  <2>1. \A b \in Bbs : ~Lies(mem[b], t, x) /\ ~Lies(disk[b], t, x)
    BY <1>5 DEF Carried
  <2>2. Lies(mem'[l.home], t, x)
    BY <1>2, <1>5, <2>1 DEF Posted, OnlyAt
  <2> QED
    BY <1>4, <1>5, <2>1, <2>2 DEF Posted
<1>6. ASSUME NEW b \in Bbs, NEW m \in WireMessage, TakenIn(b, m), NEW t, NEW x, Carried(t, x)'
      PROVE  Carried(t, x)
  <2> SUFFICES ASSUME ~Carried(t, x) PROVE FALSE
    OBVIOUS
  <2>1. \A c \in Bbs : ~Lies(mem[c], t, x) /\ ~Lies(disk[c], t, x)
    BY DEF Carried
  <2>2. Lies(mem'[b], t, x)
    BY <1>2, <1>6, <2>1 DEF TakenIn, OnlyAt
  <2>3. t = m.text /\ x = m.bid
    BY <1>4, <1>6, <2>1, <2>2 DEF TakenIn
  <2> QED
    BY <1>6, <2>3 DEF TakenIn, Carried
<1>7. ASSUME NEW b \in Bbs, OnlyAt(b), Reworks(mem[b], mem'[b]), NEW t, NEW x, Carried(t, x)'
      PROVE  Carried(t, x)
  <2> SUFFICES ASSUME ~Carried(t, x) PROVE FALSE
    OBVIOUS
  <2>1. \A c \in Bbs : ~Lies(mem[c], t, x) /\ ~Lies(disk[c], t, x)
    BY DEF Carried
  <2>2. Lies(mem'[b], t, x)
    BY <1>2, <1>7, <2>1 DEF OnlyAt
  <2> QED
    BY <1>3, <1>7, <2>1, <2>2
<1>8. ASSUME UNCHANGED <<mem, disk>>, NEW t, NEW x, Carried(t, x)' PROVE Carried(t, x)
  BY <1>2, <1>8 DEF Carried
<1>9. ASSUME NEW b \in Bbs, Crash(b), NEW t, NEW x, Carried(t, x)' PROVE Carried(t, x)
  <2>1. disk' = disk /\ \A c \in Bbs : mem'[c] = mem[c] \/ mem'[c] = disk[c]
    BY <1>9 DEF Crash, Typed, StoresOK
  <2> QED
    BY <1>2, <1>9, <2>1 DEF Carried
<1> QED
  BY <1>5, <1>6, <1>7, <1>8, <1>9, StoresChange

LEMMA SingleSteps ==
  ASSUME Typed, Sending, Identified, Next, NEW b \in Bbs
  PROVE  Single(mem'[b]) /\ Single(disk'[b])
<1>0. Single(mem[b]) /\ Single(disk[b])
  BY DEF Identified
<1>1. ASSUME NEW s, NEW u, Reworks(s, u), Single(s) PROVE Single(u)
  BY <1>1 DEF Reworks, Grows, Kin, Single
<1>2. ASSUME NEW s, NEW u, NEW text, NEW bid, Gains(s, u, text, bid), Single(s),
             \A x : ~Lies(s, text, x)
      PROVE  Single(u)
  <2>1. PICK n : Numbers(u) = Numbers(s) \cup {n} /\ n \notin Numbers(s) /\ u.mail[n].text = text
    BY <1>2 DEF Gains
  <2>2. \A i \in Numbers(s) : u.mail[i] = s.mail[i] /\ s.mail[i].text # text
    BY <1>2 DEF Gains, Lies
  <2> QED
    BY <1>2, <2>1, <2>2 DEF Single
<1>3. ASSUME NEW l \in Letter, Posted(l), b = l.home PROVE Single(mem'[b])
  <2>1. \A x : ~Lies(mem[b], l.text, x)
    BY <1>3 DEF Identified, Carried, Posted
  <2> QED
    BY <1>0, <1>2, <1>3, <2>1 DEF Posted
<1>4. ASSUME NEW m \in WireMessage, TakenIn(b, m) PROVE Single(mem'[b])
  <2>1. ASSUME NEW x, Lies(mem[b], m.text, x) PROVE FALSE
    <3>1. Carried(m.text, x) /\ Carried(m.text, m.bid)
      BY <1>4, <2>1 DEF Carried, TakenIn
    <3>2. x = m.bid
      BY <3>1 DEF Identified, OneBID
    <3> QED
      BY <1>4, <2>1, <3>2 DEF TakenIn, Lies, HasBID
  <2> QED
    BY <1>0, <1>2, <1>4, <2>1 DEF TakenIn
<1>5. CASE Crash(b)
  BY <1>0, <1>5 DEF Crash, Typed, StoresOK
<1>6. ASSUME NEW c \in Bbs, Crash(c) PROVE disk'[b] = disk[b] /\ (c # b => mem'[b] = mem[b])
  BY <1>6 DEF Crash, Typed, StoresOK
<1>7. ASSUME NEW c \in Bbs, OnlyAt(c)
      PROVE  /\ c # b => mem'[b] = mem[b] /\ disk'[b] = disk[b]
             /\ disk'[b] = disk[b] \/ disk'[b] = mem'[b]
  BY <1>7 DEF OnlyAt
<1>8. CASE \E l \in Letter : Posted(l)
  BY <1>0, <1>3, <1>7, <1>8 DEF Posted
<1>9. CASE \E c \in Bbs, m \in WireMessage : TakenIn(c, m)
  BY <1>0, <1>4, <1>7, <1>9 DEF TakenIn
<1>10. CASE \E c \in Bbs : OnlyAt(c) /\ Reworks(mem[c], mem'[c])
  BY <1>0, <1>1, <1>7, <1>10
<1>11. CASE UNCHANGED <<mem, disk>>
  BY <1>0, <1>11
<1>12. CASE \E c \in Bbs : Crash(c)
  BY <1>0, <1>5, <1>6, <1>12
<1> QED
  BY <1>8, <1>9, <1>10, <1>11, <1>12, StoresChange

LEMMA IdentifiedStep ==
  ASSUME Typed, Sending, Identified, Next
  PROVE  Identified'
<1>1. \A b \in Bbs : Single(mem'[b]) /\ Single(disk'[b])
  BY SingleSteps
<1>2. CASE posted' = posted /\ \A t, x : Carried(t, x)' => Carried(t, x)
  BY <1>1, <1>2 DEF Identified, OneBID
<1>3. ASSUME NEW l \in Letter, Posted(l),
             \A t, x : Carried(t, x)' =>
                 Carried(t, x) \/ (t = l.text /\ x = <<mem[l.home].next, l.from>>)
      PROVE  Identified'
  <2>1. posted' = posted \cup {l.text} /\ \A x : ~Carried(l.text, x)
    BY <1>3 DEF Posted, Identified
  <2>2. ASSUME NEW t, NEW x, NEW y, Carried(t, x)', Carried(t, y)' PROVE x = y
    <3>1. \/ Carried(t, x) /\ Carried(t, y) /\ t # l.text
          \/ t = l.text /\ x = <<mem[l.home].next, l.from>> /\ y = <<mem[l.home].next, l.from>>
      BY <1>3, <2>1, <2>2
    <3> QED
      BY <3>1 DEF Identified, OneBID
  <2>3. OneBID'
    BY <2>2 DEF OneBID
  <2> QED
    BY <1>1, <1>3, <2>1, <2>3 DEF Identified
<1> QED
  BY <1>2, <1>3, CarriedSteps

\* The inductive invariant of forwarding.
Safe == Typed /\ Sending /\ Identified

LEMMA InitSafe == Init => Safe
<1> SUFFICES ASSUME Init PROVE Safe
  OBVIOUS
<1>1. Typed /\ Sending
  BY InitTyped DEF Init, Sending, Idle
<1>2. \A b \in Bbs : Numbers(mem[b]) = {} /\ Numbers(disk[b]) = {} /\ wire[b] = {} /\ late[b] = {}
  BY EmptySeq DEF Init, EmptyStore, Numbers
<1>3. \A t, x : ~Carried(t, x)
  BY <1>2 DEF Carried, Lies, OnAir
<1>4. Identified
  BY <1>2, <1>3 DEF Identified, OneBID, Single
<1> QED
  BY <1>1, <1>4 DEF Safe

LEMMA SafeStep == Safe /\ [Next]_vars => Safe'
<1>1. UNCHANGED vars /\ Identified => Identified'
  BY DEF vars, Identified, OneBID, Carried, Lies, OnAir, Single
<1> QED
  BY <1>1, NextTyped, SendingStep, Stutter, IdentifiedStep DEF Safe

\* No text lies twice in a store, whatever brings it there and whatever breaks:
\* a message that comes again, by another session, another partner or after a
\* restart, comes with the BID the store knows.
THEOREM NoTextTwice == Spec => []NoDuplicates
<1>1. Safe => NoDuplicates
  BY DEF Safe, Identified, Single, NoDuplicates
<1> QED
  BY InitSafe, SafeStep, <1>1, PTL DEF Spec

-----------------------------------------------------------------------------
(* Crashes *)

\* A BBS that crashes with a change it could not save loses the message or the
\* result that the change was: what follows is about the others.
Careful == \A b \in Bbs : Crash(b) => mem[b] = disk[b]

SavedBeforeCrash == [][Careful]_vars

LEMMA FaultSteps ==
  ASSUME Typed, Next
  PROVE  \/ faults' = faults + 1
         \/ /\ faults' = faults
            /\ UNCHANGED <<mem, disk>> \/ \E b \in Bbs : \E s : Saved(b, s)
<1> DEFINE Goal == \/ faults' = faults + 1
                   \/ /\ faults' = faults
                      /\ UNCHANGED <<mem, disk>> \/ \E b \in Bbs : \E s : Saved(b, s)
<1> SUFFICES Goal
  OBVIOUS
<1>1. ASSUME NEW b \in Bbs, NEW s, Saved(b, s) \/ SaveFails(b, s) PROVE Goal
  BY <1>1 DEF Saved, SaveFails
<1>2. ASSUME UNCHANGED <<mem, disk, faults>> PROVE Goal
  BY <1>2
<1>3. ASSUME NEW b \in Bbs, Crash(b) PROVE Goal
  BY <1>3 DEF Crash
<1> HIDE DEF Goal
<1>4. AtUser => Goal
  BY <1>1 DEF AtUser, Post, UserReads, UserKills, Written
<1>5. ASSUME NEW b \in Bbs, \E g \in Planner : QueuePeer(b, g) PROVE Goal
  BY <1>1, <1>5 DEF QueuePeer
<1>6. ASSUME NEW b \in Bbs, TakeIn(b) PROVE Goal
  <2>1. PeerOf(b) \in Bbs
    BY <1>6, Facts DEF TakeIn
  <2> QED
    BY <1>1, <1>2, <1>6, <2>1 DEF TakeIn
<1>7. ASSUME NEW b \in Bbs, TakeInLate(b) PROVE Goal
  <2>1. \A x \in late[b] : x.to \in Bbs
    BY Facts
  <2> QED
    BY <1>1, <1>2, <1>7, <2>1 DEF TakeInLate
<1>8. ASSUME NEW b \in Bbs, Record(b) PROVE Goal
  BY <1>1, <1>8 DEF Record, Written
<1>9. ASSUME NEW b \in Bbs, PlannerLooks(b) \/ ForwarderLooks(b) \/ Dial(b) \/ NothingToSend(b)
             \/ PeerAnswers(b) \/ Confirm(b) \/ Break(b) \/ Flushed(b)
      PROVE  UNCHANGED <<mem, disk, faults>>
  BY <1>9 DEF PlannerLooks, ForwarderLooks, Dial, NothingToSend, PeerAnswers, Answer, Confirm,
              Break, Flushed
<1> QED
  BY <1>2, <1>3, <1>4, <1>5, <1>6, <1>7, <1>8, <1>9 DEF Next, Forwards

\* It takes two faults to crash with an unsaved change: a save that fails and
\* the crash.
THEOREM OneFaultIsSafe == ASSUME MaxFaults <= 1 PROVE Spec => SavedBeforeCrash
<1> DEFINE Clean == faults = 0 => mem = disk
<1>1. Init => Typed /\ Sending /\ Clean
  BY InitTyped DEF Init, Sending, Idle
<1>2. Typed /\ Sending /\ [Next]_vars => Typed' /\ Sending'
  BY NextTyped, SendingStep, Stutter
<1>3. Typed /\ Clean /\ [Next]_vars => Clean'
  <2>1. CASE UNCHANGED vars
    BY <2>1 DEF vars
  <2>2. ASSUME Typed, Clean, Next, faults' = 0 PROVE mem' = disk'
    <3>1. faults \in Nat
      BY <2>2 DEF Typed, StoresOK
    <3>2. faults = 0 /\ (UNCHANGED <<mem, disk>> \/ \E b \in Bbs : \E s : Saved(b, s))
      BY <2>2, <3>1, FaultSteps
    <3> QED
      BY <2>2, <3>2 DEF Saved
  <2> QED
    BY <2>1, <2>2
<1>4. Typed /\ Clean => Careful
  <2> SUFFICES ASSUME Typed, Clean, NEW b \in Bbs, Crash(b) PROVE mem[b] = disk[b]
    BY DEF Careful
  <2>1. faults = 0
    BY DEF Typed, StoresOK, Crash
  <2> QED
    BY <2>1
<1>5. Typed /\ Clean => [Careful]_vars
  BY <1>4
<1> HIDE DEF Clean
<1> QED
  BY <1>1, <1>2, <1>3, <1>5, PTL DEF Spec, SavedBeforeCrash

LEMMA Retains ==
  ASSUME Typed, Sending, Next, Careful, NEW b \in Bbs
  PROVE  /\ Grows(mem[b], mem'[b])
         /\ ~Record(b) => SameForward(mem[b], mem'[b])
         /\ Crash(b) => mem'[b] = mem[b]
<1>1. CASE Crash(b)
  <2>1. mem'[b] = mem[b]
    BY <1>1 DEF Crash, Careful, Typed, StoresOK
  <2>2. Grows(mem[b], mem[b])
    BY Facts, StoreFields DEF Grows, Kin
  <2> QED
    BY <2>1, <2>2 DEF SameForward
<1>2. CASE ~Crash(b)
  BY <1>2, StoresGrow, SendingRecordable
<1> QED
  BY <1>1, <1>2

\* No plan made from an old look at the messages, no second session and no
\* result that comes late puts a message back in the queue of a partner that is
\* recorded to have it.
THEOREM DeliveredForGood == Spec /\ SavedBeforeCrash => DeliveredStaysDelivered
<1> DEFINE Stays == \A b, p \in Bbs : \A i \in Numbers(mem[b]) :
        mem[b].mail[i].forward[p] = "delivered" =>
            i \in Numbers(mem'[b]) /\ mem'[b].mail[i].forward[p] = "delivered"
<1>1. ASSUME Typed, Sending, Next, Careful PROVE Stays
  <2> SUFFICES ASSUME NEW b \in Bbs, NEW p \in Bbs, NEW i \in Numbers(mem[b]),
                      mem[b].mail[i].forward[p] = "delivered"
               PROVE  i \in Numbers(mem'[b]) /\ mem'[b].mail[i].forward[p] = "delivered"
    OBVIOUS
  <2>1. i \in Numbers(mem'[b])
    BY <1>1, Retains DEF Grows
  <2>2. CASE ~Record(b)
    BY <1>1, <2>1, <2>2, Retains DEF SameForward
  <2>3. CASE Record(b)
    <3>1. PICK n \in fwd[b].queue, d \in BOOLEAN :
            LET t == RecordForward(mem[b], PeerOf(b), n.id, d)
            IN  /\ n.bid \in fwd[b].sent \cup fwd[b].deferred /\ (d <=> n.bid \in fwd[b].sent)
                /\ n.id \in Numbers(mem[b]) /\ Reworks(mem[b], t) /\ Written(b, t)
                /\ t.mail[n.id].forward[PeerOf(b)] = IF d THEN "delivered" ELSE "failed"
                /\ \A j \in Numbers(mem[b]), q \in Peer :
                      j # n.id \/ q # PeerOf(b) =>
                          t.mail[j].forward[q] = mem[b].mail[j].forward[q]
                /\ fwd' = [fwd EXCEPT ![b].sent = @ \ {n.bid}, ![b].deferred = @ \ {n.bid}]
      BY <1>1, <2>3, RecordAmends, SendingRecordable
    <3>2. mem'[b] = RecordForward(mem[b], PeerOf(b), n.id, d)
      BY <1>1, <3>1, Writes DEF Reworks, Typed
    <3>3. mem[b].mail[n.id].forward[PeerOf(b)] # "delivered"
      BY <1>1, <3>1 DEF Sending, Awaited
    <3>4. CASE i = n.id /\ p = PeerOf(b)
      BY <3>3, <3>4
    <3>5. CASE i # n.id \/ p # PeerOf(b)
      <4>1. mem'[b].mail[i].forward[p] = mem[b].mail[i].forward[p]
        BY <3>1, <3>2, <3>5, Facts
      <4> QED
        BY <2>1, <4>1
    <3> QED
      BY <3>4, <3>5
  <2> QED
    BY <2>2, <2>3
<1>2. ASSUME UNCHANGED vars PROVE Stays
  BY <1>2 DEF vars
<1> HIDE DEF Stays
<1>3. Safe /\ [Next]_vars /\ [Careful]_vars => [Stays]_vars
  BY <1>1, <1>2 DEF Safe
<1>4. Spec /\ SavedBeforeCrash => [][Stays]_vars
  BY InitSafe, SafeStep, <1>3, PTL DEF Spec, SavedBeforeCrash
<1> QED
  BY <1>4 DEF DeliveredStaysDelivered, Stays

\* What a user has killed does not come back to him, with a session that brings
\* it again or after a restart.
THEOREM KilledForGood == Spec /\ SavedBeforeCrash => KilledStaysKilled
<1> DEFINE Stays == \A b \in Bbs : \A u \in Login[b] : \A i \in Numbers(mem[b]) :
        u \in mem[b].mail[i].deleted =>
            \A m \in Visible(mem'[b], u) : m.text # mem[b].mail[i].text
<1>1. ASSUME Typed, Sending, Identified, Next \/ UNCHANGED vars, Careful \/ UNCHANGED vars
      PROVE  Stays
  <2> SUFFICES ASSUME NEW b \in Bbs, NEW u \in Login[b], NEW i \in Numbers(mem[b]),
                      u \in mem[b].mail[i].deleted,
                      NEW m \in Visible(mem'[b], u), m.text = mem[b].mail[i].text
               PROVE  FALSE
    OBVIOUS
  <2>1. Grows(mem[b], mem'[b]) /\ Single(mem'[b])
    <3>1. CASE UNCHANGED vars
      <4>1. Grows(mem[b], mem[b])
        BY <1>1, Facts, StoreFields DEF Grows, Kin
      <4> QED
        BY <1>1, <3>1, <4>1 DEF vars, Identified
    <3>2. CASE Next /\ Careful
      BY <1>1, <3>2, Retains, SingleSteps
    <3> QED
      BY <1>1, <3>1, <3>2
  <2>2. PICK j \in Numbers(mem'[b]) : m = mem'[b].mail[j] /\ u \notin mem'[b].mail[j].deleted
    BY DEF Visible
  <2>3. i \in Numbers(mem'[b]) /\ Kin(mem[b].mail[i], mem'[b].mail[i])
    BY <2>1 DEF Grows
  <2>4. i = j
    BY <2>1, <2>2, <2>3 DEF Single, Kin
  <2> QED
    BY <2>2, <2>3, <2>4 DEF Kin
<1>2. Safe /\ [Next]_vars /\ [Careful]_vars => [Stays]_vars
  BY <1>1 DEF Safe
<1> HIDE DEF Stays
<1>3. Spec /\ SavedBeforeCrash => [][Stays]_vars
  BY InitSafe, SafeStep, <1>2, PTL DEF Spec, SavedBeforeCrash
<1> QED
  BY <1>3 DEF KilledStaysKilled, Stays

-----------------------------------------------------------------------------
(* Authors who write at one BBS *)

\* A BID is made of the author and the number in his BBS: an author who writes
\* at two of them can get the same BID for two texts.
OneHome == \A l, k \in Letter : l.from = k.from => l.home = k.home

\* A BID that is out was issued for an earlier number.
Issued ==
    \A t, x : Carried(t, x) =>
        \E l \in Letter : \E n \in Nat : x = <<n, l.from>> /\ n < mem[l.home].next

OneText == \A t, u, x : Carried(t, x) /\ Carried(u, x) => t = u

\* What is on its way is still where it comes from.
Rooted == \A m \in WireMessage : OnAir(m) => \E b \in Bbs : Holds(mem[b], m.text)

\* What a peer has accepted or refused, and not deferred, it has when the
\* session ends in order.
Acknowledged ==
    \A b \in Bbs : \A m \in fwd[b].queue :
        /\ fwd[b].pc = "sent" /\ m.bid \notin fwd[b].deferred =>
              \/ HasBID(mem[PeerOf(b)], m.bid)
              \/ \E w \in wire[b] : w.bid = m.bid
        /\ m.bid \in fwd[b].sent => HasBID(mem[PeerOf(b)], m.bid)

Named == Issued /\ OneText /\ Rooted /\ Acknowledged

LEMMA IssuedStep ==
  ASSUME Typed, Sending, Next, Careful, OneHome, Issued, OneText
  PROVE  Issued' /\ OneText'
<1>1. ASSUME NEW c \in Bbs
      PROVE  mem[c].next \in Nat /\ mem'[c].next \in Nat /\ mem[c].next <= mem'[c].next
  <2>1. Grows(mem[c], mem'[c]) /\ mem[c] \in Store
    BY Retains, Facts
  <2> QED
    BY <2>1, StoreFields DEF Grows
<1>2. ASSUME NEW t, NEW x, Carried(t, x)
      PROVE  \E l \in Letter : \E n \in Nat : x = <<n, l.from>> /\ n < mem'[l.home].next
  <2>1. PICK l \in Letter, n \in Nat : x = <<n, l.from>> /\ n < mem[l.home].next
    BY <1>2 DEF Issued
  <2>2. l.home \in Bbs
    OBVIOUS
  <2>3. n < mem'[l.home].next
    BY <1>1, <2>1, <2>2
  <2> QED
    BY <2>1, <2>3
<1>3. CASE \A t, x : Carried(t, x)' => Carried(t, x)
  BY <1>2, <1>3 DEF Issued, OneText
<1>4. ASSUME NEW l \in Letter, Posted(l),
             \A t, x : Carried(t, x)' =>
                 Carried(t, x) \/ (t = l.text /\ x = <<mem[l.home].next, l.from>>)
      PROVE  Issued' /\ OneText'
  <2> DEFINE n == mem[l.home].next
  <2>1. l.home \in Bbs /\ n \in Nat /\ n < mem'[l.home].next
    BY <1>1, <1>4 DEF Posted, Gains
  <2>2. \A u : ~Carried(u, <<n, l.from>>)
    <3> SUFFICES ASSUME NEW u, Carried(u, <<n, l.from>>) PROVE FALSE
      OBVIOUS
    <3>1. PICK k \in Letter, j \in Nat : <<n, l.from>> = <<j, k.from>> /\ j < mem[k.home].next
      BY DEF Issued
    <3>2. n = j /\ l.from = k.from
      BY <3>1
    <3>3. k.home = l.home
      BY <3>2 DEF OneHome
    <3> QED
      BY <2>1, <3>1, <3>2, <3>3
  <2>3. Issued'
    <3> SUFFICES ASSUME NEW t, NEW x, Carried(t, x)'
                 PROVE  \E k \in Letter : \E j \in Nat : x = <<j, k.from>> /\ j < mem'[k.home].next
      BY DEF Issued
    <3> QED
      BY <1>2, <1>4, <2>1
  <2>4. ASSUME NEW t, NEW u, NEW x, Carried(t, x)', Carried(u, x)' PROVE t = u
    <3> HIDE DEF n
    <3>1. \A z, y : Carried(z, y)' => Carried(z, y) \/ (z = l.text /\ y = <<n, l.from>>)
      BY <1>4 DEF n
    <3>2. \/ Carried(t, x) /\ Carried(u, x)
          \/ t = l.text /\ u = l.text
      BY <2>2, <2>4, <3>1
    <3> QED
      BY <3>2 DEF OneText
  <2>5. OneText'
    BY <2>4 DEF OneText
  <2> QED
    BY <2>3, <2>5
<1> QED
  BY <1>3, <1>4, CarriedSteps

LEMMA RootedStep ==
  ASSUME Typed, Sending, Next, Careful, Rooted
  PROVE  Rooted'
<1>1. ASSUME NEW b \in Bbs, NEW t, Holds(mem[b], t) PROVE Holds(mem'[b], t)
  <2>1. Grows(mem[b], mem'[b])
    BY Retains
  <2> QED
    BY <1>1, <2>1 DEF Holds, Grows, Kin
<1> SUFFICES ASSUME NEW m \in WireMessage, OnAir(m)'
             PROVE  \E b \in Bbs : Holds(mem'[b], m.text)
  BY DEF Rooted
<1>2. CASE OnAir(m)
  BY <1>1, <1>2 DEF Rooted
<1>3. ASSUME NEW b \in Bbs, NEW n \in fwd[b].queue, m = OnWire(n)
      PROVE  \E c \in Bbs : Holds(mem'[c], m.text)
  <2>1. m.text = n.text /\ Holds(mem[b], n.text)
    BY <1>3 DEF OnWire, Sending, Holds
  <2> QED
    BY <1>1, <2>1
<1> QED
  BY <1>2, <1>3, AirSteps

\* As long as a session goes on, its messages leave the wire one by one, into
\* the store of the peer.
LEMMA WireSteps ==
  ASSUME Typed, Next, NEW b \in Bbs, fwd[b].pc = "sent", fwd'[b] = fwd[b]
  PROVE  \/ wire'[b] = wire[b]
         \/ \E w \in wire[b] : wire'[b] = wire[b] \ {w} /\ HasBID(mem'[PeerOf(b)], w.bid)
<1> DEFINE Goal ==
         \/ wire'[b] = wire[b]
         \/ \E w \in wire[b] : wire'[b] = wire[b] \ {w} /\ HasBID(mem'[PeerOf(b)], w.bid)
<1> SUFFICES Goal
  OBVIOUS
<1>0. /\ wire \in [Bbs -> SUBSET WireMessage] /\ fwd \in [Bbs -> Forwarder] /\ PeerOf(b) \in Bbs
      /\ Sane(fwd[b])
  BY Facts DEF Typed, AirOK, FwdOK
<1>1. ASSUME NEW c \in Bbs,
             \/ AtUser \/ PlannerLooks(c) \/ ForwarderLooks(c)
             \/ (\E g \in Planner : QueuePeer(c, g)) \/ Dial(c) \/ NothingToSend(c)
             \/ Confirm(c) \/ TakeInLate(c) \/ Record(c) \/ Flushed(c)
      PROVE  wire' = wire
  BY <1>1 DEF AtUser, Post, UserReads, UserKills, PlannerLooks, ForwarderLooks, QueuePeer, Dial,
         NothingToSend, Confirm, TakeInLate, Record, Flushed
<1>2. ASSUME NEW c \in Bbs, PeerAnswers(c) \/ Break(c) PROVE Goal
  <2>1. c # b
    <3>1. CASE PeerAnswers(c)
      BY <3>1 DEF PeerAnswers
    <3>2. CASE Break(c)
      <4>1. fwd' = [fwd EXCEPT ![c] = HungUp(fwd[c])]
        BY <3>2 DEF Break
      <4> QED
        BY <1>0, <4>1 DEF HungUp, Forwarder
    <3> QED
      BY <1>2, <3>1, <3>2
  <2>2. \E v : wire' = [wire EXCEPT ![c] = v]
    <3>1. CASE PeerAnswers(c)
      BY <3>1 DEF PeerAnswers, Answer
    <3>2. CASE Break(c)
      BY <3>2 DEF Break, Abandon
    <3> QED
      BY <1>2, <3>1, <3>2
  <2> QED
    BY <1>0, <2>1, <2>2
<1>3. ASSUME NEW c \in Bbs, Crash(c) PROVE Goal
  <2>1. CASE c = b
    BY <1>3, <2>1 DEF Crash, Idle
  <2>2. CASE c # b
    <3>1. HungUp(fwd[b]).pc = "flush"
      BY <1>0 DEF HungUp, Forwarder
    <3> QED
      BY <1>3, <2>2, <3>1 DEF Crash
  <2> QED
    BY <2>1, <2>2
<1>4. ASSUME NEW c \in Bbs, TakeIn(c) PROVE Goal
  <2>1. PICK m \in wire[c] :
          LET p == PeerOf(c)
              s == Import(mem[p], m)
          IN  \/ /\ \/ s = mem[p] /\ UNCHANGED <<mem, disk, faults>>
                    \/ s # mem[p] /\ Saved(p, s)
                 /\ wire' = [wire EXCEPT ![c] = @ \ {m}]
                 /\ UNCHANGED fwd
              \/ /\ s # mem[p] /\ SaveFails(p, s)
                 /\ wire' = [wire EXCEPT ![c] = {}]
                 /\ fwd' = [fwd EXCEPT ![c] = HungUp(@)]
    BY <1>4 DEF TakeIn
  <2>2. CASE c # b
    BY <1>0, <2>1, <2>2
  <2>3. CASE c = b
    <3> DEFINE p == PeerOf(b)
               s == Import(mem[p], m)
    <3>1. fwd' # [fwd EXCEPT ![b] = HungUp(@)]
      BY <1>0 DEF HungUp, Forwarder
    <3>2. wire'[b] = wire[b] \ {m} /\ ((UNCHANGED mem /\ s = mem[p]) \/ Saved(p, s))
      BY <1>0, <2>1, <2>3, <3>1
    <3>3. HasBID(s, m.bid)
      <4>1. mem[p] \in Store /\ Numbered(mem[p]) /\ m \in WireMessage
        BY <1>0, <2>1, Facts
      <4> QED
        BY <4>1, ImportGrows
    <3> HIDE DEF s
    <3>4. mem'[p] = s
      BY <1>0, <3>2 DEF Saved, Typed, StoresOK
    <3> QED
      BY <2>1, <2>3, <3>2, <3>3, <3>4
  <2> QED
    BY <2>2, <2>3
<1> HIDE DEF Goal
<1>5. wire' = wire => Goal
  BY DEF Goal
<1> QED
  BY <1>1, <1>2, <1>3, <1>4, <1>5 DEF Next, Forwards

LEMMA AcknowledgedStep ==
  ASSUME Typed, Sending, Next, Careful, Acknowledged
  PROVE  Acknowledged'
<1> SUFFICES ASSUME NEW b \in Bbs, NEW m \in fwd'[b].queue
             PROVE  /\ fwd'[b].pc = "sent" /\ m.bid \notin fwd'[b].deferred =>
                          \/ HasBID(mem'[PeerOf(b)'], m.bid)
                          \/ \E w \in wire'[b] : w.bid = m.bid
                    /\ m.bid \in fwd'[b].sent => HasBID(mem'[PeerOf(b)'], m.bid)
  BY DEF Acknowledged
<1> DEFINE f == fwd[b]
<1>0. Sane(f) /\ f \in Forwarder /\ fwd \in [Bbs -> Forwarder] /\ f.queue \subseteq Message
  BY Facts DEF Typed, FwdOK, Forwarder
<1>1. ASSUME NEW c \in Bbs, NEW x, HasBID(mem[c], x) PROVE HasBID(mem'[c], x)
  <2>1. Grows(mem[c], mem'[c])
    BY Retains
  <2> QED
    BY <1>1, <2>1 DEF HasBID, Grows, Kin
<1>2. ASSUME m \in f.queue, fwd'[b].left = f.left, f.pc # "idle"
      PROVE  /\ PeerOf(b)' = PeerOf(b) /\ PeerOf(b) \in Bbs
             /\ m.bid \in f.sent => HasBID(mem'[PeerOf(b)], m.bid)
             /\ f.pc = "sent" /\ m.bid \notin f.deferred /\ wire[b] = {} =>
                    HasBID(mem'[PeerOf(b)], m.bid)
  <2>1. PeerOf(b)' = PeerOf(b) /\ PeerOf(b) \in Bbs
    BY <1>2, Facts DEF PeerOf
  <2> QED
    BY <1>1, <1>2, <2>1 DEF Acknowledged
<1>3. CASE fwd'[b] = f
  <2>1. f.pc # "idle"
    BY <1>0, <1>3 DEF Sane
  <2>2. m \in f.queue /\ fwd'[b].left = f.left
    BY <1>3
  <2>3. CASE f.pc = "sent" /\ m.bid \notin f.deferred
    <3>1. HasBID(mem[PeerOf(b)], m.bid) \/ \E w \in wire[b] : w.bid = m.bid
      BY <2>2, <2>3 DEF Acknowledged
    <3>2. CASE HasBID(mem[PeerOf(b)], m.bid)
      BY <1>1, <1>2, <1>3, <2>1, <2>2, <3>2
    <3>3. ASSUME NEW w \in wire[b], w.bid = m.bid
          PROVE  HasBID(mem'[PeerOf(b)], m.bid) \/ w \in wire'[b]
      BY <1>3, <2>3, <3>3, WireSteps
    <3> QED
      BY <1>2, <1>3, <2>1, <2>2, <3>1, <3>2, <3>3
  <2> QED
    BY <1>2, <1>3, <2>1, <2>2, <2>3
<1>4. CASE Dial(b)
  <2>1. fwd'[b].pc = "answer" /\ fwd'[b].sent = {}
    BY <1>0, <1>4 DEF Dial, AtPeer, Sane, Forwarder
  <2> QED
    BY <2>1
<1>5. ASSUME NEW deferred, Answer(b, deferred)
      PROVE  /\ fwd'[b].sent = {} /\ fwd'[b].deferred = deferred
             /\ m.bid \notin deferred => \/ HasBID(mem'[PeerOf(b)'], m.bid)
                                         \/ \E w \in wire'[b] : w.bid = m.bid
  <2>1. /\ f.pc = "answer" /\ fwd'[b].sent = {} /\ fwd'[b].deferred = deferred
        /\ fwd'[b].left = f.left /\ m \in f.queue /\ mem' = mem
    BY <1>0, <1>5 DEF Answer, Sane, Forwarder
  <2>2. PeerOf(b)' = PeerOf(b)
    BY <1>2, <2>1
  <2>3. wire'[b] = {OnWire(n) : n \in {k \in f.queue :
                       ~HasBID(mem[PeerOf(b)], k.bid) /\ k.bid \notin deferred}}
    BY <1>5 DEF Answer, Typed, AirOK
  <2>4. OnWire(m).bid = m.bid
    BY DEF OnWire
  <2>5. ASSUME m.bid \notin deferred, ~HasBID(mem[PeerOf(b)], m.bid) PROVE OnWire(m) \in wire'[b]
    BY <2>1, <2>3, <2>5
  <2> QED
    BY <2>1, <2>2, <2>4, <2>5
<1>6. CASE Confirm(b)
  <2>1. /\ f.pc = "sent" /\ wire[b] = {} /\ fwd'[b].pc = "flush" /\ fwd'[b].left = f.left
        /\ m \in f.queue /\ (m.bid \in fwd'[b].sent => m.bid \notin f.deferred)
    BY <1>0, <1>6 DEF Confirm, HungUp, Forwarder
  <2> QED
    BY <1>2, <2>1
<1>7. CASE Record(b)
  <2>1. /\ f.pc = "flush" /\ fwd'[b].pc = "flush" /\ fwd'[b].left = f.left
        /\ m \in f.queue /\ fwd'[b].sent \subseteq f.sent
    BY <1>0, <1>7 DEF Record, Forwarder
  <2> QED
    BY <1>2, <2>1
<1>8. CASE InSession(b) /\ fwd'[b] = HungUp(f)
  <2>1. fwd'[b].pc = "flush" /\ fwd'[b].sent = {}
    BY <1>0, <1>8, HungUpSane DEF InSession
  <2> QED
    BY <2>1
<1> QED
  BY <1>3, <1>4, <1>5, <1>6, <1>7, <1>8, ForwarderSteps

LEMMA InitNamed == Init => Named
<1> SUFFICES ASSUME Init PROVE Named
  OBVIOUS
<1>1. \A b \in Bbs : Numbers(mem[b]) = {} /\ Numbers(disk[b]) = {} /\ wire[b] = {} /\ late[b] = {}
                     /\ fwd[b].queue = {}
  BY EmptySeq DEF Init, EmptyStore, Numbers, Idle
<1>2. \A t, x : ~Carried(t, x)
  BY <1>1 DEF Carried, Lies, OnAir
<1>3. \A m : ~OnAir(m)
  BY <1>1 DEF OnAir
<1> QED
  BY <1>1, <1>2, <1>3 DEF Named, Issued, OneText, Rooted, Acknowledged

LEMMA NamedStep == OneHome /\ Safe /\ Named /\ [Next]_vars /\ [Careful]_vars => Named'
<1>1. UNCHANGED vars /\ Named => Named'
  BY DEF vars, Named, Issued, OneText, Rooted, Acknowledged, Carried, Lies, OnAir, Holds, PeerOf
<1>2. OneHome /\ Safe /\ Named /\ Next /\ Careful => Named'
  BY IssuedStep, RootedStep, AcknowledgedStep DEF Named, Safe
<1> QED
  BY <1>1, <1>2

\* Where every author writes at one BBS, every message gets a BID of its own.
THEOREM BIDsAreUnique == ASSUME OneHome PROVE Spec /\ SavedBeforeCrash => []UniqueBID
<1>1. Safe /\ Named /\ [Next]_vars /\ [Careful]_vars => Named'
  BY NamedStep
<1>2. Named => UniqueBID
  <2> SUFFICES ASSUME Named, NEW b \in Bbs, NEW c \in Bbs, NEW i \in Numbers(mem[b]),
                      NEW j \in Numbers(mem[c]), mem[b].mail[i].bid = mem[c].mail[j].bid
               PROVE  mem[b].mail[i].text = mem[c].mail[j].text
    BY DEF UniqueBID
  <2>1. /\ Carried(mem[b].mail[i].text, mem[b].mail[i].bid)
        /\ Carried(mem[c].mail[j].text, mem[b].mail[i].bid)
    BY DEF Carried, Lies
  <2> QED
    BY <2>1 DEF Named, OneText
<1> QED
  BY InitSafe, SafeStep, InitNamed, <1>1, <1>2, PTL DEF Spec, SavedBeforeCrash

-----------------------------------------------------------------------------
(* Refinement of MailDelivery *)

\* The store says that the peer has the text.
Says(s, t, p) ==
    \E i \in Numbers(s) : s.mail[i].text = t /\ s.mail[i].forward[p] = "delivered"

LEMMA HeldIs ==
  /\ \A z : z \in Held <=> \E b \in Bbs : \E t : z = <<t, b>> /\ Holds(mem[b], t)
  /\ \A z : z \in Held' <=> \E b \in Bbs : \E t : z = <<t, b>> /\ Holds(mem'[b], t)
BY DEF Held, Holds

LEMMA RecordedIs ==
  /\ \A z : z \in RecordedDelivered
        <=> \E b \in Bbs, p \in Bbs : \E t : z = <<t, p>> /\ Says(mem[b], t, p)
  /\ \A z : z \in RecordedDelivered'
        <=> \E b \in Bbs, p \in Bbs : \E t : z = <<t, p>> /\ Says(mem'[b], t, p)
BY DEF RecordedDelivered, Says

\* The abstract state does not see what is read, killed or put in a queue.
LEMMA SeenSame ==
  ASSUME \A b \in Bbs : /\ Numbers(mem'[b]) = Numbers(mem[b])
                        /\ \A i \in Numbers(mem[b]) :
                              mem'[b].mail[i].text = mem[b].mail[i].text
  PROVE  /\ Held' = Held
         /\ (\A b \in Bbs : SameForward(mem[b], mem'[b])) =>
                RecordedDelivered' = RecordedDelivered
<1>1. \A b \in Bbs : \A t : Holds(mem'[b], t) <=> Holds(mem[b], t)
  BY DEF Holds
<1>2. Held' = Held
  BY <1>1, HeldIs
<1>3. ASSUME \A b \in Bbs : SameForward(mem[b], mem'[b])
      PROVE  RecordedDelivered' = RecordedDelivered
  <2>1. ASSUME NEW b \in Bbs, NEW p \in Bbs, NEW t
        PROVE  Says(mem'[b], t, p) <=> Says(mem[b], t, p)
    <3>1. /\ Numbers(mem'[b]) = Numbers(mem[b])
          /\ \A i \in Numbers(mem[b]) :
                /\ mem'[b].mail[i].text = mem[b].mail[i].text
                /\ mem[b].mail[i].forward[p] = "delivered"
                     <=> mem'[b].mail[i].forward[p] = "delivered"
      BY <1>3 DEF SameForward
    <3> QED
      BY <3>1 DEF Says
  <2>2. ASSUME NEW z PROVE z \in RecordedDelivered' <=> z \in RecordedDelivered
    BY <2>1, RecordedIs
  <2> QED
    BY <2>2
<1> QED
  BY <1>2, <1>3

\* A message more in one store.
LEMMA SeenGains ==
  ASSUME NEW b \in Bbs, OnlyAt(b), NEW text, NEW bid, Gains(mem[b], mem'[b], text, bid)
  PROVE  Held' = Held \cup {<<text, b>>} /\ RecordedDelivered' = RecordedDelivered
<1>1. PICK n : /\ Numbers(mem'[b]) = Numbers(mem[b]) \cup {n} /\ n \notin Numbers(mem[b])
               /\ mem'[b].mail[n].text = text
               /\ \A p \in Bbs : mem'[b].mail[n].forward[p] # "delivered"
  BY DEF Gains
<1>2. \A i \in Numbers(mem[b]) : mem'[b].mail[i] = mem[b].mail[i]
  BY DEF Gains
<1>3. \A c \in Bbs \ {b} : mem'[c] = mem[c]
  BY DEF OnlyAt
<1>4. \A c \in Bbs : \A t : Holds(mem'[c], t) <=> Holds(mem[c], t) \/ (c = b /\ t = text)
  <2>1. \A t : Holds(mem'[b], t) <=> Holds(mem[b], t) \/ t = text
    BY <1>1, <1>2 DEF Holds
  <2> QED
    BY <1>3, <2>1
<1>5. \A c, p \in Bbs : \A t : Says(mem'[c], t, p) <=> Says(mem[c], t, p)
  <2>1. \A p \in Bbs : \A t : Says(mem'[b], t, p) <=> Says(mem[b], t, p)
    BY <1>1, <1>2 DEF Says
  <2> QED
    BY <1>3, <2>1
<1>6. Held' = Held \cup {<<text, b>>}
  <2>1. ASSUME NEW z \in Held' PROVE z \in Held \cup {<<text, b>>}
    <3>a. PICK c \in Bbs : \E t : z = <<t, c>> /\ Holds(mem'[c], t)
      BY HeldIs
    <3>1. PICK t : z = <<t, c>> /\ Holds(mem'[c], t)
      BY <3>a
    <3>2. Holds(mem[c], t) \/ (c = b /\ t = text)
      BY <1>4, <3>1
    <3> QED
      BY <3>1, <3>2, HeldIs
  <2>2. ASSUME NEW z PROVE z \in Held \cup {<<text, b>>} => z \in Held'
    BY <1>4, HeldIs
  <2> QED
    BY <2>1, <2>2
<1>7. RecordedDelivered' = RecordedDelivered
  <2>1. ASSUME NEW z \in RecordedDelivered' PROVE z \in RecordedDelivered
    <3>a. PICK c \in Bbs, p \in Bbs : \E t : z = <<t, p>> /\ Says(mem'[c], t, p)
      BY RecordedIs
    <3>1. PICK t : z = <<t, p>> /\ Says(mem'[c], t, p)
      BY <3>a
    <3>2. Says(mem[c], t, p)
      BY <1>5, <3>1
    <3> QED
      BY <3>1, <3>2, RecordedIs
  <2>2. ASSUME NEW z \in RecordedDelivered PROVE z \in RecordedDelivered'
    <3>a. PICK c \in Bbs, p \in Bbs : \E t : z = <<t, p>> /\ Says(mem[c], t, p)
      BY RecordedIs
    <3>1. PICK t : z = <<t, p>> /\ Says(mem[c], t, p)
      BY <3>a
    <3>2. Says(mem'[c], t, p)
      BY <1>5, <3>1
    <3> QED
      BY <3>1, <3>2, RecordedIs
  <2> QED
    BY <2>1, <2>2
<1> QED
  BY <1>6, <1>7

\* A result enters one record, and only if the peer has the message.
LEMMA SeenRecord ==
  ASSUME Typed, Sending, Identified, OneText, Acknowledged, NEW b \in Bbs, Record(b)
  PROVE  /\ Held' = Held
         /\ \/ RecordedDelivered' = RecordedDelivered
            \/ \E t \in Text, p \in Bbs :
                  /\ <<t, p>> \in Held
                  /\ RecordedDelivered' = RecordedDelivered \cup {<<t, p>>}
<1> DEFINE p == PeerOf(b)
<1>1. PICK n \in fwd[b].queue, d \in BOOLEAN :
        LET t == RecordForward(mem[b], PeerOf(b), n.id, d)
        IN  /\ n.bid \in fwd[b].sent \cup fwd[b].deferred /\ (d <=> n.bid \in fwd[b].sent)
            /\ n.id \in Numbers(mem[b]) /\ Reworks(mem[b], t) /\ Written(b, t)
            /\ t.mail[n.id].forward[PeerOf(b)] = IF d THEN "delivered" ELSE "failed"
            /\ \A j \in Numbers(mem[b]), q \in Peer :
                  j # n.id \/ q # PeerOf(b) =>
                      t.mail[j].forward[q] = mem[b].mail[j].forward[q]
            /\ fwd' = [fwd EXCEPT ![b].sent = @ \ {n.bid}, ![b].deferred = @ \ {n.bid}]
  BY RecordAmends, SendingRecordable
<1>2. mem'[b] = RecordForward(mem[b], PeerOf(b), n.id, d) /\ \A c \in Bbs \ {b} : mem'[c] = mem[c]
  BY <1>1, Writes DEF Reworks, Typed
<1>3. p \in Bbs /\ n.text \in Text
  BY Facts DEF Record, Sane, Forwarder, Message
<1>4. /\ n.id \in Numbers(mem[b]) /\ mem[b].mail[n.id].text = n.text
      /\ mem[b].mail[n.id].bid = n.bid /\ mem[b].mail[n.id].forward[p] # "delivered"
  BY <1>1 DEF Sending, Awaited
<1> HIDE DEF p
<1>5. /\ Numbers(mem'[b]) = Numbers(mem[b])
      /\ \A i \in Numbers(mem[b]) : mem'[b].mail[i].text = mem[b].mail[i].text
      /\ mem'[b].mail[n.id].forward[p] = IF d THEN "delivered" ELSE "failed"
      /\ \A i \in Numbers(mem[b]), q \in Bbs :
            i # n.id \/ q # p => mem'[b].mail[i].forward[q] = mem[b].mail[i].forward[q]
  BY <1>1, <1>2 DEF Reworks, Grows, Kin, p
<1>6. /\ Held' = Held
      /\ (\A c \in Bbs : SameForward(mem[c], mem'[c])) => RecordedDelivered' = RecordedDelivered
  BY <1>2, <1>5, SeenSame
<1>7. CASE ~d
  <2>1. SameForward(mem[b], mem'[b])
    <3> SUFFICES ASSUME NEW i \in Numbers(mem[b]), NEW q \in Bbs
                 PROVE  mem[b].mail[i].forward[q] = "delivered"
                          <=> mem'[b].mail[i].forward[q] = "delivered"
      BY DEF SameForward
    <3>1. CASE i = n.id /\ q = p
      BY <1>4, <1>5, <1>7, <3>1
    <3> QED
      BY <1>5, <3>1
  <2>2. \A s : SameForward(s, s)
    BY DEF SameForward
  <2>3. \A c \in Bbs : SameForward(mem[c], mem'[c])
    BY <1>2, <2>1, <2>2
  <2> QED
    BY <1>6, <2>3
<1>8. CASE d
  <2>1. HasBID(mem[p], n.bid)
    BY <1>1, <1>8 DEF Acknowledged, p
  <2>2. PICK i \in Numbers(mem[p]) : mem[p].mail[i].bid = n.bid
    BY <2>1 DEF HasBID
  <2>3. mem[p].mail[i].text = n.text
    <3>1. Carried(mem[p].mail[i].text, n.bid) /\ Carried(n.text, n.bid)
      BY <1>3, <1>4, <2>2 DEF Carried, Lies
    <3> QED
      BY <3>1 DEF OneText
  <2>4. <<n.text, p>> \in Held
    BY <1>3, <2>2, <2>3, HeldIs DEF Holds
  <2>5. \A q \in Bbs : \A t :
            Says(mem'[b], t, q) <=> Says(mem[b], t, q) \/ (t = n.text /\ q = p)
    <3> SUFFICES ASSUME NEW q \in Bbs, NEW t
                 PROVE  Says(mem'[b], t, q) <=> Says(mem[b], t, q) \/ (t = n.text /\ q = p)
      OBVIOUS
    <3>1. ASSUME Says(mem'[b], t, q) PROVE Says(mem[b], t, q) \/ (t = n.text /\ q = p)
      BY <1>4, <1>5, <3>1 DEF Says
    <3>2. ASSUME NEW j \in Numbers(mem[b]), mem[b].mail[j].text = t,
                 mem[b].mail[j].forward[q] = "delivered"
          PROVE  Says(mem'[b], t, q)
      <4>1. mem'[b].mail[j].text = t /\ j \in Numbers(mem'[b])
        BY <1>5, <3>2
      <4>2. mem'[b].mail[j].forward[q] = "delivered"
        BY <1>5, <1>8, <3>2
      <4> QED
        BY <4>1, <4>2 DEF Says
    <3>3. Says(mem'[b], n.text, p)
      <4>1. /\ n.id \in Numbers(mem'[b]) /\ mem'[b].mail[n.id].text = n.text
            /\ mem'[b].mail[n.id].forward[p] = "delivered"
        BY <1>4, <1>5, <1>8
      <4> QED
        BY <4>1 DEF Says
    <3> QED
      BY <3>1, <3>2, <3>3 DEF Says
  <2>6. RecordedDelivered' = RecordedDelivered \cup {<<n.text, p>>}
    <3>1. \A c, q \in Bbs : \A t : Says(mem'[c], t, q) <=>
            Says(mem[c], t, q) \/ (c = b /\ t = n.text /\ q = p)
      BY <1>2, <2>5
    <3>2. ASSUME NEW z \in RecordedDelivered' PROVE z \in RecordedDelivered \cup {<<n.text, p>>}
      <4>a. PICK c \in Bbs, q \in Bbs : \E t : z = <<t, q>> /\ Says(mem'[c], t, q)
        BY RecordedIs
      <4>1. PICK t : z = <<t, q>> /\ Says(mem'[c], t, q)
        BY <4>a
      <4>2. Says(mem[c], t, q) \/ (t = n.text /\ q = p)
        BY <3>1, <4>1
      <4> QED
        BY <4>1, <4>2, RecordedIs
    <3>3. ASSUME NEW z \in RecordedDelivered PROVE z \in RecordedDelivered'
      <4>a. PICK c \in Bbs, q \in Bbs : \E t : z = <<t, q>> /\ Says(mem[c], t, q)
        BY RecordedIs
      <4>1. PICK t : z = <<t, q>> /\ Says(mem[c], t, q)
        BY <4>a
      <4>2. Says(mem'[c], t, q)
        BY <3>1, <4>1
      <4> QED
        BY <4>1, <4>2, RecordedIs
    <3>4. <<n.text, p>> \in RecordedDelivered'
      <4>1. Says(mem'[b], n.text, p)
        BY <1>3, <2>5
      <4> QED
        BY <1>3, <4>1, RecordedIs
    <3> QED
      BY <3>2, <3>3, <3>4
  <2> QED
    BY <1>3, <1>6, <2>4, <2>6
<1> QED
  BY <1>7, <1>8

LEMMA DeliveryStep ==
  ASSUME Safe, Named, Next, Careful
  PROVE  Delivery!Next \/ UNCHANGED <<Held, RecordedDelivered>>
<1>0. Typed /\ Sending /\ Identified /\ OneText /\ Rooted /\ Acknowledged
  BY DEF Safe, Named
<1>1. \A t, b : b \in Delivery!Holders(t) <=> b \in Bbs /\ Holds(mem[b], t)
  <2>1. \A t, b : <<t, b>> \in Held <=> b \in Bbs /\ Holds(mem[b], t)
    BY HeldIs
  <2> QED
    BY <2>1 DEF Delivery!Holders
<1>2. CASE \E b \in Bbs : Record(b)
  <2>1. PICK b \in Bbs : Record(b)
    BY <1>2
  <2>2. CASE RecordedDelivered' = RecordedDelivered
    BY <1>0, <2>1, <2>2, SeenRecord
  <2>3. ASSUME NEW t \in Text, NEW p \in Bbs, <<t, p>> \in Held,
               RecordedDelivered' = RecordedDelivered \cup {<<t, p>>}
        PROVE  Delivery!Next
    <3>1. Held' = Held
      BY <1>0, <2>1, SeenRecord
    <3> QED
      BY <2>3, <3>1 DEF Delivery!Next, Delivery!Record
  <2> QED
    BY <1>0, <2>1, <2>2, <2>3, SeenRecord
<1>3. CASE \A b \in Bbs : ~Record(b)
  <2>1. \A b \in Bbs : SameForward(mem[b], mem'[b])
    BY <1>0, <1>3, Retains
  <2>2. ASSUME NEW l \in Letter, Posted(l) PROVE Delivery!Next
    <3>1. l.home \in Bbs /\ l.text \in Text
      OBVIOUS
    <3>2. Held' = Held \cup {<<l.text, l.home>>} /\ RecordedDelivered' = RecordedDelivered
      BY <2>2, <3>1, SeenGains DEF Posted
    <3>3. Delivery!Holders(l.text) = {}
      <4>1. ASSUME NEW b \in Bbs, Holds(mem[b], l.text) PROVE FALSE
        <5>1. \E x : Carried(l.text, x)
          BY <4>1 DEF Holds, Carried, Lies
        <5> QED
          BY <1>0, <2>2, <5>1 DEF Identified, Posted
      <4> QED
        BY <1>1, <4>1 DEF Delivery!Holders
    <3> QED
      BY <3>1, <3>2, <3>3 DEF Delivery!Next, Delivery!Post
  <2>3. ASSUME NEW b \in Bbs, NEW m \in WireMessage, TakenIn(b, m) PROVE Delivery!Next
    <3>1. Held' = Held \cup {<<m.text, b>>} /\ RecordedDelivered' = RecordedDelivered
      BY <2>3, SeenGains DEF TakenIn
    <3>2. Delivery!Holders(m.text) # {}
      BY <1>0, <1>1, <2>3 DEF Rooted, TakenIn
    <3>3. b \notin Delivery!Holders(m.text)
      <4>1. ASSUME NEW i \in Numbers(mem[b]), mem[b].mail[i].text = m.text PROVE FALSE
        <5>1. Carried(m.text, mem[b].mail[i].bid) /\ Carried(m.text, m.bid)
          BY <2>3, <4>1 DEF Carried, Lies, TakenIn
        <5>2. mem[b].mail[i].bid = m.bid
          BY <1>0, <5>1 DEF Identified, OneBID
        <5> QED
          BY <2>3, <5>2 DEF TakenIn, HasBID
      <4> QED
        BY <1>1, <4>1 DEF Holds
    <3>4. m.text \in Text
      BY DEF WireMessage
    <3> QED
      BY <3>1, <3>2, <3>3, <3>4 DEF Delivery!Next, Delivery!Copy
  <2>4. ASSUME NEW b \in Bbs, OnlyAt(b), Reworks(mem[b], mem'[b])
        PROVE  UNCHANGED <<Held, RecordedDelivered>>
    <3>1. \A c \in Bbs : /\ Numbers(mem'[c]) = Numbers(mem[c])
                         /\ \A i \in Numbers(mem[c]) :
                               mem'[c].mail[i].text = mem[c].mail[i].text
      BY <2>4 DEF OnlyAt, Reworks, Grows, Kin
    <3> QED
      BY <2>1, <3>1, SeenSame
  <2>5. ASSUME \A b \in Bbs : mem'[b] = mem[b] PROVE UNCHANGED <<Held, RecordedDelivered>>
    BY <2>1, <2>5, SeenSame
  <2>6. ASSUME NEW b \in Bbs, Crash(b) PROVE \A c \in Bbs : mem'[c] = mem[c]
    BY <1>0, <2>6 DEF Crash, Careful, Typed, StoresOK
  <2> QED
    BY <1>0, <2>2, <2>3, <2>4, <2>5, <2>6, StoresChange
<1> QED
  BY <1>2, <1>3

\* The stores keep the promise of MailDelivery: what is posted or taken in is
\* never lost, and "delivered" is entered only for a partner that has the
\* message, whether it took it in this session or refused it as known.
THEOREM DeliveryImplemented ==
  ASSUME OneHome PROVE Spec /\ SavedBeforeCrash => ImplementsDelivery
<1>1. Init => Delivery!Init
  <2> SUFFICES ASSUME Init PROVE Delivery!Init
    OBVIOUS
  <2>1. \A b \in Bbs : Numbers(mem[b]) = {}
    BY EmptySeq DEF Init, EmptyStore, Numbers
  <2>2. Held = {} /\ RecordedDelivered = {}
    <3>1. \A z : z \notin Held /\ z \notin RecordedDelivered
      BY <2>1, HeldIs, RecordedIs DEF Holds, Says
    <3> QED
      BY <3>1
  <2> QED
    BY <2>2 DEF Delivery!Init
<1>2. Safe /\ Named /\ [Next]_vars /\ [Careful]_vars => [Delivery!Next]_(Delivery!vars)
  <2>1. CASE UNCHANGED vars
    BY <2>1 DEF vars, Delivery!vars, Held, RecordedDelivered
  <2> QED
    BY <2>1, DeliveryStep DEF Delivery!vars
<1>3. Safe /\ Named /\ [Next]_vars /\ [Careful]_vars => Named'
  BY NamedStep
<1> QED
  BY InitSafe, SafeStep, InitNamed, <1>1, <1>2, <1>3, PTL
     DEF Spec, SavedBeforeCrash, ImplementsDelivery, Delivery!Spec
=============================================================================
