----------------------- MODULE OperatorTerminal_proofs -----------------------
(***************************************************************************)
(* The safety properties of OperatorTerminal, for any number of sockets,   *)
(* calls, texts and deletions: that the history is balanced and complete,  *)
(* who holds a call, and what the browser was told.                        *)
(***************************************************************************)
EXTENDS OperatorTerminal, SequenceTheorems, FiniteSetTheorems, TLAPS

-----------------------------------------------------------------------------
(* The operations of the conversation store keep its books balanced: in     *)
(* every conversation the begin markers are the end markers and the         *)
(* sessions that go on.                                                     *)

Counts == [begun: Nat, ended: Nat, texts: Nat]

Going(h, k) == {s \in h.active : s[2] = k}

\* Sessions have numbers of their own, from 1 to the last one given out.
Sessions(h) ==
    /\ IsFiniteSet(h.active)
    /\ \A s \in h.active : 0 < s[1] /\ s[1] <= h.next
    /\ \A s, t \in h.active : s[1] = t[1] => s = t

Balanced(h) ==
    \A k \in Key : h.items[k].begun = h.items[k].ended + Cardinality(Going(h, k))

HistoryType == [items: [Key -> Counts], active: SUBSET (Nat \X Key), next: Nat]

InOrder(h) == h \in HistoryType /\ Sessions(h) /\ Balanced(h)

-----------------------------------------------------------------------------
LEMMA GoingFinite ==
  ASSUME NEW h \in HistoryType, Sessions(h), NEW k \in Key
  PROVE  IsFiniteSet(Going(h, k)) /\ Cardinality(Going(h, k)) \in Nat
<1>1. Going(h, k) \subseteq h.active
  BY DEF Going
<1>2. IsFiniteSet(Going(h, k))
  BY <1>1, FS_Subset DEF Sessions
<1> QED
  BY <1>2, FS_CardinalityType

\* An operation that leaves the sessions alone and the two markers too.
LEMMA SameBooks ==
  ASSUME NEW h, InOrder(h), NEW g \in HistoryType,
         g.active = h.active, g.next = h.next,
         \A k \in Key : /\ g.items[k].begun = h.items[k].begun
                        /\ g.items[k].ended = h.items[k].ended
  PROVE  InOrder(g)
<1>1. \A k \in Key : Going(g, k) = Going(h, k)
  BY DEF Going
<1> QED
  BY <1>1 DEF InOrder, Sessions, Balanced

LEMMA NoSessions ==
  ASSUME NEW h \in HistoryType, h.items = [k \in Key |-> Absent], h.active = {}
  PROVE  InOrder(h)
<1>1. \A k \in Key : Going(h, k) = {}
  BY DEF Going
<1> QED
  BY <1>1, FS_EmptySet DEF InOrder, Sessions, Balanced, Absent

LEMMA EmptyInOrder == InOrder(EmptyHistory)
<1>1. EmptyHistory \in HistoryType
  BY DEF EmptyHistory, HistoryType, Absent, Counts
<1> QED
  BY <1>1, NoSessions DEF EmptyHistory

LEMMA ClearedInOrder ==
  ASSUME NEW h, InOrder(h)
  PROVE  InOrder(Cleared(h))
<1>1. Cleared(h) \in HistoryType
  BY DEF InOrder, Cleared, EmptyHistory, HistoryType, Absent, Counts
<1>2. Cleared(h).items = [k \in Key |-> Absent] /\ Cleared(h).active = {}
  BY DEF Cleared, EmptyHistory
<1> QED
  BY <1>1, <1>2, NoSessions

LEMMA AddedInOrder ==
  ASSUME NEW h, InOrder(h), NEW k
  PROVE  InOrder(Added(h, k))
<1>1. CASE Added(h, k) = h
  BY <1>1
<1>2. CASE k \in Key /\ Added(h, k) = [h EXCEPT !.items[k].texts = @ + 1]
  <2> DEFINE one == [h.items[k] EXCEPT !.texts = @ + 1]
             g == [h EXCEPT !.items = [h.items EXCEPT ![k] = one]]
  <2>1. h \in HistoryType /\ k \in Key
    BY <1>2 DEF InOrder
  <2>2. one \in Counts /\ one.begun = h.items[k].begun /\ one.ended = h.items[k].ended
    BY <2>1 DEF HistoryType, Counts
  <2>3. Added(h, k) = g
    BY <1>2
  <2> HIDE DEF one
  <2>4. g \in HistoryType /\ g.active = h.active /\ g.next = h.next
    BY <2>1, <2>2 DEF HistoryType
  <2>5. \A l \in Key : /\ g.items[l].begun = h.items[l].begun
                       /\ g.items[l].ended = h.items[l].ended
    BY <2>1, <2>2 DEF HistoryType
  <2> QED
    BY <2>3, <2>4, <2>5, SameBooks
<1> QED
  BY <1>1, <1>2 DEF Added

-----------------------------------------------------------------------------
\* Connected: the number of the new session is not taken.
LEMMA BegunInOrder ==
  ASSUME NEW h, InOrder(h), NEW k \in Key
  PROVE  InOrder(Begun(h, k))
<1> DEFINE g == Begun(h, k)
           new == <<h.next + 1, k>>
<1>0. h \in HistoryType /\ Sessions(h) /\ Balanced(h)
  BY DEF InOrder
<1>1. g \in HistoryType
  BY <1>0 DEF Begun, HistoryType, Counts
<1>2. new \notin h.active
  BY <1>0 DEF HistoryType, Sessions
<1>3. /\ g.active = h.active \cup {new}
      /\ g.next = h.next + 1
      /\ g.items = [h.items EXCEPT ![k].begun = @ + 1]
  BY DEF Begun
<1>4. Sessions(g)
  <2>1. IsFiniteSet(g.active)
    <3>1. IsFiniteSet(h.active)
      BY <1>0 DEF Sessions
    <3>2. IsFiniteSet(h.active \cup {new})
      BY <3>1, FS_AddElement
    <3> QED
      BY <1>3, <3>2
  <2>2. \A s \in g.active : 0 < s[1] /\ s[1] <= g.next
    BY <1>0, <1>3 DEF HistoryType, Sessions
  <2>3. \A s, t \in g.active : s[1] = t[1] => s = t
    BY <1>0, <1>3 DEF HistoryType, Sessions
  <2> QED
    BY <2>1, <2>2, <2>3 DEF Sessions
<1>5. ASSUME NEW l \in Key
      PROVE  g.items[l].begun = g.items[l].ended + Cardinality(Going(g, l))
  <2>0. /\ IsFiniteSet(Going(h, l)) /\ Cardinality(Going(h, l)) \in Nat
        /\ h.items[l] \in Counts
        /\ h.items[l].begun = h.items[l].ended + Cardinality(Going(h, l))
    BY <1>0, GoingFinite DEF HistoryType, Balanced
  <2>1. CASE l = k
    <3>1. Going(g, l) = Going(h, l) \cup {new} /\ new \notin Going(h, l)
      BY <1>2, <1>3, <2>1 DEF Going
    <3>2. Cardinality(Going(g, l)) = Cardinality(Going(h, l)) + 1
      <4>1. PICK G : G = Going(h, l)
        OBVIOUS
      <4>2. IsFiniteSet(G) /\ new \notin G /\ Going(g, l) = G \cup {new}
        BY <2>0, <3>1, <4>1
      <4>3. Cardinality(G \cup {new}) = Cardinality(G) + 1
        BY ONLY <4>2, FS_AddElement
      <4> QED
        BY <4>1, <4>2, <4>3
    <3>3. g.items[l].begun = h.items[l].begun + 1 /\ g.items[l].ended = h.items[l].ended
      BY <1>0, <1>3, <2>1 DEF HistoryType, Counts
    <3> QED
      BY <2>0, <3>2, <3>3 DEF Counts
  <2>2. CASE l # k
    <3>1. Going(g, l) = Going(h, l)
      BY <1>3, <2>2 DEF Going
    <3>2. g.items[l] = h.items[l]
      BY <1>0, <1>3, <2>2 DEF HistoryType
    <3> QED
      BY <2>0, <3>1, <3>2
  <2> QED
    BY <2>1, <2>2
<1> QED
  BY <1>1, <1>4, <1>5 DEF InOrder, Balanced

\* Sessions that go are at most fewer: what is left of Sessions is kept.
LEMMA FewerSessions ==
  ASSUME NEW h, NEW g, Sessions(h), g.active \subseteq h.active, g.next = h.next
  PROVE  Sessions(g)
BY FS_Subset DEF Sessions

\* Disconnected: one end marker for the session, if it goes on.
LEMMA EndedInOrder ==
  ASSUME NEW h, InOrder(h), NEW id
  PROVE  InOrder(Ended(h, id))
<1> DEFINE g == Ended(h, id)
<1>0. h \in HistoryType /\ Sessions(h) /\ Balanced(h)
  BY DEF InOrder
<1>1. /\ g.active = {s \in h.active : s[1] # id}
      /\ g.next = h.next
      /\ \A k \in Key : g.items[k] = IF <<id, k>> \in h.active /\ Kept(h, k)
                                    THEN [h.items[k] EXCEPT !.ended = @ + 1]
                                    ELSE h.items[k]
  BY <1>0 DEF Ended, HistoryType
<1>2. g \in HistoryType
  BY <1>0 DEF Ended, HistoryType, Counts
<1>3. Sessions(g)
  BY <1>0, <1>1, FewerSessions
<1>4. ASSUME NEW k \in Key
      PROVE  g.items[k].begun = g.items[k].ended + Cardinality(Going(g, k))
  <2>0. /\ IsFiniteSet(Going(h, k)) /\ Cardinality(Going(h, k)) \in Nat
        /\ h.items[k] \in Counts
        /\ h.items[k].begun = h.items[k].ended + Cardinality(Going(h, k))
    BY <1>0, GoingFinite DEF HistoryType, Balanced
  <2>1. CASE <<id, k>> \in h.active
    <3>1. Going(g, k) = Going(h, k) \ {<<id, k>>} /\ <<id, k>> \in Going(h, k)
      BY <1>0, <1>1, <2>1 DEF Going, HistoryType
    <3>2. Cardinality(Going(g, k)) = Cardinality(Going(h, k)) - 1
      BY <2>0, <3>1, FS_RemoveElement
    <3>3. Cardinality(Going(h, k)) # 0
      BY <2>0, <3>1, FS_EmptySet
    <3>4. Kept(h, k)
      BY <2>0, <3>3 DEF Kept, Counts
    <3>5. g.items[k].begun = h.items[k].begun /\ g.items[k].ended = h.items[k].ended + 1
      BY <1>1, <2>0, <2>1, <3>4 DEF Counts
    <3> QED
      BY <2>0, <3>2, <3>5 DEF Counts
  <2>2. CASE <<id, k>> \notin h.active
    <3>1. Going(g, k) = Going(h, k)
      BY <1>0, <1>1, <2>2 DEF Going, HistoryType
    <3>2. g.items[k] = h.items[k]
      BY <1>1, <2>2
    <3> QED
      BY <2>0, <3>1, <3>2
  <2> QED
    BY <2>1, <2>2
<1> QED
  BY <1>2, <1>3, <1>4 DEF InOrder, Balanced

\* Delete: the sessions of the conversation go with it, no others.
LEMMA DeletedInOrder ==
  ASSUME NEW h, InOrder(h), NEW k \in Key
  PROVE  InOrder(Deleted(h, k))
<1> DEFINE g == Deleted(h, k)
<1>0. h \in HistoryType /\ Sessions(h) /\ Balanced(h)
  BY DEF InOrder
<1>1. /\ g.active = {s \in h.active : s[2] # k}
      /\ g.next = h.next
      /\ g.items = [h.items EXCEPT ![k] = Absent]
  BY <1>0 DEF Deleted, HistoryType
<1>2. g \in HistoryType
  BY <1>0 DEF Deleted, HistoryType, Absent, Counts
<1>3. Sessions(g)
  BY <1>0, <1>1, FewerSessions
<1>4. ASSUME NEW l \in Key
      PROVE  g.items[l].begun = g.items[l].ended + Cardinality(Going(g, l))
  <2>1. CASE l = k
    <3>1. Going(g, l) = {}
      BY <1>1, <2>1 DEF Going
    <3>2. g.items[l] = Absent
      BY <1>0, <1>1, <2>1 DEF HistoryType
    <3> QED
      BY <3>1, <3>2, FS_EmptySet DEF Absent
  <2>2. CASE l # k
    <3>1. Going(g, l) = Going(h, l) /\ g.items[l] = h.items[l]
      BY <1>0, <1>1, <2>2 DEF Going, HistoryType
    <3> QED
      BY <1>0, <3>1 DEF Balanced
  <2> QED
    BY <2>1, <2>2
<1> QED
  BY <1>2, <1>3, <1>4 DEF InOrder, Balanced

-----------------------------------------------------------------------------
(* The pages and the store together *)

USE TerminalAssumption

Event == {"snapshot", "up", "down"}

PageTyped ==
    /\ page \in [Socket -> {"none", "open", "closed"}]
    /\ told \in [Socket -> {"none", "connected", "over"}]
    /\ at \in [Socket -> {"off", "loop", "goodbye", "release", "tail", "leaving",
                          "closing", "returned"}]
    /\ mode \in [Socket -> {"", "incoming", "bbs", "tnc"}]
    /\ held \in [Socket -> Inbound \cup {None}]
    /\ copier \in [Socket -> [src : Inbound \cup {"off", "bbs", "done"}, id : Nat]]

RadioTyped ==
    /\ radio \in [Socket -> {"none", "down", "awaiting", "connected"}]
    /\ conn \in [Socket -> {"off", "starting", "running", "done"}]
    /\ hub \in [Socket -> BOOLEAN]
    /\ events \in [Socket -> Seq(Event)]

BooksTyped ==
    /\ noted \in [Socket -> Nat] /\ hconn \in [Socket -> BOOLEAN]
    /\ hist \in HistoryType

Booked == InOrder(hist)

Typed == call \in [Inbound -> Call] /\ PageTyped /\ RadioTyped /\ BooksTyped

\* A call is claimed once, by the one who takes it off the list.
Claims ==
    /\ \A i \in Inbound : call[i].at = "idle" => ~call[i].claimed
    /\ \A t \in Socket : held[t] # None => /\ call[held[t]].claimed
                                           /\ ~call[held[t]].listed
                                           /\ \A u \in Socket : held[u] = held[t] => u = t

HasDown(q) == \E n \in DOMAIN q : q[n] = "down"

\* Behind every "up" there is a "down".
Covered(q) ==
    \A n \in DOMAIN q : q[n] = "up" => \E m \in DOMAIN q : m > n /\ q[m] = "down"

\* Nothing has happened on a socket before its connect, and nothing is left of
\* the radio session of a handler that has disconnected it.
Starting(t) ==
    page[t] = "none" =>
        /\ at[t] = "off" /\ told[t] = "none" /\ copier[t].src = "off"
        /\ events[t] = <<>> /\ ~hconn[t] /\ held[t] = None /\ conn[t] = "off"
        /\ noted[t] = 0 /\ ~hub[t]

RadioSound(t) ==
    /\ at[t] = "off" => page[t] = "none"
    /\ at[t] \in {"leaving", "closing", "returned"} => page[t] = "closed" /\ ~hub[t]
    /\ at[t] \in {"closing", "returned"} => radio[t] # "connected"
    /\ conn[t] # "done" => radio[t] # "connected"
    /\ radio[t] = "connected" \/ Covered(events[t])

\* What the browser was told last is still so, or about to be corrected.
ToldSound(t) ==
    /\ held[t] # None => conn[t] = "off" /\ events[t] = <<>>
    /\ told[t] = "connected" /\ page[t] = "open" =>
        /\ held[t] # None => copier[t].src \in Inbound
        /\ mode[t] = "tnc" => radio[t] = "connected" \/ HasDown(events[t])

Order == \A t \in Socket : Starting(t) /\ RadioSound(t) /\ ToldSound(t)

\* The handler, or the pump behind a "down", ends the session noted; the copier
\* ends the one it was started for.
HandlerEnds(t) ==
    \/ at[t] \in {"loop", "goodbye", "release", "tail"}
    \/ hconn[t] /\ HasDown(events[t])
    \/ hconn[t] /\ at[t] = "leaving" /\ radio[t] = "connected"

WillEnd(t, id) ==
    \/ copier[t].id = id /\ copier[t].src \notin {"off", "done"}
    \/ noted[t] = id /\ HandlerEnds(t)

Owned ==
    /\ \A s \in hist.active : \E t \in Socket : WillEnd(t, s[1])
    /\ \A t \in Socket : /\ noted[t] <= hist.next
                         /\ ~hconn[t] => \A s \in hist.active : s[1] # noted[t]

Invariant == Typed /\ Booked /\ Claims /\ Order /\ Owned

-----------------------------------------------------------------------------
(* Queues of events *)

LEMMA DownQueued ==
  ASSUME NEW q \in Seq(Event)
  PROVE  /\ Append(q, "down") \in Seq(Event)
         /\ HasDown(Append(q, "down")) /\ Covered(Append(q, "down"))
<1> DEFINE r == Append(q, "down")
<1>1. /\ r \in Seq(Event) /\ Len(r) = Len(q) + 1
      /\ r[Len(r)] = "down" /\ \A n \in 1..Len(q) : r[n] = q[n]
  BY AppendProperties DEF Event
<1>2. DOMAIN r = 1..Len(r) /\ Len(r) \in DOMAIN r
  BY <1>1, LenProperties
<1>3. HasDown(r)
  BY <1>1, <1>2 DEF HasDown
<1>4. Covered(r)
  <2> SUFFICES ASSUME NEW n \in DOMAIN r, r[n] = "up"
               PROVE  \E m \in DOMAIN r : m > n /\ r[m] = "down"
    BY DEF Covered
  <2>1. n \in 1..Len(r) /\ n # Len(r)
    BY <1>1, <1>2
  <2> HIDE DEF r
  <2> QED
    BY <1>1, <1>2, <2>1
<1> QED
  BY <1>1, <1>3, <1>4

LEMMA UpQueued ==
  ASSUME NEW q \in Seq(Event), NEW e \in Event
  PROVE  Append(q, e) \in Seq(Event) /\ (HasDown(q) => HasDown(Append(q, e)))
<1>1. Append(q, e) \in Seq(Event)
  BY AppendProperties
<1>2. ASSUME HasDown(q) PROVE HasDown(Append(q, e))
  <2>1. PICK n \in DOMAIN q : q[n] = "down"
    BY <1>2 DEF HasDown
  <2>2. DOMAIN q = 1..Len(q) /\ DOMAIN Append(q, e) = 1..(Len(q) + 1)
    BY <1>1, AppendProperties, LenProperties
  <2>3. n \in DOMAIN Append(q, e) /\ Append(q, e)[n] = "down"
    BY <2>1, <2>2, AppendProperties
  <2> QED
    BY <2>3 DEF HasDown
<1> QED
  BY <1>1, <1>2

\* What the pump leaves behind when it takes an event.
LEMMA EventTaken ==
  ASSUME NEW q \in Seq(Event), q # <<>>
  PROVE  /\ Head(q) \in Event /\ Tail(q) \in Seq(Event)
         /\ Head(q) # "down" /\ HasDown(q) => HasDown(Tail(q))
         /\ Covered(q) => Covered(Tail(q)) /\ (Head(q) = "up" => HasDown(Tail(q)))
<1> DEFINE r == Tail(q)
<1>1. /\ Head(q) \in Event /\ r \in Seq(Event) /\ Head(q) = q[1]
      /\ Len(q) \in Nat \ {0} /\ Len(r) = Len(q) - 1
      /\ \A n \in 1..Len(r) : r[n] = q[n + 1]
  BY HeadTailProperties, EmptySeq, LenProperties
<1>2. DOMAIN q = 1..Len(q) /\ DOMAIN r = 1..Len(r)
  BY <1>1, LenProperties
<1> HIDE DEF r
<1>3. \A m \in DOMAIN q : m > 1 => m - 1 \in DOMAIN r /\ r[m - 1] = q[m]
  BY <1>1, <1>2
<1>4. Head(q) # "down" /\ HasDown(q) => HasDown(r)
  <2> SUFFICES ASSUME Head(q) # "down", HasDown(q) PROVE HasDown(r)
    OBVIOUS
  <2>1. PICK m \in DOMAIN q : q[m] = "down"
    BY DEF HasDown
  <2>2. m > 1
    BY <1>1, <1>2, <2>1
  <2> QED
    BY <1>3, <2>1, <2>2 DEF HasDown
<1>5. ASSUME Covered(q) PROVE Covered(r)
  <2> SUFFICES ASSUME NEW n \in DOMAIN r, r[n] = "up"
               PROVE  \E m \in DOMAIN r : m > n /\ r[m] = "down"
    BY DEF Covered
  <2>1. n + 1 \in DOMAIN q /\ q[n + 1] = "up" /\ n \in Nat
    BY <1>1, <1>2
  <2>2. PICK m \in DOMAIN q : m > n + 1 /\ q[m] = "down"
    BY <1>5, <2>1 DEF Covered
  <2>3. m > 1 /\ m - 1 > n
    BY <1>2, <2>1, <2>2
  <2> QED
    BY <1>3, <2>2, <2>3
<1>6. ASSUME Covered(q), Head(q) = "up" PROVE HasDown(r)
  <2>1. 1 \in DOMAIN q /\ q[1] = "up"
    BY <1>1, <1>2, <1>6
  <2>2. PICK m \in DOMAIN q : m > 1 /\ q[m] = "down"
    BY <1>6, <2>1 DEF Covered
  <2> QED
    BY <1>3, <2>2 DEF HasDown
<1> QED
  BY <1>1, <1>4, <1>5, <1>6 DEF r

LEMMA NoEvents == HasDown(<<>>) = FALSE /\ Covered(<<>>) /\ Covered(<<"snapshot">>)
  BY DEF HasDown, Covered

-----------------------------------------------------------------------------
(* The history *)

\* The steps of one socket, in the order of the module.
ConnectStep(t) ==
    ConnectBBS(t) \/ ConnectRadio(t) \/ \E i \in Inbound : ConnectIncoming(t, i)

HandlerStep(t) ==
    \/ PageCloses(t) \/ Data(t) \/ AskDisconnect(t) \/ Goodbye(t) \/ Release(t)
    \/ Idle(t) \/ Leave(t) \/ LeaveRadio(t) \/ Returns(t)

BesideStep(t) ==
    \/ CopyEnds(t) \/ CopyHasNoReader(t) \/ BBSEnds(t) \/ TelnetEnds(t)
    \/ ConnStarts(t) \/ ConnEnds(t) \/ LinkEnds(t) \/ TextDone(t) \/ Pump(t)

SocketStep(t) == ConnectStep(t) \/ HandlerStep(t) \/ BesideStep(t)

CallStep == \E i \in Inbound : Arrives(i) \/ Expires(i) \/ Serves(i) \/ FarEnds(i)

LEMMA NextIs == Next <=> CallStep \/ (\E t \in Socket : SocketStep(t)) \/ DeleteHistory
  BY DEF Next, CallStep, SocketStep, ConnectStep, HandlerStep, BesideStep

\* One operation of the store at most.
Stored(h, g) ==
    \/ g = h \/ g = Cleared(h)
    \/ \E k \in Key : g = Begun(h, k) \/ g = Deleted(h, k)
    \/ \E id \in Nat : g = Ended(h, id)
    \/ \E k \in {"incoming", "bbs", "station"} : g = Added(h, k)

LEMMA HistoryStep ==
  ASSUME Typed, [Next]_vars
  PROVE  Stored(hist, hist')
<1> USE DEF Stored
<1>0. \A t \in Socket : noted[t] \in Nat /\ copier[t].id \in Nat
  BY DEF Typed, BooksTyped, PageTyped
<1>1. CASE CallStep
  BY <1>1 DEF CallStep, Arrives, Expires, Serves, FarEnds, histvars
<1>2. ASSUME NEW t \in Socket, ConnectStep(t) PROVE Stored(hist, hist')
  BY <1>2 DEF ConnectStep, ConnectBBS, ConnectRadio, ConnectIncoming, Begin, histvars
<1>3. ASSUME NEW t \in Socket, HandlerStep(t) PROVE Stored(hist, hist')
  BY <1>0, <1>3 DEF HandlerStep, PageCloses, Data, AskDisconnect, Goodbye, Release,
     Idle, Leave, LeaveRadio, Returns, histvars
<1>4. ASSUME NEW t \in Socket, BesideStep(t) PROVE Stored(hist, hist')
  BY <1>0, <1>4 DEF BesideStep, CopyEnds, CopyHasNoReader, BBSEnds, TelnetEnds,
     ConnStarts, ConnEnds, LinkEnds, TextDone, Pump, Begin, histvars
<1>5. CASE DeleteHistory
  BY <1>5 DEF DeleteHistory
<1>6. CASE UNCHANGED vars
  BY <1>6 DEF vars, histvars
<1> QED
  BY <1>1, <1>2, <1>3, <1>4, <1>5, <1>6, NextIs DEF SocketStep

LEMMA StoredInOrder ==
  ASSUME NEW h, InOrder(h), NEW g, Stored(h, g)
  PROVE  InOrder(g)
  BY AddedInOrder, BegunInOrder, EndedInOrder, DeletedInOrder, ClearedInOrder DEF Stored

-----------------------------------------------------------------------------
(* Types *)

LEMMA InitTyped == Init => Typed /\ Booked
<1> SUFFICES ASSUME Init PROVE Typed /\ Booked
  OBVIOUS
<1>1. InOrder(hist) /\ hist \in HistoryType
  BY EmptyInOrder DEF Init, InOrder
<1>2. call \in [Inbound -> Call]
  BY DEF Init, Call
<1>3. PageTyped
  BY DEF Init, PageTyped, Copier
<1>4. RadioTyped
  BY EmptySeq DEF Init, RadioTyped
<1> QED
  BY <1>1, <1>2, <1>3, <1>4 DEF Typed, BooksTyped, Booked, Init

\* At most one call is another than before.
LEMMA CallTyped ==
  ASSUME Typed, [Next]_vars
  PROVE  call' \in [Inbound -> Call]
<1> DEFINE One(i, c) == call' = [call EXCEPT ![i] = c]
<1>0. call \in [Inbound -> Call] /\ held \in [Socket -> Inbound \cup {None}]
      /\ \A t \in Socket : copier[t] \in [src : Inbound \cup {"off", "bbs", "done"}, id : Nat]
  BY DEF Typed, PageTyped
<1>1. \A i \in Inbound : call[i] \in Call
  BY <1>0
<1>2. ASSUME NEW i \in Inbound, NEW c \in Call, One(i, c) PROVE call' \in [Inbound -> Call]
  BY <1>0, <1>2
<1>3. ASSUME NEW i \in Inbound, Arrives(i) \/ Expires(i) \/ Serves(i) \/ FarEnds(i)
      PROVE  \E c \in Call : One(i, c)
  <2> DEFINE new == call'[i]
  <2>1. CASE Arrives(i)
    BY <1>0, <1>1, <2>1, ZenonT(60) DEF Arrives, Call
  <2>2. CASE Expires(i)
    <3>1. One(i, [call[i] EXCEPT !.at = "leaving", !.closed = TRUE])
      BY <1>0, <2>2 DEF Expires
    <3> QED
      BY <1>1, <3>1 DEF Call
  <2>3. CASE Serves(i)
    <3>1. \/ One(i, [call[i] EXCEPT !.at = "talking"])
          \/ One(i, [call[i] EXCEPT !.at = "leaving"])
          \/ One(i, [call[i] EXCEPT !.at = "over", !.listed = FALSE])
      BY <1>0, <2>3 DEF Serves
    <3> QED
      BY <1>1, <3>1 DEF Call
  <2>4. CASE FarEnds(i)
    BY <1>0, <1>1, <2>4 DEF FarEnds, Call
  <2> QED
    BY <1>3, <2>1, <2>2, <2>3, <2>4
<1>4. ASSUME NEW t \in Socket, NEW i \in Inbound, ConnectIncoming(t, i)
      PROVE  call' = call \/ \E c \in Call : One(i, c)
  <2>1. call' = call \/ One(i, [call[i] EXCEPT !.claimed = TRUE, !.listed = FALSE])
    BY <1>0, <1>4 DEF ConnectIncoming, Claimed
  <2> QED
    BY <1>1, <2>1 DEF Call
<1>5. ASSUME NEW i \in Inbound PROVE \E c \in Call : Closed(i) = [call EXCEPT ![i] = c]
  <2>1. Closed(i) = [call EXCEPT ![i] = [call[i] EXCEPT !.closed = TRUE]]
    BY <1>0 DEF Closed
  <2> QED
    BY <1>1, <2>1, ZenonT(60) DEF Call
<1>6. ASSUME NEW t \in Socket, SocketStep(t), ~(\E i \in Inbound : ConnectIncoming(t, i))
      PROVE  call' = call \/ \E i \in Inbound : call' = Closed(i)
  <2>1. CASE ConnectStep(t)
    BY <1>6, <2>1 DEF ConnectStep, ConnectBBS, ConnectRadio
  <2>2. CASE HandlerStep(t)
    BY <1>0, <2>2 DEF HandlerStep, PageCloses, Data, AskDisconnect, Goodbye, Release,
       Idle, Leave, LeaveRadio, Returns
  <2>3. CASE BesideStep(t)
    BY <2>3 DEF BesideStep, CopyEnds, CopyHasNoReader, BBSEnds, TelnetEnds,
       ConnStarts, ConnEnds, LinkEnds, TextDone, Pump
  <2> QED
    BY <1>6, <2>1, <2>2, <2>3 DEF SocketStep
<1> HIDE DEF One
<1>7. ASSUME NEW i \in Inbound, call' = Closed(i) PROVE \E c \in Call : One(i, c)
  BY <1>5, <1>7 DEF One
<1>8. CASE CallStep
  BY <1>2, <1>3, <1>8 DEF CallStep
<1>9. CASE \E t \in Socket : SocketStep(t)
  BY <1>0, <1>2, <1>4, <1>6, <1>7, <1>9
<1>10. CASE DeleteHistory \/ UNCHANGED vars
  BY <1>0, <1>10 DEF DeleteHistory, vars
<1> QED
  BY <1>8, <1>9, <1>10, NextIs

\* A socket has what it had, save for what a step of its own does.
PageAlike(t) ==
    /\ page'[t] = page[t] /\ told'[t] = told[t] /\ at'[t] = at[t]
    /\ mode'[t] = mode[t] /\ held'[t] = held[t] /\ copier'[t] = copier[t]

RadioAlike(t) ==
    /\ radio'[t] = radio[t] /\ conn'[t] = conn[t] /\ hub'[t] = hub[t]
    /\ events'[t] = events[t]

BooksAlike(t) == noted'[t] = noted[t] /\ hconn'[t] = hconn[t]

Alike(t) == PageAlike(t) /\ RadioAlike(t) /\ BooksAlike(t)

LEMMA TellTyped ==
  ASSUME Typed, NEW t \in Socket, NEW state \in {"connected", "over"},
         told' = told \/ Tell(t, state)
  PROVE  told' \in [Socket -> {"none", "connected", "over"}]
         /\ \A u \in Socket \ {t} : told'[u] = told[u]
<1>1. told \in [Socket -> {"none", "connected", "over"}]
  BY DEF Typed, PageTyped
<1> QED
  BY <1>1 DEF Tell

LEMMA CopierTyped ==
  ASSUME Typed, NEW t \in Socket,
         NEW c \in [src : Inbound \cup {"off", "bbs", "done"}, id : Nat],
         copier' = copier \/ copier' = [copier EXCEPT ![t] = c]
  PROVE  copier' \in [Socket -> [src : Inbound \cup {"off", "bbs", "done"}, id : Nat]]
         /\ \A u \in Socket \ {t} : copier'[u] = copier[u]
<1>1. copier \in [Socket -> [src : Inbound \cup {"off", "bbs", "done"}, id : Nat]]
  BY DEF Typed, PageTyped
<1> QED
  BY <1>1

LEMMA PageStep ==
  ASSUME Typed, InOrder(hist'), NEW t \in Socket, SocketStep(t)
  PROVE  PageTyped' /\ \A u \in Socket \ {t} : PageAlike(u)
<1>0. PageTyped /\ RadioTyped /\ BooksTyped
  BY DEF Typed
<1>a. hist' \in HistoryType /\ hist'.next \in Nat
  BY DEF InOrder, HistoryType
<1>b. \A src \in Inbound \cup {"bbs"} :
         Copier(src, hist'.next) \in [src : Inbound \cup {"off", "bbs", "done"}, id : Nat]
  BY <1>a DEF Copier
<1>1. CASE ConnectBBS(t)
  <2>1. copier' = copier \/ copier' = [copier EXCEPT ![t] = Copier("bbs", hist'.next)]
    BY <1>1 DEF ConnectBBS, Copies
  <2>2. \E state \in {"connected", "over"} : Tell(t, state)
    BY <1>1 DEF ConnectBBS
  <2>3. Connecting(t, "bbs") /\ held' = held
    BY <1>1 DEF ConnectBBS
  <2>4. copier' \in [Socket -> [src : Inbound \cup {"off", "bbs", "done"}, id : Nat]]
        /\ \A u \in Socket \ {t} : copier'[u] = copier[u]
    BY <1>b, <2>1, CopierTyped
  <2>5. told' \in [Socket -> {"none", "connected", "over"}]
        /\ \A u \in Socket \ {t} : told'[u] = told[u]
    BY <2>2, TellTyped
  <2>6. /\ page' \in [Socket -> {"none", "open", "closed"}]
        /\ at' \in [Socket -> {"off", "loop", "goodbye", "release", "tail", "leaving",
                               "closing", "returned"}]
        /\ mode' \in [Socket -> {"", "incoming", "bbs", "tnc"}]
        /\ held' \in [Socket -> Inbound \cup {None}]
        /\ \A u \in Socket \ {t} : /\ page'[u] = page[u] /\ at'[u] = at[u]
                                   /\ mode'[u] = mode[u] /\ held'[u] = held[u]
    BY <1>0, <2>3 DEF Connecting, PageTyped
  <2> QED
    BY <2>4, <2>5, <2>6 DEF PageTyped, PageAlike
<1>2. CASE ConnectRadio(t)
  BY <1>0, <1>b, <1>2 DEF ConnectRadio, Connecting, callvars, PageTyped, PageAlike
<1>3. CASE \E i \in Inbound : ConnectIncoming(t, i)
  <2>0. PICK i \in Inbound : ConnectIncoming(t, i)
    BY <1>3
  <2>1. copier' = copier \/ copier' = [copier EXCEPT ![t] = Copier(i, hist'.next)]
    BY <2>0 DEF ConnectIncoming, Copies, callvars
  <2>2. \E state \in {"connected", "over"} : Tell(t, state)
    BY <2>0 DEF ConnectIncoming
  <2>3. Connecting(t, "incoming") /\ (held' = held \/ held' = [held EXCEPT ![t] = i])
    BY <2>0 DEF ConnectIncoming, callvars
  <2>4. copier' \in [Socket -> [src : Inbound \cup {"off", "bbs", "done"}, id : Nat]]
        /\ \A u \in Socket \ {t} : copier'[u] = copier[u]
    BY <1>b, <2>1, CopierTyped
  <2>5. told' \in [Socket -> {"none", "connected", "over"}]
        /\ \A u \in Socket \ {t} : told'[u] = told[u]
    BY <2>2, TellTyped
  <2>6. /\ page' \in [Socket -> {"none", "open", "closed"}]
        /\ at' \in [Socket -> {"off", "loop", "goodbye", "release", "tail", "leaving",
                               "closing", "returned"}]
        /\ mode' \in [Socket -> {"", "incoming", "bbs", "tnc"}]
        /\ \A u \in Socket \ {t} : /\ page'[u] = page[u] /\ at'[u] = at[u]
                                   /\ mode'[u] = mode[u]
    BY <1>0, <2>3 DEF Connecting, PageTyped
  <2>7. /\ held' \in [Socket -> Inbound \cup {None}]
        /\ \A u \in Socket \ {t} : held'[u] = held[u]
    <3>1. held \in [Socket -> Inbound \cup {None}]
      BY <1>0 DEF PageTyped
    <3> QED
      BY <2>0, <2>3, <3>1
  <2> QED
    BY <2>4, <2>5, <2>6, <2>7 DEF PageTyped, PageAlike
<1>4. CASE PageCloses(t) \/ AskDisconnect(t) \/ Goodbye(t) \/ Leave(t) \/ Returns(t)
  <2>1. CASE PageCloses(t)
    BY <1>0, <1>b, <2>1 DEF PageCloses, callvars, PageTyped, PageAlike
  <2>2. CASE AskDisconnect(t)
    BY <1>0, <1>b, <2>2 DEF AskDisconnect, callvars, PageTyped, PageAlike
  <2>3. CASE Goodbye(t)
    BY <1>0, <1>b, <2>3 DEF Goodbye, callvars, PageTyped, PageAlike
  <2>4. CASE Leave(t)
    BY <1>0, <1>b, <2>4 DEF Leave, callvars, PageTyped, PageAlike
  <2>5. CASE Returns(t)
    BY <1>0, <1>b, <2>5 DEF Returns, callvars, PageTyped, PageAlike
  <2> QED
    BY <1>4, <2>1, <2>2, <2>3, <2>4, <2>5
<1>5. CASE Data(t)
  BY <1>0, <1>b, <1>5 DEF Data, Tell, callvars, PageTyped, PageAlike
<1>6. CASE Release(t) \/ LeaveRadio(t)
  BY <1>0, <1>b, <1>6 DEF Release, LeaveRadio, callvars, PageTyped, PageAlike
<1>7. CASE Idle(t)
  BY <1>0, <1>b, <1>7 DEF Idle, Tell, callvars, PageTyped, PageAlike
<1>8. CASE CopyEnds(t) \/ CopyHasNoReader(t) \/ TelnetEnds(t)
  <2>1. told' = told \/ Tell(t, "over")
    BY <1>8 DEF CopyEnds, CopyHasNoReader, TelnetEnds
  <2>2. copier' = [copier EXCEPT ![t].src = "done"]
        /\ UNCHANGED <<page, at, mode, held>>
    BY <1>8 DEF CopyEnds, CopyHasNoReader, TelnetEnds
  <2>3. copier' \in [Socket -> [src : Inbound \cup {"off", "bbs", "done"}, id : Nat]]
        /\ \A u \in Socket \ {t} : copier'[u] = copier[u]
    BY <1>0, <2>2 DEF PageTyped
  <2>4. told' \in [Socket -> {"none", "connected", "over"}]
        /\ \A u \in Socket \ {t} : told'[u] = told[u]
    BY <2>1, TellTyped
  <2> QED
    BY <1>0, <2>2, <2>3, <2>4 DEF PageTyped, PageAlike
<1>9. CASE BBSEnds(t)
  BY <1>0, <1>9 DEF BBSEnds, callvars, PageTyped, PageAlike
<1>10. CASE ConnStarts(t) \/ LinkEnds(t) \/ TextDone(t)
  BY <1>0, <1>b, <1>10 DEF ConnStarts, LinkEnds, TextDone, callvars, PageTyped,
     PageAlike
<1>11. CASE ConnEnds(t)
  BY <1>0, <1>b, <1>11 DEF ConnEnds, Tell, callvars, PageTyped, PageAlike
<1>12. CASE Pump(t)
  BY <1>0, <1>b, <1>12 DEF Pump, Tell, callvars, PageTyped, PageAlike
<1> QED
  BY <1>1, <1>2, <1>3, <1>4, <1>5, <1>6, <1>7, <1>8, <1>9, <1>10, <1>11, <1>12
  DEF SocketStep, ConnectStep, HandlerStep, BesideStep

LEMMA RadioStep ==
  ASSUME Typed, InOrder(hist'), NEW t \in Socket, SocketStep(t)
  PROVE  RadioTyped' /\ \A u \in Socket \ {t} : RadioAlike(u)
<1>0. PageTyped /\ RadioTyped /\ BooksTyped
  BY DEF Typed
<1>a. /\ <<"snapshot">> \in Seq(Event)
      /\ Append(events[t], "up") \in Seq(Event) /\ Append(events[t], "down") \in Seq(Event)
  BY <1>0, DownQueued, UpQueued DEF RadioTyped, Event
<1>b. events[t] # <<>> => Tail(events[t]) \in Seq(Event)
  BY <1>0, EventTaken DEF RadioTyped
<1>1. CASE ConnectBBS(t)
  BY <1>0, <1>a, <1>b, <1>1 DEF ConnectBBS, radiovars, RadioTyped, RadioAlike
<1>2. CASE ConnectRadio(t)
  BY <1>0, <1>a, <1>b, <1>2 DEF ConnectRadio, radiovars, RadioTyped, RadioAlike
<1>3. CASE \E i \in Inbound : ConnectIncoming(t, i)
  BY <1>0, <1>a, <1>b, <1>3 DEF ConnectIncoming, radiovars, RadioTyped, RadioAlike
<1>4. CASE PageCloses(t) \/ AskDisconnect(t) \/ Goodbye(t) \/ Leave(t) \/ Returns(t)
  BY <1>0, <1>a, <1>b, <1>4 DEF PageCloses, AskDisconnect, Goodbye, Leave, Returns,
     radiovars, RadioTyped, RadioAlike
<1>5. CASE Data(t)
  BY <1>0, <1>a, <1>b, <1>5 DEF Data, radiovars, RadioTyped, RadioAlike
<1>6. CASE Release(t) \/ LeaveRadio(t)
  <2>1. Disconnected(t) /\ conn' = conn /\ hub' = hub
    BY <1>6 DEF Release, LeaveRadio
  <2>2. \/ radio' = [radio EXCEPT ![t] = "down"] /\ Emitted(t, "down")
        \/ radio' = radio /\ events' = events
    BY <2>1 DEF Disconnected
  <2>3. events' \in [Socket -> Seq(Event)] /\ \A u \in Socket \ {t} : events'[u] = events[u]
    BY <1>0, <1>a, <2>2, ZenonT(60) DEF Emitted, RadioTyped
  <2>4. /\ radio' \in [Socket -> {"none", "down", "awaiting", "connected"}]
        /\ \A u \in Socket \ {t} : radio'[u] = radio[u]
    BY <1>0, <2>2 DEF RadioTyped
  <2> QED
    BY <1>0, <2>1, <2>3, <2>4 DEF RadioTyped, RadioAlike
<1>7. CASE Idle(t)
  BY <1>0, <1>a, <1>b, <1>7 DEF Idle, radiovars, RadioTyped, RadioAlike
<1>8. CASE CopyEnds(t) \/ CopyHasNoReader(t) \/ BBSEnds(t)
  BY <1>0, <1>a, <1>b, <1>8 DEF CopyEnds, CopyHasNoReader, BBSEnds, radiovars,
     RadioTyped, RadioAlike
<1>9. CASE TelnetEnds(t)
  BY <1>0, <1>a, <1>b, <1>9 DEF TelnetEnds, radiovars, RadioTyped, RadioAlike
<1>10. CASE ConnStarts(t) \/ LinkEnds(t) \/ TextDone(t)
  <2>1. CASE ConnStarts(t)
    BY <1>0, <1>b, <2>1 DEF ConnStarts, RadioTyped, RadioAlike
  <2>2. CASE LinkEnds(t)
    BY <1>0, <1>a, <1>b, <2>2 DEF LinkEnds, Emitted, RadioTyped, RadioAlike
  <2>3. CASE TextDone(t)
    BY <1>0, <1>b, <2>3 DEF TextDone, radiovars, RadioTyped, RadioAlike
  <2> QED
    BY <1>10, <2>1, <2>2, <2>3
<1>11. CASE ConnEnds(t)
  <2>1. conn' = [conn EXCEPT ![t] = "done"] /\ hub' = hub
    BY <1>11 DEF ConnEnds
  <2>2. \E s \in {"connected", "down"} : radio' = [radio EXCEPT ![t] = s]
    BY <1>11 DEF ConnEnds
  <2>3. Emitted(t, "up") \/ Emitted(t, "down")
    BY <1>11 DEF ConnEnds
  <2>4. events' \in [Socket -> Seq(Event)] /\ \A u \in Socket \ {t} : events'[u] = events[u]
    <3>1. \/ events' = [events EXCEPT ![t] = events[t]]
          \/ events' = [events EXCEPT ![t] = Append(events[t], "up")]
          \/ events' = [events EXCEPT ![t] = Append(events[t], "down")]
      BY <2>3 DEF Emitted
    <3>2. events \in [Socket -> Seq(Event)] /\ events[t] \in Seq(Event)
      BY <1>0 DEF RadioTyped
    <3>3. \A q \in Seq(Event) : [events EXCEPT ![t] = q] \in [Socket -> Seq(Event)]
                                 /\ \A u \in Socket \ {t} : [events EXCEPT ![t] = q][u] = events[u]
      BY <3>2
    <3> QED
      BY <1>a, <3>1, <3>2, <3>3, ZenonT(60)
  <2> QED
    BY <1>0, <2>1, <2>2, <2>4, ZenonT(60) DEF RadioTyped, RadioAlike
<1>12. CASE Pump(t)
  BY <1>0, <1>a, <1>b, <1>12 DEF Pump, radiovars, RadioTyped, RadioAlike
<1> QED
  BY <1>1, <1>2, <1>3, <1>4, <1>5, <1>6, <1>7, <1>8, <1>9, <1>10, <1>11, <1>12
  DEF SocketStep, ConnectStep, HandlerStep, BesideStep

LEMMA BooksStep ==
  ASSUME Typed, InOrder(hist'), NEW t \in Socket, SocketStep(t)
  PROVE  BooksTyped' /\ \A u \in Socket \ {t} : BooksAlike(u)
<1>0. PageTyped /\ RadioTyped /\ BooksTyped
  BY DEF Typed
<1>a. hist' \in HistoryType /\ hist'.next \in Nat
  BY DEF InOrder, HistoryType
<1>1. CASE ConnectBBS(t)
  BY <1>0, <1>a, <1>1 DEF ConnectBBS, Begin, histvars, BooksTyped, BooksAlike
<1>2. CASE ConnectRadio(t)
  BY <1>0, <1>a, <1>2 DEF ConnectRadio, histvars, BooksTyped, BooksAlike
<1>3. CASE \E i \in Inbound : ConnectIncoming(t, i)
  BY <1>0, <1>a, <1>3 DEF ConnectIncoming, Begin, histvars, BooksTyped, BooksAlike
<1>4. CASE PageCloses(t) \/ AskDisconnect(t) \/ Goodbye(t) \/ Leave(t) \/ Returns(t)
  BY <1>0, <1>a, <1>4 DEF PageCloses, AskDisconnect, Goodbye, Leave, Returns, histvars,
     BooksTyped, BooksAlike
<1>5. CASE Data(t)
  BY <1>0, <1>a, <1>5 DEF Data, histvars, BooksTyped, BooksAlike
<1>6. CASE Release(t) \/ LeaveRadio(t)
  BY <1>0, <1>a, <1>6 DEF Release, LeaveRadio, histvars, BooksTyped, BooksAlike
<1>7. CASE Idle(t)
  BY <1>0, <1>a, <1>7 DEF Idle, histvars, BooksTyped, BooksAlike
<1>8. CASE CopyEnds(t) \/ CopyHasNoReader(t) \/ BBSEnds(t)
  BY <1>0, <1>a, <1>8 DEF CopyEnds, CopyHasNoReader, BBSEnds, histvars, BooksTyped,
     BooksAlike
<1>9. CASE TelnetEnds(t)
  BY <1>0, <1>a, <1>9 DEF TelnetEnds, histvars, BooksTyped, BooksAlike
<1>10. CASE ConnStarts(t) \/ LinkEnds(t) \/ TextDone(t)
  BY <1>0, <1>a, <1>10 DEF ConnStarts, LinkEnds, TextDone, histvars, BooksTyped,
     BooksAlike
<1>11. CASE ConnEnds(t)
  BY <1>0, <1>a, <1>11 DEF ConnEnds, histvars, BooksTyped, BooksAlike
<1>12. CASE Pump(t)
  BY <1>0, <1>a, <1>12 DEF Pump, Begin, histvars, BooksTyped, BooksAlike
<1> QED
  BY <1>1, <1>2, <1>3, <1>4, <1>5, <1>6, <1>7, <1>8, <1>9, <1>10, <1>11, <1>12
  DEF SocketStep, ConnectStep, HandlerStep, BesideStep

LEMMA SocketTyped ==
  ASSUME Typed, InOrder(hist'), NEW t \in Socket, SocketStep(t)
  PROVE  /\ PageTyped' /\ RadioTyped' /\ BooksTyped'
         /\ \A u \in Socket \ {t} : Alike(u)
  BY PageStep, RadioStep, BooksStep DEF Alike

\* The steps of the calls and of the page of the history.
LEMMA NoSocketStep ==
  ASSUME CallStep \/ DeleteHistory \/ UNCHANGED vars
  PROVE  /\ \A t \in Socket : Alike(t)
         /\ UNCHANGED <<page, told, at, mode, callvars, radiovars, noted, hconn>>
         /\ DeleteHistory \/ hist' = hist
  BY DEF CallStep, Arrives, Expires, Serves, FarEnds, DeleteHistory, vars, callvars,
     radiovars, histvars, Alike, PageAlike, RadioAlike, BooksAlike

LEMMA NextTyped ==
  ASSUME Typed, Booked, [Next]_vars
  PROVE  Typed' /\ Booked'
<1>1. Booked' /\ InOrder(hist')
  BY HistoryStep, StoredInOrder DEF Booked
<1>2. hist' \in HistoryType
  BY <1>1 DEF InOrder
<1>3. CASE \E t \in Socket : SocketStep(t)
  BY <1>1, <1>3, CallTyped, SocketTyped DEF Typed
<1>4. CASE CallStep \/ DeleteHistory \/ UNCHANGED vars
  <2>1. UNCHANGED <<page, told, at, mode, callvars, radiovars, noted, hconn>>
    BY <1>4, NoSocketStep
  <2>2. PageTyped' /\ RadioTyped' /\ BooksTyped'
    BY <1>2, <2>1 DEF Typed, PageTyped, RadioTyped, BooksTyped, callvars, radiovars
  <2> QED
    BY <1>1, <2>2, CallTyped DEF Typed
<1> QED
  BY <1>3, <1>4, NextIs

-----------------------------------------------------------------------------
(* Who holds a call *)

\* How a socket other than the one that claims it may change a call.
LEMMA OnlyClosed ==
  ASSUME Typed, NEW t \in Socket, SocketStep(t),
         ~(\E i \in Inbound : ConnectIncoming(t, i))
  PROVE  /\ \A j \in Inbound : /\ call'[j].at = call[j].at
                               /\ call'[j].claimed = call[j].claimed
                               /\ call'[j].listed = call[j].listed
                               /\ call[j].closed => call'[j].closed
         /\ held'[t] \in {held[t], None}
<1>0. call \in [Inbound -> Call] /\ held \in [Socket -> Inbound \cup {None}]
  BY DEF Typed, PageTyped
<1>1. call' = call \/ \E i \in Inbound : call' = Closed(i)
  <2>1. CASE ConnectStep(t)
    BY <2>1 DEF ConnectStep, ConnectBBS, ConnectRadio
  <2>2. CASE HandlerStep(t)
    BY <1>0, <2>2 DEF HandlerStep, PageCloses, Data, AskDisconnect, Goodbye, Release,
       Idle, Leave, LeaveRadio, Returns
  <2>3. CASE BesideStep(t)
    BY <2>3 DEF BesideStep, CopyEnds, CopyHasNoReader, BBSEnds, TelnetEnds,
       ConnStarts, ConnEnds, LinkEnds, TextDone, Pump
  <2> QED
    BY <2>1, <2>2, <2>3 DEF SocketStep
<1>2. held' = held \/ held' = [held EXCEPT ![t] = None]
  <2>1. CASE ConnectStep(t)
    BY <2>1 DEF ConnectStep, ConnectBBS, ConnectRadio, callvars
  <2>2. CASE HandlerStep(t)
    BY <2>2 DEF HandlerStep, PageCloses, Data, AskDisconnect, Goodbye, Release,
       Idle, Leave, LeaveRadio, Returns, callvars
  <2>3. CASE BesideStep(t)
    BY <2>3 DEF BesideStep, CopyEnds, CopyHasNoReader, BBSEnds, TelnetEnds,
       ConnStarts, ConnEnds, LinkEnds, TextDone, Pump, callvars
  <2> QED
    BY <2>1, <2>2, <2>3 DEF SocketStep
<1>3. \A i \in Inbound : call' = Closed(i) =>
          \A j \in Inbound : /\ call'[j].at = call[j].at
                             /\ call'[j].claimed = call[j].claimed
                             /\ call'[j].listed = call[j].listed
                             /\ call[j].closed => call'[j].closed
  BY <1>0 DEF Closed, Call
<1> QED
  BY <1>0, <1>1, <1>2, <1>3

LEMMA ClaimsStep ==
  ASSUME Typed, InOrder(hist'), Claims, [Next]_vars
  PROVE  Claims'
<1>0. call \in [Inbound -> Call] /\ held \in [Socket -> Inbound \cup {None}]
  BY DEF Typed, PageTyped
<1>1. CASE CallStep
  <2>1. PICK i \in Inbound : Arrives(i) \/ Expires(i) \/ Serves(i) \/ FarEnds(i)
    BY <1>1 DEF CallStep
  <2>2. held' = held
    BY <2>1 DEF Arrives, Expires, Serves, FarEnds, callvars
  <2>3. \A j \in Inbound \ {i} : call'[j] = call[j]
    BY <1>0, <2>1 DEF Arrives, Expires, Serves, FarEnds
  <2>4. /\ call'[i].claimed = call[i].claimed
        /\ call'[i].at = "idle" => call[i].at = "idle"
        /\ call'[i].listed => call[i].listed \/ call[i].at = "idle"
    <3> DEFINE Moved(c) == call' = [call EXCEPT ![i] = c]
               old == call[i]
    <3>0. old \in Call
      BY <1>0
    <3>1. \/ old.at = "idle" /\ Moved([old EXCEPT !.at = "ringing", !.listed = TRUE,
                                                 !.far = TRUE])
          \/ Moved([old EXCEPT !.at = "leaving", !.closed = TRUE])
          \/ Moved([old EXCEPT !.at = "talking"])
          \/ Moved([old EXCEPT !.at = "leaving"])
          \/ Moved([old EXCEPT !.at = "over", !.listed = FALSE])
          \/ Moved([old EXCEPT !.far = FALSE])
      BY <1>0, <2>1 DEF Arrives, Expires, Serves, FarEnds
    <3>2. \A c : Moved(c) => call'[i] = c
      BY <1>0
    <3> HIDE DEF Moved, old
    <3>3. \/ old.at = "idle" /\ call'[i] = [old EXCEPT !.at = "ringing", !.listed = TRUE,
                                                      !.far = TRUE]
          \/ call'[i] = [old EXCEPT !.at = "leaving", !.closed = TRUE]
          \/ call'[i] = [old EXCEPT !.at = "talking"]
          \/ call'[i] = [old EXCEPT !.at = "leaving"]
          \/ call'[i] = [old EXCEPT !.at = "over", !.listed = FALSE]
          \/ call'[i] = [old EXCEPT !.far = FALSE]
      BY <3>1, <3>2
    <3>4. /\ call'[i].claimed = old.claimed
          /\ call'[i].at = "idle" => old.at = "idle"
          /\ call'[i].listed => old.listed \/ old.at = "idle"
      BY <3>0, <3>3 DEF Call
    <3> QED
      BY <3>4 DEF old
  <2> QED
    BY <1>0, <2>2, <2>3, <2>4 DEF Claims
<1>2. ASSUME NEW t \in Socket, NEW i \in Inbound, ConnectIncoming(t, i) PROVE Claims'
  <2>1. CASE ~call[i].listed
    BY <1>2, <2>1 DEF ConnectIncoming, Claims, callvars
  <2>2. CASE call[i].listed
    <3>1. call' = Claimed(i) /\ held' = [held EXCEPT ![t] = i] /\ call[i].at # "idle"
      BY <1>2, <2>2 DEF ConnectIncoming
    <3>2. \A u \in Socket : held[u] # i
      BY <1>0, <2>2 DEF Claims
    <3>3. \A j \in Inbound \ {i} : call'[j] = call[j]
      BY <1>0, <3>1 DEF Claimed
    <3>4. call'[i].at = call[i].at /\ call'[i].claimed /\ ~call'[i].listed
      BY <1>0, <3>1 DEF Claimed, Call
    <3>5. held'[t] = i /\ \A u \in Socket \ {t} : held'[u] = held[u]
      BY <1>0, <3>1
    <3> QED
      BY <1>0, <3>1, <3>2, <3>3, <3>4, <3>5 DEF Claims
  <2> QED
    BY <2>1, <2>2
<1>3. ASSUME NEW t \in Socket, SocketStep(t), ~(\E i \in Inbound : ConnectIncoming(t, i))
      PROVE  Claims'
  <2>1. \A u \in Socket : held'[u] = held[u] \/ held'[u] = None
    BY <1>3, OnlyClosed, SocketTyped DEF Alike, PageAlike
  <2> QED
    BY <1>0, <1>3, <2>1, OnlyClosed DEF Claims
<1>4. CASE DeleteHistory \/ UNCHANGED vars
  BY <1>4 DEF DeleteHistory, vars, callvars, Claims
<1> QED
  BY <1>1, <1>2, <1>3, <1>4, NextIs

-----------------------------------------------------------------------------
(* The order of things on one socket *)

\* What the events are after one is queued or taken.
LEMMA EventsOf ==
  ASSUME Typed, NEW t \in Socket
  PROVE  /\ HasDown(Append(events[t], "down")) /\ Covered(Append(events[t], "down"))
         /\ HasDown(events[t]) => HasDown(Append(events[t], "up"))
         /\ events[t] # <<>> =>
              /\ Head(events[t]) \in Event
              /\ Head(events[t]) # "down" /\ HasDown(events[t]) => HasDown(Tail(events[t]))
              /\ Covered(events[t]) => /\ Covered(Tail(events[t]))
                                       /\ Head(events[t]) = "up" => HasDown(Tail(events[t]))
<1>1. events[t] \in Seq(Event)
  BY DEF Typed, RadioTyped
<1> QED
  BY <1>1, DownQueued, UpQueued, EventTaken DEF Event

LEMMA OrderOfSocket ==
  ASSUME Typed, Order, NEW t \in Socket, SocketStep(t)
  PROVE  Starting(t)' /\ RadioSound(t)' /\ ToldSound(t)'
<1>0. PageTyped /\ RadioTyped /\ BooksTyped
  BY DEF Typed
<1>a. Starting(t) /\ RadioSound(t) /\ ToldSound(t)
  BY DEF Order
<1>b. /\ HasDown(Append(events[t], "down")) /\ Covered(Append(events[t], "down"))
      /\ HasDown(events[t]) => HasDown(Append(events[t], "up"))
      /\ events[t] # <<>> =>
           /\ Head(events[t]) \in Event
           /\ Head(events[t]) # "down" /\ HasDown(events[t]) => HasDown(Tail(events[t]))
           /\ Covered(events[t]) => /\ Covered(Tail(events[t]))
                                    /\ Head(events[t]) = "up" => HasDown(Tail(events[t]))
  BY EventsOf
<1>1. CASE ConnectBBS(t)
  <2>1. Starting(t)'
    BY <1>0, <1>a, <1>1
    DEF ConnectBBS, Connecting, Begin, Copies, Tell, Copier, callvars, radiovars,
        histvars, PageTyped, RadioTyped, BooksTyped, Starting, RadioSound
  <2>2. RadioSound(t)'
    BY <1>0, <1>a, <1>b, <1>1, NoEvents
    DEF ConnectBBS, Connecting, Begin, Copies, Tell, Copier, radiovars, PageTyped,
        RadioTyped, RadioSound, Starting, Turn
  <2>3. ToldSound(t)'
    BY <1>0, <1>a, <1>b, <1>1, NoEvents
    DEF ConnectBBS, Connecting, Begin, Copies, Tell, Copier, radiovars, callvars,
        PageTyped, RadioTyped, RadioSound, Starting, ToldSound
  <2> QED
    BY <2>1, <2>2, <2>3
<1>2. CASE ConnectRadio(t)
  <2>1. Starting(t)'
    BY <1>0, <1>a, <1>2
    DEF ConnectRadio, Connecting, callvars, radiovars, histvars, PageTyped, RadioTyped,
        BooksTyped, Starting, RadioSound
  <2>2. RadioSound(t)'
    BY <1>0, <1>a, <1>b, <1>2, NoEvents
    DEF ConnectRadio, Connecting, radiovars, PageTyped, RadioTyped, RadioSound,
        Starting, Turn
  <2>3. ToldSound(t)'
    BY <1>0, <1>a, <1>b, <1>2, NoEvents
    DEF ConnectRadio, Connecting, radiovars, callvars, PageTyped, RadioTyped,
        RadioSound, Starting, ToldSound
  <2> QED
    BY <2>1, <2>2, <2>3
<1>3. CASE \E i \in Inbound : ConnectIncoming(t, i)
  <2>1. Starting(t)'
    BY <1>0, <1>a, <1>3, ZenonT(60)
    DEF ConnectIncoming, Connecting, Begin, Copies, Tell, Copier, callvars, radiovars,
        histvars, PageTyped, RadioTyped, BooksTyped, Starting, RadioSound
  <2>2. RadioSound(t)'
    BY <1>0, <1>a, <1>b, <1>3, NoEvents, ZenonT(60)
    DEF ConnectIncoming, Connecting, Begin, Copies, Tell, Copier, radiovars, PageTyped,
        RadioTyped, RadioSound, Starting, Turn
  <2>3. ToldSound(t)'
    <3>1. PICK i \in Inbound : ConnectIncoming(t, i)
      BY <1>3
    <3>2. page[t] = "none" /\ mode'[t] = "incoming" /\ UNCHANGED <<conn, events, radio>>
      BY <1>0, <3>1 DEF ConnectIncoming, Connecting, radiovars, PageTyped
    <3>3. \/ held' = held
          \/ copier' = [copier EXCEPT ![t] = Copier(i, hist'.next)]
      BY <3>1 DEF ConnectIncoming, Copies, callvars
    <3>4. held'[t] # None => copier'[t].src = i \/ held[t] # None
      <4>1. copier \in [Socket -> [src : Inbound \cup {"off", "bbs", "done"}, id : Nat]]
        BY <1>0 DEF PageTyped
      <4> QED
        BY <3>3, <4>1 DEF Copier
    <3> QED
      BY <1>a, <3>1, <3>2, <3>4 DEF Starting, ToldSound
  <2> QED
    BY <2>1, <2>2, <2>3
<1>4. CASE PageCloses(t)
  <2>1. Starting(t)'
    BY <1>0, <1>a, <1>4
    DEF PageCloses, callvars, radiovars, histvars, PageTyped, RadioTyped, BooksTyped,
        Starting, RadioSound
  <2>2. RadioSound(t)'
    BY <1>0, <1>a, <1>b, <1>4, NoEvents
    DEF PageCloses, radiovars, PageTyped, RadioTyped, RadioSound, Starting, Turn
  <2>3. ToldSound(t)'
    BY <1>0, <1>a, <1>b, <1>4, NoEvents
    DEF PageCloses, radiovars, callvars, PageTyped, RadioTyped, RadioSound, Starting,
        ToldSound
  <2> QED
    BY <2>1, <2>2, <2>3
<1>5. CASE AskDisconnect(t)
  <2>1. Starting(t)'
    BY <1>0, <1>a, <1>5
    DEF AskDisconnect, callvars, radiovars, histvars, PageTyped, RadioTyped, BooksTyped,
        Starting, RadioSound
  <2>2. RadioSound(t)'
    BY <1>0, <1>a, <1>b, <1>5, NoEvents
    DEF AskDisconnect, radiovars, PageTyped, RadioTyped, RadioSound, Starting, Turn
  <2>3. ToldSound(t)'
    BY <1>0, <1>a, <1>b, <1>5, NoEvents
    DEF AskDisconnect, radiovars, callvars, PageTyped, RadioTyped, RadioSound, Starting,
        ToldSound
  <2> QED
    BY <2>1, <2>2, <2>3
<1>6. CASE Goodbye(t)
  <2>1. Starting(t)'
    BY <1>0, <1>a, <1>6
    DEF Goodbye, callvars, radiovars, histvars, PageTyped, RadioTyped, BooksTyped,
        Starting, RadioSound
  <2>2. RadioSound(t)'
    BY <1>0, <1>a, <1>b, <1>6, NoEvents
    DEF Goodbye, radiovars, PageTyped, RadioTyped, RadioSound, Starting, Turn
  <2>3. ToldSound(t)'
    BY <1>0, <1>a, <1>b, <1>6, NoEvents
    DEF Goodbye, radiovars, callvars, PageTyped, RadioTyped, RadioSound, Starting,
        ToldSound
  <2> QED
    BY <2>1, <2>2, <2>3
<1>7. CASE Leave(t)
  <2>1. Starting(t)'
    BY <1>0, <1>a, <1>7
    DEF Leave, callvars, radiovars, histvars, PageTyped, RadioTyped, BooksTyped,
        Starting, RadioSound
  <2>2. RadioSound(t)'
    BY <1>0, <1>a, <1>b, <1>7, NoEvents
    DEF Leave, radiovars, PageTyped, RadioTyped, RadioSound, Starting, Turn
  <2>3. ToldSound(t)'
    BY <1>0, <1>a, <1>b, <1>7, NoEvents
    DEF Leave, radiovars, callvars, PageTyped, RadioTyped, RadioSound, Starting,
        ToldSound
  <2> QED
    BY <2>1, <2>2, <2>3
<1>8. CASE Returns(t)
  <2>1. Starting(t)'
    BY <1>0, <1>a, <1>8
    DEF Returns, callvars, radiovars, histvars, PageTyped, RadioTyped, BooksTyped,
        Starting, RadioSound
  <2>2. RadioSound(t)'
    BY <1>0, <1>a, <1>b, <1>8, NoEvents
    DEF Returns, radiovars, PageTyped, RadioTyped, RadioSound, Starting, Turn
  <2>3. ToldSound(t)'
    BY <1>0, <1>a, <1>b, <1>8, NoEvents
    DEF Returns, radiovars, callvars, PageTyped, RadioTyped, RadioSound, Starting,
        ToldSound
  <2> QED
    BY <2>1, <2>2, <2>3
<1>9. CASE Data(t)
  <2>1. Starting(t)'
    BY <1>0, <1>a, <1>9
    DEF Data, Tell, callvars, radiovars, histvars, PageTyped, RadioTyped, BooksTyped,
        Starting, RadioSound
  <2>2. RadioSound(t)'
    BY <1>0, <1>a, <1>b, <1>9, NoEvents
    DEF Data, Tell, radiovars, PageTyped, RadioTyped, RadioSound, Starting, Turn
  <2>3. ToldSound(t)'
    BY <1>0, <1>a, <1>b, <1>9, NoEvents
    DEF Data, Tell, radiovars, callvars, PageTyped, RadioTyped, RadioSound, Starting,
        ToldSound
  <2> QED
    BY <2>1, <2>2, <2>3
<1>10. CASE Release(t)
  <2>1. Starting(t)'
    BY <1>0, <1>a, <1>10
    DEF Release, Disconnected, Emitted, callvars, radiovars, histvars, PageTyped,
        RadioTyped, BooksTyped, Starting, RadioSound
  <2>2. RadioSound(t)'
    BY <1>0, <1>a, <1>b, <1>10, NoEvents
    DEF Release, Disconnected, Emitted, radiovars, PageTyped, RadioTyped, RadioSound,
        Starting, Turn
  <2>3. ToldSound(t)'
    BY <1>0, <1>a, <1>b, <1>10, NoEvents
    DEF Release, Disconnected, Emitted, radiovars, callvars, PageTyped, RadioTyped,
        RadioSound, Starting, ToldSound
  <2> QED
    BY <2>1, <2>2, <2>3
<1>11. CASE LeaveRadio(t)
  <2>1. Starting(t)'
    BY <1>0, <1>a, <1>11
    DEF LeaveRadio, Disconnected, Emitted, callvars, radiovars, histvars, PageTyped,
        RadioTyped, BooksTyped, Starting, RadioSound
  <2>2. RadioSound(t)'
    BY <1>0, <1>a, <1>b, <1>11, NoEvents, ZenonT(60)
    DEF LeaveRadio, Disconnected, Emitted, radiovars, PageTyped, RadioTyped, RadioSound,
        Starting, Turn
  <2>3. ToldSound(t)'
    BY <1>0, <1>a, <1>b, <1>11, NoEvents
    DEF LeaveRadio, Disconnected, Emitted, radiovars, callvars, PageTyped, RadioTyped,
        RadioSound, Starting, ToldSound
  <2> QED
    BY <2>1, <2>2, <2>3
<1>12. CASE Idle(t)
  <2>1. Starting(t)'
    BY <1>0, <1>a, <1>12
    DEF Idle, Tell, callvars, radiovars, histvars, PageTyped, RadioTyped, BooksTyped,
        Starting, RadioSound
  <2>2. RadioSound(t)'
    BY <1>0, <1>a, <1>b, <1>12, NoEvents
    DEF Idle, Tell, radiovars, PageTyped, RadioTyped, RadioSound, Starting, Turn
  <2>3. ToldSound(t)'
    BY <1>0, <1>a, <1>b, <1>12, NoEvents
    DEF Idle, Tell, radiovars, callvars, PageTyped, RadioTyped, RadioSound, Starting,
        ToldSound
  <2> QED
    BY <2>1, <2>2, <2>3
<1>13. CASE CopyEnds(t)
  <2>1. Starting(t)'
    BY <1>0, <1>a, <1>13
    DEF CopyEnds, Tell, callvars, radiovars, histvars, PageTyped, RadioTyped,
        BooksTyped, Starting, RadioSound
  <2>2. RadioSound(t)'
    BY <1>0, <1>a, <1>b, <1>13, NoEvents
    DEF CopyEnds, Tell, radiovars, PageTyped, RadioTyped, RadioSound, Starting, Turn
  <2>3. ToldSound(t)'
    BY <1>0, <1>a, <1>b, <1>13, NoEvents
    DEF CopyEnds, Tell, radiovars, callvars, PageTyped, RadioTyped, RadioSound,
        Starting, ToldSound
  <2> QED
    BY <2>1, <2>2, <2>3
<1>14. CASE CopyHasNoReader(t)
  <2>1. Starting(t)'
    BY <1>0, <1>a, <1>14
    DEF CopyHasNoReader, callvars, radiovars, histvars, PageTyped, RadioTyped,
        BooksTyped, Starting, RadioSound
  <2>2. RadioSound(t)'
    BY <1>0, <1>a, <1>b, <1>14, NoEvents
    DEF CopyHasNoReader, radiovars, PageTyped, RadioTyped, RadioSound, Starting, Turn
  <2>3. ToldSound(t)'
    BY <1>0, <1>a, <1>b, <1>14, NoEvents
    DEF CopyHasNoReader, radiovars, callvars, PageTyped, RadioTyped, RadioSound,
        Starting, ToldSound
  <2> QED
    BY <2>1, <2>2, <2>3
<1>15. CASE BBSEnds(t)
  <2>1. Starting(t)'
    BY <1>0, <1>a, <1>15
    DEF BBSEnds, callvars, radiovars, histvars, PageTyped, RadioTyped, BooksTyped,
        Starting, RadioSound
  <2>2. RadioSound(t)'
    BY <1>0, <1>a, <1>b, <1>15, NoEvents
    DEF BBSEnds, radiovars, PageTyped, RadioTyped, RadioSound, Starting, Turn
  <2>3. ToldSound(t)'
    BY <1>0, <1>a, <1>b, <1>15, NoEvents
    DEF BBSEnds, radiovars, callvars, PageTyped, RadioTyped, RadioSound, Starting,
        ToldSound
  <2> QED
    BY <2>1, <2>2, <2>3
<1>16. CASE TelnetEnds(t)
  <2>1. Starting(t)'
    BY <1>0, <1>a, <1>16
    DEF TelnetEnds, Tell, callvars, radiovars, histvars, PageTyped, RadioTyped,
        BooksTyped, Starting, RadioSound
  <2>2. RadioSound(t)'
    BY <1>0, <1>a, <1>b, <1>16, NoEvents
    DEF TelnetEnds, Tell, radiovars, PageTyped, RadioTyped, RadioSound, Starting, Turn
  <2>3. ToldSound(t)'
    BY <1>0, <1>a, <1>b, <1>16, NoEvents
    DEF TelnetEnds, Tell, radiovars, callvars, PageTyped, RadioTyped, RadioSound,
        Starting, ToldSound
  <2> QED
    BY <2>1, <2>2, <2>3
<1>17. CASE ConnStarts(t)
  <2>1. Starting(t)'
    BY <1>0, <1>a, <1>17
    DEF ConnStarts, callvars, radiovars, histvars, PageTyped, RadioTyped, BooksTyped,
        Starting, RadioSound
  <2>2. RadioSound(t)'
    BY <1>0, <1>a, <1>b, <1>17, NoEvents, ZenonT(60)
    DEF ConnStarts, radiovars, PageTyped, RadioTyped, RadioSound, Starting, Turn
  <2>3. ToldSound(t)'
    BY <1>0, <1>a, <1>b, <1>17, NoEvents
    DEF ConnStarts, radiovars, callvars, PageTyped, RadioTyped, RadioSound, Starting,
        ToldSound
  <2> QED
    BY <2>1, <2>2, <2>3
<1>18. CASE LinkEnds(t)
  <2>1. Starting(t)'
    BY <1>0, <1>a, <1>18
    DEF LinkEnds, Emitted, callvars, radiovars, histvars, PageTyped, RadioTyped,
        BooksTyped, Starting, RadioSound
  <2>2. RadioSound(t)'
    BY <1>0, <1>a, <1>b, <1>18, NoEvents
    DEF LinkEnds, Emitted, radiovars, PageTyped, RadioTyped, RadioSound, Starting, Turn
  <2>3. ToldSound(t)'
    BY <1>0, <1>a, <1>b, <1>18, NoEvents
    DEF LinkEnds, Emitted, radiovars, callvars, PageTyped, RadioTyped, RadioSound,
        Starting, ToldSound
  <2> QED
    BY <2>1, <2>2, <2>3
<1>19. CASE TextDone(t)
  <2>1. Starting(t)'
    BY <1>0, <1>a, <1>19
    DEF TextDone, callvars, radiovars, histvars, PageTyped, RadioTyped, BooksTyped,
        Starting, RadioSound
  <2>2. RadioSound(t)'
    BY <1>0, <1>a, <1>b, <1>19, NoEvents
    DEF TextDone, radiovars, PageTyped, RadioTyped, RadioSound, Starting, Turn
  <2>3. ToldSound(t)'
    BY <1>0, <1>a, <1>b, <1>19, NoEvents
    DEF TextDone, radiovars, callvars, PageTyped, RadioTyped, RadioSound, Starting,
        ToldSound
  <2> QED
    BY <2>1, <2>2, <2>3
<1>20. CASE ConnEnds(t)
  <2>1. Starting(t)'
    BY <1>0, <1>a, <1>20
    DEF ConnEnds, Emitted, Tell, callvars, radiovars, histvars, PageTyped, RadioTyped,
        BooksTyped, Starting, RadioSound
  <2>2. RadioSound(t)'
    <3>1. conn' = [conn EXCEPT ![t] = "done"] /\ UNCHANGED <<page, at, hub>>
          /\ conn[t] = "running"
      BY <1>20 DEF ConnEnds
    <3>2. CASE hub[t] /\ radio' = [radio EXCEPT ![t] = "connected"]
      BY <1>0, <1>a, <3>1, <3>2 DEF PageTyped, RadioTyped, RadioSound
    <3>3. CASE radio' = [radio EXCEPT ![t] = "down"] /\ Emitted(t, "down")
      BY <1>0, <1>a, <3>1, <1>b, <3>3 DEF Emitted, PageTyped, RadioTyped, RadioSound
    <3> QED
      BY <1>20, <3>2, <3>3 DEF ConnEnds
  <2>3. ToldSound(t)'
    BY <1>0, <1>a, <1>b, <1>20, NoEvents
    DEF ConnEnds, Emitted, Tell, radiovars, callvars, PageTyped, RadioTyped, RadioSound,
        Starting, ToldSound
  <2> QED
    BY <2>1, <2>2, <2>3
<1>21. CASE Pump(t)
  <2>1. Starting(t)'
    BY <1>0, <1>a, <1>21
    DEF Pump, Begin, Tell, callvars, radiovars, histvars, PageTyped, RadioTyped,
        BooksTyped, Starting, RadioSound
  <2>2. RadioSound(t)'
    BY <1>0, <1>a, <1>b, <1>21, NoEvents
    DEF Pump, Begin, Tell, radiovars, PageTyped, RadioTyped, RadioSound, Starting, Turn
  <2>3. ToldSound(t)'
    BY <1>0, <1>a, <1>b, <1>21, NoEvents
    DEF Pump, Begin, Tell, radiovars, callvars, PageTyped, RadioTyped, RadioSound,
        Starting, ToldSound
  <2> QED
    BY <2>1, <2>2, <2>3
<1> QED
  BY <1>1, <1>2, <1>3, <1>4, <1>5, <1>6, <1>7, <1>8, <1>9, <1>10, <1>11, <1>12, <1>13,
     <1>14, <1>15, <1>16, <1>17, <1>18, <1>19, <1>20, <1>21
  DEF SocketStep, ConnectStep, HandlerStep, BesideStep

LEMMA OrderStep ==
  ASSUME Typed, InOrder(hist'), Order, [Next]_vars
  PROVE  Order'
<1>1. ASSUME NEW u \in Socket, Alike(u)
      PROVE  Starting(u)' /\ RadioSound(u)' /\ ToldSound(u)'
  BY <1>1 DEF Order, Alike, PageAlike, RadioAlike, BooksAlike, Starting, RadioSound,
              ToldSound
<1>2. CASE \E t \in Socket : SocketStep(t)
  BY <1>1, <1>2, OrderOfSocket, SocketTyped DEF Order
<1>3. CASE CallStep \/ DeleteHistory \/ UNCHANGED vars
  BY <1>1, <1>3, NoSocketStep DEF Order
<1> QED
  BY <1>2, <1>3, NextIs

-----------------------------------------------------------------------------
(* Who will end a session *)

\* What each operation of the store does to the sessions that go on.
LEMMA Parts ==
  ASSUME NEW h \in HistoryType
  PROVE  /\ \A k : Added(h, k).active = h.active /\ Added(h, k).next = h.next
         /\ \A k : /\ Begun(h, k).active = h.active \cup {<<h.next + 1, k>>}
                   /\ Begun(h, k).next = h.next + 1
         /\ \A id : /\ Ended(h, id).active = {s \in h.active : s[1] # id}
                    /\ Ended(h, id).next = h.next
         /\ \A k : Deleted(h, k).active \subseteq h.active /\ Deleted(h, k).next = h.next
         /\ Cleared(h).active = {} /\ Cleared(h).next = h.next
  BY DEF HistoryType, Added, Begun, Ended, Deleted, Cleared, EmptyHistory

\* A session is new or was there before, and a number is given once.
LEMMA NewNumbers ==
  ASSUME NEW h \in HistoryType, NEW g, Stored(h, g)
  PROVE  /\ h.next <= g.next
         /\ \A s \in g.active : s \in h.active \/ s[1] = h.next + 1
<1>1. h.next \in Nat
  BY DEF HistoryType
<1> QED
  BY <1>1, Parts DEF Stored

\* What a step of socket t has to leave for its sessions.
Handed(t) ==
    /\ \A s \in hist'.active :
          WillEnd(t, s[1])' \/ (s \in hist.active /\ ~WillEnd(t, s[1]))
    /\ noted'[t] <= hist'.next
    /\ ~hconn'[t] => \A s \in hist'.active : s[1] # noted'[t]

\* Steps that begin and end no session.
LEMMA SameSessions ==
  ASSUME Typed, Owned, NEW t \in Socket,
         hist'.active = hist.active, hist'.next = hist.next,
         noted' = noted, hconn' = hconn, copier' = copier,
         HandlerEnds(t) => HandlerEnds(t)'
  PROVE  Handed(t)
  BY DEF Owned, Handed, WillEnd

\* The copier ends what it was started for.
LEMMA CopierStops ==
  ASSUME Typed, Owned, NEW t \in Socket,
         hist'.active = {s \in hist.active : s[1] # copier[t].id}, hist'.next = hist.next,
         copier' = [copier EXCEPT ![t].src = "done"],
         noted' = noted, hconn' = hconn, HandlerEnds(t) => HandlerEnds(t)'
  PROVE  Handed(t)
<1>0. copier \in [Socket -> [src : Inbound \cup {"off", "bbs", "done"}, id : Nat]]
  BY DEF Typed, PageTyped
<1>1. copier'[t].id = copier[t].id
  BY <1>0
<1> QED
  BY <1>1 DEF Owned, Handed, WillEnd

LEMMA QuietSteps ==
  ASSUME Typed, Order, Owned, NEW t \in Socket,
         \/ PageCloses(t) \/ Data(t) \/ AskDisconnect(t) \/ Goodbye(t) \/ Release(t)
         \/ LeaveRadio(t) \/ Returns(t) \/ BBSEnds(t) \/ ConnStarts(t) \/ ConnEnds(t)
         \/ LinkEnds(t) \/ TextDone(t)
  PROVE  Handed(t)
<1>0. PageTyped /\ RadioTyped /\ hist \in HistoryType
  BY DEF Typed, BooksTyped
<1>1. hist' = hist \/ \E k \in {"incoming", "bbs", "station"} : hist' = Added(hist, k)
  BY DEF PageCloses, Data, AskDisconnect, Goodbye, Release, LeaveRadio, Returns, BBSEnds,
         ConnStarts, ConnEnds, LinkEnds, TextDone, histvars
<1>2. hist'.active = hist.active /\ hist'.next = hist.next
  BY <1>0, <1>1, Parts
<1>3. noted' = noted /\ hconn' = hconn /\ copier' = copier
  BY DEF PageCloses, Data, AskDisconnect, Goodbye, Release, LeaveRadio, Returns, BBSEnds,
         ConnStarts, ConnEnds, LinkEnds, TextDone, histvars, callvars
<1>4. RadioSound(t)
  BY DEF Order
<1>5. HandlerEnds(t) => HandlerEnds(t)'
  <2> USE <1>3 DEF HandlerEnds
  <2>1. CASE PageCloses(t) \/ Data(t) \/ BBSEnds(t) \/ TextDone(t)
    BY <2>1 DEF PageCloses, Data, BBSEnds, TextDone, radiovars
  <2>2. CASE AskDisconnect(t) \/ Goodbye(t) \/ Returns(t)
    BY <1>0, <2>2 DEF AskDisconnect, Goodbye, Returns, radiovars, PageTyped
  <2>3. CASE Release(t)
    BY <1>0, <2>3 DEF Release, PageTyped
  <2>4. CASE LeaveRadio(t)
    <3>1. at[t] = "leaving" /\ at'[t] = "closing"
      BY <1>0, <2>4 DEF LeaveRadio, PageTyped
    <3>2. radio[t] = "connected" => HasDown(events'[t])
      <4>1. radio[t] = "connected" => Emitted(t, "down")
        BY <2>4 DEF LeaveRadio, Disconnected
      <4>2. radio[t] = "connected" => events'[t] = Append(events[t], "down")
        BY <1>0, <3>1, <4>1 DEF Emitted, RadioTyped
      <4>3. HasDown(Append(events[t], "down"))
        BY EventsOf
      <4> QED
        BY <4>2, <4>3
    <3>3. radio[t] # "connected" => events' = events
      BY <2>4 DEF LeaveRadio, Disconnected
    <3> QED
      BY <3>1, <3>2, <3>3
  <2>5. CASE ConnStarts(t)
    BY <1>0, <1>4, <2>5 DEF ConnStarts, RadioSound, RadioTyped
  <2>6. CASE ConnEnds(t)
    <3>1. radio[t] # "connected" /\ at' = at
      BY <1>4, <2>6 DEF ConnEnds, RadioSound
    <3>2. Emitted(t, "up") \/ Emitted(t, "down")
      BY <2>6 DEF ConnEnds
    <3>3. HasDown(events[t]) => HasDown(events'[t])
      <4>1. \/ events'[t] = events[t]
            \/ events'[t] = Append(events[t], "up")
            \/ events'[t] = Append(events[t], "down")
        BY <1>0, <3>2 DEF Emitted, RadioTyped
      <4>2. /\ HasDown(Append(events[t], "down"))
            /\ HasDown(events[t]) => HasDown(Append(events[t], "up"))
        BY EventsOf
      <4> QED
        BY <4>1, <4>2
    <3> QED
      BY <3>1, <3>3
  <2>7. CASE LinkEnds(t)
    BY <1>0, <1>4, <2>7, EventsOf DEF LinkEnds, Emitted, RadioTyped, RadioSound
  <2> QED
    BY <2>1, <2>2, <2>3, <2>4, <2>5, <2>6, <2>7
<1> QED
  BY <1>2, <1>3, <1>5, SameSessions

LEMMA CopierSteps ==
  ASSUME Typed, Owned, NEW t \in Socket,
         CopyEnds(t) \/ CopyHasNoReader(t) \/ TelnetEnds(t)
  PROVE  Handed(t)
<1>1. /\ hist' = Ended(hist, copier[t].id)
      /\ copier' = [copier EXCEPT ![t].src = "done"]
      /\ UNCHANGED <<at, noted, hconn, radiovars>>
  BY DEF CopyEnds, CopyHasNoReader, TelnetEnds
<1>2. hist \in HistoryType
  BY DEF Typed, BooksTyped
<1>3. HandlerEnds(t) => HandlerEnds(t)'
  BY <1>1 DEF HandlerEnds, radiovars
<1>4. hist'.active = {s \in hist.active : s[1] # copier[t].id} /\ hist'.next = hist.next
  BY <1>1, <1>2, Parts
<1> QED
  BY <1>1, <1>3, <1>4, CopierStops

\* Idle and Leave: the handler ends the session noted.
LEMMA HandlerStops ==
  ASSUME Typed, InOrder(hist), Owned, NEW t \in Socket, Idle(t) \/ Leave(t)
  PROVE  Handed(t)
<1>1. /\ hist' = Ended(hist, noted[t]) /\ copier' = copier
      /\ noted' = noted \/ noted' = [noted EXCEPT ![t] = 0]
  BY DEF Idle, Leave, callvars, histvars
<1>2. hist \in HistoryType /\ Sessions(hist) /\ hist.next \in Nat /\ noted \in [Socket -> Nat]
  BY DEF Typed, BooksTyped, HistoryType, InOrder
<1>3. hist'.active = {s \in hist.active : s[1] # noted[t]} /\ hist'.next = hist.next
  BY <1>1, <1>2, Parts
<1>4. \A s \in hist.active : 0 < s[1]
  BY <1>2 DEF Sessions
<1>5. \A s \in hist'.active : s[1] # noted'[t]
  BY <1>1, <1>2, <1>3, <1>4
<1>6. noted'[t] <= hist'.next
  BY <1>1, <1>2, <1>3 DEF Owned
<1>7. \A s \in hist'.active : s \in hist.active /\ (WillEnd(t, s[1]) => WillEnd(t, s[1])')
  BY <1>1, <1>3 DEF WillEnd
<1> QED
  BY <1>5, <1>6, <1>7 DEF Handed

\* A connect begins at most one session, noted by the handler and the copier.
LEMMA Connects ==
  ASSUME Typed, Order, Owned, NEW t \in Socket, ConnectStep(t)
  PROVE  Handed(t)
<1>0. /\ hist \in HistoryType /\ hist.next \in Nat /\ noted \in [Socket -> Nat]
      /\ at \in [Socket -> {"off", "loop", "goodbye", "release", "tail", "leaving",
                            "closing", "returned"}]
  BY DEF Typed, BooksTyped, PageTyped, HistoryType
<1>1. page[t] = "none" /\ at' = [at EXCEPT ![t] = "loop"]
  BY DEF ConnectStep, ConnectBBS, ConnectRadio, ConnectIncoming, Connecting
<1>2. \A id : ~WillEnd(t, id)
  BY <1>1, NoEvents DEF Order, Starting, WillEnd, HandlerEnds
<1>3. \/ hist' = hist /\ noted' = noted
      \/ \E k : /\ hist' = Begun(hist, k)
                /\ noted' = [noted EXCEPT ![t] = hist'.next]
                /\ hconn' = [hconn EXCEPT ![t] = TRUE]
  BY DEF ConnectStep, ConnectBBS, ConnectRadio, ConnectIncoming, Begin, histvars
<1>4. CASE hist' = hist /\ noted' = noted
  <2>1. ~hconn[t] /\ noted[t] <= hist.next
    BY <1>1 DEF Order, Starting, Owned
  <2> QED
    BY <1>2, <1>4, <2>1 DEF Handed, Owned
<1>5. ASSUME NEW k, hist' = Begun(hist, k), noted' = [noted EXCEPT ![t] = hist'.next],
             hconn' = [hconn EXCEPT ![t] = TRUE]
      PROVE  Handed(t)
  <2>1. hconn'[t] /\ noted'[t] = hist'.next /\ at'[t] = "loop"
    BY <1>0, <1>1, <1>5 DEF Typed, BooksTyped
  <2>2. hist'.next = hist.next + 1 /\ hist'.active = hist.active \cup {<<hist.next + 1, k>>}
    BY <1>0, <1>5, Parts
  <2>3. \A id : id = hist.next + 1 => WillEnd(t, id)'
    BY <2>1, <2>2 DEF WillEnd, HandlerEnds
  <2>4. \A s \in hist'.active : s \in hist.active \/ s[1] = hist.next + 1
    BY <2>2
  <2> QED
    BY <1>0, <1>2, <2>1, <2>2, <2>3, <2>4 DEF Handed
<1> QED
  BY <1>3, <1>4, <1>5

\* The pump begins a session for an "up" no handler has noted, and ends it for
\* the "down".
LEMMA Pumps ==
  ASSUME Typed, Order, Owned, NEW t \in Socket, Pump(t)
  PROVE  Handed(t)
<1>0. /\ hist \in HistoryType /\ hist.next \in Nat /\ noted \in [Socket -> Nat]
      /\ hconn \in [Socket -> BOOLEAN] /\ events \in [Socket -> Seq(Event)]
  BY DEF Typed, BooksTyped, RadioTyped, HistoryType
<1>1. /\ events[t] # <<>> /\ events'[t] = Tail(events[t])
      /\ UNCHANGED <<at, radio, copier>>
  BY <1>0 DEF Pump, callvars
<1>2. CASE Head(events[t]) # "down" /\ noted' = noted /\ hist' = hist
           /\ (hconn[t] => hconn'[t]) /\ (~hconn[t] => ~hconn'[t])
  <2>1. HandlerEnds(t) => HandlerEnds(t)'
    BY <1>1, <1>2, EventsOf DEF HandlerEnds
  <2> QED
    BY <1>1, <1>2, <2>1 DEF Owned, Handed, WillEnd
<1>3. CASE Head(events[t]) = "up" /\ ~hconn[t] /\ Begin(t, "station")
           /\ hconn' = [hconn EXCEPT ![t] = TRUE]
  <2>1. hist' = Begun(hist, "station") /\ noted'[t] = hist'.next /\ hconn'[t]
    BY <1>0, <1>3 DEF Begin
  <2>2. /\ hist'.next = hist.next + 1
        /\ hist'.active = hist.active \cup {<<hist.next + 1, "station">>}
    BY <1>0, <2>1, Parts
  <2>3. HandlerEnds(t)'
    <3>1. RadioSound(t) /\ at[t] # "off"
      BY <1>1 DEF Order, Starting, RadioSound
    <3>2. at[t] \in {"off", "loop", "goodbye", "release", "tail", "leaving", "closing",
                    "returned"}
      BY DEF Typed, PageTyped
    <3>3. radio[t] = "connected" \/ HasDown(events'[t])
      BY <1>1, <1>3, <3>1, EventsOf DEF RadioSound
    <3> QED
      BY <1>1, <2>1, <3>1, <3>2, <3>3 DEF HandlerEnds, RadioSound
  <2>4. \A id : id = hist.next + 1 => WillEnd(t, id)'
    BY <2>1, <2>2, <2>3 DEF WillEnd
  <2>5. \A s \in hist'.active : s \in hist.active \/ s[1] = hist.next + 1
    BY <2>2
  <2>6. \A s \in hist.active : WillEnd(t, s[1]) => WillEnd(t, s[1])'
    BY <1>1, <1>3 DEF WillEnd, Owned
  <2> QED
    BY <1>0, <2>1, <2>2, <2>4, <2>5, <2>6 DEF Handed
<1>4. CASE Head(events[t]) = "down"
  <2>1. /\ hist' = IF hconn[t] THEN Ended(hist, noted[t]) ELSE hist
        /\ noted' = noted /\ ~hconn'[t]
    BY <1>0, <1>4 DEF Pump, Event
  <2>2. hist'.next = hist.next /\ hist'.active \subseteq hist.active
        /\ \A s \in hist'.active : s[1] # noted[t]
    BY <1>0, <2>1, Parts DEF Owned
  <2> QED
    BY <1>1, <2>1, <2>2 DEF Handed, WillEnd, Owned
<1> QED
  BY <1>0, <1>2, <1>3, <1>4 DEF Pump, histvars

LEMMA OwnedStep ==
  ASSUME Typed, InOrder(hist), InOrder(hist'), Order, Owned, [Next]_vars
  PROVE  Owned'
<1>1. hist.next <= hist'.next /\ hist.next \in Nat /\ hist'.next \in Nat
      /\ \A s \in hist'.active : s \in hist.active \/ s[1] = hist.next + 1
  BY HistoryStep, NewNumbers DEF InOrder, HistoryType
<1>2. \A u \in Socket : noted[u] \in Nat
  BY DEF Typed, BooksTyped
<1>3. ASSUME NEW t \in Socket, SocketStep(t) PROVE Owned'
  <2>1. Handed(t)
    BY <1>3, QuietSteps, CopierSteps, HandlerStops, Connects, Pumps
    DEF SocketStep, ConnectStep, HandlerStep, BesideStep
  <2>2. \A u \in Socket \ {t} : Alike(u)
    BY <1>3, SocketTyped
  <2>3. \A u \in Socket \ {t} : \A id : WillEnd(u, id) => WillEnd(u, id)'
    BY <2>2 DEF Alike, PageAlike, RadioAlike, BooksAlike, WillEnd, HandlerEnds
  <2>4. \A s \in hist'.active : \E u \in Socket : WillEnd(u, s[1])'
    <3> SUFFICES ASSUME NEW s \in hist'.active, ~WillEnd(t, s[1])'
                 PROVE  \E u \in Socket : WillEnd(u, s[1])'
      OBVIOUS
    <3>1. s \in hist.active /\ ~WillEnd(t, s[1])
      BY <2>1 DEF Handed
    <3>2. PICK u \in Socket : WillEnd(u, s[1])
      BY <3>1 DEF Owned
    <3> QED
      BY <2>3, <3>1, <3>2
  <2>5. \A u \in Socket \ {t} : /\ noted'[u] <= hist'.next
                                /\ ~hconn'[u] => \A s \in hist'.active : s[1] # noted'[u]
    BY <1>1, <1>2, <2>2 DEF Alike, BooksAlike, Owned
  <2> QED
    BY <2>1, <2>4, <2>5 DEF Handed, Owned
<1>4. CASE CallStep \/ DeleteHistory \/ UNCHANGED vars
  <2>1. hist'.active \subseteq hist.active /\ hist'.next = hist.next
    BY <1>4, NoSocketStep, Parts DEF DeleteHistory, InOrder
  <2>2. UNCHANGED <<page, told, at, mode, callvars, radiovars, noted, hconn>>
    BY <1>4, NoSocketStep
  <2> QED
    BY <2>1, <2>2 DEF Owned, WillEnd, HandlerEnds, callvars, radiovars
<1> QED
  BY <1>3, <1>4, NextIs

-----------------------------------------------------------------------------
(* The theorems *)

LEMMA InitInvariant == Init => Invariant
<1> SUFFICES ASSUME Init PROVE Invariant
  OBVIOUS
<1>1. Typed /\ Booked
  BY InitTyped
<1>2. Claims
  BY DEF Init, Claims
<1>3. Order
  BY NoEvents DEF Init, Order, Starting, RadioSound, ToldSound, Copier
<1>4. Owned
  <2>1. hist.active = {} /\ hist.next = 0
    BY DEF Init, EmptyHistory
  <2>2. \A t \in Socket : noted[t] = 0
    BY DEF Init
  <2> QED
    BY <2>1, <2>2 DEF Owned
<1> QED
  BY <1>1, <1>2, <1>3, <1>4 DEF Invariant

LEMMA NextInvariant == Invariant /\ [Next]_vars => Invariant'
  BY NextTyped, ClaimsStep, OrderStep, OwnedStep DEF Invariant, Booked

\* A call is with one terminal at most and cannot be claimed again.
THEOREM TypeCorrect == Spec => []TypeOK
<1>1. Invariant => TypeOK
  <2> SUFFICES ASSUME Invariant PROVE TypeOK
    OBVIOUS
  <2>1. \A t \in Socket :
          /\ page[t] \in {"none", "open", "closed"}
          /\ told[t] \in {"none", "connected", "over"}
          /\ at[t] \in {"off", "loop", "goodbye", "release", "tail", "leaving",
                        "closing", "returned"}
    BY DEF Invariant, Typed, PageTyped
  <2>2. \A t \in Socket : hub[t] => at[t] \notin {"leaving", "closing", "returned"}
    BY DEF Invariant, Order, RadioSound
  <2>3. \A t \in Socket :
          /\ held[t] # None => call[held[t]].claimed /\ ~call[held[t]].listed
          /\ \A u \in Socket \ {t} : held[t] # None => held[t] # held[u]
    BY DEF Invariant, Claims
  <2> QED
    BY <2>1, <2>2, <2>3 DEF Invariant, Typed, TypeOK
<1> QED
  BY <1>1, InitInvariant, NextInvariant, PTL DEF Spec

\* However handler, copier, pump and the operator act on it, the history counts
\* as many beginnings as ends and sessions that go on.
THEOREM HistoryIsBalanced == Spec => []EndsMatchBegins
<1>1. Invariant => EndsMatchBegins
  BY DEF Invariant, Booked, InOrder, Balanced, Going, EndsMatchBegins
<1> QED
  BY <1>1, InitInvariant, NextInvariant, PTL DEF Spec

\* No session stays without its end once the goroutines that know of it are
\* gone: at any time one of them still has to end it.
THEOREM HistoryIsComplete == Spec => []EndIsRecorded
<1>1. Invariant => EndIsRecorded
  BY NoEvents DEF Invariant, Owned, WillEnd, HandlerEnds, Finished, EndIsRecorded
<1> QED
  BY <1>1, InitInvariant, NextInvariant, PTL DEF Spec

\* The browser does not go on showing a connection that is over.
THEOREM BrowserIsTold == Spec => []EndOfCallIsShown
<1>1. Invariant => EndOfCallIsShown
  BY DEF Invariant, Order, ToldSound, HasDown, RadioIsOver, EndOfCallIsShown
<1> QED
  BY <1>1, InitInvariant, NextInvariant, PTL DEF Spec
=============================================================================
