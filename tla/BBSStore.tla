------------------------------ MODULE BBSStore ------------------------------
(***************************************************************************)
(* The message base of a BBS (internal/bbs/store.go) as operators on a     *)
(* store: the next number and the messages in the order they came in.      *)
(*                                                                         *)
(* A call is a user, an address a member of Address, a text stands for     *)
(* subject and body.  Times, attempt counters and error texts are left     *)
(* out.  Every operation of the code runs under s.mu and ends in           *)
(* saveLocked; what is on disk is the business of the module Forwarding.   *)
(***************************************************************************)
EXTENDS Integers, Sequences, FiniteSets

CONSTANTS
    User,       \* base calls of the users
    Address,    \* what a message may be addressed to: calls, BBSs, areas
    NoAddress,  \* the empty At
    Text,       \* what users write
    Peer        \* identifiers of forwarding partners

ASSUME AddressAssumption == NoAddress \notin Address

-----------------------------------------------------------------------------
\* ForwardState.Status, "none" for a peer that has no entry in Forward.
Status == {"none", "pending", "failed", "delivered"}

BID == Nat \X User

Message ==
    [id: Nat, type: {"P", "B"}, from: User, to: Address,
     at: Address \cup {NoAddress}, bid: BID, text: Text,
     read: SUBSET User, deleted: SUBSET User, forward: [Peer -> Status]]

Store == [next: Nat, mail: Seq(Message)]

EmptyStore == [next |-> 1, mail |-> <<>>]

Numbers(s) == DOMAIN s.mail

Holds(s, text) == \E i \in Numbers(s) : s.mail[i].text = text

HasBID(s, bid) == \E i \in Numbers(s) : s.mail[i].bid = bid

\* The store with the messages of these numbers changed in place.
Amended(s, ids, Change(_)) ==
    [s EXCEPT !.mail = [i \in Numbers(s) |->
        IF s.mail[i].id \in ids THEN Change(s.mail[i]) ELSE s.mail[i]]]

\* Append under the next number, with nothing read, deleted or forwarded.
Filed(s, type, from, to, at, bid, text) ==
    [next |-> s.next + 1,
     mail |-> Append(s.mail,
        [id |-> s.next, type |-> type, from |-> from, to |-> to, at |-> at,
         bid |-> bid, text |-> text, read |-> {}, deleted |-> {},
         forward |-> [p \in Peer |-> "none"]])]

\* Send: the BID is the number in this store and the base call of the author.
Send(s, m) == Filed(s, m.type, m.from, m.to, m.at, <<s.next, m.from>>, m.text)

ImportUnchecked(s, m) == Filed(s, m.type, m.from, m.to, m.at, m.bid, m.text)

ImportRefreshes(s, m) ==
    IF HasBID(s, m.bid)
    THEN LET Renewed(x) == IF x.bid = m.bid THEN [x EXCEPT !.read = {}, !.deleted = {}]
                           ELSE x
         IN  [s EXCEPT !.mail = [i \in Numbers(s) |-> Renewed(s.mail[i])]]
    ELSE Filed(s, m.type, m.from, m.to, m.at, m.bid, m.text)

\* Import looks for the BID once more, under the lock under which it appends.
Import(s, m) ==
    IF HasBID(s, m.bid) THEN s
    ELSE Filed(s, m.type, m.from, m.to, m.at, m.bid, m.text)

-----------------------------------------------------------------------------
QueueForwardAgain(s, p, ids) ==
    LET Queued(m) == [m EXCEPT !.forward[p] = "pending"]
    IN  Amended(s, ids, Queued)

\* QueueForward: a peer already in Forward keeps its entry.
QueueForward(s, p, ids) ==
    LET Queued(m) == [m EXCEPT !.forward[p] = IF @ = "none" THEN "pending" ELSE @]
    IN  Amended(s, ids, Queued)

WaitingNeverFailed(m, p) == m.forward[p] = "pending"

Waiting(m, p) == m.forward[p] \in {"pending", "failed"}

\* ForwardQueue: the oldest waiting messages, up to the limit.
ForwardQueue(s, p, limit) ==
    LET waiting   == {i \in Numbers(s) : Waiting(s.mail[i], p)}
        Before(i) == {k \in waiting : k < i}
    IN  {s.mail[i] : i \in {j \in waiting : Cardinality(Before(j)) < limit}}

RecordForward(s, p, id, delivered) ==
    LET Recorded(m) ==
            [m EXCEPT !.forward[p] = IF delivered THEN "delivered" ELSE "failed"]
    IN  Amended(s, {id}, Recorded)

-----------------------------------------------------------------------------
Addressed(m, u) == m.type = "B" \/ u \in {m.to, m.from}

\* List, bulletins and private mail together: what u sees in this store.
Visible(s, u) ==
    {s.mail[i] : i \in {j \in Numbers(s) :
        Addressed(s.mail[j], u) /\ u \notin s.mail[j].deleted}}

\* Read: marks the message read the first time.
Read(s, u, id) ==
    LET Marked(m) == [m EXCEPT !.read = @ \cup {u}]
    IN  Amended(s, {id}, Marked)

\* Delete hides the message from its user and keeps it, with its BID.
Delete(s, u, id) ==
    LET Hidden(m) == [m EXCEPT !.deleted = @ \cup {u}]
    IN  Amended(s, {id}, Hidden)
=============================================================================
