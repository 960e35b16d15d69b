------------------------------- MODULE MHeard -------------------------------
(***************************************************************************)
(* The table of heard stations (internal/mheard/store.go) as operators on  *)
(* a map from keys to ages and the order in which the entries were last    *)
(* seen.                                                                   *)
(*                                                                         *)
(* Time is the age of an entry in ticks of the clock: an entry is expired  *)
(* when it is older than entryTTL.  Between two ticks LastSeen tells only  *)
(* which of two entries is newer.  Entries of one report share their time: *)
(* their order, which the code leaves to its map, is the caller's choice.  *)
(* Of an entry only its key decides anything; the port and the way back of *)
(* an indirect one, frame counters and beacon texts are left out.          *)
(***************************************************************************)
EXTENDS Integers, FiniteSets

CONSTANTS
    Call,       \* stations
    Port,       \* radio ports
    EntryTTL,   \* ticks an entry stays after its station was last heard
    Limit       \* entries the table is made for

\* The code's key of an indirect entry is that of a port called "indirect": the
\* configuration allows the name, the model does not.
ASSUME MHeardAssumption ==
    EntryTTL \in Nat /\ Limit \in Nat \ {0} /\ "indirect" \notin Port

-----------------------------------------------------------------------------
\* The key of the code's map: the port and the call for direct entries, the
\* call alone for indirect ones.
Key == [call: Call, on: Port \cup {"indirect"}]

DirectKey(call, port) == [call |-> call, on |-> port]

IndirectKey(call) == [call |-> call, on |-> "indirect"]

\* newer: pairs of keys, of which the first was seen after the second.
EmptyTable == [age |-> [k \in {} |-> 0], newer |-> {}]

Keys(t) == DOMAIN t.age

Fresh(t) == {k \in Keys(t) : t.age[k] <= EntryTTL}

DirectKeys(t, call) == {k \in Keys(t) : k.call = call /\ k.on # "indirect"}

Newest(t, S) == {k \in S : \A l \in S \ {k} : <<k, l>> \in t.newer}

Oldest(t, S) == {k \in S : \A l \in S \ {k} : <<l, k>> \in t.newer}

Kept(t, S) ==
    [age |-> [k \in S |-> t.age[k]], newer |-> t.newer \cap (S \X S)]

\* The orders in which a set of entries may have been seen.
Orders(S) ==
    {r \in SUBSET (S \X S) :
        /\ \A k \in S : <<k, k>> \notin r
        /\ \A k, l \in S : k # l => <<k, l>> \in r \/ <<l, k>> \in r
        /\ \A k, l, m \in S : <<k, l>> \in r /\ <<l, m>> \in r => <<k, m>> \in r}

\* The entries of new become the newest, in this order.
Seen(t, new, order) ==
    LET old == Keys(t) \ new
    IN  [age   |-> [k \in old \cup new |-> IF k \in new THEN 0 ELSE t.age[k]],
         newer |-> order \cup (new \X old) \cup (t.newer \cap (old \X old))]

PruneNewest(t) ==
    LET fresh == Fresh(t)
    IN  Kept(t, IF Cardinality(fresh) > Limit THEN fresh \ Newest(t, fresh) ELSE fresh)

\* pruneLocked drops what is expired, and of a table too long one entry.
Prune(t) ==
    LET fresh == Fresh(t)
    IN  Kept(t, IF Cardinality(fresh) > Limit THEN fresh \ Oldest(t, fresh) ELSE fresh)

\* Heard: the station needs no detour any more.
Heard(t, call, port) ==
    Prune(Seen(Kept(t, Keys(t) \ {IndirectKey(call)}), {DirectKey(call, port)}, {}))

\* HeardVia looks for a direct entry before it prunes: one that has expired
\* still keeps the indirect observation out.
HeardVia(t, call) ==
    Prune(IF DirectKeys(t, call) # {} THEN t ELSE Seen(t, {IndirectKey(call)}, {}))

\* Beacon makes an entry if there is none and does not refresh one.
Beacon(t, call, port) ==
    Prune(IF DirectKey(call, port) \in Keys(t) THEN t
          ELSE Seen(t, {DirectKey(call, port)}, {}))

ReportedOverDirect(t, calls) ==
    LET new == {IndirectKey(c) : c \in calls}
    IN  {Prune(Seen(t, new, order)) : order \in Orders(new)}

\* Reported: any number of entries comes in, one at most is pruned for room.
Reported(t, calls) ==
    LET new == {IndirectKey(c) : c \in {d \in calls : DirectKeys(t, d) = {}}}
    IN  {Prune(Seen(t, new, order)) : order \in Orders(new)}

\* DirectPort, on the pruned table: that of the newest direct entry, if any.
DirectPort(t, call) == {k.on : k \in Newest(t, DirectKeys(t, call))}

Older(t) ==
    [age   |-> [k \in Keys(t) |-> IF k \in Fresh(t) THEN t.age[k] + 1 ELSE t.age[k]],
     newer |-> t.newer]
=============================================================================
