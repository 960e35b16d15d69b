------------------------------ MODULE History ------------------------------
(***************************************************************************)
(* The conversation store (internal/history/store.go) as operators on a    *)
(* record: the conversations, with the number of their begin and end       *)
(* markers and of their texts, and the sessions begun and not ended.       *)
(*                                                                         *)
(* The limits on lines, conversations, bytes and days are not reached, and *)
(* the file, written after every change with its error ignored, is left    *)
(* out.                                                                    *)
(***************************************************************************)
EXTENDS Naturals, FiniteSets

CONSTANT Key   \* mode, station, port and digipeaters of a conversation

Absent == [begun |-> 0, ended |-> 0, texts |-> 0]

EmptyHistory == [items |-> [k \in Key |-> Absent], active |-> {}, next |-> 0]

\* A conversation is made with its first begin marker.
Kept(h, k) == h.items[k].begun > 0

\* Connected: the new session is number h.next + 1.
Begun(h, k) ==
    [items |-> [h.items EXCEPT ![k].begun = @ + 1],
     active |-> h.active \cup {<<h.next + 1, k>>},
     next |-> h.next + 1]

\* Disconnected: nothing for a session unknown or ended before.
Ended(h, id) ==
    [items |-> [k \in Key |-> IF <<id, k>> \in h.active /\ Kept(h, k)
                              THEN [h.items[k] EXCEPT !.ended = @ + 1]
                              ELSE h.items[k]],
     active |-> {s \in h.active : s[1] # id},
     next |-> h.next]

\* Add
Added(h, k) ==
    IF k \in Key /\ Kept(h, k) THEN [h EXCEPT !.items[k].texts = @ + 1] ELSE h

DeletedAlone(h, k) == [h EXCEPT !.items[k] = Absent]

\* Delete takes the sessions of the conversation along; so does Clear.
Deleted(h, k) ==
    [h EXCEPT !.items[k] = Absent, !.active = {s \in @ : s[2] # k}]

Cleared(h) == [EmptyHistory EXCEPT !.next = h.next]
=============================================================================
