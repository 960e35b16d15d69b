----------------------------- MODULE Dispatcher -----------------------------
(***************************************************************************)
(* The goroutine that takes the frames of all ports (cmd/server/main.go):  *)
(* MHEARD, the digipeater and the sessions in turn, the beacons this       *)
(* station sends, and the ports, whose connection comes and goes.          *)
(*                                                                         *)
(* One round of the loop is one action: only the loop writes the MHEARD    *)
(* table, its readers in other goroutines only prune it.  What becomes of  *)
(* a frame handed to the sessions is in SessionManager and InboundMux.     *)
(***************************************************************************)
EXTENDS MHeard, Sequences

CONSTANTS
    Own,          \* this station's calls, which are its digipeater aliases
    BeaconCall,   \* the destination BEACON
    Enabled,      \* ports enabled in the configuration
    RxFrames,     \* frames that may be received
    MaxAnnounced  \* calls a beacon announces at most (5)

ASSUME DispatcherAssumption ==
    /\ Own \subseteq Call /\ Enabled \subseteq Port
    /\ BeaconCall \notin Call /\ MaxAnnounced \in Nat \ {0}

VARIABLES
    table,      \* MHEARD
    seen,       \* frames in the duplicate window of the digipeater
    up,         \* ports with Status().Connected
    tx,         \* what the last step gave to ports: one [ports, frame] at most
    heardOn     \* history: where and how long ago each station was last heard
                \* directly, one [port, age] at most

vars == <<table, seen, up, tx, heardOn>>

-----------------------------------------------------------------------------
Hop == [call: Call, repeated: BOOLEAN]

\* parseUltimatePRBeacon: what a beacon's text announces, each call once.
BeaconCalls ==
    {calls \in SUBSET Call : IsFiniteSet(calls) /\ Cardinality(calls) <= MaxAnnounced}

\* The frame as far as it matters here; calls is for beacons only.
Frame == [src: Call, dst: Call \cup {BeaconCall}, path: Seq(Hop),
          type: {"UI", "SABM", "I"}, calls: BeaconCalls]

ASSUME FramesAssumption == RxFrames \subseteq Frame

\* directlyHeard: nobody has repeated the frame, and mheardReturnPath is empty.
DirectlyHeard(f) == \A i \in DOMAIN f.path : ~f.path[i].repeated

IsBeacon(f) ==
    f.type = "UI" /\ f.dst = BeaconCall /\ f.src \notin Own /\ DirectlyHeard(f)

\* withoutCallsigns
Strangers(calls) == calls \ Own

\* The tables a frame received on port p may leave.
Observed(t, p, f) ==
    IF f.src \in Own THEN {t}
    ELSE IF ~DirectlyHeard(f) THEN {HeardVia(t, f.src)}
    ELSE IF ~IsBeacon(f) THEN {Heard(t, f.src, p)}
    ELSE Reported(Beacon(Heard(t, f.src, p), f.src, p), Strangers(f.calls))

-----------------------------------------------------------------------------
(* The digipeater.                                                         *)

\* Position of the first hop that has not repeated the frame, 0 for none.
NextHop(f) ==
    LET open == {i \in DOMAIN f.path : ~f.path[i].repeated}
    IN  IF open = {} THEN 0 ELSE CHOOSE i \in open : \A j \in open : i <= j

ForUs(f) == f.src \notin Own /\ NextHop(f) # 0 /\ f.path[NextHop(f)].call \in Own

\* Only UI frames are suppressed: an equal SABM or I frame is a retry.
Suppressed(f) == f.type = "UI" /\ f \in seen

Repeated(f) == [f EXCEPT !.path[NextHop(f)].repeated = TRUE]

OldestPort(t, dst) ==
    LET usable == Enabled \cap up
        direct == {k.on : k \in Oldest(t, DirectKeys(t, dst))}
    IN  IF direct # {} /\ direct \subseteq usable THEN direct ELSE usable

\* digipeaterOutputPorts: the port of the destination, or every usable port.
OutputPorts(t, dst) ==
    LET usable == Enabled \cap up
        direct == DirectPort(t, dst)
    IN  IF direct # {} /\ direct \subseteq usable THEN direct ELSE usable

\* beaconText: the calls of the newest entries, each once and none of our own.
Announced(t) ==
    LET calls == {k.call : k \in Keys(t)} \ Own
        Last(c) == Newest(t, {k \in Keys(t) : k.call = c})
        Before(c) == {d \in calls : Last(d) \X Last(c) \subseteq t.newer}
    IN  {c \in calls : Cardinality(Before(c)) < MaxAnnounced}

-----------------------------------------------------------------------------
Init ==
    /\ table = EmptyTable /\ seen = {} /\ tx = {}
    /\ up \in {{}, Enabled}
    /\ heardOn = [c \in Call |-> {}]

\* A sender refuses a frame when its queue is full.
Transmitted(ports, f) ==
    \E accepted \in SUBSET ports :
        tx' = IF accepted = {} THEN {} ELSE {[ports |-> accepted, frame |-> f]}

Remembered(p, f) ==
    heardOn' = IF f.src \notin Own /\ DirectlyHeard(f)
               THEN [heardOn EXCEPT ![f.src] = {[port |-> p, age |-> 0]}]
               ELSE heardOn

\* A frame we are to repeat, whoever it is for; the round ends with it.  It is
\* in the window before a port has taken it.  DirectPort prunes once more.
Digipeat(p, f) ==
    /\ ForUs(f) /\ ~Suppressed(f)
    /\ seen' = IF f.type = "UI" THEN seen \cup {f} ELSE seen
    /\ \E t \in Observed(table, p, f) : table' = Prune(t)
    /\ Transmitted(OutputPorts(table', f.dst), Repeated(f))
    /\ Remembered(p, f)
    /\ UNCHANGED up

\* Any other frame goes to the hub, then to the inbound links: a suppressed one
\* too, and one that others have still to repeat.
HandOver(p, f) ==
    /\ ~(ForUs(f) /\ ~Suppressed(f))
    /\ table' \in Observed(table, p, f)
    /\ tx' = {}
    /\ Remembered(p, f)
    /\ UNCHANGED <<seen, up>>

\* A frame is in the window for 30 seconds from its repetition.
WindowEnds(f) ==
    /\ seen' = seen \ {f} /\ f \in seen
    /\ tx' = {}
    /\ UNCHANGED <<table, up, heardOn>>

\* A tick is a good part of the 45 minutes of an entry: every window has ended.
Tick ==
    /\ table' = Older(table)
    /\ seen' = {} /\ tx' = {}
    /\ heardOn' = [c \in Call |->
                     {[port |-> h.port, age |-> h.age + 1] :
                        h \in {g \in heardOn[c] : g.age < EntryTTL}}]
    /\ UNCHANGED up

\* sendBeacon and sendBBSBeacon: every usable port, one after the other.
SendBeacon(source) ==
    /\ table' = Prune(table)
    /\ Transmitted(Enabled \cap up,
            [src |-> source, dst |-> BeaconCall, path |-> <<>>, type |-> "UI",
             calls |-> Announced(table')])
    /\ UNCHANGED <<seen, up, heardOn>>

\* The connection of a port; restartPort makes it go and come back.
PortChanges(p) ==
    /\ up' = IF p \in up THEN up \ {p} ELSE up \cup {p}
    /\ tx' = {}
    /\ UNCHANGED <<table, seen, heardOn>>

\* runBeaconSchedule: a timer for the BBS, one for the station that fires only
\* while a browser is open; the periods are left out.
BeaconSchedule == \E source \in Own : SendBeacon(source)

Round == \E p \in Enabled, f \in RxFrames : Digipeat(p, f) \/ HandOver(p, f)

Next ==
    \/ Round
    \/ \E f \in RxFrames : WindowEnds(f)
    \/ Tick
    \/ BeaconSchedule
    \/ \E p \in Enabled : PortChanges(p)

Spec == Init /\ [][Next]_vars

-----------------------------------------------------------------------------
\* A station is listed as heard directly or as reported, never as both, once
\* per port, never under a call of our own, and the newest entries come first
\* (mheard/store.go keys, main.go isOwnCallsign and withoutCallsigns).
TypeOK ==
    /\ seen \subseteq RxFrames /\ up \subseteq Enabled
    /\ Keys(table) \subseteq Key /\ table.age \in [Keys(table) -> 0..(EntryTTL + 1)]
    /\ table.newer \in Orders(Keys(table))
    /\ \A k, l \in Keys(table) :
        /\ <<k, l>> \in table.newer => table.age[k] <= table.age[l]
        /\ k.call = l.call => (k.on = "indirect" <=> l.on = "indirect")
    /\ \A k \in Keys(table) : k.call \notin Own

\* A frame is never sent out only on a port that is not the one its destination
\* was last heard on, whatever echoes, reports and full tables came in between:
\* the port DirectPort names is that of the station's last direct frame, not
\* older than the life of an entry (main.go digipeaterOutputPorts).
RouteIsHeard ==
    \A c \in Call : DirectPort(Prune(table), c) \subseteq {h.port : h \in heardOn[c]}

\* What is repeated to a station heard directly, on a port that works, takes
\* that port alone: it is not sent on the other channels.  Only a table at its
\* limit may have lost the station (main.go:444 "subsequent connected-mode
\* traffic is routed to a single TNC").
AnswerTakesOnePort ==
    \A out \in tx : out.frame.dst # BeaconCall =>
        \A h \in heardOn[out.frame.dst] :
            h.port \in up =>
                out.ports = {h.port} \/ Cardinality(Keys(table)) >= Limit
=============================================================================
