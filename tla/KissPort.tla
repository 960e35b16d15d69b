------------------------------ MODULE KissPort ------------------------------
(***************************************************************************)
(* The KISS TCP port of a radio (internal/transport/kiss/tcp.go) and how   *)
(* the program restarts it (restartPort in cmd/server/main.go).            *)
(*                                                                         *)
(* runConn starts a reader and a writer for each TCP connection and waits  *)
(* for the first of them to fail.  All writers read one queue, and one     *)
(* that waits there does not see that its connection is gone.              *)
(*                                                                         *)
(* A frame is its sender, its number and its KISS command; how frames are  *)
(* escaped, the counters and the reconnect delay are left out, and no KISS *)
(* parameters are configured, which would go first.  What the reader gets  *)
(* is down, which the other end writes.                                    *)
(***************************************************************************)
EXTENDS Integers, Sequences, SequencesExt

CONSTANTS
    PortConn,    \* TCP connections the port may make, numbered in order
    Ext,         \* those of other programs
    QueueSize,   \* capacity of the port's queue
    MaxPackets,  \* packets the sessions send
    MaxBreaks    \* connections that break, and restarts, together

ASSUME KissAssumption ==
    /\ PortConn \subseteq Nat \ {0} /\ Ext \subseteq Nat \ {0}
    /\ PortConn \cap Ext = {}
    /\ QueueSize \in Nat \ {0} /\ MaxPackets \in Nat /\ MaxBreaks \in Nat

Conn == PortConn \cup Ext

VARIABLES
    queue,    \* tx: packets the sessions have sent
    sent,     \* packets given to Send
    cur,      \* the connection runConn serves, or 0
    writer,   \* the writeLoop of each connection
    link,     \* each TCP connection
    up,       \* frames written to it and not read yet by the other end
    down,     \* what the other end has written to it
    wasted,   \* packets taken by a writer whose connection had been given up
    breaks

portvars == <<queue, sent, cur, writer, wasted>>
tcpvars == <<link, up, down>>

-----------------------------------------------------------------------------
Frame(src, n, cmd) == [src |-> src, n |-> n, cmd |-> cmd]

NoFrame == Frame(0, 0, "data")

PortInit ==
    /\ queue = <<>> /\ sent = 0 /\ cur = 0 /\ breaks = 0
    /\ writer = [c \in PortConn |-> "off"] /\ wasted = [c \in PortConn |-> 0]
    /\ link = [c \in Conn |-> "unused"]
    /\ up = [c \in Conn |-> <<>>]

SendAnyway ==
    /\ sent < MaxPackets /\ sent' = sent + 1
    /\ queue' = Append(queue, sent')
    /\ UNCHANGED <<cur, writer, wasted, tcpvars, breaks>>

\* Send: a full queue drops the packet and returns an error.
Send ==
    /\ sent < MaxPackets /\ sent' = sent + 1
    /\ queue' = IF Len(queue) < QueueSize THEN Append(queue, sent') ELSE queue
    /\ UNCHANGED <<cur, writer, wasted, tcpvars, breaks>>

\* Run and the start of runConn.
Dial(c) ==
    /\ cur = 0 /\ link[c] = "unused"
    /\ \A d \in PortConn : d < c => link[d] # "unused"
    /\ cur' = c
    /\ link' = [link EXCEPT ![c] = "open"]
    /\ writer' = [writer EXCEPT ![c] = "loop"]
    /\ UNCHANGED <<queue, sent, wasted, up, down, breaks>>

\* A frame on a connection that has broken is an error, or is buffered and lost
\* as long as this end has not closed it.
Writes(c, f, next) ==
    \/ /\ link[c] = "open" /\ up' = [up EXCEPT ![c] = Append(@, f)]
       /\ writer' = [writer EXCEPT ![c] = next]
    \/ /\ link[c] = "broken" /\ cur = c /\ UNCHANGED up
       /\ writer' = [writer EXCEPT ![c] = next]
    \/ /\ link[c] = "broken" /\ UNCHANGED up
       /\ writer' = [writer EXCEPT ![c] = "off"]

WriteLoopGoesOn(c) ==
    /\ writer[c] \in {"loop", "cancelled"} /\ queue # <<>>
    /\ queue' = Tail(queue)
    /\ \/ Writes(c, Frame(c, Head(queue), "data"), "loop")
       \/ link[c] = "broken" /\ UNCHANGED <<writer, up>>
    /\ wasted' = [wasted EXCEPT ![c] = IF cur = c THEN @ ELSE @ + 1]
    /\ UNCHANGED <<sent, cur, link, down, breaks>>

\* writeLoop takes the next packet, on whatever connection it was started for.
WriteLoop(c) ==
    /\ writer[c] \in {"loop", "cancelled"} /\ queue # <<>>
    /\ queue' = Tail(queue)
    /\ Writes(c, Frame(c, Head(queue), "data"), "loop")
    /\ wasted' = [wasted EXCEPT ![c] = IF cur = c THEN @ ELSE @ + 1]
    /\ UNCHANGED <<sent, cur, link, down, breaks>>

\* ctx.Done in writeLoop; the select may as well take a packet.
WriteLoopCancelled(c) ==
    /\ writer[c] = "cancelled" /\ writer' = [writer EXCEPT ![c] = "off"]
    /\ UNCHANGED <<queue, sent, cur, wasted, tcpvars, breaks>>

\* The reader or the writer has failed: runConn closes the connection, and Run
\* comes to the next.  The writer goes on.
RunConnEnds ==
    /\ cur # 0 /\ link[cur] = "broken" /\ cur' = 0
    /\ UNCHANGED <<queue, sent, writer, wasted, tcpvars, breaks>>

\* restartPort cancels the context of Run and waits for it alone, then starts
\* Run again.
RestartPort ==
    /\ breaks < MaxBreaks /\ breaks' = breaks + 1
    /\ cur' = 0
    /\ link' = [c \in Conn |-> IF c = cur THEN "broken" ELSE link[c]]
    /\ writer' = [c \in PortConn |->
                    IF writer[c] = "off" THEN "off" ELSE "cancelled"]
    /\ UNCHANGED <<queue, sent, wasted, up, down>>

Break(c) ==
    /\ link[c] = "open" /\ breaks < MaxBreaks /\ breaks' = breaks + 1
    /\ link' = [link EXCEPT ![c] = "broken"]
    /\ UNCHANGED <<portvars, up, down>>
=============================================================================
