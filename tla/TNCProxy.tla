------------------------------ MODULE TNCProxy ------------------------------
(***************************************************************************)
(* The TNC proxy (internal/tncproxy/proxy.go) between the port's           *)
(* connections and those of other programs on one side and the TNC on the  *)
(* other.  A client's goroutine writes each frame it reads to the other    *)
(* clients and then queues it for the TNC; the reader of the TNC writes to *)
(* all clients.  Writers to one client take turns by its mutex; a frame is *)
(* two parts, since writeAll may need more than one write.                 *)
(*                                                                         *)
(* Clients read what they are sent.  Frames the TNC sent just before its   *)
(* connection broke are lost.                                              *)
(***************************************************************************)
EXTENDS KissPort

CONSTANTS
    Up,         \* connections to the TNC, numbered in order
    TxSize,     \* upstreamQueue
    MaxOthers   \* frames the other programs and the TNC send

ASSUME ProxyAssumption ==
    /\ Up \subseteq Nat \ {0} /\ Up \cap Conn = {} /\ TxSize \in Nat \ {0}
    /\ MaxOthers \in Nat

VARIABLES
    clients,  \* the clients frames are sent to
    loop,     \* clientLoop of each connection
    job,      \* what each client's loop and each TNC reader is broadcasting
    tx,       \* frames queued for the TNC
    tnc,      \* the connections to the TNC
    serving,  \* the one serveUpstream serves, or 0
    reader,   \* readUpstream of each
    toTNC,    \* frames written to the TNC, by sender
    others    \* frames sent by other programs and by the TNC

clientvars == <<clients, loop, job>>
tncvars == <<tx, tnc, serving, reader, toTNC>>
proxyvars == <<clientvars, tncvars, others>>
vars == <<portvars, tcpvars, breaks, proxyvars>>

-----------------------------------------------------------------------------
Source == Conn \cup Up
FrameSet == [src : Source, n : 0..(MaxPackets + MaxOthers), cmd : {"data", "hardware"}]

\* at: the client whose mutex the broadcast holds; half a frame is written.
Idle == [frame |-> NoFrame, todo |-> {}, at |-> 0]

\* A part of a frame: its beginning or its rest.
Part(f, half) == [frame |-> f, half |-> half]

\* What a client was sent: the last part, and the frames begun of each source.
NoTraffic == [part |-> Part(NoFrame, 2), got |-> [b \in Source |-> <<>>]]

Busy(b) == job[b].todo # {} \/ job[b].at # 0

Locked(c) == \E b \in Source : job[b].at = c

BroadcastToAll(b, f) ==
    job' = [job EXCEPT ![b] = [frame |-> f, todo |-> clients, at |-> 0]]

\* broadcastExcept: the clients are those of the moment it starts.
Broadcast(b, f) ==
    job' = [job EXCEPT ![b] = [frame |-> f, todo |-> clients \ {b}, at |-> 0]]

Init ==
    /\ PortInit
    /\ down = [c \in Conn |-> NoTraffic]
    /\ clients = {} /\ loop = [c \in Conn |-> "none"]
    /\ job = [b \in Source |-> Idle]
    /\ tx = <<>> /\ tnc = [u \in Up |-> "unused"] /\ serving = 0
    /\ reader = [u \in Up |-> "off"] /\ toTNC = [c \in Conn |-> <<>>]
    /\ others = 0

-----------------------------------------------------------------------------
\* Another program connects to the proxy.
Joins(c) ==
    /\ link[c] = "unused" /\ link' = [link EXCEPT ![c] = "open"]
    /\ UNCHANGED <<portvars, up, down, breaks, clientvars, tncvars, others>>

ClientSends(c) ==
    /\ link[c] = "open" /\ others < MaxOthers /\ others' = others + 1
    /\ \E cmd \in {"data", "hardware"} :
          up' = [up EXCEPT ![c] = Append(@, Frame(c, others', cmd))]
    /\ UNCHANGED <<portvars, link, down, breaks, clientvars, tncvars>>

\* The accept loop of run.
Accept(c) ==
    /\ link[c] # "unused" /\ loop[c] = "none"
    /\ clients' = clients \cup {c}
    /\ loop' = [loop EXCEPT ![c] = "reading"]
    /\ UNCHANGED <<portvars, tcpvars, breaks, job, tncvars, others>>

clientCommandAllowed(f) == f.cmd # "hardware"

\* clientLoop reads a frame.
ClientFrame(c) ==
    /\ loop[c] = "reading" /\ up[c] # <<>>
    /\ up' = [up EXCEPT ![c] = Tail(@)]
    /\ IF clientCommandAllowed(Head(up[c]))
       THEN Broadcast(c, Head(up[c])) /\ loop' = [loop EXCEPT ![c] = "sharing"]
       ELSE UNCHANGED <<job, loop>>
    /\ UNCHANGED <<portvars, link, down, breaks, clients, tncvars, others>>

\* The other clients have it: the frame goes into the queue for the TNC.
ClientFrameQueued(c) ==
    /\ loop[c] = "sharing" /\ ~Busy(c) /\ Len(tx) < TxSize
    /\ tx' = Append(tx, job[c].frame)
    /\ job' = [job EXCEPT ![c] = Idle]
    /\ loop' = [loop EXCEPT ![c] = "reading"]
    /\ UNCHANGED <<portvars, tcpvars, breaks, clients, tnc, serving, reader,
                   toTNC, others>>

ClientEndsListed(c) ==
    /\ loop[c] = "reading" /\ link[c] = "broken"
    /\ loop' = [loop EXCEPT ![c] = "over"]
    /\ UNCHANGED <<portvars, tcpvars, breaks, clients, job, tncvars, others>>

\* The read fails, with or without what was still under way: removeClient.
ClientEnds(c) ==
    /\ loop[c] = "reading" /\ link[c] = "broken"
    /\ loop' = [loop EXCEPT ![c] = "over"]
    /\ clients' = clients \ {c}
    /\ UNCHANGED <<portvars, tcpvars, breaks, job, tncvars, others>>

-----------------------------------------------------------------------------
\* One part of a frame to a client.
Put(c, f, half) ==
    LET got == down[c].got IN
    down' = [down EXCEPT ![c] =
               [part |-> Part(f, half),
                got  |-> IF half = 1 THEN [got EXCEPT ![f.src] = Append(@, f.n)]
                        ELSE got]]

WriteStartsUnlocked(b, c) ==
    /\ job[b].at = 0 /\ c \in job[b].todo
    /\ job' = [job EXCEPT ![b].todo = @ \ {c}, ![b].at = c]
    /\ IF link[c] = "open" THEN Put(c, job[b].frame, 1) ELSE UNCHANGED down
    /\ UNCHANGED <<portvars, link, up, breaks, clients, loop, tncvars, others>>

\* The broadcast takes the client's mutex and begins to write.
WriteStarts(b, c) ==
    /\ job[b].at = 0 /\ c \in job[b].todo /\ ~Locked(c)
    /\ job' = [job EXCEPT ![b].todo = @ \ {c}, ![b].at = c]
    /\ IF link[c] = "open" THEN Put(c, job[b].frame, 1) ELSE UNCHANGED down
    /\ UNCHANGED <<portvars, link, up, breaks, clients, loop, tncvars, others>>

WriteEndsOrStays(b) ==
    LET c == job[b].at IN
    /\ c # 0
    /\ \/ /\ link[c] = "open"
          /\ Put(c, job[b].frame, 2)
          /\ job' = [job EXCEPT ![b].at = 0]
          /\ UNCHANGED clients
       \/ /\ link[c] = "broken" /\ clients' = clients \ {c} /\ UNCHANGED <<down, job>>
    /\ UNCHANGED <<portvars, link, up, breaks, loop, tncvars, others>>

\* The rest of the frame is written and the mutex released.  After an error
\* removeClient follows, which closes the connection.
WriteEnds(b) ==
    LET c == job[b].at IN
    /\ c # 0
    /\ job' = [job EXCEPT ![b].at = 0]
    /\ \/ /\ link[c] = "open"
          /\ Put(c, job[b].frame, 2)
          /\ UNCHANGED clients
       \/ link[c] = "broken" /\ c \in clients /\ UNCHANGED <<down, clients>>
       \/ link[c] = "broken" /\ clients' = clients \ {c} /\ UNCHANGED down
    /\ UNCHANGED <<portvars, link, up, breaks, loop, tncvars, others>>

-----------------------------------------------------------------------------
\* upstreamManager makes the next connection once the last is finished.
DialUpstream(u) ==
    /\ serving = 0 /\ tnc[u] = "unused"
    /\ \A v \in Up : v < u => tnc[v] # "unused"
    /\ serving' = u
    /\ tnc' = [tnc EXCEPT ![u] = "open"]
    /\ reader' = [reader EXCEPT ![u] = "reading"]
    /\ UNCHANGED <<portvars, tcpvars, breaks, clientvars, tx, toTNC, others>>

Airs(f) == toTNC' = [toTNC EXCEPT ![f.src] = Append(@, f)]

\* serveUpstream writes the next frame; when that fails the frame is lost and
\* the connection closed.
ServeUpstream ==
    /\ serving # 0 /\ tx # <<>> /\ tx' = Tail(tx)
    /\ \/ /\ tnc[serving] = "open"
          /\ Airs(Head(tx))
          /\ UNCHANGED serving
       \/ tnc[serving] = "broken" /\ UNCHANGED <<serving, toTNC>>
       \/ tnc[serving] = "broken" /\ serving' = 0 /\ UNCHANGED toTNC
    /\ UNCHANGED <<portvars, tcpvars, breaks, clientvars, tnc, reader, others>>

\* readUpstream reads a frame of the TNC.
TNCFrame(u) ==
    /\ tnc[u] = "open" /\ reader[u] = "reading" /\ ~Busy(u)
    /\ others < MaxOthers /\ others' = others + 1
    /\ Broadcast(u, Frame(u, others', "data"))
    /\ UNCHANGED <<portvars, tcpvars, breaks, clients, loop, tncvars>>

\* readUpstream fails, after its last broadcast; serveUpstream, if it is still
\* there, takes the error.
TNCReadEnds(u) ==
    /\ tnc[u] = "broken" /\ reader[u] = "reading" /\ ~Busy(u)
    /\ reader' = [reader EXCEPT ![u] = "off"]
    /\ serving' = IF serving = u THEN 0 ELSE serving
    /\ UNCHANGED <<portvars, tcpvars, breaks, clientvars, tx, tnc, toTNC, others>>

TNCBreaks(u) ==
    /\ tnc[u] = "open" /\ breaks < MaxBreaks /\ breaks' = breaks + 1
    /\ tnc' = [tnc EXCEPT ![u] = "broken"]
    /\ UNCHANGED <<portvars, tcpvars, clientvars, tx, serving, reader, toTNC, others>>

Run == (RunConnEnds \/ \E c \in PortConn : Dial(c)) /\ UNCHANGED proxyvars

Writer(c) ==
    (WriteLoop(c) \/ WriteLoopCancelled(c)) /\ UNCHANGED proxyvars

Broadcasts(b) == WriteEnds(b) \/ \E c \in Conn : WriteStarts(b, c)

ClientLoop(c) ==
    Accept(c) \/ ClientFrame(c) \/ ClientFrameQueued(c) \/ ClientEnds(c) \/ Broadcasts(c)

Upstream == ServeUpstream \/ \E u \in Up : DialUpstream(u)

Next ==
    \/ Run \/ Upstream
    \/ (Send \/ RestartPort \/ \E c \in Conn : Break(c)) /\ UNCHANGED proxyvars
    \/ \E c \in PortConn : Writer(c)
    \/ \E c \in Ext : Joins(c) \/ ClientSends(c)
    \/ \E c \in Conn : ClientLoop(c)
    \/ \E u \in Up : Broadcasts(u) \/ TNCReadEnds(u) \/ TNCFrame(u) \/ TNCBreaks(u)

Spec == Init /\ [][Next]_vars

\* Every goroutine runs, and proxy and TNC can be reached after a while.
FairSpec ==
    /\ Spec /\ WF_vars(Run) /\ WF_vars(Upstream)
    /\ \A c \in PortConn : WF_vars(Writer(c))
    /\ \A c \in Conn : WF_vars(ClientLoop(c))
    /\ \A u \in Up : WF_vars(Broadcasts(u) \/ TNCReadEnds(u))

-----------------------------------------------------------------------------
TypeOK ==
    /\ queue \in Seq(1..MaxPackets) /\ Len(queue) <= QueueSize
    /\ sent \in 0..MaxPackets /\ cur \in PortConn \cup {0} /\ breaks \in 0..MaxBreaks
    /\ writer \in [PortConn -> {"off", "loop", "cancelled"}]
    /\ link \in [Conn -> {"unused", "open", "broken"}]
    /\ \A c \in Conn : up[c] \in Seq(FrameSet)
                       /\ down[c].got \in [Source -> Seq(Nat)]
    /\ wasted \in [PortConn -> Nat]
    /\ clients \subseteq {c \in Conn : loop[c] # "none"}
    /\ loop \in [Conn -> {"none", "reading", "sharing", "over"}]
    /\ \A b \in Source : job[b].todo \subseteq Conn /\ job[b].at \in Conn \cup {0}
    /\ tx \in Seq(FrameSet) /\ Len(tx) <= TxSize
    /\ tnc \in [Up -> {"unused", "open", "broken"}]
    /\ serving \in Up \cup {0} /\ reader \in [Up -> {"off", "reading"}]
    /\ toTNC \in [Conn -> Seq(FrameSet)]
    /\ others \in 0..MaxOthers

\* However the goroutines of the proxy interleave their writes, and whichever
\* connections break meanwhile, a client gets complete KISS frames: what follows
\* the beginning of a frame is its rest (docs/kiss-terminal.md:63).
WholeFrames ==
    [][\A c \in Conn :
          \/ down'[c].part = down[c].part
          \/ down'[c].part.half = 1 /\ down[c].part.half = 2
          \/ down'[c].part = [down[c].part EXCEPT !.half = 2]]_vars

InOrder(ns) == \A i, j \in DOMAIN ns : i < j => ns[i] < ns[j]

Numbers(frames) == [i \in DOMAIN frames |-> frames[i].n]

\* Through the two queues, the broadcasts and the reconnects the frames of one
\* connection stay in order and single: no client is sent a frame twice, out of
\* order or its own, and the TNC gets no packet of the port twice, on whichever
\* connections, and no command that clients may not send.
FramesKeepTheirOrder ==
    /\ \A c \in Conn : /\ \A src \in Source : InOrder(down[c].got[src])
                       /\ down[c].got[c] = <<>>
                       /\ InOrder(Numbers(toTNC[c]))
                       /\ \A i \in DOMAIN toTNC[c] : toTNC[c][i].cmd # "hardware"
    /\ \A c, d \in PortConn : c # d =>
          \A i \in DOMAIN toTNC[c], j \in DOMAIN toTNC[d] :
              toTNC[c][i].n # toTNC[d][j].n

\* A writer left behind by a reconnect or a restart of the port waits on the
\* queue of the new one; it can cost at most the one packet it finds out by.
ReconnectCostsOnePacket ==
    \A c \in PortConn : wasted[c] <= 1

\* Nobody waits forever: not the port on the proxy, not a client's loop on the
\* mutex of another client or on the queue for the TNC, not the reader of the
\* TNC.  What was queued or read leaves every queue.
Drained ==
    /\ queue = <<>> /\ tx = <<>>
    /\ \A c \in Conn : loop[c] # "sharing"
    /\ \A b \in Source : ~Busy(b)

TrafficDrains == <>[]Drained

\* A client whose connection is gone is taken off the list, although its loop
\* may wait on other clients or on the TNC at that time.
GoneClientIsForgotten ==
    <>[](\A c \in Conn : link[c] = "broken" => c \notin clients /\ loop[c] # "reading")
=============================================================================
