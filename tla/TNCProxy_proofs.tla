--------------------------- MODULE TNCProxy_proofs ---------------------------
(***************************************************************************)
(* Type correctness and three safety properties of TNCProxy, for any       *)
(* number of connections, clients, packets and breaks.                     *)
(***************************************************************************)
EXTENDS TNCProxy, SequenceTheorems, TLAPS

USE KissAssumption, ProxyAssumption

-----------------------------------------------------------------------------
(* Type correctness *)

PortTyped ==
    /\ queue \in Seq(1..MaxPackets) /\ Len(queue) <= QueueSize
    /\ sent \in 0..MaxPackets /\ cur \in PortConn \cup {0}
    /\ writer \in [PortConn -> {"off", "loop", "cancelled"}]
    /\ wasted \in [PortConn -> Nat]

WireTyped ==
    /\ link \in [Conn -> {"unused", "open", "broken"}]
    /\ up \in [Conn -> Seq(FrameSet)]
    /\ down \in [Conn -> [part : [frame : FrameSet, half : {1, 2}]
                                  \cup {Part(NoFrame, 2)},
                          got : [Source -> Seq(Nat)]]]
    /\ breaks \in 0..MaxBreaks

ClientTyped ==
    /\ clients \subseteq {c \in Conn : loop[c] # "none"}
    /\ loop \in [Conn -> {"none", "reading", "sharing", "over"}]
    /\ job \in [Source -> [frame : FrameSet \cup {NoFrame}, todo : SUBSET Conn,
                           at : Conn \cup {0}]]

UpstreamTyped ==
    /\ tx \in Seq(FrameSet) /\ Len(tx) <= TxSize
    /\ tnc \in [Up -> {"unused", "open", "broken"}]
    /\ serving \in Up \cup {0} /\ reader \in [Up -> {"off", "reading"}]
    /\ toTNC \in [Conn -> Seq(FrameSet)]
    /\ others \in 0..MaxOthers

\* A broadcast has a frame; only a loop that shares one is at it.
JobSound ==
    /\ \A b \in Source : Busy(b) => job[b].frame \in FrameSet
    /\ \A c \in Conn : /\ loop[c] = "sharing" => job[c].frame \in FrameSet
                       /\ loop[c] # "sharing" => ~Busy(c)

Typed == PortTyped /\ WireTyped /\ ClientTyped /\ UpstreamTyped /\ JobSound

\* What the types of the constants say about the sets made from them.
LEMMA Sets ==
    /\ PortConn \subseteq Conn /\ Ext \subseteq Conn
    /\ Conn \subseteq Source /\ Up \subseteq Source
    /\ 0 \notin Conn /\ \A u \in Up : u \notin Conn
    /\ Conn \subseteq Nat
  BY DEF Conn, Source

\* A queue that loses its head, and one that grows.
LEMMA Dequeue ==
  ASSUME NEW S, NEW q \in Seq(S), q # <<>>
  PROVE  Head(q) \in S /\ Tail(q) \in Seq(S) /\ Len(Tail(q)) = Len(q) - 1
  BY HeadTailProperties

LEMMA Enqueue ==
  ASSUME NEW S, NEW q \in Seq(S), NEW x \in S
  PROVE  Append(q, x) \in Seq(S) /\ Len(Append(q, x)) = Len(q) + 1
  BY AppendProperties

LEMMA InitTyped == Init => Typed
<1> SUFFICES ASSUME Init PROVE Typed
  OBVIOUS
<1>1. PortTyped
  BY EmptySeq DEF Init, PortInit, PortTyped
<1>2. WireTyped
  BY EmptySeq DEF Init, PortInit, WireTyped, NoTraffic
<1>3. ClientTyped
  BY DEF Init, ClientTyped, Idle
<1>4. UpstreamTyped
  BY EmptySeq DEF Init, UpstreamTyped
<1>5. JobSound
  BY Sets DEF Init, JobSound, Busy, Idle
<1> QED
  BY <1>1, <1>2, <1>3, <1>4, <1>5 DEF Typed

\* The frames the port and the other programs make.
LEMMA FramesOK ==
  ASSUME NEW b \in Source, NEW n \in Nat, n <= MaxPackets \/ n <= MaxOthers,
         NEW cmd \in {"data", "hardware"}
  PROVE  Frame(b, n, cmd) \in FrameSet
  BY DEF Frame, FrameSet

\* Steps of the port leave the proxy alone.
LEMMA PortSteps ==
  ASSUME Typed, UNCHANGED proxyvars,
         Send \/ RestartPort \/ RunConnEnds \/ (\E c \in PortConn : Dial(c))
  PROVE  Typed'
<1> USE Sets
<1>0. PortTyped /\ WireTyped /\ ClientTyped /\ UpstreamTyped /\ JobSound
  BY DEF Typed
<1>1. ClientTyped' /\ UpstreamTyped' /\ JobSound'
  BY <1>0 DEF proxyvars, clientvars, tncvars, ClientTyped, UpstreamTyped, JobSound, Busy
<1>2. CASE Send
  <2>1. sent + 1 \in 0..MaxPackets /\ sent + 1 \in 1..MaxPackets
    BY <1>0, <1>2 DEF PortTyped, Send
  <2>2. queue' \in Seq(1..MaxPackets) /\ Len(queue') <= QueueSize
    <3>1. queue \in Seq(1..MaxPackets) /\ Len(queue) \in Nat
      BY <1>0 DEF PortTyped
    <3>2. Append(queue, sent + 1) \in Seq(1..MaxPackets)
          /\ Len(Append(queue, sent + 1)) = Len(queue) + 1
      BY <2>1, <3>1, Enqueue
    <3>3. queue' = IF Len(queue) < QueueSize THEN Append(queue, sent + 1) ELSE queue
      BY <1>2 DEF Send
    <3>4. QueueSize \in Nat /\ Len(queue) <= QueueSize
      BY <1>0 DEF PortTyped
    <3>5. CASE Len(queue) < QueueSize
      <4>1. queue' = Append(queue, sent + 1)
        BY <3>3, <3>5
      <4> QED
        BY <3>1, <3>2, <3>4, <3>5, <4>1
    <3>6. CASE ~(Len(queue) < QueueSize)
      BY <3>1, <3>3, <3>4, <3>6
    <3> QED
      BY <3>5, <3>6
  <2>3. PortTyped'
    BY <1>0, <1>2, <2>1, <2>2 DEF PortTyped, Send
  <2> QED
    BY <1>0, <1>1, <1>2, <2>3 DEF Typed, Send, WireTyped, tcpvars
<1>3. CASE RestartPort
  <2>1. PortTyped' /\ WireTyped'
    BY <1>0, <1>3 DEF RestartPort, PortTyped, WireTyped
  <2> QED
    BY <1>1, <2>1 DEF Typed
<1>4. CASE RunConnEnds
  <2>1. PortTyped' /\ WireTyped'
    BY <1>0, <1>4 DEF RunConnEnds, PortTyped, WireTyped, tcpvars
  <2> QED
    BY <1>1, <2>1 DEF Typed
<1>5. ASSUME NEW c \in PortConn, Dial(c) PROVE Typed'
  <2>1. PortTyped' /\ WireTyped'
    BY <1>0, <1>5 DEF Dial, PortTyped, WireTyped
  <2> QED
    BY <1>1, <2>1 DEF Typed
<1> QED
  BY <1>2, <1>3, <1>4, <1>5

LEMMA WriterSteps ==
  ASSUME Typed, NEW c \in PortConn, Writer(c)
  PROVE  Typed'
<1> USE Sets
<1>0. PortTyped /\ WireTyped /\ ClientTyped /\ UpstreamTyped /\ JobSound
  BY DEF Typed
<1>1. ClientTyped' /\ UpstreamTyped' /\ JobSound'
  BY <1>0 DEF Writer, proxyvars, clientvars, tncvars, ClientTyped, UpstreamTyped,
              JobSound, Busy
<1>2. CASE WriteLoop(c)
  <2>1. Head(queue) \in 1..MaxPackets /\ queue' \in Seq(1..MaxPackets)
        /\ Len(queue') <= QueueSize
    BY <1>0, <1>2, Dequeue DEF WriteLoop, PortTyped
  <2>2. Frame(c, Head(queue), "data") \in FrameSet
    BY <2>1, FramesOK
  <2>3. writer' \in [PortConn -> {"off", "loop", "cancelled"}]
        /\ up' \in [Conn -> Seq(FrameSet)]
    <3> DEFINE f == Frame(c, Head(queue), "data")
    <3> HIDE DEF f
    <3>1. Writes(c, f, "loop")
      BY <1>2 DEF WriteLoop, f
    <3>2. Append(up[c], f) \in Seq(FrameSet)
      BY <1>0, <2>2, Enqueue DEF WireTyped, f
    <3>3. \/ up' = [up EXCEPT ![c] = Append(up[c], f)]
          \/ up' = up
      BY <3>1 DEF Writes
    <3>4. \/ writer' = [writer EXCEPT ![c] = "loop"]
          \/ writer' = [writer EXCEPT ![c] = "off"]
      BY <3>1 DEF Writes
    <3>5. up' \in [Conn -> Seq(FrameSet)]
      BY <1>0, <3>2, <3>3 DEF WireTyped
    <3> QED
      BY <1>0, <3>4, <3>5 DEF PortTyped
  <2>4. wasted' \in [PortConn -> Nat]
    BY <1>0, <1>2 DEF WriteLoop, PortTyped
  <2> QED
    BY <1>0, <1>1, <1>2, <2>1, <2>3, <2>4 DEF Typed, PortTyped, WireTyped, WriteLoop
<1>3. CASE WriteLoopCancelled(c)
  <2>1. PortTyped' /\ WireTyped'
    BY <1>0, <1>3 DEF WriteLoopCancelled, PortTyped, WireTyped, tcpvars
  <2> QED
    BY <1>1, <2>1 DEF Typed
<1> QED
  BY <1>2, <1>3 DEF Writer

\* Connections that come and go, and what the other programs write.
LEMMA LinkSteps ==
  ASSUME Typed, NEW c \in Conn,
         \/ Break(c) /\ UNCHANGED proxyvars
         \/ Joins(c) \/ ClientSends(c)
  PROVE  Typed'
<1> USE Sets
<1>0. PortTyped /\ WireTyped /\ ClientTyped /\ UpstreamTyped /\ JobSound
  BY DEF Typed
<1>1. PortTyped' /\ ClientTyped' /\ JobSound'
  BY <1>0 DEF Break, Joins, ClientSends, portvars, proxyvars, clientvars, PortTyped,
              ClientTyped, JobSound, Busy
<1>2. CASE Break(c) /\ UNCHANGED proxyvars
  <2>0. UpstreamTyped'
    BY <1>0, <1>2 DEF UpstreamTyped, proxyvars, tncvars
  <2>1. WireTyped' /\ UpstreamTyped'
    BY <1>0, <1>2, <2>0 DEF Break, WireTyped
  <2> QED
    BY <1>1, <2>1 DEF Typed
<1>3. CASE Joins(c)
  <2>1. WireTyped' /\ UpstreamTyped'
    BY <1>0, <1>3 DEF Joins, WireTyped, UpstreamTyped, tncvars
  <2> QED
    BY <1>1, <2>1 DEF Typed
<1>4. CASE ClientSends(c)
  <2>1. UpstreamTyped' /\ others' \in Nat /\ others' <= MaxOthers
    BY <1>0, <1>4 DEF ClientSends, UpstreamTyped, tncvars
  <2>2. \A cmd \in {"data", "hardware"} :
            Append(up[c], Frame(c, others', cmd)) \in Seq(FrameSet)
    BY <1>0, <2>1, FramesOK, Enqueue DEF WireTyped
  <2>3. WireTyped'
    BY <1>0, <1>4, <2>2 DEF ClientSends, WireTyped
  <2> QED
    BY <1>1, <2>1, <2>3 DEF Typed
<1> QED
  BY <1>2, <1>3, <1>4

LEMMA LoopSteps ==
  ASSUME Typed, NEW c \in Conn,
         Accept(c) \/ ClientFrame(c) \/ ClientFrameQueued(c) \/ ClientEnds(c)
  PROVE  Typed'
<1> USE Sets
<1>0. PortTyped /\ WireTyped /\ ClientTyped /\ UpstreamTyped /\ JobSound
  BY DEF Typed
<1>1. PortTyped'
  BY <1>0 DEF Accept, ClientFrame, ClientFrameQueued, ClientEnds, portvars, PortTyped
<1>2. CASE Accept(c)
  <2>1. WireTyped' /\ UpstreamTyped'
    BY <1>0, <1>2 DEF Accept, WireTyped, UpstreamTyped, tcpvars, tncvars
  <2>2. ClientTyped'
    BY <1>0, <1>2 DEF Accept, ClientTyped
  <2>3. JobSound'
    BY <1>0, <1>2 DEF Accept, ClientTyped, JobSound, Busy
  <2> QED
    BY <1>1, <2>1, <2>2, <2>3 DEF Typed
<1>3. CASE ClientFrame(c)
  <2>1. Head(up[c]) \in FrameSet /\ Tail(up[c]) \in Seq(FrameSet)
    BY <1>0, <1>3, Dequeue DEF ClientFrame, WireTyped
  <2>2. WireTyped' /\ UpstreamTyped'
    BY <1>0, <1>3, <2>1 DEF ClientFrame, WireTyped, UpstreamTyped, tncvars
  <2>3. CASE clientCommandAllowed(Head(up[c]))
    <3>1. Broadcast(c, Head(up[c])) /\ loop' = [loop EXCEPT ![c] = "sharing"]
          /\ clients' = clients
      BY <1>3, <2>3 DEF ClientFrame
    <3>2. ClientTyped'
      BY <1>0, <2>1, <3>1 DEF ClientTyped, Broadcast
    <3>3. JobSound'
      BY <1>0, <2>1, <3>1 DEF ClientTyped, JobSound, Busy, Broadcast
    <3> QED
      BY <1>1, <2>2, <3>2, <3>3 DEF Typed
  <2>4. CASE ~clientCommandAllowed(Head(up[c]))
    BY <1>0, <1>1, <1>3, <2>2, <2>4 DEF ClientFrame, Typed, ClientTyped, JobSound, Busy
  <2> QED
    BY <2>3, <2>4
<1>4. CASE ClientFrameQueued(c)
  <2>1. job[c].frame \in FrameSet
    BY <1>0, <1>4 DEF ClientFrameQueued, JobSound
  <2>2. tx' \in Seq(FrameSet) /\ Len(tx') <= TxSize
    BY <1>0, <1>4, <2>1, Enqueue DEF ClientFrameQueued, UpstreamTyped
  <2>3. WireTyped' /\ UpstreamTyped'
    BY <1>0, <1>4, <2>2 DEF ClientFrameQueued, WireTyped, UpstreamTyped, tcpvars
  <2>4. ClientTyped'
    BY <1>0, <1>4 DEF ClientFrameQueued, ClientTyped, Idle
  <2>5. JobSound'
    BY <1>0, <1>4 DEF ClientFrameQueued, ClientTyped, JobSound, Busy, Idle
  <2> QED
    BY <1>1, <2>3, <2>4, <2>5 DEF Typed
<1>5. CASE ClientEnds(c)
  <2>1. WireTyped' /\ UpstreamTyped'
    BY <1>0, <1>5 DEF ClientEnds, WireTyped, UpstreamTyped, tcpvars, tncvars
  <2>2. ClientTyped'
    BY <1>0, <1>5 DEF ClientEnds, ClientTyped
  <2>3. JobSound'
    BY <1>0, <1>5 DEF ClientEnds, ClientTyped, JobSound, Busy
  <2> QED
    BY <1>1, <2>1, <2>2, <2>3 DEF Typed
<1> QED
  BY <1>2, <1>3, <1>4, <1>5

\* A part of a frame is what a client may be sent.
LEMMA PutOK ==
  ASSUME Typed, NEW c \in Conn, NEW f \in FrameSet, NEW half \in {1, 2}, Put(c, f, half)
  PROVE  down' \in [Conn -> [part : [frame : FrameSet, half : {1, 2}]
                                     \cup {Part(NoFrame, 2)},
                             got : [Source -> Seq(Nat)]]]
<1> DEFINE d == down[c]
           g == [d.got EXCEPT ![f.src] = Append(@, f.n)]
<1>1. d \in [part : [frame : FrameSet, half : {1, 2}] \cup {Part(NoFrame, 2)},
             got : [Source -> Seq(Nat)]]
  BY DEF Typed, WireTyped
<1>2. f.src \in Source /\ f.n \in Nat
  BY DEF FrameSet
<1>3. g \in [Source -> Seq(Nat)]
  <2>1. d.got \in [Source -> Seq(Nat)]
    BY <1>1
  <2>2. Append(d.got[f.src], f.n) \in Seq(Nat)
    BY <1>2, <2>1, Enqueue
  <2> QED
    BY <1>2, <2>1, <2>2
<1>4. Part(f, half) \in [frame : FrameSet, half : {1, 2}]
  BY DEF Part
<1>5. down' = [down EXCEPT ![c] =
                [part |-> Part(f, half), got |-> IF half = 1 THEN g ELSE d.got]]
  BY DEF Put
<1> HIDE DEF d, g
<1> QED
  BY <1>1, <1>3, <1>4, <1>5 DEF Typed, WireTyped

LEMMA BroadcastSteps ==
  ASSUME Typed, NEW b \in Source, Broadcasts(b)
  PROVE  Typed'
<1> USE Sets
<1>0. PortTyped /\ WireTyped /\ ClientTyped /\ UpstreamTyped /\ JobSound
  BY DEF Typed
<1>1. PortTyped' /\ UpstreamTyped' /\ loop' = loop /\ link' = link /\ up' = up
      /\ breaks' = breaks
  BY <1>0 DEF Broadcasts, WriteEnds, WriteStarts, portvars, tncvars, PortTyped,
              UpstreamTyped
<1>2. CASE WriteEnds(b)
  <2>1. job[b].at \in Conn /\ job[b].frame \in FrameSet
    BY <1>0, <1>2 DEF WriteEnds, ClientTyped, JobSound, Busy
  <2>2. WireTyped'
    BY <1>0, <1>1, <1>2, <2>1, PutOK DEF WriteEnds, WireTyped
  <2>3. clients' \subseteq clients /\ job' = [job EXCEPT ![b].at = 0]
    BY <1>2 DEF WriteEnds
  <2>4. ClientTyped'
    BY <1>0, <1>1, <2>3 DEF ClientTyped
  <2>5. JobSound'
    BY <1>0, <1>1, <2>3 DEF ClientTyped, JobSound, Busy
  <2> QED
    BY <1>1, <2>2, <2>4, <2>5 DEF Typed
<1>3. ASSUME NEW c \in Conn, WriteStarts(b, c) PROVE Typed'
  <2>1. job[b].frame \in FrameSet
    BY <1>0, <1>3 DEF WriteStarts, JobSound, Busy
  <2>2. WireTyped'
    BY <1>0, <1>1, <1>3, <2>1, PutOK DEF WriteStarts, WireTyped
  <2>3. clients' = clients /\ c \in job[b].todo
        /\ job' = [job EXCEPT ![b].todo = @ \ {c}, ![b].at = c]
    BY <1>3 DEF WriteStarts
  <2>4. ClientTyped'
    <3> DEFINE old == job[b]
               j == [old EXCEPT !.todo = old.todo \ {c}, !.at = c]
               Jobs == [frame : FrameSet \cup {NoFrame}, todo : SUBSET Conn,
                        at : Conn \cup {0}]
    <3>1. job \in [Source -> Jobs] /\ old \in Jobs
      BY <1>0 DEF ClientTyped
    <3>2. j \in Jobs
      <4> HIDE DEF old
      <4> QED
        BY <3>1
    <3>3. job' = [job EXCEPT ![b] = j]
      BY <2>3, <3>1
    <3>4. job' \in [Source -> Jobs]
      <4> HIDE DEF j, Jobs
      <4> QED
        BY <3>1, <3>2, <3>3
    <3> QED
      BY <1>0, <1>1, <2>3, <3>4 DEF ClientTyped
  <2>5. JobSound'
    BY <1>0, <1>1, <2>1, <2>3 DEF ClientTyped, JobSound, Busy
  <2> QED
    BY <1>1, <2>2, <2>4, <2>5 DEF Typed
<1> QED
  BY <1>2, <1>3 DEF Broadcasts

LEMMA UpstreamSteps ==
  ASSUME Typed,
         \/ ServeUpstream
         \/ \E u \in Up : DialUpstream(u) \/ TNCReadEnds(u) \/ TNCFrame(u) \/ TNCBreaks(u)
  PROVE  Typed'
<1> USE Sets
<1>0. PortTyped /\ WireTyped /\ ClientTyped /\ UpstreamTyped /\ JobSound
  BY DEF Typed
<1>1. PortTyped' /\ loop' = loop /\ clients' = clients
  BY <1>0 DEF ServeUpstream, DialUpstream, TNCReadEnds, TNCFrame, TNCBreaks, portvars,
              clientvars, PortTyped
<1>2. CASE ServeUpstream
  <2>1. Head(tx) \in FrameSet /\ tx' \in Seq(FrameSet) /\ Len(tx') <= TxSize
    BY <1>0, <1>2, Dequeue DEF ServeUpstream, UpstreamTyped
  <2>2. \A c \in Conn : Append(toTNC[c], Head(tx)) \in Seq(FrameSet)
    BY <1>0, <2>1, Enqueue DEF UpstreamTyped
  <2>3. toTNC' \in [Conn -> Seq(FrameSet)]
    <3> DEFINE f == Head(tx)
    <3> HIDE DEF f
    <3>1. Airs(f) \/ toTNC' = toTNC
      BY <1>2 DEF ServeUpstream, f
    <3>2. \A c \in Conn : Append(toTNC[c], f) \in Seq(FrameSet)
      BY <2>2 DEF f
    <3>3. CASE f.src \in Conn
      <4>1. toTNC \in [Conn -> Seq(FrameSet)]
        BY <1>0 DEF UpstreamTyped
      <4>2. PICK q \in Seq(FrameSet) : q = Append(toTNC[f.src], f)
        BY <3>2, <3>3
      <4>3. toTNC' = [toTNC EXCEPT ![f.src] = q] \/ toTNC' = toTNC
        BY <3>1, <4>2 DEF Airs
      <4> QED
        BY ONLY <3>3, <4>1, <4>2, <4>3
    <3>4. CASE f.src \notin Conn
      BY <1>0, <3>1, <3>4 DEF Airs, UpstreamTyped
    <3> QED
      BY <3>3, <3>4
  <2>4. UpstreamTyped'
    BY <1>0, <1>2, <2>1, <2>3 DEF ServeUpstream, UpstreamTyped
  <2> QED
    BY <1>0, <1>1, <1>2, <2>4 DEF ServeUpstream, Typed, WireTyped, ClientTyped, JobSound,
                                  Busy, tcpvars, clientvars
<1>3. ASSUME NEW u \in Up, DialUpstream(u) \/ TNCReadEnds(u) \/ TNCBreaks(u)
      PROVE Typed'
  <2>1. UpstreamTyped'
    BY <1>0, <1>3 DEF DialUpstream, TNCReadEnds, TNCBreaks, UpstreamTyped
  <2>2. WireTyped'
    BY <1>0, <1>3 DEF DialUpstream, TNCReadEnds, TNCBreaks, WireTyped, tcpvars
  <2> QED
    BY <1>0, <1>1, <1>3, <2>1, <2>2 DEF DialUpstream, TNCReadEnds, TNCBreaks, Typed,
            ClientTyped, JobSound, Busy, clientvars
<1>4. ASSUME NEW u \in Up, TNCFrame(u) PROVE Typed'
  <2>1. UpstreamTyped' /\ others' \in Nat /\ others' <= MaxOthers
    BY <1>0, <1>4 DEF TNCFrame, UpstreamTyped, tncvars
  <2>2. Frame(u, others', "data") \in FrameSet
    BY <2>1, FramesOK
  <2>3. WireTyped'
    BY <1>0, <1>4 DEF TNCFrame, WireTyped, tcpvars
  <2>4. ClientTyped'
    BY <1>0, <1>1, <1>4, <2>2 DEF TNCFrame, Broadcast, ClientTyped
  <2>5. JobSound'
    BY <1>0, <1>1, <1>4, <2>2 DEF TNCFrame, Broadcast, ClientTyped, JobSound, Busy
  <2> QED
    BY <1>1, <2>1, <2>3, <2>4, <2>5 DEF Typed
<1> QED
  BY <1>2, <1>3, <1>4

LEMMA NextTyped == Typed /\ [Next]_vars => Typed'
<1> USE Sets
<1> SUFFICES ASSUME Typed, [Next]_vars PROVE Typed'
  OBVIOUS
<1>1. CASE UNCHANGED vars
  BY <1>1 DEF vars, portvars, tcpvars, proxyvars, clientvars, tncvars, Typed, PortTyped,
              WireTyped, ClientTyped, UpstreamTyped, JobSound, Busy
<1>2. CASE Run \/ ((Send \/ RestartPort) /\ UNCHANGED proxyvars)
  BY <1>2, PortSteps DEF Run
<1>3. CASE Upstream \/ \E u \in Up : TNCReadEnds(u) \/ TNCFrame(u) \/ TNCBreaks(u)
  BY <1>3, UpstreamSteps DEF Upstream
<1>4. CASE \/ \E c \in Conn : Break(c) /\ UNCHANGED proxyvars
           \/ \E c \in Ext : Joins(c) \/ ClientSends(c)
  BY <1>4, LinkSteps
<1>5. CASE \E c \in PortConn : Writer(c)
  BY <1>5, WriterSteps
<1>6. CASE \/ \E c \in Conn : ClientLoop(c)
           \/ \E u \in Up : Broadcasts(u)
  BY <1>6, LoopSteps, BroadcastSteps DEF ClientLoop
<1> QED
  BY <1>1, <1>2, <1>3, <1>4, <1>5, <1>6 DEF Next

\* Every queue keeps its bound, every connection is in a state of its own, and
\* frames are sent only to connections the accept loop has taken.
THEOREM TypeCorrect == Spec => []TypeOK
<1>1. Typed => TypeOK
  <2> SUFFICES ASSUME Typed PROVE TypeOK
    OBVIOUS
  <2>1. \A c \in Conn : up[c] \in Seq(FrameSet) /\ down[c].got \in [Source -> Seq(Nat)]
    BY DEF Typed, WireTyped
  <2>2. \A b \in Source : job[b].todo \subseteq Conn /\ job[b].at \in Conn \cup {0}
    BY DEF Typed, ClientTyped
  <2> QED
    BY <2>1, <2>2 DEF Typed, PortTyped, WireTyped, ClientTyped, UpstreamTyped, TypeOK
<1> QED
  BY <1>1, InitTyped, NextTyped, PTL DEF Spec

-----------------------------------------------------------------------------
(* Stale writers *)

\* A writer whose connection is not the port's any more is at a broken one, and
\* ends with the first packet it takes there.
WritersKnown ==
    \A c \in PortConn :
        /\ cur = c => link[c] # "unused"
        /\ link[c] = "unused" => writer[c] = "off" /\ wasted[c] = 0
        /\ writer[c] # "off" => wasted[c] = 0 /\ (cur = c \/ link[c] = "broken")
        /\ wasted[c] \in {0, 1}

LEMMA PortKeepsWriters ==
  ASSUME Typed, WritersKnown,
         \/ Send \/ RestartPort \/ RunConnEnds
         \/ \E c \in PortConn : Dial(c) \/ WriteLoop(c) \/ WriteLoopCancelled(c)
         \/ \E c \in Conn : Break(c)
  PROVE  WritersKnown'
<1> USE Sets DEF WritersKnown
<1>0. PortTyped /\ WireTyped
  BY DEF Typed
<1>1. CASE Send
  BY <1>1 DEF Send, tcpvars
<1>2. CASE RestartPort
  BY <1>0, <1>2 DEF RestartPort, PortTyped, WireTyped
<1>3. CASE RunConnEnds
  BY <1>0, <1>3 DEF RunConnEnds, tcpvars, PortTyped, WireTyped
<1>4. ASSUME NEW c \in PortConn, Dial(c) PROVE WritersKnown'
  BY <1>0, <1>4 DEF Dial, PortTyped, WireTyped
<1>5. ASSUME NEW c \in PortConn, WriteLoop(c) PROVE WritersKnown'
  <2>1. /\ writer[c] # "off"
        /\ wasted' = [wasted EXCEPT ![c] = IF cur = c THEN @ ELSE @ + 1]
        /\ cur' = cur /\ link' = link
    BY <1>5 DEF WriteLoop
  <2>2. writer' = [writer EXCEPT ![c] = "loop"] \/ writer' = [writer EXCEPT ![c] = "off"]
    BY <1>5 DEF WriteLoop, Writes
  <2>3. cur # c => writer' = [writer EXCEPT ![c] = "off"]
    BY <1>0, <1>5, <2>1 DEF WriteLoop, Writes
  <2>4. \A d \in PortConn \ {c} : writer'[d] = writer[d] /\ wasted'[d] = wasted[d]
    BY <1>0, <2>1, <2>2 DEF PortTyped
  <2>5. wasted'[c] = IF cur = c THEN 0 ELSE 1
    BY <1>0, <2>1 DEF PortTyped
  <2>6. cur # c => writer'[c] = "off"
    BY <1>0, <2>3 DEF PortTyped
  <2> QED
    BY <2>1, <2>4, <2>5, <2>6
<1>6. ASSUME NEW c \in PortConn, WriteLoopCancelled(c) PROVE WritersKnown'
  BY <1>0, <1>6 DEF WriteLoopCancelled, tcpvars, PortTyped, WireTyped
<1>7. ASSUME NEW c \in Conn, Break(c) PROVE WritersKnown'
  BY <1>0, <1>7 DEF Break, portvars, PortTyped, WireTyped
<1> QED
  BY <1>1, <1>2, <1>3, <1>4, <1>5, <1>6, <1>7

LEMMA OthersKeepWriters ==
  ASSUME Typed, WritersKnown,
         \/ UNCHANGED vars \/ Upstream
         \/ \E c \in Ext : Joins(c) \/ ClientSends(c)
         \/ \E c \in Conn : ClientLoop(c)
         \/ \E u \in Up : Broadcasts(u) \/ TNCReadEnds(u) \/ TNCFrame(u) \/ TNCBreaks(u)
  PROVE  WritersKnown'
<1>1. cur' = cur /\ writer' = writer /\ wasted' = wasted
  BY DEF vars, portvars, Upstream, ServeUpstream, DialUpstream, Joins, ClientSends,
         ClientLoop, Accept, ClientFrame, ClientFrameQueued, ClientEnds, Broadcasts,
         WriteStarts, WriteEnds, TNCReadEnds, TNCFrame, TNCBreaks
<1>2. \A c \in PortConn : link'[c] = link[c]
  <2>1. CASE \E e \in Ext : Joins(e)
    BY <2>1, Sets DEF Joins, Typed, WireTyped
  <2>2. CASE link' = link
    BY <2>2
  <2> QED
    BY <2>1, <2>2
    DEF vars, tcpvars, Upstream, ServeUpstream, DialUpstream, ClientSends, ClientLoop,
        Accept, ClientFrame, ClientFrameQueued, ClientEnds, Broadcasts, WriteStarts,
        WriteEnds, TNCReadEnds, TNCFrame, TNCBreaks
<1> QED
  BY <1>1, <1>2 DEF WritersKnown

\* However often the port reconnects or is restarted, each connection it has
\* given up costs one packet at most.
THEOREM StaleWritersEnd == Spec => []ReconnectCostsOnePacket
<1>1. Init => WritersKnown
  BY Sets DEF Init, PortInit, WritersKnown
<1>2. Typed /\ WritersKnown /\ [Next]_vars => WritersKnown'
  BY PortKeepsWriters, OthersKeepWriters DEF Next, Run, Writer
<1>3. WritersKnown => ReconnectCostsOnePacket
  BY DEF WritersKnown, ReconnectCostsOnePacket
<1> QED
  BY <1>1, <1>2, <1>3, InitTyped, NextTyped, PTL DEF Spec

-----------------------------------------------------------------------------
(* Whole frames *)

\* Broadcasts do not share a client, and write to connections that have been
\* made: no connection a broadcast is about can be made anew.
Exclusive ==
    /\ \A b1, b2 \in Source : job[b1].at # 0 /\ job[b1].at = job[b2].at => b1 = b2
    /\ \A c \in clients : link[c] # "unused"
    /\ \A b \in Source : /\ \A c \in job[b].todo : link[c] # "unused"
                         /\ job[b].at # 0 => link[job[b].at] # "unused"

\* An open connection that has got half a frame gets it from the broadcast that
\* holds its mutex; one that was not made yet has got none.
Halves ==
    \A c \in Conn :
        /\ link[c] = "unused" => down[c].part.half = 2
        /\ link[c] = "open" =>
            /\ down[c].part.half = 1 => Locked(c)
            /\ \A b \in Source : job[b].at = c => down[c].part = Part(job[b].frame, 1)

Parted == Exclusive /\ Halves

WholeStep(c) ==
    \/ down'[c].part = down[c].part
    \/ down'[c].part.half = 1 /\ down[c].part.half = 2
    \/ down'[c].part = [down[c].part EXCEPT !.half = 2]

\* A connection that was made is not made anew, one that is lost stays lost.
LinkSound ==
    /\ link' \in [Conn -> {"unused", "open", "broken"}]
    /\ \A c \in Conn : /\ link[c] # "unused" => link'[c] # "unused"
                       /\ link[c] = "broken" => link'[c] # "open"

\* Steps that write nothing to a client and start no broadcast.
LEMMA QuietSteps ==
  ASSUME Typed, Parted, job' = job, down' = down, LinkSound,
         \A c \in clients' : c \in clients \/ link'[c] # "unused", clients' \subseteq Conn
  PROVE  Parted' /\ \A c \in Conn : WholeStep(c)
<1>0. ClientTyped /\ Exclusive /\ Halves /\ clients \subseteq Conn
  BY DEF Typed, ClientTyped, Parted
<1>1. \A c \in Conn : link[c] # "unused" => link'[c] # "unused"
  BY DEF LinkSound
<1>2. Exclusive'
  <2>1. \A b \in Source : /\ \A c \in job[b].todo : c \in Conn
                          /\ job[b].at # 0 => job[b].at \in Conn
    BY <1>0 DEF ClientTyped
  <2>2. \A c \in clients' : link'[c] # "unused"
    BY <1>0, <1>1 DEF Exclusive
  <2>3. \A b \in Source : /\ \A c \in job[b].todo : link'[c] # "unused"
                          /\ job[b].at # 0 => link'[job[b].at] # "unused"
    BY <1>0, <1>1, <2>1 DEF Exclusive
  <2>4. \A b1, b2 \in Source :
            job'[b1].at # 0 /\ job'[b1].at = job'[b2].at => b1 = b2
    BY <1>0 DEF Exclusive
  <2> QED
    BY <2>2, <2>3, <2>4 DEF Exclusive
<1>3. Halves'
  <2> SUFFICES ASSUME NEW c \in Conn
               PROVE  /\ link'[c] = "unused" => down[c].part.half = 2
                      /\ link'[c] = "open" =>
                          /\ down[c].part.half = 1 => Locked(c)
                          /\ \A b \in Source : job[b].at = c =>
                                down[c].part = Part(job[b].frame, 1)
    BY DEF Halves, Locked
  <2>1. link[c] \in {"unused", "open", "broken"}
    BY DEF Typed, WireTyped
  <2>2. CASE link[c] = "unused"
    <3>1. \A b \in Source : job[b].at # c
      BY <1>0, <2>2, Sets DEF Exclusive
    <3> QED
      BY <1>0, <2>2, <3>1 DEF Halves
  <2>3. CASE link[c] # "unused"
    BY <1>0, <2>1, <2>3 DEF LinkSound, Halves
  <2> QED
    BY <2>2, <2>3
<1> QED
  BY <1>2, <1>3 DEF Parted, WholeStep

\* A job that is given up or begun anew while it holds no mutex.
LEMMA JobSteps ==
  ASSUME Typed, Parted, NEW b \in Source, NEW j,
         j.at = 0, job[b].at = 0, j.todo \subseteq clients,
         job' = [job EXCEPT ![b] = j], down' = down, link' = link, clients' = clients
  PROVE  Parted' /\ \A c \in Conn : WholeStep(c)
<1>0. ClientTyped /\ Exclusive /\ Halves
  BY DEF Typed, Parted
<1>1. job'[b] = j /\ \A d \in Source \ {b} : job'[d] = job[d]
  BY <1>0 DEF ClientTyped
<1>2. Exclusive'
  BY <1>0, <1>1 DEF Exclusive
<1>3. Halves'
  <2> SUFFICES ASSUME NEW c \in Conn
               PROVE  /\ link[c] = "unused" => down[c].part.half = 2
                      /\ link[c] = "open" =>
                           /\ down[c].part.half = 1 => \E a \in Source : job'[a].at = c
                           /\ \A a \in Source : job'[a].at = c =>
                                down[c].part = Part(job'[a].frame, 1)
    BY DEF Halves, Locked
  <2>1. c # 0
    BY Sets
  <2>2. \A a \in Source : job[a].at = c \/ job'[a].at = c => a # b /\ job'[a] = job[a]
    BY <1>1, <2>1
  <2> QED
    BY <1>0, <2>2 DEF Halves, Locked
<1> QED
  BY <1>2, <1>3 DEF Parted, WholeStep

LEMMA StartSteps ==
  ASSUME Typed, Parted, NEW b \in Source, NEW c \in Conn, WriteStarts(b, c)
  PROVE  Parted' /\ \A d \in Conn : WholeStep(d)
<1>0. ClientTyped /\ WireTyped /\ Exclusive /\ Halves
  BY DEF Typed, Parted
<1>1. /\ job[b].at = 0 /\ c \in job[b].todo /\ ~Locked(c)
      /\ job' = [job EXCEPT ![b].todo = @ \ {c}, ![b].at = c]
      /\ link' = link /\ clients' = clients
  BY DEF WriteStarts
<1>2. /\ job'[b].at = c /\ job'[b].todo \subseteq job[b].todo
      /\ job'[b].frame = job[b].frame
      /\ \A d \in Source \ {b} : job'[d] = job[d]
  BY <1>0, <1>1 DEF ClientTyped
<1>3. \A d \in Conn \ {c} : down'[d] = down[d]
  BY <1>0 DEF WriteStarts, Put, WireTyped
<1>4. link[c] = "open" => down'[c].part = Part(job[b].frame, 1)
  BY <1>0, SMTT(30) DEF WriteStarts, Put, WireTyped
<1>5. link[c] # "open" => down'[c] = down[c]
  BY DEF WriteStarts
<1>6. link[c] = "open" => down[c].part.half = 2
  <2>1. down[c].part.half \in {1, 2}
    BY <1>0 DEF WireTyped, Part
  <2> QED
    BY <1>0, <1>1, <2>1 DEF Halves
<1>7. Exclusive'
  <2>1. \A d \in Source \ {b} : job'[d].at # c
    BY <1>1, <1>2 DEF Locked
  <2>2. \A b1, b2 \in Source : job'[b1].at # 0 /\ job'[b1].at = job'[b2].at => b1 = b2
    BY <1>0, <1>2, <2>1 DEF Exclusive
  <2>3. link[c] # "unused"
    BY <1>0, <1>1 DEF Exclusive
  <2>4. \A d \in Source : /\ \A e \in job'[d].todo : link'[e] # "unused"
                          /\ job'[d].at # 0 => link'[job'[d].at] # "unused"
    BY <1>0, <1>1, <1>2, <2>3 DEF Exclusive
  <2> QED
    BY <1>0, <1>1, <2>2, <2>4 DEF Exclusive
<1>8. Halves'
  <2> SUFFICES ASSUME NEW d \in Conn
               PROVE  /\ link'[d] = "unused" => down'[d].part.half = 2
                      /\ link'[d] = "open" =>
                          /\ down'[d].part.half = 1 => Locked(d)'
                          /\ \A e \in Source : job'[e].at = d =>
                                down'[d].part = Part(job'[e].frame, 1)
    BY DEF Halves
  <2>1. CASE d = c
    <3>1. \A e \in Source : job'[e].at = c => e = b
      BY <1>1, <1>2 DEF Locked
    <3>2. link'[c] = link[c] /\ link[c] # "unused"
      BY <1>0, <1>1 DEF Exclusive
    <3>3. Locked(c)'
      BY <1>2 DEF Locked
    <3>4. link[c] = "open" => \A e \in Source : job'[e].at = c =>
                                down'[c].part = Part(job'[e].frame, 1)
      BY <1>2, <1>4, <3>1
    <3> QED
      BY <2>1, <3>2, <3>3, <3>4
  <2>2. CASE d # c
    <3>1. Locked(d)' <=> Locked(d)
      BY <1>1, <1>2, <2>2, Sets DEF Locked
    <3>2. \A e \in Source : job'[e].at = d => e # b /\ job'[e] = job[e]
      BY <1>2, <2>2
    <3>3. link'[d] = link[d] /\ down'[d] = down[d]
      BY <1>1, <1>3, <2>2
    <3>4. /\ link[d] = "unused" => down[d].part.half = 2
          /\ link[d] = "open" =>
              /\ down[d].part.half = 1 => Locked(d)
              /\ \A e \in Source : job[e].at = d => down[d].part = Part(job[e].frame, 1)
      BY <1>0 DEF Halves
    <3> QED
      BY <3>1, <3>2, <3>3, <3>4
  <2> QED
    BY <2>1, <2>2
<1>9. \A d \in Conn : WholeStep(d)
  BY <1>3, <1>4, <1>5, <1>6 DEF WholeStep, Part
<1> QED
  BY <1>7, <1>8, <1>9 DEF Parted

LEMMA EndSteps ==
  ASSUME Typed, Parted, NEW b \in Source, WriteEnds(b)
  PROVE  Parted' /\ \A d \in Conn : WholeStep(d)
<1> DEFINE c == job[b].at
<1>0. ClientTyped /\ WireTyped /\ Exclusive /\ Halves /\ c \in Conn
  BY DEF Typed, Parted, WriteEnds, ClientTyped
<1>1. /\ job' = [job EXCEPT ![b].at = 0]
      /\ link' = link /\ clients' \subseteq clients
  BY DEF WriteEnds
<1>2. /\ job'[b].at = 0 /\ job'[b].todo = job[b].todo
      /\ \A d \in Source \ {b} : job'[d] = job[d]
  BY <1>0, <1>1 DEF ClientTyped
<1>3. \A d \in Conn \ {c} : down'[d] = down[d]
  BY <1>0 DEF WriteEnds, Put, WireTyped
<1>4. link[c] = "open" => down'[c].part = Part(job[b].frame, 2)
  BY <1>0 DEF WriteEnds, Put, WireTyped
<1>5. link[c] # "open" => down'[c] = down[c]
  BY DEF WriteEnds
<1>6. link[c] = "open" => down[c].part = Part(job[b].frame, 1)
  BY <1>0 DEF Halves
<1>7. Exclusive'
  BY <1>0, <1>1, <1>2, Sets DEF Exclusive
<1>8. Halves'
  <2> SUFFICES ASSUME NEW d \in Conn
               PROVE  /\ link'[d] = "unused" => down'[d].part.half = 2
                      /\ link'[d] = "open" =>
                          /\ down'[d].part.half = 1 => Locked(d)'
                          /\ \A e \in Source : job'[e].at = d =>
                                down'[d].part = Part(job'[e].frame, 1)
    BY DEF Halves
  <2>1. CASE d = c
    <3>1. \A e \in Source : job'[e].at # c
      BY <1>0, <1>2, Sets DEF Exclusive
    <3>2. link[c] # "unused"
      BY <1>0, Sets DEF Exclusive
    <3>3. link[c] = "open" => down'[c].part.half = 2
      BY <1>4 DEF Part
    <3> QED
      BY <1>1, <2>1, <3>1, <3>2, <3>3
  <2>2. CASE d # c
    <3>1. Locked(d)' <=> Locked(d)
      BY <1>1, <1>2, <2>2, Sets DEF Locked
    <3>2. \A e \in Source : job'[e].at = d => e # b /\ job'[e] = job[e]
      BY <1>2, Sets
    <3>3. link'[d] = link[d] /\ down'[d] = down[d]
      BY <1>1, <1>3, <2>2
    <3>4. /\ link[d] = "unused" => down[d].part.half = 2
          /\ link[d] = "open" =>
              /\ down[d].part.half = 1 => Locked(d)
              /\ \A e \in Source : job[e].at = d => down[d].part = Part(job[e].frame, 1)
      BY <1>0 DEF Halves
    <3> QED
      BY <3>1, <3>2, <3>3, <3>4
  <2> QED
    BY <2>1, <2>2
<1>9. \A d \in Conn : WholeStep(d)
  BY <1>3, <1>4, <1>5, <1>6 DEF WholeStep, Part
<1> QED
  BY <1>7, <1>8, <1>9 DEF Parted

\* Steps of the port and of the connections.
LEMMA PortKeepsParts ==
  ASSUME Typed, Parted,
         \/ UNCHANGED vars \/ Run
         \/ (Send \/ RestartPort \/ \E c \in Conn : Break(c)) /\ UNCHANGED proxyvars
         \/ \E c \in PortConn : Writer(c)
         \/ \E c \in Ext : Joins(c) \/ ClientSends(c)
  PROVE  Parted' /\ \A d \in Conn : WholeStep(d)
<1> USE Sets
<1>1. job' = job /\ down' = down /\ clients' = clients
  BY DEF vars, tcpvars, proxyvars, clientvars, Run, RunConnEnds, Dial, Send, RestartPort,
         Break, Writer, WriteLoop, WriteLoopCancelled, Joins, ClientSends
<1>2. LinkSound
  <2>0. link \in [Conn -> {"unused", "open", "broken"}] /\ cur \in PortConn \cup {0}
    BY DEF Typed, WireTyped, PortTyped
  <2>1. CASE RestartPort
    BY <2>0, <2>1 DEF RestartPort, LinkSound
  <2>2. CASE \/ \E c \in PortConn : Dial(c)
             \/ \E c \in Conn : Break(c)
             \/ \E c \in Ext : Joins(c)
    BY <2>0, <2>2 DEF Dial, Break, Joins, LinkSound
  <2>3. CASE link' = link
    BY <2>0, <2>3 DEF LinkSound
  <2> QED
    BY <2>1, <2>2, <2>3
    DEF vars, tcpvars, Run, RunConnEnds, Send, Writer, WriteLoop, WriteLoopCancelled,
        ClientSends
<1>3. clients \subseteq Conn
  BY DEF Typed, ClientTyped
<1> QED
  BY <1>1, <1>2, <1>3, QuietSteps

\* Steps of a client's loop and of the TNC's goroutines.
LEMMA ProxyKeepsParts ==
  ASSUME Typed, Parted,
         \/ \E c \in Conn : Accept(c) \/ ClientFrame(c) \/ ClientFrameQueued(c)
                            \/ ClientEnds(c)
         \/ Upstream
         \/ \E u \in Up : TNCReadEnds(u) \/ TNCFrame(u) \/ TNCBreaks(u)
  PROVE  Parted' /\ \A d \in Conn : WholeStep(d)
<1> USE Sets
<1>0. ClientTyped /\ WireTyped /\ JobSound /\ Exclusive
  BY DEF Typed, Parted
<1>1. down' = down /\ link' = link /\ LinkSound
  BY <1>0 DEF Accept, ClientFrame, ClientFrameQueued, ClientEnds, Upstream, ServeUpstream,
         DialUpstream, TNCReadEnds, TNCFrame, TNCBreaks, tcpvars, LinkSound, WireTyped
<1>2. ASSUME NEW c \in Conn, ClientFrame(c), job' # job
      PROVE  Parted' /\ \A d \in Conn : WholeStep(d)
  <2>1. ~Busy(c) /\ clients' = clients /\ Broadcast(c, Head(up[c]))
    BY <1>0, <1>2 DEF ClientFrame, JobSound
  <2> QED
    BY <1>1, <2>1, JobSteps DEF Broadcast, Busy
<1>3. ASSUME NEW c \in Conn, ClientFrameQueued(c)
      PROVE  Parted' /\ \A d \in Conn : WholeStep(d)
  <2>1. ~Busy(c) /\ clients' = clients /\ job' = [job EXCEPT ![c] = Idle]
    BY <1>3 DEF ClientFrameQueued
  <2> QED
    BY <1>1, <2>1, JobSteps DEF Idle, Busy
<1>4. ASSUME NEW u \in Up, TNCFrame(u)
      PROVE  Parted' /\ \A d \in Conn : WholeStep(d)
  <2>1. ~Busy(u) /\ clients' = clients /\ Broadcast(u, Frame(u, others', "data"))
    BY <1>4 DEF TNCFrame
  <2> QED
    BY <1>1, <2>1, JobSteps DEF Broadcast, Busy
<1>5. CASE job' = job
  <2>1. \A c \in clients' : c \in clients \/ link'[c] # "unused"
    BY <1>0 DEF Accept, ClientFrame, ClientFrameQueued, ClientEnds, Upstream,
         ServeUpstream, DialUpstream, TNCReadEnds, TNCFrame, TNCBreaks, tcpvars, clientvars
  <2>2. clients' \subseteq Conn
    <3>1. (\E c \in Conn : clients' = clients \cup {c}) \/ clients' \subseteq clients
      BY DEF Accept, ClientFrame, ClientFrameQueued, ClientEnds, Upstream, ServeUpstream,
             DialUpstream, TNCReadEnds, TNCFrame, TNCBreaks, clientvars
    <3> QED
      BY ONLY <1>0, <3>1 DEF ClientTyped
  <2> QED
    BY <1>1, <1>5, <2>1, <2>2, QuietSteps
<1> QED
  BY <1>2, <1>3, <1>4, <1>5
  DEF Accept, ClientEnds, Upstream, ServeUpstream, DialUpstream, TNCReadEnds, TNCBreaks,
      clientvars

LEMMA NextParted ==
  ASSUME Typed, Parted, [Next]_vars
  PROVE  Parted' /\ \A d \in Conn : WholeStep(d)
<1>1. CASE \E b \in Source : Broadcasts(b)
  BY <1>1, StartSteps, EndSteps DEF Broadcasts
<1> QED
  BY <1>1, Sets, PortKeepsParts, ProxyKeepsParts DEF Next, ClientLoop, Broadcasts

\* A client gets complete frames: whoever writes to it, however many at once,
\* and whatever breaks, the beginning of a frame is followed by its rest.
THEOREM FramesAreWhole == Spec => WholeFrames
<1>1. Init => Parted
  BY Sets DEF Init, PortInit, Parted, Exclusive, Halves, Locked, Idle, NoTraffic, Part
<1>2. Typed /\ Parted /\ [Next]_vars => Parted' /\ \A d \in Conn : WholeStep(d)
  BY NextParted
<1>3. (\A d \in Conn : WholeStep(d)) =>
        \A c \in Conn :
          \/ down'[c].part = down[c].part
          \/ down'[c].part.half = 1 /\ down[c].part.half = 2
          \/ down'[c].part = [down[c].part EXCEPT !.half = 2]
  BY DEF WholeStep
<1> QED
  BY <1>1, <1>2, <1>3, InitTyped, NextTyped, PTL DEF Spec, WholeFrames
-----------------------------------------------------------------------------
(* The order of frames *)

\* Frames of one source are in the order of their numbers.
Sorted(q) ==
    \A i, j \in DOMAIN q : i < j /\ q[i].src = q[j].src => q[i].n < q[j].n

\* What b has still to read or to be given is above n.
Ahead(n, b) ==
    /\ b \in Conn => \A f \in ToSet(up[b]) : n < f.n
    /\ b \in PortConn => n <= sent /\ \A p \in ToSet(queue) : n < p
    /\ b \notin PortConn => n <= others

Held(b) == job[b].frame # NoFrame

\* n belongs to a frame of b that has left its broadcast behind.
Shared(n, b) == Ahead(n, b) /\ (Held(b) => n < job[b].frame.n)

QueueOrder == InOrder(queue) /\ \A p \in ToSet(queue) : p <= sent

UpOrder ==
    \A c \in Conn :
        /\ Sorted(up[c])
        /\ \A f \in ToSet(up[c]) :
              /\ f.src = c
              /\ c \in PortConn => f.n <= sent /\ \A p \in ToSet(queue) : f.n < p
              /\ c \notin PortConn => f.n <= others

JobOrder ==
    \A b \in Source :
        /\ b \notin job[b].todo
        /\ Held(b) => /\ job[b].frame.src = b /\ Ahead(job[b].frame.n, b)
                      /\ job[b].frame.cmd # "hardware"

TxOrder ==
    /\ Sorted(tx)
    /\ \A f \in ToSet(tx) : /\ f.src \in Conn /\ f.cmd # "hardware"
                            /\ Shared(f.n, f.src)

AirOrder ==
    \A c \in Conn :
        /\ Sorted(toTNC[c])
        /\ \A f \in ToSet(toTNC[c]) :
              /\ f.src = c /\ f.cmd # "hardware" /\ Shared(f.n, c)
              /\ \A g \in ToSet(tx) : g.src = c => f.n < g.n

GotOrder ==
    \A d \in Conn :
        /\ down[d].got[d] = <<>>
        /\ \A b \in Source :
              /\ InOrder(down[d].got[b])
              /\ \A n \in ToSet(down[d].got[b]) :
                    Ahead(n, b) /\ (d \in job[b].todo => n < job[b].frame.n)

\* The packets of the port that are on their way on a connection, or arrived.
Carried(c) ==
    {f \in ToSet(up[c]) \cup ToSet(tx) \cup ToSet(toTNC[c]) \cup {job[c].frame} : f.src = c}

Apart ==
    \A c, d \in PortConn : c # d => \A f \in Carried(c), g \in Carried(d) : f.n # g.n

Ordered == QueueOrder /\ UpOrder /\ JobOrder /\ TxOrder /\ AirOrder /\ GotOrder /\ Apart

\* Elements of a sequence that loses its head, and of one that grows.
LEMMA TailElements ==
  ASSUME NEW S, NEW q \in Seq(S), q # <<>>
  PROVE  /\ Head(q) \in ToSet(q) /\ ToSet(Tail(q)) \subseteq ToSet(q)
         /\ 1 \in DOMAIN q /\ q[1] = Head(q)
         /\ \A i \in DOMAIN Tail(q) : i + 1 \in DOMAIN q /\ Tail(q)[i] = q[i + 1]
<1>1. Len(q) \in Nat \ {0} /\ DOMAIN q = 1..Len(q) /\ Head(q) = q[1]
  BY EmptySeq, LenProperties
<1>2. Tail(q) \in Seq(S) /\ Len(Tail(q)) = Len(q) - 1
      /\ \A i \in 1..Len(Tail(q)) : Tail(q)[i] = q[i + 1]
  BY HeadTailProperties
<1>3. DOMAIN Tail(q) = 1..(Len(q) - 1)
  BY <1>1, <1>2, LenProperties
<1>4. \A i \in DOMAIN Tail(q) : i + 1 \in DOMAIN q /\ Tail(q)[i] = q[i + 1]
  BY <1>1, <1>2, <1>3
<1> QED
  BY <1>1, <1>4 DEF ToSet

LEMMA AppendElements ==
  ASSUME NEW S, NEW q \in Seq(S), NEW x \in S
  PROVE  /\ DOMAIN Append(q, x) = 1..(Len(q) + 1) /\ DOMAIN q = 1..Len(q)
         /\ Len(q) \in Nat
         /\ \A i \in DOMAIN q : Append(q, x)[i] = q[i]
         /\ Append(q, x)[Len(q) + 1] = x
         /\ ToSet(Append(q, x)) = ToSet(q) \cup {x}
<1>1. Append(q, x) \in Seq(S) /\ Len(Append(q, x)) = Len(q) + 1
      /\ (\A i \in 1..Len(q) : Append(q, x)[i] = q[i])
      /\ Append(q, x)[Len(q) + 1] = x
  BY AppendProperties
<1>2. Len(q) \in Nat /\ DOMAIN q = 1..Len(q) /\ DOMAIN Append(q, x) = 1..(Len(q) + 1)
  BY <1>1, LenProperties
<1>3. \A i \in DOMAIN Append(q, x) : i \in DOMAIN q \/ i = Len(q) + 1
  BY <1>2
<1> QED
  BY <1>1, <1>2, <1>3 DEF ToSet

LEMMA SortedTail ==
  ASSUME NEW q \in Seq(FrameSet), q # <<>>, Sorted(q)
  PROVE  /\ Sorted(Tail(q))
         /\ \A f \in ToSet(Tail(q)) : f.src = Head(q).src => Head(q).n < f.n
<1>1. /\ 1 \in DOMAIN q /\ q[1] = Head(q)
      /\ \A i \in DOMAIN Tail(q) : i + 1 \in DOMAIN q /\ Tail(q)[i] = q[i + 1]
  BY TailElements
<1>2. DOMAIN Tail(q) \subseteq Nat \ {0}
  BY HeadTailProperties, LenProperties
<1>3. Sorted(Tail(q))
  BY <1>1, <1>2 DEF Sorted
<1>4. \A i \in DOMAIN Tail(q) : Tail(q)[i].src = Head(q).src => Head(q).n < Tail(q)[i].n
  BY <1>1, <1>2 DEF Sorted
<1> QED
  BY <1>3, <1>4 DEF ToSet

LEMMA SortedAppend ==
  ASSUME NEW q \in Seq(FrameSet), NEW g \in FrameSet, Sorted(q),
         \A f \in ToSet(q) : f.src = g.src => f.n < g.n
  PROVE  Sorted(Append(q, g))
<1>1. /\ DOMAIN Append(q, g) = 1..(Len(q) + 1) /\ DOMAIN q = 1..Len(q) /\ Len(q) \in Nat
      /\ \A i \in DOMAIN q : Append(q, g)[i] = q[i]
      /\ Append(q, g)[Len(q) + 1] = g
  BY AppendElements
<1>2. SUFFICES ASSUME NEW i \in 1..(Len(q) + 1), NEW j \in 1..(Len(q) + 1), i < j,
                      Append(q, g)[i].src = Append(q, g)[j].src
               PROVE  Append(q, g)[i].n < Append(q, g)[j].n
  BY <1>1 DEF Sorted
<1>3. i \in DOMAIN q /\ (j \in DOMAIN q \/ j = Len(q) + 1)
  BY <1>1, <1>2
<1>4. q[i] \in ToSet(q)
  BY <1>3 DEF ToSet
<1> QED
  BY <1>1, <1>2, <1>3, <1>4 DEF Sorted

LEMMA InOrderTail ==
  ASSUME NEW S, NEW q \in Seq(S), q # <<>>, InOrder(q)
  PROVE  InOrder(Tail(q)) /\ \A n \in ToSet(Tail(q)) : Head(q) < n
<1>1. /\ 1 \in DOMAIN q /\ q[1] = Head(q)
      /\ \A i \in DOMAIN Tail(q) : i + 1 \in DOMAIN q /\ Tail(q)[i] = q[i + 1]
  BY TailElements
<1>2. DOMAIN Tail(q) \subseteq Nat \ {0}
  BY HeadTailProperties, LenProperties
<1>3. InOrder(Tail(q)) /\ \A i \in DOMAIN Tail(q) : Head(q) < Tail(q)[i]
  BY <1>1, <1>2 DEF InOrder
<1> QED
  BY <1>3 DEF ToSet

LEMMA InOrderAppend ==
  ASSUME NEW S, NEW q \in Seq(S), NEW x \in S, InOrder(q), \A n \in ToSet(q) : n < x
  PROVE  InOrder(Append(q, x))
<1>1. /\ DOMAIN Append(q, x) = 1..(Len(q) + 1) /\ DOMAIN q = 1..Len(q) /\ Len(q) \in Nat
      /\ \A i \in DOMAIN q : Append(q, x)[i] = q[i]
      /\ Append(q, x)[Len(q) + 1] = x
  BY AppendElements
<1>2. SUFFICES ASSUME NEW i \in 1..(Len(q) + 1), NEW j \in 1..(Len(q) + 1), i < j
               PROVE  Append(q, x)[i] < Append(q, x)[j]
  BY <1>1 DEF InOrder
<1>3. i \in DOMAIN q /\ (j \in DOMAIN q \/ j = Len(q) + 1)
  BY <1>1, <1>2
<1>4. q[i] \in ToSet(q)
  BY <1>3 DEF ToSet
<1> QED
  BY <1>1, <1>2, <1>3, <1>4 DEF InOrder

\* What the types say about everything that is under way.
LEMMA Elements ==
  ASSUME Typed
  PROVE  /\ \A c \in Conn : /\ up[c] \in Seq(FrameSet) /\ ToSet(up[c]) \subseteq FrameSet
                            /\ toTNC[c] \in Seq(FrameSet)
                            /\ ToSet(toTNC[c]) \subseteq FrameSet
                            /\ loop[c] = "sharing" => Held(c)
         /\ tx \in Seq(FrameSet) /\ ToSet(tx) \subseteq FrameSet
         /\ \A d \in Conn, b \in Source : /\ down[d].got[b] \in Seq(Nat)
                                          /\ ToSet(down[d].got[b]) \subseteq Nat
         /\ queue \in Seq(1..MaxPackets) /\ ToSet(queue) \subseteq 1..MaxPackets
         /\ \A f \in FrameSet : f.n \in Nat /\ f.src \in Source
         /\ \A b \in Source : /\ Held(b) => job[b].frame \in FrameSet
                              /\ job[b].todo # {} \/ job[b].at # 0 => Held(b)
         /\ sent \in Nat /\ others \in Nat
<1>0. PortTyped /\ WireTyped /\ ClientTyped /\ UpstreamTyped /\ JobSound
  BY DEF Typed
<1>1. \A S : \A q \in Seq(S) : ToSet(q) \subseteq S
  BY ElementOfSeq DEF ToSet
<1>2. NoFrame \notin FrameSet
  <2>1. 0 \notin Source
    BY Sets DEF Source
  <2> QED
    BY <2>1 DEF NoFrame, Frame, FrameSet
<1>3. \A b \in Source : /\ Held(b) => job[b].frame \in FrameSet
                        /\ job[b].todo # {} \/ job[b].at # 0 => Held(b)
  BY <1>0, <1>2 DEF Held, ClientTyped, JobSound, Busy
<1>4. \A c \in Conn : loop[c] = "sharing" => Held(c)
  BY <1>0, <1>2 DEF Held, JobSound
<1>5. \A f \in FrameSet : f.n \in Nat /\ f.src \in Source
  BY DEF FrameSet
<1>6. \A d \in Conn, b \in Source : down[d].got[b] \in Seq(Nat)
  BY <1>0 DEF WireTyped
<1>7. \A c \in Conn : up[c] \in Seq(FrameSet) /\ toTNC[c] \in Seq(FrameSet)
  BY <1>0 DEF WireTyped, UpstreamTyped
<1>8. tx \in Seq(FrameSet) /\ queue \in Seq(1..MaxPackets) /\ sent \in Nat /\ others \in Nat
  BY <1>0 DEF PortTyped, UpstreamTyped
<1> QED
  BY <1>1, <1>3, <1>4, <1>5, <1>6, <1>7, <1>8

\* A step after which everything that was still ahead is still ahead.
StillAhead == \A b \in Source : \A n \in Nat : Ahead(n, b) => Ahead(n, b)'

LEMMA AheadUnchanged ==
  ASSUME UNCHANGED <<up, queue, sent, others>>
  PROVE  StillAhead
BY DEF StillAhead, Ahead

\* What is behind the queues does not notice a step in front of them.
LEMMA BehindUntouched ==
  ASSUME Typed, Ordered, StillAhead, job' = job, tx' = tx, toTNC' = toTNC, down' = down
  PROVE  JobOrder' /\ TxOrder' /\ AirOrder' /\ GotOrder'
<1> USE Elements, Sets DEF StillAhead
<1>1. JobOrder'
  BY DEF Ordered, JobOrder, Held
<1>2. \A n \in Nat, b \in Source : Shared(n, b) => Shared(n, b)'
  BY DEF Shared, Held
<1>3. TxOrder'
  BY <1>2 DEF Ordered, TxOrder
<1>4. AirOrder'
  BY <1>2 DEF Ordered, AirOrder
<1>5. GotOrder'
  BY DEF Ordered, GotOrder
<1> QED
  BY <1>1, <1>3, <1>4, <1>5

\* Fewer frames under way: the connections stay apart.
LEMMA ApartKept ==
  ASSUME Apart, \A c \in PortConn : Carried(c)' \subseteq Carried(c)
  PROVE  Apart'
BY DEF Apart

\* Steps that move no frame.
LEMMA StillSteps ==
  ASSUME Ordered,
         UNCHANGED <<up, queue, sent, others, job, tx, toTNC, down>>
  PROVE  Ordered'
<1>1. QueueOrder' /\ UpOrder'
  BY DEF Ordered, QueueOrder, UpOrder
<1>2. \A b, n : Ahead(n, b)' <=> Ahead(n, b)
  BY DEF Ahead
<1>3. \A b, n : Shared(n, b)' <=> Shared(n, b)
  BY <1>2 DEF Shared, Held
<1>4. JobOrder' /\ GotOrder'
  BY <1>2 DEF Ordered, JobOrder, GotOrder, Held
<1>5. TxOrder' /\ AirOrder'
  BY <1>3 DEF Ordered, TxOrder, AirOrder
<1>6. Apart'
  BY DEF Ordered, Apart, Carried
<1> QED
  BY <1>1, <1>4, <1>5, <1>6 DEF Ordered

LEMMA SendOrder ==
  ASSUME Typed, Ordered, Send, UNCHANGED proxyvars
  PROVE  Ordered'
<1> USE Elements, Sets
<1>1. /\ sent' = sent + 1 /\ sent < MaxPackets
      /\ queue' = Append(queue, sent + 1) \/ queue' = queue
      /\ UNCHANGED <<up, others, job, tx, toTNC, down>>
  BY DEF Send, tcpvars, proxyvars, clientvars, tncvars
<1>2. \A p \in ToSet(queue) : p <= sent /\ p \in Nat
  BY DEF Ordered, QueueOrder
<1>3. sent + 1 \in 1..MaxPackets
  BY <1>1
<1>4. \A p \in ToSet(queue') : p \in ToSet(queue) \/ p = sent + 1
  <2>1. ToSet(Append(queue, sent + 1)) = ToSet(queue) \cup {sent + 1}
    BY <1>3, AppendElements
  <2> QED
    BY <1>1, <2>1
<1>5. QueueOrder'
  <2>1. InOrder(Append(queue, sent + 1))
    <3>1. PICK x \in 1..MaxPackets : x = sent + 1
      BY <1>3
    <3>2. \A p \in ToSet(queue) : p < x
      BY <1>2, <1>3, <3>1
    <3>3. queue \in Seq(1..MaxPackets) /\ InOrder(queue)
      BY DEF Ordered, QueueOrder
    <3>4. InOrder(Append(queue, x))
      BY ONLY <3>1, <3>2, <3>3, InOrderAppend
    <3> QED
      BY <3>1, <3>4
  <2>2. InOrder(queue')
    BY <1>1, <2>1 DEF Ordered, QueueOrder
  <2> QED
    BY <1>1, <1>2, <1>4, <2>2 DEF QueueOrder
<1>6. StillAhead
  BY <1>1, <1>4 DEF StillAhead, Ahead
<1>7. UpOrder'
  <2>1. \A c \in Conn : \A f \in ToSet(up[c]) : f.n \in Nat
    OBVIOUS
  <2> QED
    BY <1>1, <1>4, <2>1 DEF Ordered, UpOrder
<1>8. Apart'
  BY <1>1 DEF Ordered, Apart, Carried
<1> QED
  BY <1>1, <1>5, <1>6, <1>7, <1>8, BehindUntouched DEF Ordered

\* A packet goes from the queue to a connection, or is lost.
LEMMA WriterOrder ==
  ASSUME Typed, Ordered, NEW c \in PortConn, WriteLoop(c), UNCHANGED proxyvars
  PROVE  Ordered'
<1> USE Elements, Sets
<1> DEFINE p == Head(queue)
           f == Frame(c, p, "data")
<1>1. /\ queue # <<>> /\ queue' = Tail(queue)
      /\ up' = [up EXCEPT ![c] = Append(up[c], f)] \/ up' = up
      /\ UNCHANGED <<sent, others, job, tx, toTNC, down>>
  BY DEF WriteLoop, Writes, proxyvars, clientvars, tncvars
<1>2. p \in ToSet(queue) /\ ToSet(queue') \subseteq ToSet(queue)
  BY <1>1, TailElements
<1>3. p \in 1..MaxPackets /\ p <= sent /\ f \in FrameSet /\ f.src = c /\ f.n = p
  <2>1. p \in 1..MaxPackets /\ p <= sent
    BY <1>2 DEF Ordered, QueueOrder
  <2>2. f \in FrameSet
    <3>1. p \in Nat /\ p <= MaxPackets /\ c \in Source /\ "data" \in {"data", "hardware"}
      BY <2>1
    <3> HIDE DEF p
    <3> QED
      BY <3>1, FramesOK
  <2>3. f.src = c /\ f.n = p
    BY DEF Frame
  <2> QED
    BY <2>1, <2>2, <2>3
<1> HIDE DEF f, p
<1>4. InOrder(queue') /\ \A n \in ToSet(queue') : p < n
  BY <1>1, InOrderTail DEF Ordered, QueueOrder, p
<1>5. QueueOrder'
  BY <1>1, <1>2, <1>4 DEF Ordered, QueueOrder
<1>6. \A d \in Conn : \A g \in ToSet(up'[d]) : g \in ToSet(up[d]) \/ (d = c /\ g = f)
  <2>1. ToSet(Append(up[c], f)) = ToSet(up[c]) \cup {f}
    BY <1>3, AppendElements
  <2>2. up \in [Conn -> Seq(FrameSet)] /\ c \in Conn
    BY DEF Typed, WireTyped
  <2>3. \A d \in Conn : up'[d] = up[d] \/ (d = c /\ up'[d] = Append(up[c], f))
    BY <1>1, <2>2
  <2> QED
    BY <2>1, <2>3
<1>7. StillAhead
  BY <1>1, <1>2, <1>3, <1>6 DEF StillAhead, Ahead
<1>8. UpOrder'
  <2>1. \A g \in ToSet(up[c]) : g.n < p
    BY <1>2 DEF Ordered, UpOrder
  <2>2. Sorted(Append(up[c], f))
    BY <1>3, <2>1, SortedAppend DEF Ordered, UpOrder
  <2>3. \A d \in Conn : Sorted(up'[d])
    BY <1>1, <2>2 DEF Ordered, UpOrder, Typed, WireTyped
  <2>4. \A d \in Conn : \A g \in ToSet(up'[d]) :
            /\ g.src = d
            /\ d \in PortConn => g.n <= sent /\ \A n \in ToSet(queue') : g.n < n
            /\ d \notin PortConn => g.n <= others
    BY <1>2, <1>3, <1>4, <1>6 DEF Ordered, UpOrder
  <2> QED
    BY <1>1, <2>3, <2>4 DEF UpOrder
<1>9. Apart'
  <2>1. \A d \in PortConn : \A g \in Carried(d)' : g \in Carried(d) \/ (d = c /\ g = f)
    BY <1>1, <1>6 DEF Carried
  <2>2. \A d \in PortConn : \A g \in Carried(d) : g # NoFrame => g.n < p
    <3>1. \A d \in PortConn : \A g \in ToSet(up[d]) : g.n < p
      BY <1>2 DEF Ordered, UpOrder
    <3>2. \A d \in PortConn : \A g \in ToSet(tx) : g.src = d => g.n < p
      BY <1>2 DEF Ordered, TxOrder, Shared, Ahead
    <3>3. \A d \in PortConn : \A g \in ToSet(toTNC[d]) : g.n < p
      BY <1>2 DEF Ordered, AirOrder, Shared, Ahead
    <3>4. \A d \in PortConn : job[d].frame # NoFrame => job[d].frame.n < p
      BY <1>2 DEF Ordered, JobOrder, Held, Ahead
    <3> QED
      BY <3>1, <3>2, <3>3, <3>4 DEF Carried
  <2>3. \A d \in PortConn : \A g \in Carried(d) : g # NoFrame /\ g.n \in Nat
    BY DEF Carried, NoFrame, Frame, Held
  <2>4. \A d \in PortConn : \A g \in Carried(d) : g.n # p
    BY <1>3, <2>2, <2>3
  <2> QED
    BY <1>3, <2>1, <2>4 DEF Ordered, Apart
<1> QED
  BY <1>1, <1>5, <1>7, <1>8, <1>9, BehindUntouched DEF Ordered

\* A program sends a frame.
LEMMA ClientSendOrder ==
  ASSUME Typed, Ordered, NEW c \in Ext, ClientSends(c)
  PROVE  Ordered'
<1> USE Elements, Sets
<1>1. PICK cmd \in {"data", "hardware"} :
        up' = [up EXCEPT ![c] = Append(up[c], Frame(c, others + 1, cmd))]
  BY DEF ClientSends
<1> DEFINE f == Frame(c, others + 1, cmd)
<1>2. /\ others' = others + 1 /\ others < MaxOthers
      /\ UNCHANGED <<queue, sent, job, tx, toTNC, down>>
  BY DEF ClientSends, portvars, clientvars, tncvars
<1>3. c \in Conn /\ c \notin PortConn
  BY DEF Conn
<1>20. others \in Nat /\ \A d \in Conn : \A g \in ToSet(up[d]) : g.n \in Nat
  OBVIOUS
<1>4. f \in FrameSet
  BY <1>2, FramesOK
<1>5. f.src = c /\ f.n = others + 1
  BY DEF Frame
<1> HIDE DEF f
<1>6. \A d \in Conn : up'[d] = up[d] \/ (d = c /\ up'[d] = Append(up[c], f))
  BY <1>1 DEF f, Typed, WireTyped
<1>7. \A d \in Conn : \A g \in ToSet(up'[d]) : g \in ToSet(up[d]) \/ (d = c /\ g = f)
  <2>1. ToSet(Append(up[c], f)) = ToSet(up[c]) \cup {f}
    BY <1>3, <1>4, AppendElements
  <2> SUFFICES ASSUME NEW d \in Conn, NEW g \in ToSet(up'[d])
               PROVE  g \in ToSet(up[d]) \/ (d = c /\ g = f)
    OBVIOUS
  <2>2. CASE up'[d] = up[d]
    BY ONLY <2>2
  <2>3. CASE d = c /\ up'[d] = Append(up[c], f)
    BY ONLY <2>1, <2>3
  <2> QED
    BY <1>6, <2>2, <2>3
<1>8. StillAhead
  <2> SUFFICES ASSUME NEW b \in Source, NEW n \in Nat, Ahead(n, b) PROVE Ahead(n, b)'
    BY DEF StillAhead
  <2>1. b \in Conn => \A g \in ToSet(up'[b]) : n < g.n
    <3>1. b = c => n < f.n
      BY <1>3, <1>5, <1>20 DEF Ahead
    <3> QED
      BY <1>7, <3>1 DEF Ahead
  <2>2. b \notin PortConn => n <= others'
    BY <1>2, <1>20 DEF Ahead
  <2> QED
    BY <1>2, <2>1, <2>2 DEF Ahead
<1>9. UpOrder'
  <2>1. \A g \in ToSet(up[c]) : g.n < others + 1
    BY <1>3, <1>20 DEF Ordered, UpOrder
  <2>2. Sorted(Append(up[c], f))
    BY <1>3, <1>4, <1>5, <2>1, SortedAppend DEF Ordered, UpOrder
  <2>3. \A d \in Conn : Sorted(up'[d])
    BY <1>6, <2>2 DEF Ordered, UpOrder
  <2>4. \A d \in Conn : \A g \in ToSet(up'[d]) :
            /\ g.src = d
            /\ d \in PortConn => g.n <= sent /\ \A n \in ToSet(queue) : g.n < n
            /\ d \notin PortConn => g.n <= others + 1
    <3> SUFFICES ASSUME NEW d \in Conn, NEW g \in ToSet(up'[d])
                 PROVE  /\ g.src = d
                        /\ d \in PortConn => g.n <= sent /\ \A n \in ToSet(queue) : g.n < n
                        /\ d \notin PortConn => g.n <= others + 1
      OBVIOUS
    <3>1. CASE g \in ToSet(up[d])
      BY <1>20, <3>1 DEF Ordered, UpOrder
    <3>2. CASE d = c /\ g = f
      BY <1>3, <1>5, <1>20, <3>2
    <3> QED
      BY <1>7, <3>1, <3>2
  <2> QED
    BY <1>2, <2>3, <2>4 DEF UpOrder
<1>10. Apart'
  <2>1. \A d \in PortConn : up'[d] = up[d]
    BY <1>3, <1>6
  <2> QED
    BY <1>2, <2>1, SMTT(30) DEF Ordered, Apart, Carried
<1>11. QueueOrder'
  BY <1>2 DEF Ordered, QueueOrder
<1> QED
  BY <1>2, <1>8, <1>9, <1>10, <1>11, BehindUntouched DEF Ordered

\* A client's loop reads a frame, and shares it unless it may not be sent.
LEMMA ClientFrameOrder ==
  ASSUME Typed, Ordered, NEW c \in Conn, ClientFrame(c)
  PROVE  Ordered'
<1> USE Elements, Sets
<1>0. PICK g : g = Head(up[c])
  OBVIOUS
<1>1. /\ up[c] # <<>> /\ up' = [up EXCEPT ![c] = Tail(up[c])]
      /\ UNCHANGED <<queue, sent, others, tx, toTNC, down>>
  BY DEF ClientFrame, portvars, tncvars
<1>2. \/ job' = job
      \/ /\ g.cmd # "hardware"
         /\ job' = [job EXCEPT ![c] = [frame |-> g, todo |-> clients \ {c}, at |-> 0]]
  BY <1>0 DEF ClientFrame, Broadcast, clientCommandAllowed
<1>3. /\ g \in FrameSet /\ g \in ToSet(up[c]) /\ g.src = c
      /\ ToSet(Tail(up[c])) \subseteq ToSet(up[c])
  <2>1. g \in ToSet(up[c]) /\ ToSet(Tail(up[c])) \subseteq ToSet(up[c])
    BY <1>0, <1>1, TailElements
  <2> QED
    BY <2>1 DEF Ordered, UpOrder
<1>4. Sorted(Tail(up[c])) /\ \A f \in ToSet(Tail(up[c])) : g.n < f.n
  <2>1. Sorted(Tail(up[c]))
        /\ \A f \in ToSet(Tail(up[c])) : f.src = g.src => g.n < f.n
    BY <1>0, <1>1, SortedTail DEF Ordered, UpOrder
  <2>2. \A f \in ToSet(Tail(up[c])) : f.src = c
    BY <1>3 DEF Ordered, UpOrder
  <2> QED
    BY <1>3, <2>1, <2>2
<1>5. \A d \in Conn : up'[d] = up[d] \/ (d = c /\ up'[d] = Tail(up[c]))
  BY <1>1 DEF Typed, WireTyped
<1>6. c \in PortConn => g.n <= sent /\ \A n \in ToSet(queue) : g.n < n
  BY <1>3 DEF Ordered, UpOrder
<1>7. c \notin PortConn => g.n <= others
  BY <1>3 DEF Ordered, UpOrder
<1>8. \A d \in Conn : ToSet(up'[d]) \subseteq ToSet(up[d])
  BY <1>3, <1>5
<1>9. StillAhead
  BY <1>1, <1>8 DEF StillAhead, Ahead
<1>10. UpOrder'
  BY <1>1, <1>4, <1>5, <1>8 DEF Ordered, UpOrder
<1>11. QueueOrder'
  BY <1>1 DEF Ordered, QueueOrder
<1>12. CASE job' = job
  <2>1. \A d \in PortConn : Carried(d)' \subseteq Carried(d)
    BY <1>1, <1>8, <1>12 DEF Carried
  <2> QED
    BY <1>1, <1>9, <1>10, <1>11, <1>12, <2>1, ApartKept, BehindUntouched DEF Ordered
<1>13. CASE job' # job
  <2>1. /\ g.cmd # "hardware"
        /\ job' = [job EXCEPT ![c] = [frame |-> g, todo |-> clients \ {c}, at |-> 0]]
    BY <1>2, <1>13
  <2>2. /\ job'[c].frame = g /\ c \notin job'[c].todo
        /\ \A b \in Source \ {c} : job'[b] = job[b]
    BY <2>1 DEF Typed, ClientTyped
  <2>3. Ahead(g.n, c)'
    <3>1. up'[c] = Tail(up[c])
      BY <1>1 DEF Typed, WireTyped
    <3> QED
      BY <1>1, <1>4, <1>6, <1>7, <3>1 DEF Ahead
  <2>4. \A n \in Nat, b \in Source :
            Ahead(n, b) => Ahead(n, b)' /\ (b = c => n < g.n)
    BY <1>3, <1>9 DEF StillAhead, Ahead
  <2>5. JobOrder'
    BY <1>3, <2>1, <2>2, <2>3, <2>4 DEF Ordered, JobOrder, Held
  <2>6. \A n \in Nat, b \in Source : Shared(n, b) => Shared(n, b)'
    BY <2>2, <2>4 DEF Shared, Held
  <2>7. TxOrder' /\ AirOrder'
    BY <1>1, <2>6 DEF Ordered, TxOrder, AirOrder
  <2>8. GotOrder'
    BY <1>1, <2>2, <2>4 DEF Ordered, GotOrder
  <2>9. \A d \in PortConn : Carried(d)' \subseteq Carried(d)
    BY <1>1, <1>3, <1>8, <2>2 DEF Carried
  <2> QED
    BY <1>10, <1>11, <2>5, <2>7, <2>8, <2>9, ApartKept DEF Ordered
<1> QED
  BY <1>12, <1>13

\* A frame the other clients have been sent goes into the queue for the TNC.
LEMMA ClientQueueOrder ==
  ASSUME Typed, Ordered, NEW c \in Conn, ClientFrameQueued(c)
  PROVE  Ordered'
<1> USE Elements, Sets
<1>0. PICK g : g = job[c].frame
  OBVIOUS
<1>1. /\ tx' = Append(tx, g) /\ job' = [job EXCEPT ![c] = Idle]
      /\ UNCHANGED <<queue, sent, others, up, toTNC, down>>
      /\ loop[c] = "sharing"
  BY <1>0 DEF ClientFrameQueued, portvars, tcpvars
<1>2. Held(c) /\ g \in FrameSet
  BY <1>0, <1>1
<1>3. g.src = c /\ Ahead(g.n, c) /\ g.cmd # "hardware"
  BY <1>0, <1>2 DEF Ordered, JobOrder
<1>4. /\ job'[c] = Idle /\ \A b \in Source \ {c} : job'[b] = job[b]
  BY <1>1 DEF Typed, ClientTyped
<1>5. \A f \in ToSet(tx) : f.src = c => f.n < g.n
  BY <1>0, <1>2 DEF Ordered, TxOrder, Shared
<1>6. \A f \in ToSet(toTNC[c]) : f.n < g.n
  BY <1>0, <1>2 DEF Ordered, AirOrder, Shared
<1>7. ToSet(tx') = ToSet(tx) \cup {g}
  BY <1>1, <1>2, AppendElements
<1>8. Sorted(tx')
  BY <1>1, <1>2, <1>3, <1>5, SortedAppend DEF Ordered, TxOrder
<1>9. \A n, b : Ahead(n, b)' <=> Ahead(n, b)
  BY <1>1 DEF Ahead
<1>10. ~Held(c)' /\ \A b \in Source \ {c} : Held(b)' <=> Held(b)
  BY <1>4 DEF Held, Idle
<1>11. \A n \in Nat, b \in Source : Shared(n, b) => Shared(n, b)'
  BY <1>4, <1>9, <1>10 DEF Shared
<1>12. Shared(g.n, c)'
  BY <1>3, <1>9, <1>10 DEF Shared
<1>13. TxOrder'
  BY <1>3, <1>7, <1>8, <1>11, <1>12 DEF Ordered, TxOrder
<1>14. AirOrder'
  <2>1. \A d \in Conn : \A f \in ToSet(toTNC[d]) : f.src = d => (g.src = d => f.n < g.n)
    BY <1>3, <1>6
  <2> QED
    BY <1>1, <1>7, <1>11, <2>1 DEF Ordered, AirOrder
<1>15. JobOrder'
  <2>1. c \notin job'[c].todo
    BY <1>4 DEF Idle
  <2>2. \A b \in Source \ {c} :
          /\ b \notin job'[b].todo
          /\ Held(b)' => /\ job'[b].frame.src = b /\ Ahead(job'[b].frame.n, b)
                         /\ job'[b].frame.cmd # "hardware"
    BY <1>4, <1>10 DEF Ordered, JobOrder
  <2>3. \A b \in Source : Ahead(job'[b].frame.n, b) => Ahead(job[b].frame.n, b)'
    BY <1>9
  <2> QED
    BY <1>10, <2>1, <2>2, <2>3 DEF JobOrder
<1>16. GotOrder'
  BY <1>1, <1>4, <1>9 DEF Ordered, GotOrder, Idle
<1>17. \A d \in PortConn : Carried(d)' \subseteq Carried(d)
  <2>1. NoFrame.src = 0
    BY DEF NoFrame, Frame
  <2>2. \A d \in PortConn : d # 0 /\ d \in Source
    OBVIOUS
  <2> QED
    BY <1>0, <1>1, <1>3, <1>4, <1>7, <2>1, <2>2 DEF Carried, Idle
<1>18. QueueOrder' /\ UpOrder'
  BY <1>1 DEF Ordered, QueueOrder, UpOrder
<1> QED
  BY <1>13, <1>14, <1>15, <1>16, <1>17, <1>18, ApartKept DEF Ordered

LEMMA DownChanged ==
  ASSUME Typed, NEW c \in Conn, NEW r, down' = [down EXCEPT ![c] = r]
  PROVE  down'[c] = r /\ \A d \in Conn \ {c} : down'[d] = down[d]
BY DEF Typed, WireTyped

LEMMA NumbersGrow ==
  ASSUME NEW q \in Seq(Nat), NEW n \in Nat
  PROVE  ToSet(Append(q, n)) = ToSet(q) \cup {n}
BY AppendElements

\* A broadcast begins to write to a client.
LEMMA WriteStartsOrder ==
  ASSUME Typed, Ordered, NEW b \in Source, NEW c \in Conn, WriteStarts(b, c)
  PROVE  Ordered'
<1> USE Elements, Sets
<1>0. PICK f : f = job[b].frame
  OBVIOUS
<1>1. /\ c \in job[b].todo
      /\ job' = [job EXCEPT ![b].todo = job[b].todo \ {c}, ![b].at = c]
      /\ UNCHANGED <<queue, sent, others, up, tx, toTNC>>
  BY DEF WriteStarts, portvars, tncvars
<1>2. /\ f \in FrameSet /\ f.src = b /\ Ahead(f.n, b) /\ b # c
  <2>1. Held(b)
    BY <1>1
  <2> QED
    BY <1>0, <1>1, <2>1 DEF Ordered, JobOrder
<1>3. /\ job'[b].frame = f /\ job'[b].todo = job[b].todo \ {c}
      /\ \A d \in Source \ {b} : job'[d] = job[d]
  BY <1>0, <1>1 DEF Typed, ClientTyped
<1>4. \A d \in Source : job'[d].frame = job[d].frame /\ job'[d].todo \subseteq job[d].todo
  BY <1>0, <1>3
<1>5. \A n, d : Ahead(n, d)' <=> Ahead(n, d)
  BY <1>1 DEF Ahead
<1>6. \A d \in Source : Held(d)' <=> Held(d)
  BY <1>4 DEF Held
<1>7. \A n \in Nat, d \in Source : Shared(n, d)' <=> Shared(n, d)
  BY <1>4, <1>5, <1>6 DEF Shared
<1>8. TxOrder' /\ AirOrder'
  BY <1>1, <1>7 DEF Ordered, TxOrder, AirOrder
<1>9. JobOrder'
  BY <1>4, <1>5, <1>6 DEF Ordered, JobOrder
<1>10. \A d \in Conn, s \in Source :
          \/ down'[d].got[s] = down[d].got[s]
          \/ d = c /\ s = b /\ down'[d].got[s] = Append(down[d].got[s], f.n)
  <2>1. down[c].got \in [Source -> Seq(Nat)]
    BY DEF Typed, WireTyped
  <2>2. CASE down' = down
    BY <2>2
  <2>3. CASE down' = [down EXCEPT ![c] = [part |-> Part(f, 1),
               got |-> [down[c].got EXCEPT ![b] = Append(down[c].got[b], f.n)]]]
    <3>1. down'[c].got = [down[c].got EXCEPT ![b] = Append(down[c].got[b], f.n)]
      <4>1. PICK r : r = [part |-> Part(f, 1),
               got |-> [down[c].got EXCEPT ![b] = Append(down[c].got[b], f.n)]]
        OBVIOUS
      <4>2. down'[c] = r
        BY <2>3, <4>1, DownChanged
      <4> QED
        BY <4>1, <4>2
    <3>2. \A d \in Conn \ {c} : down'[d] = down[d]
      BY <2>3, DownChanged
    <3> QED
      BY <2>1, <3>1, <3>2
  <2>4. \/ down' = down
        \/ down' = [down EXCEPT ![c] = [part |-> Part(f, 1),
               got |-> [down[c].got EXCEPT ![b] = Append(down[c].got[b], f.n)]]]
    BY <1>0, <1>2 DEF WriteStarts, Put
  <2> QED
    BY <2>2, <2>3, <2>4
<1>11. GotOrder'
  <2> SUFFICES ASSUME NEW d \in Conn, NEW s \in Source
               PROVE  /\ down'[d].got[d] = <<>>
                      /\ InOrder(down'[d].got[s])
                      /\ \A n \in ToSet(down'[d].got[s]) :
                            Ahead(n, s)' /\ (d \in job'[s].todo => n < job'[s].frame.n)
    BY DEF GotOrder
  <2>1. down'[d].got[d] = <<>>
    <3>1. down[d].got[d] = <<>>
      BY DEF Ordered, GotOrder
    <3>2. d \in Source /\ ~(d = c /\ d = b)
      BY <1>2
    <3> QED
      BY <1>10, <3>1, <3>2
  <2>2. CASE down'[d].got[s] = down[d].got[s]
    BY <1>4, <1>5, <2>1, <2>2 DEF Ordered, GotOrder
  <2>3. CASE d = c /\ s = b /\ down'[d].got[s] = Append(down[d].got[s], f.n)
    <3>1. \A n \in ToSet(down[c].got[b]) : n < f.n /\ Ahead(n, b)
      BY <1>0, <1>1 DEF Ordered, GotOrder
    <3>2. InOrder(Append(down[c].got[b], f.n))
      BY <1>2, <3>1, InOrderAppend DEF Ordered, GotOrder
    <3>3. ToSet(Append(down[c].got[b], f.n)) = ToSet(down[c].got[b]) \cup {f.n}
      <4>1. down[c].got[b] \in Seq(Nat) /\ f.n \in Nat
        BY <1>2
      <4> QED
        BY <4>1, NumbersGrow
    <3>4. c \notin job'[b].todo
      BY <1>3
    <3> QED
      BY <1>2, <1>5, <2>1, <2>3, <3>1, <3>2, <3>3, <3>4
  <2> QED
    BY <1>10, <2>2, <2>3
<1>12. Apart'
  <2>1. \A d \in PortConn : Carried(d)' = Carried(d)
    BY <1>1, <1>4 DEF Carried
  <2> QED
    BY <2>1, ApartKept DEF Ordered
<1>13. QueueOrder' /\ UpOrder'
  BY <1>1 DEF Ordered, QueueOrder, UpOrder
<1> QED
  BY <1>8, <1>9, <1>11, <1>12, <1>13 DEF Ordered

\* It writes the rest, or fails.
LEMMA WriteEndsOrder ==
  ASSUME Typed, Ordered, NEW b \in Source, WriteEnds(b)
  PROVE  Ordered'
<1> USE Elements, Sets
<1>1. /\ job[b].at # 0 /\ job' = [job EXCEPT ![b].at = 0]
      /\ UNCHANGED <<queue, sent, others, up, tx, toTNC>>
  BY DEF WriteEnds, portvars, tncvars
<1>2. \A d \in Source : job'[d].frame = job[d].frame /\ job'[d].todo = job[d].todo
  BY <1>1 DEF Typed, ClientTyped
<1>3. \A d \in Conn, s \in Source : down'[d].got[s] = down[d].got[s]
  <2>1. job[b].at \in Conn
    BY <1>1 DEF Typed, ClientTyped
  <2>2. \/ down' = down
        \/ down' = [down EXCEPT ![job[b].at] =
                      [part |-> Part(job[b].frame, 2), got |-> down[job[b].at].got]]
    BY DEF WriteEnds, Put
  <2>3. \A d \in Conn : down'[d].got = down[d].got
    <3>1. CASE down' = [down EXCEPT ![job[b].at] =
                      [part |-> Part(job[b].frame, 2), got |-> down[job[b].at].got]]
      <4>1. down'[job[b].at].got = down[job[b].at].got
        BY <2>1, <3>1, DownChanged
      <4>2. \A d \in Conn \ {job[b].at} : down'[d] = down[d]
        BY <2>1, <3>1, DownChanged
      <4> QED
        BY <4>1, <4>2
    <3> QED
      BY <2>2, <3>1
  <2> QED
    BY <2>3
<1>4. \A n, d : Ahead(n, d)' <=> Ahead(n, d)
  BY <1>1 DEF Ahead
<1>5. \A d \in Source : Held(d)' <=> Held(d)
  BY <1>2 DEF Held
<1>6. \A n \in Nat, d \in Source : Shared(n, d)' <=> Shared(n, d)
  BY <1>2, <1>4, <1>5 DEF Shared
<1>7. TxOrder' /\ AirOrder'
  BY <1>1, <1>6 DEF Ordered, TxOrder, AirOrder
<1>8. JobOrder'
  BY <1>2, <1>4, <1>5 DEF Ordered, JobOrder
<1>9. GotOrder'
  <2> SUFFICES ASSUME NEW d \in Conn
               PROVE  /\ down'[d].got[d] = <<>>
                      /\ \A s \in Source :
                            /\ InOrder(down'[d].got[s])
                            /\ \A n \in ToSet(down'[d].got[s]) :
                                  Ahead(n, s)' /\ (d \in job'[s].todo => n < job'[s].frame.n)
    BY DEF GotOrder
  <2>1. /\ down[d].got[d] = <<>>
        /\ \A s \in Source :
              /\ InOrder(down[d].got[s])
              /\ \A n \in ToSet(down[d].got[s]) :
                    Ahead(n, s) /\ (d \in job[s].todo => n < job[s].frame.n)
    BY DEF Ordered, GotOrder
  <2>2. d \in Source /\ \A s \in Source : down'[d].got[s] = down[d].got[s]
    BY <1>3
  <2> QED
    BY <1>2, <1>4, <2>1, <2>2
<1>10. \A d \in PortConn : Carried(d)' = Carried(d)
  BY <1>1, <1>2 DEF Carried
<1>11. QueueOrder' /\ UpOrder'
  BY <1>1 DEF Ordered, QueueOrder, UpOrder
<1> QED
  BY <1>7, <1>8, <1>9, <1>10, <1>11, ApartKept DEF Ordered

\* The next frame of the queue goes to the TNC, or is lost.
LEMMA ServeOrder ==
  ASSUME Typed, Ordered, ServeUpstream
  PROVE  Ordered'
<1> USE Elements, Sets
<1>0. PICK g : g = Head(tx)
  OBVIOUS
<1>1. /\ tx # <<>> /\ tx' = Tail(tx)
      /\ \/ toTNC' = toTNC
         \/ toTNC' = [toTNC EXCEPT ![g.src] = Append(toTNC[g.src], g)]
      /\ UNCHANGED <<queue, sent, others, up, job, down>>
  BY <1>0 DEF ServeUpstream, Airs, portvars, tcpvars, clientvars
<1>2. g \in ToSet(tx) /\ ToSet(tx') \subseteq ToSet(tx)
  BY <1>0, <1>1, TailElements
<1>3. g \in FrameSet /\ g.src \in Conn /\ g.cmd # "hardware" /\ Shared(g.n, g.src)
  BY <1>2 DEF Ordered, TxOrder
<1>4. Sorted(tx') /\ \A f \in ToSet(tx') : f.src = g.src => g.n < f.n
  BY <1>0, <1>1, SortedTail DEF Ordered, TxOrder
<1>5. \A n, d : Ahead(n, d)' <=> Ahead(n, d)
  BY <1>1 DEF Ahead
<1>6. \A n, d : Shared(n, d)' <=> Shared(n, d)
  BY <1>1, <1>5 DEF Shared, Held
<1>7. TxOrder'
  BY <1>2, <1>4, <1>6 DEF Ordered, TxOrder
<1>8. \A c \in Conn :
        \/ toTNC'[c] = toTNC[c]
        \/ c = g.src /\ toTNC'[c] = Append(toTNC[c], g)
  BY <1>1 DEF Typed, UpstreamTyped
<1>9. \A c \in Conn : \A f \in ToSet(toTNC'[c]) :
        f \in ToSet(toTNC[c]) \/ (c = g.src /\ f = g)
  <2>1. \A c \in Conn : ToSet(Append(toTNC[c], g)) = ToSet(toTNC[c]) \cup {g}
    BY <1>3, AppendElements
  <2> SUFFICES ASSUME NEW c \in Conn, NEW f \in ToSet(toTNC'[c])
               PROVE  f \in ToSet(toTNC[c]) \/ (c = g.src /\ f = g)
    OBVIOUS
  <2>2. CASE toTNC'[c] = toTNC[c]
    BY <2>2
  <2>3. CASE c = g.src /\ toTNC'[c] = Append(toTNC[c], g)
    BY <2>1, <2>3
  <2> QED
    BY <1>8, <2>2, <2>3
<1>10. AirOrder'
  <2> SUFFICES ASSUME NEW c \in Conn
               PROVE  /\ Sorted(toTNC'[c])
                      /\ \A f \in ToSet(toTNC'[c]) :
                            /\ f.src = c /\ f.cmd # "hardware" /\ Shared(f.n, c)'
                            /\ \A h \in ToSet(tx') : h.src = c => f.n < h.n
    BY DEF AirOrder
  <2>1. Sorted(toTNC'[c])
    <3>1. c = g.src => Sorted(Append(toTNC[c], g))
      BY <1>2, <1>3, SortedAppend DEF Ordered, AirOrder
    <3> QED
      BY <1>8, <3>1 DEF Ordered, AirOrder
  <2>2. ASSUME NEW f \in ToSet(toTNC[c])
        PROVE  /\ f.src = c /\ f.cmd # "hardware" /\ Shared(f.n, c)'
               /\ \A h \in ToSet(tx') : h.src = c => f.n < h.n
    BY <1>2, <1>6 DEF Ordered, AirOrder
  <2>3. CASE c = g.src
    BY <1>3, <1>4, <1>6, <1>9, <2>1, <2>2, <2>3
  <2> QED
    BY <1>9, <2>1, <2>2, <2>3
<1>11. JobOrder' /\ GotOrder'
  BY <1>1, <1>5 DEF Ordered, JobOrder, GotOrder, Held
<1>12. \A d \in PortConn : Carried(d)' \subseteq Carried(d)
  BY <1>1, <1>2, <1>9 DEF Carried
<1>13. QueueOrder' /\ UpOrder'
  BY <1>1 DEF Ordered, QueueOrder, UpOrder
<1> QED
  BY <1>7, <1>10, <1>11, <1>12, <1>13, ApartKept DEF Ordered

\* The reader of the TNC shares a frame.
LEMMA TNCFrameOrder ==
  ASSUME Typed, Ordered, NEW u \in Up, TNCFrame(u)
  PROVE  Ordered'
<1> USE Elements, Sets
<1>0. PICK g : g = Frame(u, others + 1, "data")
  OBVIOUS
<1>1. /\ others' = others + 1
      /\ job' = [job EXCEPT ![u] = [frame |-> g, todo |-> clients \ {u}, at |-> 0]]
      /\ UNCHANGED <<queue, sent, up, tx, toTNC, down>>
  BY <1>0 DEF TNCFrame, Broadcast, portvars, tcpvars, tncvars
<1>2. g.src = u /\ g.n = others + 1 /\ g.cmd = "data" /\ others \in Nat
      /\ u \in Source /\ u \notin Conn /\ u \notin PortConn
  BY <1>0 DEF Frame
<1>3. /\ job'[u].frame = g /\ u \notin job'[u].todo
      /\ \A b \in Source \ {u} : job'[b] = job[b]
  BY <1>1, <1>2 DEF Typed, ClientTyped
<1>4. StillAhead
  BY <1>1, <1>2 DEF StillAhead, Ahead
<1>5. \A n \in Nat : Ahead(n, u) => n < g.n
  BY <1>2 DEF Ahead
<1>7. JobOrder'
  <2>1. Held(u)' => /\ job'[u].frame.src = u /\ Ahead(job[u].frame.n, u)'
                    /\ job'[u].frame.cmd # "hardware"
    BY <1>1, <1>2, <1>3 DEF Ahead
  <2> QED
    BY <1>3, <1>4, <2>1 DEF Ordered, JobOrder, Held, StillAhead
<1>8. \A n \in Nat, b \in Source : b # u /\ Shared(n, b) => Shared(n, b)'
  BY <1>3, <1>4 DEF Shared, Held, StillAhead
<1>9. TxOrder' /\ AirOrder'
  BY <1>1, <1>2, <1>8 DEF Ordered, TxOrder, AirOrder
<1>10. GotOrder'
  BY <1>1, <1>3, <1>4, <1>5 DEF Ordered, GotOrder, StillAhead
<1>11. Apart'
  <2>1. \A d \in PortConn : Carried(d)' = Carried(d)
    BY <1>1, <1>2, <1>3 DEF Carried
  <2> QED
    BY <2>1, ApartKept DEF Ordered
<1>12. QueueOrder'
  BY <1>1 DEF Ordered, QueueOrder
<1>13. UpOrder'
  <2>1. \A c \in Conn : \A f \in ToSet(up[c]) : f.n \in Nat
    OBVIOUS
  <2> QED
    BY <1>1, <1>2, <2>1 DEF Ordered, UpOrder
<1> QED
  BY <1>7, <1>9, <1>10, <1>11, <1>12, <1>13 DEF Ordered

LEMMA InitOrdered == Init => Ordered
<1> SUFFICES ASSUME Init PROVE Ordered
  OBVIOUS
<1> USE Sets DEF Init, PortInit, ToSet, Sorted, InOrder
<1>1. QueueOrder /\ UpOrder
  BY DEF QueueOrder, UpOrder
<1>2. JobOrder
  BY DEF JobOrder, Held, Idle
<1>3. TxOrder /\ AirOrder
  BY DEF TxOrder, AirOrder
<1>4. GotOrder
  BY DEF GotOrder, NoTraffic
<1>5. Apart
  <2>1. \A c \in PortConn : Carried(c) = {}
    BY DEF Carried, Idle, NoFrame, Frame
  <2> QED
    BY <2>1 DEF Apart
<1> QED
  BY <1>1, <1>2, <1>3, <1>4, <1>5 DEF Ordered

LEMMA NextOrdered == Typed /\ Ordered /\ [Next]_vars => Ordered'
<1> SUFFICES ASSUME Typed, Ordered, [Next]_vars PROVE Ordered'
  OBVIOUS
<1>1. CASE UNCHANGED vars
  BY <1>1, StillSteps DEF vars, portvars, tcpvars, proxyvars, clientvars, tncvars
<1>2. CASE Run
  BY <1>2, StillSteps DEF Run, RunConnEnds, Dial, tcpvars, proxyvars, clientvars, tncvars
<1>3. CASE Upstream
  BY <1>3, StillSteps, ServeOrder
     DEF Upstream, DialUpstream, portvars, tcpvars, clientvars, tncvars
<1>4. CASE (Send \/ RestartPort \/ \E c \in Conn : Break(c)) /\ UNCHANGED proxyvars
  BY <1>4, StillSteps, SendOrder
     DEF RestartPort, Break, portvars, proxyvars, clientvars, tncvars
<1>5. ASSUME NEW c \in PortConn, Writer(c) PROVE Ordered'
  BY <1>5, StillSteps, WriterOrder
     DEF Writer, WriteLoopCancelled, tcpvars, proxyvars, clientvars, tncvars
<1>6. ASSUME NEW c \in Ext, Joins(c) \/ ClientSends(c) PROVE Ordered'
  BY <1>6, StillSteps, ClientSendOrder DEF Joins, portvars, clientvars, tncvars
<1>7. ASSUME NEW b \in Source, Broadcasts(b) PROVE Ordered'
  BY <1>7, WriteStartsOrder, WriteEndsOrder DEF Broadcasts
<1>8. ASSUME NEW c \in Conn, ClientLoop(c) PROVE Ordered'
  BY <1>7, <1>8, StillSteps, ClientFrameOrder, ClientQueueOrder, Sets
     DEF ClientLoop, Accept, ClientEnds, portvars, tcpvars, tncvars
<1>9. ASSUME NEW u \in Up, Broadcasts(u) \/ TNCReadEnds(u) \/ TNCFrame(u) \/ TNCBreaks(u)
      PROVE  Ordered'
  BY <1>7, <1>9, StillSteps, TNCFrameOrder, Sets
     DEF TNCReadEnds, TNCBreaks, portvars, tcpvars, clientvars
<1> QED
  BY <1>1, <1>2, <1>3, <1>4, <1>5, <1>6, <1>8, <1>9 DEF Next

LEMMA OrderIsKept == Ordered => FramesKeepTheirOrder
<1> SUFFICES ASSUME Ordered PROVE FramesKeepTheirOrder
  OBVIOUS
<1> USE Sets
<1>1. \A c \in Conn : \A i \in DOMAIN toTNC[c] :
         toTNC[c][i] \in ToSet(toTNC[c]) /\ toTNC[c][i].src = c
         /\ toTNC[c][i].cmd # "hardware"
  BY DEF Ordered, AirOrder, ToSet
<1>2. \A c \in Conn : InOrder(Numbers(toTNC[c]))
  BY <1>1 DEF Ordered, AirOrder, Sorted, InOrder, Numbers
<1>3. \A c \in Conn : (\A s \in Source : InOrder(down[c].got[s])) /\ down[c].got[c] = <<>>
  BY DEF Ordered, GotOrder
<1>4. \A c, d \in PortConn : c # d =>
          \A i \in DOMAIN toTNC[c], j \in DOMAIN toTNC[d] :
              toTNC[c][i].n # toTNC[d][j].n
  <2>1. \A c \in PortConn : \A i \in DOMAIN toTNC[c] : toTNC[c][i] \in Carried(c)
    BY <1>1 DEF Carried
  <2> QED
    BY <2>1 DEF Ordered, Apart
<1> QED
  BY <1>1, <1>2, <1>3, <1>4 DEF FramesKeepTheirOrder

\* No client is sent a frame twice, out of order or its own, and the TNC gets no
\* packet of the port twice, through both queues and all reconnects.
THEOREM OrderIsStable == Spec => []FramesKeepTheirOrder
BY InitTyped, NextTyped, InitOrdered, NextOrdered, OrderIsKept, PTL DEF Spec
=============================================================================
