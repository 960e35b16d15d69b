-------------------------- MODULE OperatorTerminal --------------------------
(***************************************************************************)
(* The operator's terminal (internal/web/server.go): calls that come in    *)
(* over the radio (ServeOperatorAX25), the handler of a terminal WebSocket *)
(* with the goroutines it starts, and what they note in the history.       *)
(*                                                                         *)
(* The page opens a socket for one connection (static/app.js), so a socket *)
(* sees one connect.  A radio session is what its Manager promises:        *)
(* Connect ends, Disconnect leaves it down, each change of state is an     *)
(* event, and both wait while the other runs.  SessionManager has the      *)
(* rest.  No channel gets full, and a write to the browser does not block. *)
(***************************************************************************)
EXTENDS Sequences, History

CONSTANTS
    Socket,     \* terminal WebSockets
    Inbound,    \* calls from the radio to the operator's callsign
    Modes,      \* what each socket may connect to: "incoming", "bbs", "tnc"
    MaxExtras,  \* texts sent and conversations deleted at most, together
    None

ASSUME TerminalAssumption ==
    /\ Modes \in [Socket -> SUBSET {"incoming", "bbs", "tnc"}]
    /\ MaxExtras \in Nat /\ None \notin Inbound
    /\ Inbound \cap {"off", "bbs", "done"} = {}
    /\ {"station", "bbs"} \subseteq Key

VARIABLES
    call,     \* inbound calls: where ServeOperatorAX25 is, whether the call can
              \* be claimed, was claimed, is closed, and the far end is there
    page,     \* the browser's side of the socket
    told,     \* the state the browser was last told; it closes when told over
    at,       \* where the handler of the socket is
    mode,     \* activeMode
    held,     \* incoming: the call the handler has claimed
    copier,   \* copyOperatorToWS or copyTelnetToWS: what it reads, and the
              \* history session it was started for
    bbs,      \* the connection to the local BBS
    token,    \* remoteDone holds a token
    radio,    \* the state of the radio session
    conn,     \* the goroutine that calls Connect
    hub,      \* the session gets frames from the hub
    events,   \* events queued for the pump, the goroutine that forwards them
    texts,    \* texts queued in txJobs
    noted,    \* historySession: 0 or the number of the socket's history session
    hconn,    \* historyConnected
    hist,     \* the history
    count     \* texts sent and conversations deleted

callvars == <<held, copier>>
bbsvars == <<bbs, token>>
radiovars == <<radio, conn, hub, events>>
histvars == <<noted, hconn, hist>>
vars == <<call, page, told, at, mode, callvars, bbsvars, radiovars, texts,
          histvars, count>>

-----------------------------------------------------------------------------
Call == [at: {"idle", "ringing", "talking", "leaving", "over"},
         listed: BOOLEAN, claimed: BOOLEAN, closed: BOOLEAN, far: BOOLEAN]

\* A page told that its connection is over takes no other state.
Tell(t, state) ==
    told' = [told EXCEPT ![t] = IF @ = "over" THEN @ ELSE state]

Begin(t, k) ==
    /\ hist' = Begun(hist, k)
    /\ noted' = [noted EXCEPT ![t] = hist'.next]

\* operatorSession.close
Closed(i) == [call EXCEPT ![i].closed = TRUE]

EmittedUnbuffered(t, e) ==
    events' = [events EXCEPT ![t] =
                 IF at[t] = "returned" \/ @ # <<>> THEN @ ELSE <<e>>]

\* The handler unsubscribes as it returns.
Emitted(t, e) ==
    events' = [events EXCEPT ![t] = IF at[t] = "returned" THEN @ ELSE Append(@, e)]

Copier(src, id) == [src |-> src, id |-> id]

Copies(t, src) ==
    copier' = [copier EXCEPT ![t] = Copier(src, hist'.next)]

Init ==
    /\ call = [i \in Inbound |-> [at |-> "idle", listed |-> FALSE,
                 claimed |-> FALSE, closed |-> FALSE, far |-> FALSE]]
    /\ page = [t \in Socket |-> "none"] /\ told = [t \in Socket |-> "none"]
    /\ at = [t \in Socket |-> "off"] /\ mode = [t \in Socket |-> ""]
    /\ held = [t \in Socket |-> None] /\ copier = [t \in Socket |-> Copier("off", 0)]
    /\ bbs = [t \in Socket |-> "off"] /\ token = [t \in Socket |-> FALSE]
    /\ radio = [t \in Socket |-> "none"] /\ conn = [t \in Socket |-> "off"]
    /\ hub = [t \in Socket |-> FALSE] /\ events = [t \in Socket |-> <<>>]
    /\ texts = [t \in Socket |-> 0] /\ noted = [t \in Socket |-> 0]
    /\ hconn = [t \in Socket |-> FALSE] /\ hist = EmptyHistory
    /\ count = 0

-----------------------------------------------------------------------------
(* ServeOperatorAX25, one goroutine per call.                              *)

Arrives(i) ==
    /\ call[i].at = "idle"
    /\ call' = [call EXCEPT ![i] = [@ EXCEPT !.at = "ringing", !.listed = TRUE,
                                            !.far = TRUE]]
    /\ UNCHANGED <<page, told, at, mode, callvars, bbsvars, radiovars, texts,
                   histvars, count>>

\* The timer may win although the call has been claimed meanwhile.
Expires(i) ==
    /\ call[i].at = "ringing"
    /\ call' = [call EXCEPT ![i].at = "leaving", ![i].closed = TRUE]
    /\ UNCHANGED <<page, told, at, mode, callvars, bbsvars, radiovars, texts,
                   histvars, count>>

\* The other branches of the select, and the wait for done after a claim.
Serves(i) ==
    /\ \/ /\ call[i].at = "ringing" /\ call[i].claimed
          /\ call' = [call EXCEPT ![i].at = "talking"]
       \/ /\ call[i].at \in {"ringing", "talking"} /\ call[i].closed
          /\ call' = [call EXCEPT ![i].at = "leaving"]
       \/ /\ call[i].at = "leaving"
          /\ call' = [call EXCEPT ![i].at = "over", ![i].listed = FALSE]
    /\ UNCHANGED <<page, told, at, mode, callvars, bbsvars, radiovars, texts,
                   histvars, count>>

\* The link ends at the other side; only a reader of the call notices.
FarEnds(i) ==
    /\ call[i].far /\ call' = [call EXCEPT ![i].far = FALSE]
    /\ UNCHANGED <<page, told, at, mode, callvars, bbsvars, radiovars, texts,
                   histvars, count>>

-----------------------------------------------------------------------------
(* The page and the handler of its socket.                                 *)

\* The user closes the tab, or the page its socket because it was told over.
PageCloses(t) ==
    /\ page[t] = "open" /\ page' = [page EXCEPT ![t] = "closed"]
    /\ UNCHANGED <<call, told, at, mode, callvars, bbsvars, radiovars, texts,
                   histvars, count>>

\* What every connect does, the first message on its socket: closeRemote puts a
\* token even without a connection.
Connecting(t, m) ==
    /\ page[t] = "none" /\ m \in Modes[t]
    /\ page' = [page EXCEPT ![t] = "open"]
    /\ at' = [at EXCEPT ![t] = "loop"]
    /\ mode' = [mode EXCEPT ![t] = m]
    /\ token' = [token EXCEPT ![t] = TRUE]
    /\ UNCHANGED <<texts, count>>

ClaimedButListed(i) == [call EXCEPT ![i].claimed = TRUE]

\* claimOperatorSession
Claimed(i) == [call EXCEPT ![i].claimed = TRUE, ![i].listed = FALSE]

ConnectIncoming(t, i) ==
    /\ Connecting(t, "incoming") /\ call[i].at # "idle"
    /\ IF call[i].listed
       THEN /\ call' = Claimed(i)
            /\ held' = [held EXCEPT ![t] = i]
            /\ Begin(t, "station") /\ Copies(t, i) /\ hconn' = [hconn EXCEPT ![t] = TRUE]
            /\ Tell(t, "connected")
       ELSE Tell(t, "over") /\ UNCHANGED <<call, callvars, histvars>>
    /\ UNCHANGED <<bbs, radiovars>>

ConnectBBS(t) ==
    /\ Connecting(t, "bbs")
    /\ \/ /\ bbs' = [bbs EXCEPT ![t] = "open"]
          /\ Begin(t, "bbs") /\ Copies(t, "bbs") /\ hconn' = [hconn EXCEPT ![t] = TRUE]
          /\ Tell(t, "connected")
       \/ Tell(t, "over") /\ UNCHANGED <<bbs, copier, histvars>>
    /\ UNCHANGED <<call, held, radiovars>>

\* The new session publishes its state to the new subscriber.
ConnectRadio(t) ==
    /\ Connecting(t, "tnc")
    /\ radio' = [radio EXCEPT ![t] = "down"] /\ hub' = [hub EXCEPT ![t] = TRUE]
    /\ events' = [events EXCEPT ![t] = <<"snapshot">>]
    /\ conn' = [conn EXCEPT ![t] = "starting"]
    /\ UNCHANGED <<call, told, callvars, bbs, histvars>>

\* closeRemote
RemoteClosed(t) ==
    /\ bbs' = [bbs EXCEPT ![t] = IF @ = "off" THEN @ ELSE "closed"]
    /\ token' = [token EXCEPT ![t] = TRUE]

\* A message of data.  What is sent on an inbound call is noted under the mode
\* "incoming", where no conversation is.  The write to a BBS that has ended may
\* still succeed.
Data(t) ==
    /\ page[t] = "open" /\ at[t] = "loop" /\ told[t] = "connected"
    /\ count < MaxExtras /\ count' = count + 1
    /\ \/ /\ mode[t] = "tnc" /\ texts' = [texts EXCEPT ![t] = @ + 1]
          /\ UNCHANGED <<told, bbsvars, hist>>
       \/ /\ mode[t] = "incoming" /\ held[t] # None /\ hist' = Added(hist, "incoming")
          /\ UNCHANGED <<told, bbsvars, texts>>
       \/ /\ mode[t] = "bbs" /\ bbs[t] \in {"open", "ended"}
          /\ hist' = IF hconn[t] THEN Added(hist, "bbs") ELSE hist
          /\ UNCHANGED <<told, bbsvars, texts>>
       \/ /\ mode[t] = "bbs" /\ bbs[t] = "ended"
          /\ RemoteClosed(t) /\ Tell(t, "over")
          /\ UNCHANGED <<texts, hist>>
    /\ UNCHANGED <<call, page, at, mode, callvars, radiovars, noted, hconn>>

\* A message to disconnect: an inbound call gets the goodbye and is closed at
\* once, a radio session waits for its turn.
AskDisconnect(t) ==
    /\ page[t] = "open" /\ at[t] = "loop" /\ mode[t] # "" /\ told[t] # "over"
    /\ call' = IF held[t] # None THEN Closed(held[t]) ELSE call
    /\ held' = [held EXCEPT ![t] = None]
    /\ at' = [at EXCEPT ![t] = IF mode[t] = "tnc" THEN "goodbye" ELSE "tail"]
    /\ UNCHANGED <<page, told, mode, copier, bbsvars, radiovars, texts, histvars, count>>

\* Operations of a session exclude each other; only Connect takes several steps.
Turn(t) == conn[t] # "running"

\* The session is down after Disconnect whether or not the peer answers.
Disconnected(t) ==
    IF radio[t] = "connected"
    THEN radio' = [radio EXCEPT ![t] = "down"] /\ Emitted(t, "down")
    ELSE UNCHANGED <<radio, events>>

\* The goodbye, then Disconnect; a text may go out between the two.
Goodbye(t) ==
    /\ at[t] = "goodbye" /\ Turn(t) /\ at' = [at EXCEPT ![t] = "release"]
    /\ UNCHANGED <<call, page, told, mode, callvars, bbsvars, radiovars, texts,
                   histvars, count>>

Release(t) ==
    /\ at[t] = "release" /\ Turn(t) /\ at' = [at EXCEPT ![t] = "tail"]
    /\ Disconnected(t)
    /\ UNCHANGED <<call, page, told, mode, callvars, bbsvars, conn, hub, texts,
                   histvars, count>>

Idle(t) ==
    /\ at[t] = "tail" /\ at' = [at EXCEPT ![t] = "loop"]
    /\ RemoteClosed(t)
    /\ hist' = Ended(hist, noted[t])
    /\ noted' = [noted EXCEPT ![t] = 0] /\ hconn' = [hconn EXCEPT ![t] = FALSE]
    /\ mode' = [mode EXCEPT ![t] = ""]
    /\ Tell(t, "over")
    /\ UNCHANGED <<call, page, callvars, radiovars, texts, count>>

\* ReadJSON fails: the deferred calls, the last one deferred first.  The session
\* is out of the hub before it is disconnected, and unsubscribed afterwards.
Leave(t) ==
    /\ page[t] = "closed" /\ at[t] = "loop" /\ at' = [at EXCEPT ![t] = "leaving"]
    /\ hist' = Ended(hist, noted[t])
    /\ hub' = [hub EXCEPT ![t] = FALSE]
    /\ UNCHANGED <<call, page, told, mode, callvars, bbsvars, radio, conn, events,
                   texts, noted, hconn, count>>

LeaveRadio(t) ==
    /\ at[t] = "leaving" /\ Turn(t) /\ at' = [at EXCEPT ![t] = "closing"]
    /\ Disconnected(t)
    /\ UNCHANGED <<call, page, told, mode, callvars, bbsvars, conn, hub, texts,
                   histvars, count>>

ReturnsWithCall(t) ==
    /\ at[t] = "closing" /\ at' = [at EXCEPT ![t] = "returned"]
    /\ RemoteClosed(t)
    /\ UNCHANGED <<call, held, page, told, mode, copier, radiovars, texts, histvars,
                   count>>

ReturnsUnread(t) ==
    /\ at[t] = "closing" /\ at' = [at EXCEPT ![t] = "returned"]
    /\ call' = IF held[t] # None THEN Closed(held[t]) ELSE call
    /\ held' = [held EXCEPT ![t] = None]
    /\ events' = [events EXCEPT ![t] = <<>>]
    /\ RemoteClosed(t)
    /\ UNCHANGED <<page, told, mode, copier, radio, conn, hub, texts, histvars, count>>

Returns(t) ==
    /\ at[t] = "closing" /\ at' = [at EXCEPT ![t] = "returned"]
    /\ call' = IF held[t] # None THEN Closed(held[t]) ELSE call
    /\ held' = [held EXCEPT ![t] = None]
    /\ RemoteClosed(t)
    /\ UNCHANGED <<page, told, mode, copier, radiovars, texts, histvars, count>>

-----------------------------------------------------------------------------
(* The goroutines beside the handler.                                      *)

CopyEndsOpen(t) ==
    /\ copier[t].src \in Inbound
    /\ LET i == copier[t].src IN ~call[i].far \/ call[i].closed
    /\ Tell(t, "over")
    /\ hist' = Ended(hist, copier[t].id)
    /\ copier' = [copier EXCEPT ![t].src = "done"]
    /\ UNCHANGED <<call, page, at, mode, held, bbsvars, radiovars, texts, noted, hconn,
                   count>>

\* copyOperatorToWS: the read fails.  What it receives is noted under the port
\* "radio", where no conversation is.
CopyEnds(t) ==
    /\ copier[t].src \in Inbound
    /\ LET i == copier[t].src
       IN  (~call[i].far \/ call[i].closed) /\ call' = Closed(i)
    /\ Tell(t, "over")
    /\ hist' = Ended(hist, copier[t].id)
    /\ copier' = [copier EXCEPT ![t].src = "done"]
    /\ UNCHANGED <<page, at, mode, held, bbsvars, radiovars, texts, noted, hconn,
                   count>>

\* It has received something and the browser is gone.
CopyHasNoReader(t) ==
    /\ copier[t].src \in Inbound /\ page[t] = "closed"
    /\ call' = Closed(copier[t].src)
    /\ hist' = Ended(hist, copier[t].id)
    /\ copier' = [copier EXCEPT ![t].src = "done"]
    /\ UNCHANGED <<page, told, at, mode, held, bbsvars, radiovars, texts, noted,
                   hconn, count>>

BBSEnds(t) ==
    /\ bbs[t] = "open" /\ bbs' = [bbs EXCEPT ![t] = "ended"]
    /\ UNCHANGED <<call, page, told, at, mode, callvars, token, radiovars, texts,
                   histvars, count>>

\* copyTelnetToWS: the token is to say that this side has closed.
TelnetEnds(t) ==
    /\ copier[t].src = "bbs" /\ bbs[t] \in {"ended", "closed"}
    /\ token' = [token EXCEPT ![t] = FALSE]
    /\ IF token[t] THEN UNCHANGED told ELSE Tell(t, "over")
    /\ hist' = Ended(hist, copier[t].id)
    /\ copier' = [copier EXCEPT ![t].src = "done"]
    /\ UNCHANGED <<call, page, at, mode, held, bbs, radiovars, texts, noted, hconn,
                   count>>

\* The context of the goroutine that connects ends with the handler.
ConnStarts(t) ==
    /\ conn[t] = "starting"
    /\ \/ /\ at[t] # "returned"
          /\ conn' = [conn EXCEPT ![t] = "running"]
          /\ radio' = [radio EXCEPT ![t] = "awaiting"]
       \/ /\ at[t] = "returned"
          /\ conn' = [conn EXCEPT ![t] = "done"] /\ UNCHANGED radio
    /\ UNCHANGED <<call, page, told, at, mode, callvars, bbsvars, hub, events, texts,
                   histvars, count>>

ConnEnds(t) ==
    /\ conn[t] = "running" /\ conn' = [conn EXCEPT ![t] = "done"]
    /\ \/ /\ hub[t] /\ radio' = [radio EXCEPT ![t] = "connected"]
          /\ Emitted(t, "up") /\ UNCHANGED told
       \/ /\ radio' = [radio EXCEPT ![t] = "down"]
          /\ Emitted(t, "down") /\ Tell(t, "over")
    /\ UNCHANGED <<call, page, at, mode, callvars, bbsvars, hub, texts, histvars, count>>

\* The peer disconnects, or the link is given up.
LinkEnds(t) ==
    /\ radio[t] = "connected" /\ radio' = [radio EXCEPT ![t] = "down"]
    /\ Emitted(t, "down")
    /\ UNCHANGED <<call, page, told, at, mode, callvars, bbsvars, conn, hub, texts,
                   histvars, count>>

\* The worker of txJobs; only what was acknowledged is noted.
TextDone(t) ==
    /\ texts[t] > 0 /\ at[t] # "returned" /\ Turn(t)
    /\ texts' = [texts EXCEPT ![t] = @ - 1]
    /\ \/ radio[t] = "connected" /\ hist' = Added(hist, "station")
       \/ UNCHANGED hist
    /\ UNCHANGED <<call, page, told, at, mode, callvars, bbsvars, radiovars, noted,
                   hconn, count>>

\* The pump leaves the subscriber's first snapshot out.  It uses the handler's
\* historyConnected: an "up" it forwards after Idle begins a second session in
\* the history, which the "down" behind it ends.
Pump(t) ==
    /\ events[t] # <<>> /\ events' = [events EXCEPT ![t] = Tail(@)]
    /\ \/ Head(events[t]) = "snapshot" /\ UNCHANGED <<told, histvars>>
       \/ /\ Head(events[t]) = "up" /\ Tell(t, "connected")
          /\ hconn' = [hconn EXCEPT ![t] = TRUE]
          /\ IF hconn[t] THEN UNCHANGED <<noted, hist>> ELSE Begin(t, "station")
       \/ /\ Head(events[t]) = "down" /\ Tell(t, "over")
          /\ hconn' = [hconn EXCEPT ![t] = FALSE]
          /\ hist' = IF hconn[t] THEN Ended(hist, noted[t]) ELSE hist
          /\ UNCHANGED noted
    /\ UNCHANGED <<call, page, at, mode, callvars, bbsvars, radio, conn, hub, texts,
                   count>>

\* A conversation, or all, deleted from the page of the history.
DeleteHistory ==
    /\ count < MaxExtras /\ count' = count + 1
    /\ hist' \in {Deleted(hist, k) : k \in {l \in Key : Kept(hist, l)}}
                \cup {Cleared(hist)}
    /\ UNCHANGED <<call, page, told, at, mode, callvars, bbsvars, radiovars, texts,
                   noted, hconn>>

Next ==
    \/ \E i \in Inbound : Arrives(i) \/ Expires(i) \/ Serves(i) \/ FarEnds(i)
    \/ \E t \in Socket :
        \/ PageCloses(t) \/ ConnectBBS(t) \/ ConnectRadio(t)
        \/ \E i \in Inbound : ConnectIncoming(t, i)
        \/ Data(t) \/ AskDisconnect(t) \/ Goodbye(t) \/ Release(t) \/ Idle(t)
        \/ Leave(t) \/ LeaveRadio(t) \/ Returns(t)
        \/ CopyEnds(t) \/ CopyHasNoReader(t) \/ BBSEnds(t) \/ TelnetEnds(t)
        \/ ConnStarts(t) \/ ConnEnds(t) \/ LinkEnds(t) \/ TextDone(t) \/ Pump(t)
    \/ DeleteHistory

Spec == Init /\ [][Next]_vars

\* Every goroutine goes on, timers fire, and Connect ends at its deadline.  The
\* far ends, the user and the BBS need not do anything.
Fairness ==
    /\ \A i \in Inbound : WF_vars(Expires(i) \/ Serves(i))
    /\ \A t \in Socket :
        /\ WF_vars(Goodbye(t) \/ Release(t) \/ Idle(t) \/ Leave(t) \/ LeaveRadio(t)
                   \/ Returns(t))
        /\ WF_vars(CopyEnds(t) \/ TelnetEnds(t))
        /\ WF_vars(ConnStarts(t) \/ ConnEnds(t))
        /\ WF_vars(Pump(t))

FairSpec == Spec /\ Fairness

-----------------------------------------------------------------------------
\* A call is with one terminal at most and cannot be claimed again; a session in
\* the hub has a handler that will take it out.
TypeOK ==
    /\ call \in [Inbound -> Call]
    /\ \A t \in Socket :
        /\ page[t] \in {"none", "open", "closed"}
        /\ told[t] \in {"none", "connected", "over"}
        /\ at[t] \in {"off", "loop", "goodbye", "release", "tail", "leaving",
                      "closing", "returned"}
        /\ hub[t] => at[t] \notin {"leaving", "closing", "returned"}
        /\ held[t] # None => call[held[t]].claimed /\ ~call[held[t]].listed
        /\ \A u \in Socket \ {t} : held[t] # None => held[t] # held[u]

\* In every conversation of the history the begin markers without an end are
\* those of its sessions that go on, although the handler, the copier and the
\* pump may each end a session and the operator may delete the conversation
\* while it goes on (history/store.go active; changelog.en.md:96 "The beginning
\* and end of every connection are stored permanently").
EndsMatchBegins ==
    \A k \in Key :
        LET going == {s \in hist.active : s[2] = k}
        IN  hist.items[k].begun = hist.items[k].ended + Cardinality(going)

\* A call to the operator comes to its end, so that the link is disconnected:
\* after 30 seconds when nobody takes it, whichever of timer and claim wins, or
\* when the far end or the tab it is in goes away (server.go ServeOperatorAX25).
InConversation(i) ==
    call[i].far /\ \E t \in Socket : held[t] = i /\ page[t] # "closed"

CallEndsWithEitherEnd ==
    <>[](\A i \in Inbound : call[i].at \in {"idle", "over"} \/ InConversation(i))

\* A tab that was closed at any moment, also while it connects or disconnects,
\* leaves nothing running: its handler and the goroutines beside it end and its
\* radio session is down (server.go deferred calls of terminal).
Finished(t) ==
    at[t] \in {"off", "returned"} /\ events[t] = <<>> /\ copier[t].src \in {"off", "done"}

ClosedTabIsCleaned ==
    <>[](\A t \in Socket :
            page[t] = "closed" => Finished(t) /\ radio[t] \in {"none", "down"})

\* When every handler and its goroutines have ended, no conversation of the
\* history is left without its end, in whatever order they came to it.
EndIsRecorded == (\A t \in Socket : Finished(t)) => hist.active = {}

\* When a radio connection the browser was told of is over, the browser has been
\* told or is about to be (changelog.en.md:11 "The main terminal indicator now
\* shows only the session state").
RadioIsOver(t) ==
    \/ mode[t] = "tnc" /\ radio[t] = "down"
    \/ mode[t] = "incoming" /\ held[t] # None /\ call[held[t]].closed

EndOfCallIsShown ==
    \A t \in Socket : told[t] = "connected" /\ page[t] = "open" /\ RadioIsOver(t) =>
        \/ \E n \in DOMAIN events[t] : events[t][n] = "down"
        \/ copier[t].src \in Inbound
=============================================================================
