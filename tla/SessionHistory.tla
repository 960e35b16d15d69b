--------------------------- MODULE SessionHistory ---------------------------
(***************************************************************************)
(* SessionManager with two variables that remember what its properties     *)
(* about several steps speak of.  They restrict nothing.                   *)
(***************************************************************************)
EXTENDS SessionManager

VARIABLES
    disturbed,   \* since the last Connect, a context was cancelled or the peer
                 \* ended or reset the link while a call was in progress
    lastReject   \* N(R) of the last REJ handed to the port

historyVars == <<vars, disturbed, lastReject>>

HistoryInit == Init /\ disturbed = FALSE /\ lastReject = 0

Disturbs ==
    disturbed' =
        IF op.pc = "idle" /\ op'.pc = "announce" THEN FALSE
        ELSE \/ disturbed
             \/ op'.cancelled
             \/ op.pc # "idle" /\ rx'.pc = "finish" /\ IsLinkTermination(rx'.ack)

Rejects ==
    lastReject' = IF io'.tx # <<>> /\ io'.tx[1].type = "REJ"
                  THEN io'.tx[1].nr ELSE lastReject

HistoryNext == Next /\ Disturbs /\ Rejects

HistorySpec == HistoryInit /\ [][HistoryNext]_historyVars

FairHistorySpec == HistorySpec /\ Fairness

-----------------------------------------------------------------------------
\* Between two calls that nothing disturbed, a link that is up is in the
\* connected state with an empty window: V(A) = V(S), no I frame outstanding
\* and no enquiry left over (sendChunk, probeLink, Connect).
QuiescentBetweenCalls ==
    op.pc = "idle" /\ InDataState(state) /\ ~disturbed =>
        state = "connected" /\ va = vs

\* While a reject is outstanding, and further ones are suppressed, the REJ the
\* peer was sent names the frame the link still waits for; otherwise nothing
\* would ask the peer for it (rejectSent in Handle, Connect and failLink).
OutstandingRejectNamesVR ==
    rejectSent /\ rx.pc = "idle" => lastReject = vr

\* TestRemoteDMDuringTimerRecoveryDoesNotReconnect: once the peer took the
\* link down, a call that was recovering it does not bring it up again.
DisconnectedStaysDown ==
    [][state = "disconnected" => ~InDataState(state')]_vars
=============================================================================
