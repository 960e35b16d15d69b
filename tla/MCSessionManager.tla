-------------------------- MODULE MCSessionManager --------------------------
(***************************************************************************)
(* Instances of SessionManager for TLC: the frames a peer may send in a    *)
(* run, in any order and number.                                           *)
(***************************************************************************)
EXTENDS SessionHistory

CONSTANTS d1, d2

MCData == {d1, d2}

OneMessage == {<<d1>>}

Rsp(type, nr) == Supervisory(type, "rsp", TRUE, nr)

UA == Unnumbered("UA", "rsp", TRUE)
DM == Unnumbered("DM", "rsp", TRUE)
SABM == Unnumbered("SABM", "cmd", TRUE)
DISC == Unnumbered("DISC", "cmd", TRUE)

\* Every kind of acknowledgement of the first chunk, and the stale one.
TransferFrames ==
    {UA, Rsp("RR", 0), Rsp("RR", 1), Rsp("RNR", 0), Rsp("REJ", 0)}

\* The peer acknowledges, ends or resets the link, or sends what is only
\* answered.
WindowFrames ==
    {UA, DM, SABM, Rsp("RR", 1), Unnumbered("TEST", "cmd", TRUE),
     Supervisory("SREJ", "cmd", TRUE, 0),
     [Unnumbered("XID", "cmd", TRUE) EXCEPT !.info = Unacceptable]}

\* The peer answers, floods with stale answers, cannot negotiate, or leaves.
LivenessFrames ==
    {UA, Rsp("RR", 0), Rsp("RR", 1), DISC, Unnumbered("FRMR", "rsp", TRUE)}

\* The peer answers an enquiry, or leaves.
RecoveryFrames == {UA, DM, Rsp("RR", 0)}
=============================================================================
