------------------------- MODULE MCSessionReceiver -------------------------
(***************************************************************************)
(* The receiving half of SessionManager: I frames in and out of sequence,  *)
(* polls, resets, and both sides of a negotiation.                         *)
(***************************************************************************)
EXTENDS SessionHistory

CONSTANTS d1

MCData == {d1}

NoMessage == {}

ReceiverFrames ==
    {Unnumbered("UA", "rsp", TRUE), Unnumbered("SABM", "cmd", TRUE),
     Information(0, 0, FALSE, d1), Information(1, 0, TRUE, d1),
     Information(0, 0, FALSE, Oversize),
     Unnumbered("XID", "rsp", TRUE), Unnumbered("XID", "cmd", TRUE)}
=============================================================================
