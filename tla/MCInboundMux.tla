---------------------------- MODULE MCInboundMux ----------------------------
(***************************************************************************)
(* Instances of InboundMux for TLC: one service of this node and stations  *)
(* that send the frames of a run in any order and number.                  *)
(***************************************************************************)
EXTENDS InboundMux

CONSTANTS r1, o1, o2, d1

MCRemote == {r1}
OneObj == {o1}
TwoObj == {o1, o2}
MCData == {d1}
NoWrites == {}

SABM == Unnumbered("SABM", "cmd", TRUE)
DISC == Unnumbered("DISC", "cmd", TRUE)

\* What the transmitting half reacts to, and frames that are only answered.
AnswerFrames ==
    {SABM, DISC, Supervisory("RR", "rsp", TRUE, 1), Supervisory("RR", "cmd", TRUE, 0),
     Supervisory("RNR", "rsp", FALSE, 0), Supervisory("REJ", "rsp", FALSE, 0),
     Unnumbered("UA", "rsp", TRUE), Unnumbered("UA", "cmd", TRUE),
     Unnumbered("TEST", "cmd", TRUE)}

\* A station that keeps sending data, in sequence while the link is reset.
DataFrames == {SABM, Information(0, 0, FALSE, d1), Information(1, 0, FALSE, d1)}

\* The same, and the frames of which only the link's answer is of interest.
ReadingFrames ==
    DataFrames \cup
    {Information(0, 0, FALSE, Oversize), Unnumbered("SABM", "rsp", TRUE),
     Unnumbered("DISC", "rsp", TRUE), Unnumbered("XID", "cmd", TRUE),
     [Unnumbered("XID", "cmd", TRUE) EXCEPT !.info = Unacceptable],
     Unnumbered("UI", "cmd", TRUE), Unnumbered("UI", "cmd", FALSE)}

-----------------------------------------------------------------------------
\* The services of the node keep reading what arrives.
ReadingSpec ==
    FairSpec /\ \A o \in Obj : WF_vars(ServiceReads(o) \/ ServiceReturns(o))
=============================================================================
