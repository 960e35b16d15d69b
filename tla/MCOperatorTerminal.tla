------------------------- MODULE MCOperatorTerminal -------------------------
(***************************************************************************)
(* A tab that may make any kind of connection, and one that may only take  *)
(* the call, which both compete for.                                       *)
(***************************************************************************)
EXTENDS OperatorTerminal

CONSTANTS t1, t2

TwoModes ==
    [t \in Socket |-> IF t = t1 THEN {"incoming", "bbs", "tnc"} ELSE {"incoming"}]
=============================================================================
