---------------------------- MODULE MCForwarding ----------------------------
(***************************************************************************)
(* Instances of Forwarding for TLC: a BBS a that forwards mail for b and   *)
(* all bulletins to b, whose software may defer.                           *)
(***************************************************************************)
EXTENDS Forwarding, TLC

CONSTANTS a, b, u1, u2, u3, area, t1, t2

MCBbs == {a, b}
MCUser == {u1, u2, u3}
MCAddress == {a, b, u1, u2, u3, area}
MCDeferring == {b}
MCLogin == a :> {} @@ b :> {u3}

MCScopes == [h \in MCBbs |-> [p \in MCBbs |-> {area}]]
MCRoutes == [h \in MCBbs |-> [p \in MCBbs |-> {p}]]

OneWay == a :> <<b>> @@ b :> <<>>

Mail == [home |-> a, type |-> "P", from |-> u1, to |-> u2, at |-> b, text |-> t1]
Bulletin == [home |-> a, type |-> "B", from |-> u1, to |-> area, at |-> NoAddress,
             text |-> t2]
Letters == {Mail, Bulletin}

\* Both BBSs forward; the author of Mail writes at b as well, so that bulletins
\* cross and come back.
BothWays == a :> <<b>> @@ b :> <<a>>
AwayLetters == {Mail, [Bulletin EXCEPT !.home = b]}
=============================================================================
