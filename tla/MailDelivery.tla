---------------------------- MODULE MailDelivery ----------------------------
(***************************************************************************)
(* What forwarding promises: a text posted at one BBS is copied to others; *)
(* no BBS loses it again; and a BBS is recorded as having a text only when *)
(* it has it, and for good.                                                *)
(***************************************************************************)
CONSTANTS Text, Bbs

VARIABLES
    held,       \* <<text, BBS>>: the BBS has the text
    recorded    \* <<text, BBS>>: some other BBS knows that it has

vars == <<held, recorded>>

Init == held = {} /\ recorded = {}

Holders(t) == {b \in Bbs : <<t, b>> \in held}

Post(t, b) ==
    /\ Holders(t) = {}
    /\ held' = held \cup {<<t, b>>}
    /\ UNCHANGED recorded

Copy(t, c) ==
    /\ Holders(t) # {} /\ c \notin Holders(t)
    /\ held' = held \cup {<<t, c>>}
    /\ UNCHANGED recorded

Record(t, c) ==
    /\ <<t, c>> \in held
    /\ recorded' = recorded \cup {<<t, c>>}
    /\ UNCHANGED held

Next == \E t \in Text, b \in Bbs : Post(t, b) \/ Copy(t, b) \/ Record(t, b)

Spec == Init /\ [][Next]_vars
=============================================================================
