---------------------------- MODULE MCDispatcher ----------------------------
(***************************************************************************)
(* A station with two ports, one call of its own and three neighbours.     *)
(***************************************************************************)
EXTENDS Dispatcher

CONSTANTS own, n1, n2, n3

Frm(src, dst, path, type, calls) ==
    [src |-> src, dst |-> dst, path |-> path, type |-> type, calls |-> calls]

Via(call, repeated) == [call |-> call, repeated |-> repeated]

\* Traffic of n1 and n2 through us, of n3 through n1, and two beacons, one of
\* which announces our own call.
StationFrames == {
    Frm(n1, n2, <<Via(own, FALSE)>>, "SABM", {}),
    Frm(n2, n1, <<Via(own, FALSE)>>, "UI", {}),
    Frm(n1, n2, <<Via(own, TRUE)>>, "SABM", {}),
    Frm(n2, own, <<Via(n1, TRUE)>>, "I", {}),
    Frm(own, n1, <<Via(n2, TRUE)>>, "UI", {}),
    Frm(n3, n1, <<Via(n2, TRUE), Via(own, FALSE)>>, "UI", {}),
    Frm(n1, BeaconCall, <<>>, "UI", {n2, n3}),
    Frm(n3, BeaconCall, <<>>, "UI", {own, n1})}
=============================================================================
