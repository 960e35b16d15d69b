-------------------------------- MODULE AX25 --------------------------------
(***************************************************************************)
(* The connected-mode vocabulary of internal/ax25 and of the two link      *)
(* state machines of internal/session: frames as internal/ax25 decodes     *)
(* them, modulo sequence numbers, and the bounded Go channels that carry   *)
(* the events of a link between its goroutines.                            *)
(*                                                                         *)
(* A frame here is one that already matched the port and the two station   *)
(* addresses of a link; addresses, digipeater paths and octets are left    *)
(* out.  The information field is abstracted to what a handler tests.      *)
(***************************************************************************)
EXTENDS Integers, Sequences

CONSTANTS
    Modulus,        \* sequence number space; `& 7' in the code, that is 8
    Data,           \* information fields a link may carry
    NoInfo,         \* empty information field
    Oversize,       \* an information field longer than the receiver's N1
    Unacceptable    \* an XID field that does not decode or asks for another profile

ASSUME ModulusAssumption == Modulus \in Nat /\ Modulus > 1

ASSUME InfoAssumption ==
    /\ {NoInfo, Oversize, Unacceptable} \cap Data = {}
    /\ NoInfo # Oversize /\ NoInfo # Unacceptable /\ Oversize # Unacceptable

SeqNo == 0 .. Modulus - 1

Info == Data \cup {NoInfo, Oversize, Unacceptable}

FrameType == {"I", "RR", "RNR", "REJ", "SREJ", "SABM", "SABME", "DISC", "DM",
              "UA", "UI", "FRMR", "XID", "TEST"}

\* "cmd" and "rsp" by the two C bits, "v1" when they are equal (AX.25 1.x).
Role == {"cmd", "rsp", "v1"}

Frame == [type : FrameType, cr : Role, pf : BOOLEAN,
          ns : SeqNo, nr : SeqNo, info : Info]

Succ(n) == (n + 1) % Modulus

IsCommand(f) == f.cr = "cmd"

IsResponse(f) == f.cr = "rsp"

Unnumbered(type, cr, pf) ==
    [type |-> type, cr |-> cr, pf |-> pf, ns |-> 0, nr |-> 0, info |-> NoInfo]

Supervisory(type, cr, pf, nr) ==
    [type |-> type, cr |-> cr, pf |-> pf, ns |-> 0, nr |-> nr, info |-> NoInfo]

Information(ns, nr, pf, data) ==
    [type |-> "I", cr |-> "cmd", pf |-> pf, ns |-> ns, nr |-> nr, info |-> data]

-----------------------------------------------------------------------------
(* What the dispatcher tells a transmitting goroutine about a frame.  The  *)
(* code reads `response' and `final' only together, so they are one field. *)

AckType == {"RR", "RNR", "REJ", "I", "DM", "DISC", "SABM", "none"}

Ack == [type : AckType, nr : SeqNo, answer : BOOLEAN]

NoAck == [type |-> "none", nr |-> 0, answer |-> FALSE]

\* REJ and SREJ are told apart nowhere in the two link machines.
AckOf(f) ==
    [type   |-> IF f.type = "SREJ" THEN "REJ" ELSE f.type,
     nr     |-> f.nr,
     answer |-> IsResponse(f) /\ f.pf]

Termination(type) == [type |-> type, nr |-> 0, answer |-> FALSE]

IsLinkTermination(a) == a.type \in {"DM", "DISC", "SABM"}

IsReject(a) == a.type = "REJ"

ControlEvent == [type : {"UA", "DM"}, answer : BOOLEAN]

\* Mutant: room for one event more than the channel has.
OfferBeyond(c, x, cap) == IF Len(c) <= cap THEN Append(c, x) ELSE c

\* Non-blocking send on a buffered channel: `select { case c <- x: default: }'.
Offer(c, x, cap) == IF Len(c) < cap THEN Append(c, x) ELSE c
=============================================================================
