------------------------------ MODULE RemoteCall ------------------------------
(***************************************************************************)
(* What the remoting protocol promises about control, without objects,     *)
(* packets or failures in detail: one token passes between the two sides,  *)
(* calls nest alternately, every reply answers the innermost call of the   *)
(* side it reaches, until the connection is lost.  The first call is the   *)
(* client's connection itself; a destroy request is a call like any other. *)
(***************************************************************************)
EXTENDS Integers

Client == "client"
Server == "server"
Peer == {Client, Server}
Other(p) == IF p = Client THEN Server ELSE Client

VARIABLES
    connected,  \* both ends are open
    side,       \* the side that holds the token, or that it travels to
    msg,        \* what the token travels as: "none" while its side runs
    out         \* out[p]: calls of p that have not returned

vars == <<connected, side, msg, out>>

Init ==
    /\ connected = TRUE
    /\ side = Server
    /\ msg = "none"
    /\ out = [p \in Peer |-> IF p = Client THEN 1 ELSE 0]

Call(p) ==
    /\ connected /\ side = p /\ msg = "none"
    /\ side' = Other(p) /\ msg' = "request"
    /\ out' = [out EXCEPT ![p] = @ + 1]
    /\ UNCHANGED connected

Serve(p) ==
    /\ connected /\ side = p /\ msg = "request"
    /\ msg' = "none"
    /\ UNCHANGED <<connected, side, out>>

Reply(p) ==
    /\ connected /\ side = p /\ msg = "none"
    /\ out[Other(p)] > 0
    /\ side' = Other(p) /\ msg' = "reply"
    /\ UNCHANGED <<connected, out>>

Return(p) ==
    /\ connected /\ side = p /\ msg = "reply"
    /\ msg' = "none"
    /\ out' = [out EXCEPT ![p] = @ - 1]
    /\ UNCHANGED <<connected, side>>

Disconnect ==
    /\ connected
    /\ connected' = FALSE
    /\ side' = Server /\ msg' = "none"
    /\ out' = [p \in Peer |-> 0]

Next == Disconnect \/ \E p \in Peer : Call(p) \/ Serve(p) \/ Reply(p) \/ Return(p)

Spec == Init /\ [][Next]_vars

-----------------------------------------------------------------------------
TypeOK ==
    /\ connected \in BOOLEAN
    /\ side \in Peer
    /\ msg \in {"none", "request", "reply"}
    /\ out \in [Peer -> Nat]

(* Calls alternate: the client has one call more outstanding than the       *)
(* server exactly while its answer is due (the server holds the token to    *)
(* answer it, or the answer travels), and a reply always finds a call.      *)
Alternation ==
    connected =>
        /\ out[Client] = out[Server] + (IF (side = Client) = (msg = "reply") THEN 1 ELSE 0)
        /\ msg = "reply" => out[side] > 0
=============================================================================
