----------------------------- MODULE StableStore -----------------------------
(***************************************************************************)
(* What the mail server promises its clients.  A client hands a mail over  *)
(* and waits for the answer.  Mails become durable at some time, several   *)
(* at once, and stay so; only a durable mail is acknowledged.  When the    *)
(* server is started again the mails in hand are forgotten, and nothing    *)
(* else.  A mail that was refused or forgotten may be durable all the      *)
(* same, or become so later.                                               *)
(***************************************************************************)
CONSTANTS Clients, Mails

VARIABLES
    hand,       \* hand[c]: the mail of client c that is not answered yet
    taken,      \* all mails that were handed over
    stored,     \* the durable ones
    acked       \* the acknowledged ones

vars == <<hand, taken, stored, acked>>

Nothing == [c \in Clients |-> {}]

Init == hand = Nothing /\ taken = {} /\ stored = {} /\ acked = {}

Take(c, m) ==
    /\ hand[c] = {} /\ m \notin taken
    /\ hand' = [hand EXCEPT ![c] = {m}]
    /\ taken' = taken \cup {m}
    /\ UNCHANGED <<stored, acked>>

Sync ==
    /\ stored \subseteq stored' /\ stored' \subseteq taken
    /\ UNCHANGED <<hand, taken, acked>>

Acknowledge(c) ==
    /\ hand[c] # {} /\ hand[c] \subseteq stored
    /\ acked' = acked \cup hand[c]
    /\ hand' = [hand EXCEPT ![c] = {}]
    /\ UNCHANGED <<taken, stored>>

Refuse(c) ==
    /\ hand[c] # {}
    /\ hand' = [hand EXCEPT ![c] = {}]
    /\ UNCHANGED <<taken, stored, acked>>

Restart ==
    /\ hand' = Nothing
    /\ UNCHANGED <<taken, stored, acked>>

Next ==
    \/ Sync \/ Restart
    \/ \E c \in Clients : Acknowledge(c) \/ Refuse(c) \/ \E m \in Mails : Take(c, m)

Spec == Init /\ [][Next]_vars
=============================================================================
