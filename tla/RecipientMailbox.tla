--------------------------- MODULE RecipientMailbox ---------------------------
(***************************************************************************)
(* What the gateway's recipient queue promises, without streams, sequence  *)
(* numbers, cursors or handlers: each message enters the mailbox of each   *)
(* of its recipients at most once, leaves it only when the recipient's     *)
(* client has stored it or when it expires, and is confirmed to its sender *)
(* only after it entered the mailbox of every recipient.                   *)
(***************************************************************************)
CONSTANTS Messages, Uins, To

VARIABLES
    status,     \* [Uins -> [Messages -> absent, queued, taken or expired]]
    stored,     \* messages each user's client has stored
    confirmed   \* messages reported as delivered

vars == <<status, stored, confirmed>>

Init ==
    /\ status = [u \in Uins |-> [m \in Messages |-> "absent"]]
    /\ stored = [u \in Uins |-> {}]
    /\ confirmed = {}

Enter(u, m) ==
    /\ u \in To[m]
    /\ status[u][m] = "absent"
    /\ status' = [status EXCEPT ![u][m] = "queued"]
    /\ UNCHANGED <<stored, confirmed>>

Store(u, S) ==
    /\ \A m \in S : status[u][m] # "absent"
    /\ stored' = [stored EXCEPT ![u] = @ \union S]
    /\ UNCHANGED <<status, confirmed>>

Take(u, S) ==
    /\ S \subseteq stored[u]
    /\ \A m \in S : status[u][m] = "queued"
    /\ status' = [status EXCEPT
                    ![u] = [m \in Messages |-> IF m \in S THEN "taken" ELSE @[m]]]
    /\ UNCHANGED <<stored, confirmed>>

Expire(m) ==
    /\ status' = [u \in Uins |-> [status[u] EXCEPT ![m] = "expired"]]
    /\ UNCHANGED <<stored, confirmed>>

Confirm(m) ==
    /\ \A u \in To[m] : status[u][m] # "absent"
    /\ confirmed' = confirmed \union {m}
    /\ UNCHANGED <<status, stored>>

Next ==
    \/ \E u \in Uins, m \in Messages : Enter(u, m)
    \/ \E u \in Uins, S \in SUBSET Messages : Store(u, S) \/ Take(u, S)
    \/ \E m \in Messages : Expire(m) \/ Confirm(m)

Spec == Init /\ [][Next]_vars
=============================================================================
