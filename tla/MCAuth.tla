-------------------------------- MODULE MCAuth --------------------------------
(* A small instance, for TLC, of auth-service: the panic wipe of one account,  *)
(* and the sessions of one account.  The two share no state in the model: in   *)
(* every behaviour one of them runs and the other stays in its first state.    *)
EXTENDS MCAccountWipe, SessionTokens

\* w1 and w2 also name the login requests, k1 and k2 the refresh requests.
CONSTANT r1

VARIABLE running \* whose behaviour this is

MCInit == running \in {"wipe", "sessions"} /\ Init /\ SessionsInit

MCNext ==
    \/ running = "wipe" /\ Next /\ UNCHANGED <<running, sessionVars>>
    \/ running = "sessions" /\ SessionsNext /\ UNCHANGED <<running, vars>>

MCSpec == MCInit /\ [][MCNext]_<<running, vars, sessionVars>>
=============================================================================
