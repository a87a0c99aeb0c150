------------------------------ MODULE MCWorkers ------------------------------
(* Small instances, for TLC, of the two background workers and their           *)
(* liveness: the wipe workers of auth-service and the outbox worker of         *)
(* message-service.  They share no state: in every behaviour one of them       *)
(* runs and the other stays in its first state.                                *)
EXTENDS AccountWipe, OutboxFetch

CONSTANTS w1, k1, k2, o1

VARIABLE running \* the worker whose behaviour this is

\* One of the five phases.
MCOnePhase == <<"scylla">>

Direct(b, n) == [bucket |-> b, kind |-> "direct", at |-> n]
Group(b, n) == [bucket |-> b, kind |-> "group", at |-> n]

\* In one page more rows than the share, of which the first two may expire; one
\* row in the other page of its bucket, one in the other bucket.
MCEntries == {Direct(0, 1), Direct(0, 2), Direct(0, 3), Group(0, 1), Group(1, 1)}
MCExpiring == {Direct(0, 1), Direct(0, 2)}

MCInit == running \in {"wipes", "outbox"} /\ Init /\ RecoveryInit

MCNext ==
    \/ running = "wipes" /\ Next /\ UNCHANGED <<running, recoveryVars>>
    \/ running = "outbox" /\ RecoveryNext /\ UNCHANGED <<running, vars>>

\* No wipe worker has anything to do before the first wipe, so Fairness asks for
\* nothing while the outbox worker runs.
MCSpec ==
    /\ MCInit /\ [][MCNext]_<<running, vars, recoveryVars>>
    /\ Fairness
    /\ running = "outbox" => RecoveryFairness
=============================================================================
