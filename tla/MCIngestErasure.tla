--------------------------- MODULE MCIngestErasure ---------------------------
(* Small instances of IngestErasure: one client_id, a group message to two *)
(* members or a direct message, and the wipes of its recipients.           *)
EXTENDS IngestErasure, TLC

CONSTANTS k1, s1, r1, r2, q1, q2, d1

MCSenderOf == [k \in {k1} |-> s1]
MCGroup == [kind |-> "group", body |-> 1, to |-> {r1, r2}]
MCDirect == [kind |-> "direct", body |-> 2, to |-> {r1}]
MCBoth == {MCGroup, MCDirect}
MCSymmetry == Permutations({q1, q2})

\* Bounds: two wipes at a time, and not of the sender and r2; two requests only
\* for the group message and while the sender is not wiped.  During two wipes
\* one request runs, and in the group none if the sender is one of the wiped.
\* The direct message without the wipe of r2, which has no part in it.
MCBound ==
    LET active == {q \in Requests : req[q].pc # "idle"}
        running == {q \in active : req[q].pc \notin {"acked", "failed"}}
        direct == \/ \E q \in active : req[q].env = MCDirect
                  \/ receipt[k1] # None /\ receipt[k1].env = MCDirect
    IN
    /\ ~(Started(s1) /\ Started(r2))
    /\ Started(s1) \/ direct => Cardinality(active) <= 1
    /\ Started(r1) /\ Started(r2) => Cardinality(running) <= 1
    /\ Started(r1) /\ Started(s1) => direct \/ running = {}
    /\ direct => ~Started(r2)
=============================================================================
