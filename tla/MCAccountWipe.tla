--------------------------- MODULE MCAccountWipe ---------------------------
(* Small instances of AccountWipe for TLC. *)
EXTENDS AccountWipe, TLC

CONSTANTS w1, w2, k1, k2, o1

\* Two of the five phases: one that goes by the uin and the one that goes by
\* the keys in the job.
MCPhases == <<"scylla", ObjectsPhase>>
MCOnePhase == <<"scylla">>

\* PanicWipe calls are alike, and so are workers.
MCSymmetry == Permutations(Wipes) \union Permutations(Workers)

\* Bound: contacts and requests for one are followed only while a worker is
\* idle and a PanicWipe call has not begun.
MCBound ==
    contacts # {} \/ asking # {} =>
        /\ \E k \in Workers : worker[k].pc = "idle"
        /\ \E w \in Wipes : wipe[w] = "new"
=============================================================================
