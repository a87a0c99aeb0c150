--------------------------- MODULE MCDurableIngest ---------------------------
(* A small instance of DurableIngest for TLC: three requests that send the *)
(* same message under one client_id, one delivery-receipt handler.         *)
EXTENDS DurableIngest, TLC

CONSTANTS k1, s1, r1, q1, q2, q3, d1

MCSenderOf == [k \in {k1} |-> s1]
MCEnvelopes == {[kind |-> "direct", body |-> 1, to |-> {r1}]}
MCSymmetry == Permutations({q1, q2, q3})
=============================================================================
