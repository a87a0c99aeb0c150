------------------------- MODULE MCRecipientDelivery -------------------------
(* Small instances of RecipientDelivery for TLC. *)
EXTENDS RecipientDelivery, TLC

CONSTANTS m1, m2, u1, u2, g1, g2, p1, p2, p3, t1

\* m1 goes to a group of two, m2 to one of them.
MCTo == [m \in {m1, m2} |-> IF m = m1 THEN <<u1, u2>> ELSE <<u1>>]
\* Both to one user.
MCToOne == [m \in {m1, m2} |-> <<u1>>]
\* Sound where both messages have the same recipients and may expire.
MCSymmetry == Permutations({m1, m2}) \union Permutations({p1, p2, p3})
=============================================================================
