---------------------------- MODULE MCPageCollection ----------------------------
(* Small instances of PageCollection for TLC.                               *)
EXTENDS PageCollection, TLC

CONSTANTS u1, u2, u3

\* Two links lead to the page published at u1, one of them spelled differently;
\* u3 has one spelling.
MCUrl == {u1, u2, u3}
MCPublished == [l \in MCUrl |-> IF l = u2 THEN u1 ELSE l]

\* The published url u1 reads back in its other spelling.
MCRestored == [u \in MCUrl |-> IF u = u1 THEN u2 ELSE u]

Symmetry == Permutations(Body) \cup Permutations(Digest)
===============================================================================
