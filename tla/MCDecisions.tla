---------------------------- MODULE MCDecisions -----------------------------
(* Instances of Decisions for TLC. *)
EXTENDS Decisions, TLC

CONSTANTS c1, c2, l1, l2, p1, p2, p3, u1, ca, cb, nobody

OneLabel == (c1 :> l1 @@ c2 :> l1)
TwoLabels == (c1 :> l1 @@ c2 :> l2)

\* POST requests are interchangeable, and so are the choices.
Symmetry == Permutations(Post) \union Permutations(Choice)
=============================================================================
