--------------------------- MODULE MCWebpageSync ---------------------------
(* Instances of WebpageSync for TLC. *)
EXTENDS WebpageSync, TLC

CONSTANTS d1, d2, o1, o2

MCOneOwner  == [d \in Docs |-> o1]
MCTwoOwners == [d \in Docs |-> IF d = d1 THEN o1 ELSE o2]

Symmetry == Permutations(Tokens) \cup Permutations(Workers)
============================================================================
