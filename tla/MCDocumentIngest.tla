-------------------------- MODULE MCDocumentIngest --------------------------
(* Instances of DocumentIngest for TLC. *)
EXTENDS DocumentIngest, TLC

CONSTANTS u1, u2, o1, o2

MCOneOwner  == [u \in Uploads |-> o1]
MCTwoOwners == [u \in Uploads |-> IF u = u1 THEN o1 ELSE o2]

ProcessSymmetry == Permutations(Processes)
============================================================================
