------------------------ MODULE MCKnowledgeRevisions ------------------------
(* Instances of KnowledgeRevisions for TLC. *)
EXTENDS KnowledgeRevisions, Naturals, TLC

CONSTANTS file, web, o1, o2, MaxVersion

MCOneOwner  == [d \in Docs |-> o1]
MCTexts     == [d \in Docs |-> IF d = file THEN {0} ELSE 0 .. MaxVersion]
MCNotOlder  == {p \in (0 .. MaxVersion) \X (0 .. MaxVersion) : p[1] <= p[2]}
MCSymmetry  == Permutations(Callers)
============================================================================
