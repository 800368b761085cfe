---------------------------- MODULE OwnerErasure ----------------------------
(***************************************************************************)
(* What an account erasure promises, whatever is stored and wherever.      *)
(*                                                                         *)
(* The service holds items for owners: rows of several tables, encrypted   *)
(* originals in the staging directory.  An owner is closed when the fence  *)
(* is committed (rag_erased_owners) and erased when the erasure's request  *)
(* is answered with erased: true.  Nothing is acquired for a closed owner, *)
(* and nothing is held for an erased one.  Components implement this       *)
(* specification with their own items.                                     *)
(***************************************************************************)
CONSTANTS Items, Owners, OwnerOf   \* OwnerOf \in [Items -> Owners]

VARIABLES
  held,    \* the items that exist
  closed,  \* fenced owners
  erased   \* owners whose erasure was acknowledged

vars == <<held, closed, erased>>

Init == held = {} /\ closed = {} /\ erased = {}

(* Items come only for owners that are not closed; any item may go          *)
Use ==
  /\ held' \subseteq Items
  /\ \A i \in held' \ held : OwnerOf[i] \notin closed
  /\ UNCHANGED <<closed, erased>>

Close(o) ==
  /\ closed' = closed \cup {o}
  /\ UNCHANGED <<held, erased>>

(* The acknowledgement: the owner is closed and everything is gone          *)
Erase(o) ==
  /\ closed' = closed \cup {o}
  /\ erased' = erased \cup {o}
  /\ held' = {i \in held : OwnerOf[i] # o}

Next == Use \/ \E o \in Owners : Close(o) \/ Erase(o)

Spec == Init /\ [][Next]_vars
============================================================================
