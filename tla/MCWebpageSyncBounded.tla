----------------------- MODULE MCWebpageSyncBounded ------------------------
(***************************************************************************)
(* Two documents leave too many states for a liveness check when requests  *)
(* and faults never end: here MaxDisturbances of them may happen, at any   *)
(* time and in any order.  Tokens are numbers, and a claim takes the least *)
(* fresh one, which loses nothing since tokens are only ever compared.     *)
(***************************************************************************)
EXTENDS MCWebpageSync

CONSTANT MaxDisturbances   \* bound: requests and faults of a behaviour

VARIABLE disturbances

LeastToken ==
  \A d \in Docs, t \in Tokens :
    page'[d].token \notin {page[d].token, NoToken} /\ t < page'[d].token => ~Fresh(t)

BoundedNext ==
  \/ /\ disturbances < MaxDisturbances
     /\ Disturbance /\ disturbances' = disturbances + 1
  \/ Calm /\ LeastToken /\ UNCHANGED disturbances

BoundedSpec ==
  /\ Init /\ disturbances = 0
  /\ [][BoundedNext]_<<vars, disturbances>>
  /\ Fairness

BoundedLiveSpec == BoundedSpec /\ \A o \in Owners : WF_vars(EraseStep(o))
============================================================================
