--------------------------- MODULE VerifyService ---------------------------
(***************************************************************************)
(* What llarp_nodedb_async_verify promises its caller, abstractly: a       *)
(* request once submitted is answered exactly once, through its hook, with *)
(* valid set only for an RC that verifies; a process restart loses the     *)
(* requests still in flight. How the answer is computed (crypto worker,    *)
(* disk worker, logic thread) is left out. NodeDB implements it.           *)
(***************************************************************************)
CONSTANTS
    Reqs,   \* the verify requests
    Good    \* the requests whose RC verifies

VARIABLES
    vst,    \* request -> "new", "pending", "done" or "lost"
    vok     \* request -> the valid its hook saw (FALSE until answered)

vars == <<vst, vok>>

Init ==
    /\ vst = [r \in Reqs |-> "new"]
    /\ vok = [r \in Reqs |-> FALSE]

Submit(r) ==
    /\ vst[r] = "new"
    /\ vst' = [vst EXCEPT ![r] = "pending"]
    /\ UNCHANGED vok

\* The hook runs once, with valid TRUE only for a good RC.
Answer(r) ==
    /\ vst[r] = "pending"
    /\ \E v \in IF r \in Good THEN {TRUE, FALSE} ELSE {FALSE} :
          vok' = [vok EXCEPT ![r] = v]
    /\ vst' = [vst EXCEPT ![r] = "done"]

Crash ==
    /\ vst' = [r \in Reqs |-> IF vst[r] = "pending" THEN "lost" ELSE vst[r]]
    /\ UNCHANGED vok

Next == (\E r \in Reqs : Submit(r) \/ Answer(r)) \/ Crash

Spec == Init /\ [][Next]_vars

\* The workers run every job they are given: a pending request that is
\* not lost is answered.
FairSpec == Spec /\ \A r \in Reqs : WF_vars(Answer(r))

=============================================================================
