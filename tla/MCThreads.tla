----------------------------- MODULE MCThreads ------------------------------
(***************************************************************************)
(* Checks one of the structures that threads share per behaviour: the      *)
(* ring, the linked list, or the statistics.                               *)
(***************************************************************************)
EXTENDS FixLenLockFreeQueue, LockFreeQueue, Statistics

VARIABLE shared

MCInit == Init /\ StackInit /\ StatInit /\ shared \in {"ring", "list", "statistics"}

MCNext ==
  /\ UNCHANGED shared
  /\ \/ shared = "ring" /\ Next /\ UNCHANGED <<stackVars, statVars>>
     \/ shared = "list" /\ StackNext /\ UNCHANGED <<vars, statVars>>
     \/ shared = "statistics" /\ StatNext /\ UNCHANGED <<vars, stackVars>>

MCSpec ==
  /\ MCInit
  /\ [][MCNext]_<<shared, vars, stackVars, statVars>>
  /\ \A t \in Thread : WF_vars(shared = "ring" /\ Continue(t))
=============================================================================
