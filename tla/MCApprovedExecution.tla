------------------------ MODULE MCApprovedExecution ------------------------
(* ApprovedExecution on a small instance, and the file that its runs are   *)
(* appended to. What ApprovedExecution knows of the file is that a write   *)
(* succeeds or fails, so the two share no state and are explored as a sum: *)
(* one takes steps while the other is in its initial state, in which none  *)
(* of its fair actions is enabled.                                         *)
EXTENDS ApprovedExecution, AppendStore

MCInit == Init /\ StoreInit
MCNext ==
  \/ StoreInit /\ Next /\ UNCHANGED storeVars
  \/ Init /\ StoreNext /\ UNCHANGED vars
MCVars == <<vars, storeVars>>
MCSpec == MCInit /\ [][MCNext]_MCVars /\ Fairness /\ StoreFairness
=============================================================================
