------------------------- MODULE ApprovalLifecycle -------------------------
(***************************************************************************)
(* What the approval store promises, with no file, lock or clock: the      *)
(* status of every protected action moves along one path, and the right to *)
(* execute it is handed out by the single step that consumes it.           *)
(***************************************************************************)
EXTENDS Integers

CONSTANTS Ids           \* approval identifiers, in the order of their creation

VARIABLES status,       \* status[i] of approval i; "gone" once trimmed away
          wins          \* wins[i]: calls of claimApproved that got approval i

vars == <<status, wins>>

Live == {"pending", "approved", "rejected", "expired", "consumed"}

Init == /\ status = [i \in Ids |-> "absent"]
        /\ wins = [i \in Ids |-> 0]

(* A new record is appended; the bound on the file may drop the oldest.    *)
Create(i, dropped) ==
  /\ status[i] = "absent"
  /\ \A j \in dropped : status[j] \in Live
  /\ \A j \in dropped, k \in Ids : k < j /\ status[k] \in Live => k \in dropped
  /\ status' = [j \in Ids |-> IF j = i THEN "pending"
                              ELSE IF j \in dropped THEN "gone" ELSE status[j]]
  /\ UNCHANGED wins

Decide(i, decision) ==
  /\ status[i] = "pending"
  /\ status' = [status EXCEPT ![i] = decision]
  /\ UNCHANGED wins

(* Every overdue record of the file expires in one write.                  *)
Expire(overdue) ==
  /\ \A i \in overdue : status[i] = "pending"
  /\ status' = [i \in Ids |-> IF i \in overdue THEN "expired" ELSE status[i]]
  /\ UNCHANGED wins

Consume(i) ==
  /\ status[i] = "approved"
  /\ status' = [status EXCEPT ![i] = "consumed"]
  /\ wins' = [wins EXCEPT ![i] = @ + 1]

Next == \/ \E i \in Ids, dropped \in SUBSET Ids : Create(i, dropped)
        \/ \E i \in Ids, decision \in {"approved", "rejected"} : Decide(i, decision)
        \/ \E overdue \in SUBSET Ids : Expire(overdue)
        \/ \E i \in Ids : Consume(i)

Spec == Init /\ [][Next]_vars
=============================================================================
