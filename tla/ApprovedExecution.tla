------------------------- MODULE ApprovedExecution -------------------------
(***************************************************************************)
(* POST /api/approvals/:id: decide, claim, execute the stored action, and  *)
(* write it to the run history. The approval store is its abstract         *)
(* lifecycle, which ApprovalStore implements, and here may refuse a call:  *)
(* it is busy, or its file cannot be read or written. Requests for the     *)
(* same approval overlap, a process may die between any two awaits, the    *)
(* history cannot always be written, and a tool may outlive its timeout.   *)
(***************************************************************************)
EXTENDS Integers, FiniteSets

CONSTANTS Ids,          \* approvals, in the order of their creation
          Requests,     \* concurrent POST requests
          MaxFailures,  \* bound on the crashes and the failures of the two files
          NoId          \* an idle request has no approval

ASSUME ExecutionAssumption ==
  Ids \subseteq Nat /\ IsFiniteSet(Ids) /\ NoId \notin Ids /\ MaxFailures \in Nat

VARIABLES
  status, wins, \* of ApprovalLifecycle
  usable,       \* approvals whose tool is registered and not denied by the policy
  pc, target,   \* where each request stands, and the approval it is about
  started,      \* started[i]: times tool.execute() was called for i
  landed,       \* approvals whose tool has resolved
  history,      \* run history: [id, status, by] of the runs of approved actions
  orphaned,     \* the lock directory of the store has no owner that will remove it
  failures,     \* crashes and failures so far
  excused,      \* history: approvals whose claimer met a crash or a failing file
  stranded      \* history: grants that a crash or the store kept from being claimed

vars == <<status, wins, usable, pc, target, started, landed, history, orphaned, failures,
          excused, stranded>>
lifecycle == <<status, wins>>
request == <<pc, target>>
effects == <<started, landed>>
faults == <<orphaned, failures, excused, stranded>>

Lifecycle == INSTANCE ApprovalLifecycle

Init ==
  /\ Lifecycle!Init
  /\ usable = Ids
  /\ pc = [r \in Requests |-> "idle"] /\ target = [r \in Requests |-> NoId]
  /\ started = [i \in Ids |-> 0] /\ landed = {}
  /\ history = {} /\ orphaned = FALSE /\ failures = 0 /\ excused = {} /\ stranded = {}

Goto(r, label) == pc' = [pc EXCEPT ![r] = label] /\ UNCHANGED target

(* The request is answered, or its process is gone.                        *)
Leave(r) == /\ pc' = [pc EXCEPT ![r] = "idle"]
            /\ target' = [target EXCEPT ![r] = NoId]

Fault == failures < MaxFailures /\ failures' = failures + 1

-----------------------------------------------------------------------------
(* The rest of the system                                                  *)

(* A run blocks on a protected tool and stores the action.                 *)
Create(i, dropped) ==
  /\ ~orphaned
  /\ \A j \in Ids : j < i => status[j] # "absent"
  /\ Lifecycle!Create(i, dropped)
  /\ UNCHANGED <<usable, request, effects, history, faults>>

Expire(overdue) ==
  /\ overdue # {}
  /\ Lifecycle!Expire(overdue)
  /\ UNCHANGED <<usable, request, effects, history, faults>>

(* A deployment no longer registers the tool, or denies it.                *)
Withdraw(i) ==
  /\ i \in usable
  /\ usable' = usable \ {i}
  /\ UNCHANGED <<lifecycle, request, effects, history, faults>>

(* A call of the store fails before it has written: a process died in its  *)
(* critical section, or removing the lock failed. The directory stays.     *)
LockLeft ==
  /\ ~orphaned /\ Fault
  /\ orphaned' = TRUE
  /\ UNCHANGED <<lifecycle, usable, request, effects, history, excused, stranded>>

-----------------------------------------------------------------------------
(* The request                                                             *)

Begin(r, i, label) == /\ target' = [target EXCEPT ![r] = i]
                      /\ pc' = [pc EXCEPT ![r] = label]

(* Mutant of Decide: the operator may decide again.                        *)
DecideAgain(r, i, decision) ==
  /\ pc[r] = "idle" /\ ~orphaned
  /\ status[i] \notin {"absent", "gone", "expired"}
  /\ status' = [status EXCEPT ![i] = decision]
  /\ Begin(r, i, IF decision = "approved" THEN "claim" ELSE "answer")
  /\ UNCHANGED <<wins, usable, effects, history, faults>>

(* Mutant of Decide: what is approved for a withdrawn tool is not pursued. *)
DecideIfUsable(r, i, decision) ==
  /\ pc[r] = "idle" /\ ~orphaned
  /\ Lifecycle!Decide(i, decision)
  /\ Begin(r, i, IF decision = "approved" /\ i \in usable THEN "claim" ELSE "answer")
  /\ UNCHANGED <<usable, effects, history, faults>>

(* decide() of the route; a refused decision answers 409 and changes       *)
(* nothing, nor does one that finds the store busy, or fails before it is  *)
(* written: LockLeft is what it may leave.                                 *)
Decide(r, i, decision) ==
  /\ pc[r] = "idle" /\ ~orphaned
  /\ Lifecycle!Decide(i, decision)
  /\ Begin(r, i, IF decision = "approved" THEN "claim" ELSE "answer")
  /\ UNCHANGED <<usable, effects, history, faults>>

(* The decision is written, but release() rejects, or the process is gone  *)
(* before it: the route does not go on to the claim.                       *)
DecideUnreleased(r, i, decision) ==
  /\ pc[r] = "idle" /\ ~orphaned /\ Fault
  /\ Lifecycle!Decide(i, decision)
  /\ orphaned' = TRUE
  /\ stranded' = IF decision = "approved" THEN stranded \cup {i} ELSE stranded
  /\ UNCHANGED <<usable, request, effects, history, excused>>

(* Mutant of Claim: the tool is looked up first, and what is approved for  *)
(* a withdrawn one is left alone.                                          *)
ClaimIfUsable(r) ==
  /\ pc[r] = "claim" /\ ~orphaned
  /\ target[r] \in usable
  /\ Lifecycle!Consume(target[r])
  /\ Goto(r, "execute")
  /\ UNCHANGED <<usable, effects, history, faults>>

(* claimApproved(): consumption before execution.                          *)
Claim(r) ==
  /\ pc[r] = "claim" /\ ~orphaned
  /\ Lifecycle!Consume(target[r])
  /\ Goto(r, "execute")
  /\ UNCHANGED <<usable, effects, history, faults>>

(* The record was trimmed away: "Approval not found".                      *)
ClaimRefused(r) ==
  /\ pc[r] = "claim" /\ ~orphaned
  /\ status[target[r]] # "approved"
  /\ Goto(r, "answer")
  /\ UNCHANGED <<lifecycle, usable, effects, history, faults>>

(* claimApproved() throws before it has written: the store is busy, for    *)
(* longer than lockTimeoutMs or for good if the lock was left behind, or   *)
(* its file cannot be read, written or renamed. The grant stays as it is.  *)
ClaimFails(r) ==
  /\ pc[r] = "claim"
  /\ IF orphaned THEN UNCHANGED failures ELSE Fault
  /\ stranded' = stranded \cup {target[r]}
  /\ Goto(r, "answer")
  /\ UNCHANGED <<lifecycle, usable, effects, history, orphaned, excused>>

(* The consumption is written and release() rejects: nothing is executed.  *)
ClaimUnreleased(r) ==
  /\ pc[r] = "claim" /\ ~orphaned /\ Fault
  /\ Lifecycle!Consume(target[r])
  /\ orphaned' = TRUE /\ excused' = excused \cup {target[r]}
  /\ Goto(r, "answer")
  /\ UNCHANGED <<usable, effects, history, stranded>>

(* "no longer registered", "now denied by policy": thrown before the try.  *)
ToolWithdrawn(r) ==
  /\ pc[r] = "execute"
  /\ target[r] \notin usable
  /\ Goto(r, "answer")
  /\ UNCHANGED <<lifecycle, usable, effects, history, faults>>

Execute(r) ==
  /\ pc[r] = "execute"
  /\ target[r] \in usable
  /\ started' = [started EXCEPT ![target[r]] = @ + 1]
  /\ Goto(r, "running")
  /\ UNCHANGED <<lifecycle, usable, landed, history, faults>>

(* The tool resolves in time.                                              *)
Completes(r) ==
  /\ pc[r] = "running"
  /\ landed' = landed \cup {target[r]}
  /\ Goto(r, "appendCompleted")
  /\ UNCHANGED <<lifecycle, usable, started, history, faults>>

(* Mutant of TimesOut: the timer resolves the race instead of rejecting.   *)
TimesOutAsDone(r) ==
  /\ pc[r] = "running"
  /\ Goto(r, "appendCompleted")
  /\ UNCHANGED <<lifecycle, usable, effects, history, faults>>

(* Mutant of TimesOut: the timeout rejects past the catch block.           *)
TimesOutUnrecorded(r) ==
  /\ pc[r] = "running"
  /\ Goto(r, "answer")
  /\ UNCHANGED <<lifecycle, usable, effects, history, faults>>

(* The tool rejects, or withTimeout() aborts it; it may yet take effect.   *)
TimesOut(r) ==
  /\ pc[r] = "running"
  /\ Goto(r, "appendFailed")
  /\ UNCHANGED <<lifecycle, usable, effects, history, faults>>

(* A tool that ignores the abort signal, or whose request is gone.         *)
LandsLate(i) ==
  /\ started[i] > 0 /\ i \notin landed
  /\ landed' = landed \cup {i}
  /\ UNCHANGED <<lifecycle, usable, request, started, history, faults>>

Write(r, result) ==
  history' = history \cup {[id |-> target[r], status |-> result, by |-> r]}

(* runStore.append() in the try block and in the catch block.              *)
AppendRun(r) ==
  /\ pc[r] \in {"appendCompleted", "appendFailed"}
  /\ Write(r, IF pc[r] = "appendCompleted" THEN "completed" ELSE "failed")
  /\ Goto(r, "answer")
  /\ UNCHANGED <<lifecycle, usable, effects, faults>>

(* An append that throws in the try block is caught and reported as the    *)
(* tool's failure; one that throws in the catch block rejects.             *)
AppendFails(r) ==
  /\ pc[r] \in {"appendCompleted", "appendFailed"}
  /\ Fault
  /\ excused' = excused \cup {target[r]}
  /\ Goto(r, IF pc[r] = "appendCompleted" THEN "appendFailed" ELSE "answer")
  /\ UNCHANGED <<lifecycle, usable, effects, history, orphaned, stranded>>

Answer(r) ==
  /\ pc[r] = "answer"
  /\ Leave(r)
  /\ UNCHANGED <<lifecycle, usable, effects, history, faults>>

(* The process dies; one that is in claimApproved() may hold the lock.     *)
Crash(r) ==
  /\ pc[r] # "idle" /\ Fault
  /\ excused' = excused \cup {target[r]}
  /\ IF pc[r] = "claim"
     THEN orphaned' \in {orphaned, TRUE} /\ stranded' = stranded \cup {target[r]}
     ELSE UNCHANGED <<orphaned, stranded>>
  /\ Leave(r)
  /\ UNCHANGED <<lifecycle, usable, effects, history>>

Step(r) == Claim(r) \/ ClaimRefused(r) \/ ClaimFails(r) \/ ClaimUnreleased(r)
             \/ ToolWithdrawn(r) \/ Execute(r) \/ Completes(r) \/ TimesOut(r)
             \/ AppendRun(r) \/ AppendFails(r) \/ Answer(r)

Next ==
  \/ \E i \in Ids : Withdraw(i) \/ LandsLate(i) \/ \E d \in SUBSET Ids : Create(i, d)
  \/ \E d \in SUBSET Ids : Expire(d)
  \/ LockLeft
  \/ \E r \in Requests, i \in Ids, d \in {"approved", "rejected"} :
       Decide(r, i, d) \/ DecideUnreleased(r, i, d)
  \/ \E r \in Requests : Step(r) \/ Crash(r)

Spec == Init /\ [][Next]_vars

(* A request that is being handled keeps running: the store and the        *)
(* history answer, and a tool is timed out.                                *)
Fairness == \A r \in Requests : WF_vars(Step(r))
FairSpec == Spec /\ Fairness

-----------------------------------------------------------------------------
(* Properties                                                              *)

Runs(i) == {h \in history : h.id = i}
Handled(i) == \E r \in Requests : target[r] = i

(* Every variable has its type.                                            *)
TypeOK ==
  /\ status \in [Ids -> Lifecycle!Live \cup {"absent", "gone"}]
  /\ wins \in [Ids -> Nat] /\ started \in [Ids -> Nat]
  /\ usable \subseteq Ids /\ landed \subseteq Ids /\ excused \subseteq Ids
  /\ stranded \subseteq Ids /\ orphaned \in BOOLEAN
  /\ pc \in [Requests -> {"idle", "claim", "execute", "running", "appendCompleted",
                          "appendFailed", "answer"}]
  /\ target \in [Requests -> Ids \cup {NoId}]
  /\ \A r \in Requests : target[r] = NoId <=> pc[r] = "idle"
  /\ history \subseteq [id : Ids, status : {"completed", "failed"}, by : Requests]
  /\ failures \in 0..MaxFailures

(* "Consumption happens before execution to prevent replay": whichever     *)
(* requests overlap, crash or are repeated, the stored action is started   *)
(* at most once, only when it was consumed, and never after a rejection or *)
(* an expiry.                                                              *)
ExecutedAtMostOnce ==
  \A i \in Ids :
    /\ started[i] <= wins[i] /\ wins[i] <= 1
    /\ started[i] > 0 => status[i] \in {"consumed", "gone"}

(* The history does not invent success: a "completed" run has resolved,    *)
(* and no action has two runs that tell different stories.                 *)
HistoryIsTrue ==
  \A h \in history :
    /\ started[h.id] = 1
    /\ h.status = "completed" => h.id \in landed
    /\ Runs(h.id) = {h}

(* "executed from the persisted action record, and written to run          *)
(* history": once its request has been answered without a crash or a       *)
(* failed write, an action that was started is in the history.             *)
StartedIsRecorded ==
  \A i \in Ids : started[i] > 0 /\ ~Handled(i) /\ i \notin excused => Runs(i) # {}

Pursued(i) == \E r \in Requests : pc[r] = "claim" /\ target[r] = i

(* A grant is never simply forgotten: what is approved has a request that  *)
(* is about to claim it, and if it has none, a crash or a failure of the   *)
(* store came between decide() and claimApproved(). Neither a withdrawn    *)
(* tool, a second decision nor the failure of another request's claim      *)
(* leaves one behind.                                                      *)
GrantIsPursued ==
  \A i \in Ids : status[i] = "approved" => Pursued(i) \/ i \in stranded

(* An approved action does not stay approved: it is consumed, unless the   *)
(* process dies or the store fails in between, or the bound on the file    *)
(* drops the record.                                                       *)
EveryGrantIsClaimed ==
  \A i \in Ids : status[i] = "approved" ~> status[i] # "approved" \/ i \in stranded
=============================================================================
