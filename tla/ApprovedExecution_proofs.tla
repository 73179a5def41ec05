---------------------- MODULE ApprovedExecution_proofs ----------------------
(***************************************************************************)
(* Theorems about ApprovedExecution for every number of approvals,         *)
(* overlapping requests, crashes and failed writes of the history; and     *)
(* about AppendStore, the file that its histories go to, for every number  *)
(* of writers, every bound on the records and every number of faults.      *)
(***************************************************************************)
EXTENDS ApprovedExecution, AppendStore, SequenceTheorems, TLAPS

-----------------------------------------------------------------------------
(* Counting one more keeps a function into the natural numbers one.        *)
LEMMA CountUp ==
  ASSUME NEW S, NEW f \in [S -> Nat], NEW x \in S
  PROVE  [f EXCEPT ![x] = @ + 1] \in [S -> Nat]
<1>1. \A y \in S : [f EXCEPT ![x] = @ + 1][y] \in Nat
  <2>1. f[x] + 1 \in Nat
    OBVIOUS
  <2>2. QED
    BY <2>1
<1>2. QED
  BY <1>1

-----------------------------------------------------------------------------
(* Type correctness                                                        *)

LEMMA InitTypes == Init => TypeOK
<1> SUFFICES ASSUME Init PROVE TypeOK
  OBVIOUS
<1>1. orphaned \in BOOLEAN
  BY Zenon DEF Init
<1>2. failures \in 0..MaxFailures
  BY ExecutionAssumption DEF Init
<1>3. /\ status \in [Ids -> Lifecycle!Live \cup {"absent", "gone"}]
      /\ wins \in [Ids -> Nat] /\ started \in [Ids -> Nat]
  BY DEF Init, Lifecycle!Init
<1>4. QED
  BY <1>1, <1>2, <1>3 DEF Init, TypeOK

(* Every variable keeps its type in every reachable state.                 *)
THEOREM ExecutionTypes == Spec => []TypeOK
<1>1. Init => TypeOK
  BY InitTypes
<1>2. TypeOK /\ [Next]_vars => TypeOK'
  <2> SUFFICES ASSUME TypeOK, [Next]_vars PROVE TypeOK'
    OBVIOUS
  <2> USE ExecutionAssumption
  <2>0. \A r \in Requests : pc[r] # "idle" => target[r] \in Ids
    BY DEF TypeOK
  <2>1. ASSUME NEW i \in Ids, NEW d \in SUBSET Ids, Create(i, d) PROVE TypeOK'
    BY <2>1 DEF TypeOK, Create, Lifecycle!Create, Lifecycle!Live, request, effects, faults
  <2>2. ASSUME NEW d \in SUBSET Ids, Expire(d) PROVE TypeOK'
    BY <2>2 DEF TypeOK, Expire, Lifecycle!Expire, Lifecycle!Live, request, effects, faults
  <2>3. ASSUME NEW i \in Ids, Withdraw(i) PROVE TypeOK'
    BY <2>3 DEF TypeOK, Withdraw, lifecycle, request, effects, faults
  <2>4. ASSUME NEW i \in Ids, LandsLate(i) PROVE TypeOK'
    BY <2>4 DEF TypeOK, LandsLate, lifecycle, request, faults
  <2>5. ASSUME NEW r \in Requests, NEW i \in Ids, NEW d \in {"approved", "rejected"},
               Decide(r, i, d)
        PROVE TypeOK'
    BY <2>5 DEF TypeOK, Decide, Begin, Lifecycle!Decide, Lifecycle!Live, effects, faults
  <2>6. ASSUME NEW r \in Requests, Claim(r) PROVE TypeOK'
    <3>1. target[r] \in Ids /\ pc[r] # "idle"
      BY <2>0, <2>6 DEF Claim
    <3>2. wins' \in [Ids -> Nat]
      <4>1. wins \in [Ids -> Nat] /\ wins' = [wins EXCEPT ![target[r]] = @ + 1]
        BY <2>6 DEF TypeOK, Claim, Lifecycle!Consume
      <4>2. QED
        BY <3>1, <4>1, CountUp
    <3>3. status' \in [Ids -> Lifecycle!Live \cup {"absent", "gone"}]
      BY <3>1, <2>6 DEF TypeOK, Claim, Lifecycle!Consume, Lifecycle!Live
    <3>4. QED
      BY <3>1, <3>2, <3>3, <2>6 DEF TypeOK, Claim, Goto, effects, faults
  <2>7. ASSUME NEW r \in Requests, ClaimRefused(r) PROVE TypeOK'
    BY <2>7 DEF TypeOK, ClaimRefused, Goto, lifecycle, effects, faults
  <2>8. ASSUME NEW r \in Requests, ToolWithdrawn(r) PROVE TypeOK'
    BY <2>8 DEF TypeOK, ToolWithdrawn, Goto, lifecycle, effects, faults
  <2>9. ASSUME NEW r \in Requests, Execute(r) PROVE TypeOK'
    <3>1. target[r] \in Ids /\ pc[r] # "idle"
      BY <2>0, <2>9 DEF Execute
    <3>2. started' \in [Ids -> Nat]
      <4>1. started \in [Ids -> Nat] /\ started' = [started EXCEPT ![target[r]] = @ + 1]
        BY <2>9 DEF TypeOK, Execute
      <4>2. QED
        BY <3>1, <4>1, CountUp
    <3>3. QED
      BY <3>1, <3>2, <2>9 DEF TypeOK, Execute, Goto, lifecycle, faults
  <2>10. ASSUME NEW r \in Requests, Completes(r) PROVE TypeOK'
    BY <2>0, <2>10 DEF TypeOK, Completes, Goto, lifecycle, faults
  <2>11. ASSUME NEW r \in Requests, TimesOut(r) PROVE TypeOK'
    BY <2>11 DEF TypeOK, TimesOut, Goto, lifecycle, effects, faults
  <2>12. ASSUME NEW r \in Requests, AppendRun(r) PROVE TypeOK'
    BY <2>0, <2>12 DEF TypeOK, AppendRun, Write, Goto, lifecycle, effects, faults
  <2>13. ASSUME NEW r \in Requests, AppendFails(r) PROVE TypeOK'
    <3>1. target[r] \in Ids /\ pc[r] # "idle"
      BY <2>0, <2>13 DEF AppendFails
    <3>2. failures' \in 0..MaxFailures
      BY <2>13 DEF TypeOK, AppendFails, Fault
    <3>3. excused' \subseteq Ids
      BY <3>1, <2>13 DEF TypeOK, AppendFails
    <3>4. QED
      BY <3>1, <3>2, <3>3, <2>13 DEF TypeOK, AppendFails, Goto, lifecycle, effects
  <2>14. ASSUME NEW r \in Requests, Answer(r) PROVE TypeOK'
    BY <2>14 DEF TypeOK, Answer, Leave, lifecycle, effects, faults
  <2>15. ASSUME NEW r \in Requests, Crash(r) PROVE TypeOK'
    <3>1. target[r] \in Ids
      BY <2>0, <2>15 DEF Crash
    <3>2. failures' \in 0..MaxFailures
      BY <2>15 DEF TypeOK, Crash, Fault
    <3>3. excused' \subseteq Ids /\ stranded' \subseteq Ids /\ orphaned' \in BOOLEAN
      BY <3>1, <2>15 DEF TypeOK, Crash
    <3>4. QED
      BY <3>2, <3>3, <2>15 DEF TypeOK, Crash, Leave, lifecycle, effects
  <2>16. CASE UNCHANGED vars
    BY <2>16 DEF TypeOK, vars
  <2>17. ASSUME LockLeft PROVE TypeOK'
    BY <2>17 DEF TypeOK, LockLeft, Fault, lifecycle, request, effects
  <2>18. ASSUME NEW r \in Requests, NEW i \in Ids, NEW d \in {"approved", "rejected"},
                DecideUnreleased(r, i, d)
         PROVE TypeOK'
    BY <2>18 DEF TypeOK, DecideUnreleased, Fault, Lifecycle!Decide, Lifecycle!Live, request,
                 effects
  <2>19. ASSUME NEW r \in Requests, ClaimFails(r) PROVE TypeOK'
    <3>1. target[r] \in Ids /\ pc[r] # "idle"
      BY <2>0, <2>19 DEF ClaimFails
    <3>2. failures' \in 0..MaxFailures
      BY <2>19 DEF TypeOK, ClaimFails, Fault
    <3>3. QED
      BY <3>1, <3>2, <2>19 DEF TypeOK, ClaimFails, Goto, lifecycle, effects
  <2>20. ASSUME NEW r \in Requests, ClaimUnreleased(r) PROVE TypeOK'
    <3>1. target[r] \in Ids /\ pc[r] # "idle"
      BY <2>0, <2>20 DEF ClaimUnreleased
    <3>2. wins' \in [Ids -> Nat]
      <4>1. wins \in [Ids -> Nat] /\ wins' = [wins EXCEPT ![target[r]] = @ + 1]
        BY <2>20 DEF TypeOK, ClaimUnreleased, Lifecycle!Consume
      <4>2. QED
        BY <3>1, <4>1, CountUp
    <3>3. status' \in [Ids -> Lifecycle!Live \cup {"absent", "gone"}]
      BY <3>1, <2>20 DEF TypeOK, ClaimUnreleased, Lifecycle!Consume, Lifecycle!Live
    <3>4. failures' \in 0..MaxFailures /\ excused' \subseteq Ids
      <4>1. failures' \in 0..MaxFailures
        BY <2>20 DEF TypeOK, ClaimUnreleased, Fault
      <4>2. excused' \subseteq Ids
        BY <3>1, <2>20 DEF TypeOK, ClaimUnreleased
      <4>3. QED
        BY <4>1, <4>2
    <3>5. orphaned' \in BOOLEAN
      BY Zenon, <2>20 DEF ClaimUnreleased
    <3>6. QED
      BY <3>1, <3>2, <3>3, <3>4, <3>5, <2>20 DEF TypeOK, ClaimUnreleased, Goto, effects
  <2>21. QED
    BY <2>1, <2>2, <2>3, <2>4, <2>5, <2>6, <2>7, <2>8, <2>9, <2>10, <2>11, <2>12, <2>13, <2>14,
       <2>15, <2>16, <2>17, <2>18, <2>19, <2>20 DEF Next, Step
<1>3. QED
  BY <1>1, <1>2, PTL DEF Spec

-----------------------------------------------------------------------------
(* The inductive invariant                                                 *)

(* A request past its claim owns the approval.                             *)
Owns(r) == pc[r] \in {"execute", "running", "appendCompleted", "appendFailed"}

(* An approval is claimed at most once, and is consumed from then on: it   *)
(* can never be approved, and so never be claimed, again.                  *)
ClaimedInv ==
  \A i \in Ids : wins[i] <= 1 /\ (wins[i] > 0 => status[i] \in {"consumed", "gone"})

(* One request owns a claimed approval; it starts the tool, and nothing is *)
(* in the history before that request appends its run.                     *)
OwnerInv ==
  \A r \in Requests : Owns(r) =>
    /\ wins[target[r]] = 1
    /\ started[target[r]] = IF pc[r] = "execute" THEN 0 ELSE 1
    /\ pc[r] = "appendCompleted" => target[r] \in landed
    /\ \A h \in history : h.id # target[r]
    /\ \A q \in Requests : Owns(q) /\ target[q] = target[r] => q = r

(* What is started was claimed, and what is in the history was started.    *)
StartedInv ==
  /\ \A i \in Ids : started[i] <= wins[i]
  /\ HistoryIsTrue

ExecutionInv == TypeOK /\ ClaimedInv /\ OwnerInv /\ StartedInv

(* A step that moves one request, which does not come to own an approval,  *)
(* and leaves claims, starts and the history alone keeps ownership as it   *)
(* is.                                                                     *)
LEMMA MovingOnKeepsOwner ==
  ASSUME ExecutionInv, TypeOK', NEW r \in Requests, NEW label,
         Goto(r, label), UNCHANGED <<wins, started, history>>, landed \subseteq landed',
         label \notin {"execute", "running", "appendCompleted", "appendFailed"}
           \/ (Owns(r) /\ pc[r] # "execute" /\ label # "execute"
               /\ (label = "appendCompleted" => target[r] \in landed'))
  PROVE  OwnerInv'
<1> USE DEF ExecutionInv, TypeOK, OwnerInv, Owns, Goto
<1>1. \A q \in Requests : Owns(q)' => Owns(q) /\ target'[q] = target[q] /\ target[q] \in Ids
  OBVIOUS
<1>2. \A q \in Requests : Owns(q)' =>
        /\ (pc'[q] = "execute" <=> pc[q] = "execute")
        /\ (pc'[q] = "appendCompleted" => target[q] \in landed')
  OBVIOUS
<1>3. QED
  BY <1>1, <1>2

(* So does a step that moves no request.                                   *)
LEMMA StandingStillKeepsOwner ==
  ASSUME ExecutionInv, UNCHANGED <<pc, target, wins, started, history>>, landed \subseteq landed'
  PROVE  OwnerInv'
  BY DEF ExecutionInv, OwnerInv, Owns

(* And a request that leaves owns nothing.                                 *)
LEMMA LeavingKeepsOwner ==
  ASSUME ExecutionInv, NEW r \in Requests, Leave(r), UNCHANGED <<wins, started, landed, history>>
  PROVE  OwnerInv'
<1> USE DEF ExecutionInv, TypeOK, OwnerInv, Owns, Leave
<1>1. \A q \in Requests : Owns(q)' => q # r /\ Owns(q) /\ target'[q] = target[q] /\ pc'[q] = pc[q]
  OBVIOUS
<1>2. QED
  BY <1>1

(* Claims, starts and the history do not change: neither does what is said *)
(* of them, unless a tool lands.                                           *)
LEMMA NothingStarted ==
  ASSUME ExecutionInv, UNCHANGED <<wins, started, history>>, landed \subseteq landed'
  PROVE  StartedInv'
  BY DEF ExecutionInv, StartedInv, HistoryIsTrue, Runs

(* Nor does a claim lose its mark while status stands still.               *)
LEMMA NothingClaimed ==
  ASSUME ExecutionInv, UNCHANGED lifecycle
  PROVE  ClaimedInv'
  BY DEF ExecutionInv, ClaimedInv, lifecycle

-----------------------------------------------------------------------------
(* The invariant is inductive                                              *)

LEMMA ExecutionInvHolds == Spec => []ExecutionInv
<1>1. Init => ExecutionInv
  <2> SUFFICES ASSUME Init PROVE ExecutionInv
    OBVIOUS
  <2>1. TypeOK
    BY InitTypes
  <2>2. QED
    BY <2>1 DEF Init, Lifecycle!Init, ExecutionInv, ClaimedInv, OwnerInv, Owns, StartedInv,
                HistoryIsTrue
<1>2. ExecutionInv /\ TypeOK' /\ [Next]_vars => ExecutionInv'
  <2> SUFFICES ASSUME ExecutionInv, TypeOK', [Next]_vars
               PROVE  ClaimedInv' /\ OwnerInv' /\ StartedInv'
    BY DEF ExecutionInv
  <2>0. /\ TypeOK /\ \A r \in Requests : pc[r] # "idle" => target[r] \in Ids
        /\ landed \subseteq landed
    BY DEF ExecutionInv, TypeOK
  <2>1. ASSUME NEW i \in Ids, NEW d \in SUBSET Ids, Create(i, d)
        PROVE  ClaimedInv' /\ OwnerInv' /\ StartedInv'
    <3>1. ClaimedInv'
      BY <2>1 DEF ExecutionInv, TypeOK, ClaimedInv, Create, Lifecycle!Create, Lifecycle!Live
    <3>2. QED
      BY <3>1, <2>0, <2>1, StandingStillKeepsOwner, NothingStarted
      DEF Create, Lifecycle!Create, request, effects
  <2>2. ASSUME NEW d \in SUBSET Ids, Expire(d)
        PROVE  ClaimedInv' /\ OwnerInv' /\ StartedInv'
    <3>1. ClaimedInv'
      BY <2>2 DEF ExecutionInv, TypeOK, ClaimedInv, Expire, Lifecycle!Expire, Lifecycle!Live
    <3>2. QED
      BY <3>1, <2>0, <2>2, StandingStillKeepsOwner, NothingStarted
      DEF Expire, Lifecycle!Expire, request, effects
  <2>3. ASSUME NEW i \in Ids, Withdraw(i)
        PROVE  ClaimedInv' /\ OwnerInv' /\ StartedInv'
    BY <2>0, <2>3, StandingStillKeepsOwner, NothingStarted, NothingClaimed
    DEF Withdraw, lifecycle, request, effects
  <2>4. ASSUME NEW i \in Ids, LandsLate(i)
        PROVE  ClaimedInv' /\ OwnerInv' /\ StartedInv'
    BY <2>4, StandingStillKeepsOwner, NothingStarted, NothingClaimed
    DEF LandsLate, lifecycle, request
  <2>5. ASSUME NEW r \in Requests, NEW i \in Ids, NEW d \in {"approved", "rejected"},
               Decide(r, i, d)
        PROVE  ClaimedInv' /\ OwnerInv' /\ StartedInv'
    <3>1. ClaimedInv'
      BY <2>5 DEF ExecutionInv, TypeOK, ClaimedInv, Decide, Lifecycle!Decide, Lifecycle!Live
    <3>2. OwnerInv'
      <4>1. \A q \in Requests : Owns(q)' =>
              q # r /\ Owns(q) /\ target'[q] = target[q] /\ pc'[q] = pc[q]
        BY <2>5 DEF ExecutionInv, TypeOK, Owns, Decide, Begin
      <4>2. QED
        BY <4>1, <2>5 DEF ExecutionInv, OwnerInv, Decide, Lifecycle!Decide, effects
    <3>3. QED
      BY <3>1, <3>2, <2>0, <2>5, NothingStarted DEF Decide, Lifecycle!Decide, effects
  <2>6. ASSUME NEW r \in Requests, Claim(r)
        PROVE  ClaimedInv' /\ OwnerInv' /\ StartedInv'
    <3>1. /\ target[r] \in Ids /\ status[target[r]] = "approved"
          /\ status' = [status EXCEPT ![target[r]] = "consumed"]
          /\ wins' = [wins EXCEPT ![target[r]] = @ + 1]
          /\ UNCHANGED <<started, landed, history, target>>
          /\ pc' = [pc EXCEPT ![r] = "execute"]
      BY <2>0, <2>6 DEF Claim, Lifecycle!Consume, Goto, effects
    <3>2. wins[target[r]] = 0 /\ started[target[r]] = 0
      BY <3>1, <2>0 DEF ExecutionInv, TypeOK, ClaimedInv, StartedInv
    <3>3. /\ \A h \in history : h.id # target[r]
          /\ \A q \in Requests : Owns(q) => target[q] # target[r] /\ target[q] \in Ids
      BY <3>2, <2>0 DEF ExecutionInv, TypeOK, StartedInv, HistoryIsTrue, OwnerInv, Owns
    <3>4. ClaimedInv'
      BY <3>1, <3>2, <2>0 DEF ExecutionInv, TypeOK, ClaimedInv
    <3>5. OwnerInv'
      <4>1. wins'[target[r]] = 1 /\ \A j \in Ids : j # target[r] => wins'[j] = wins[j]
        BY <3>1, <3>2 DEF ExecutionInv, TypeOK
      <4>2. \A q \in Requests : Owns(q)' =>
              /\ q = r \/ Owns(q)
              /\ pc'[q] = IF q = r THEN "execute" ELSE pc[q]
        BY <3>1 DEF ExecutionInv, TypeOK, Owns
      <4>3. QED
        BY <4>1, <4>2, <3>1, <3>2, <3>3 DEF ExecutionInv, OwnerInv
    <3>6. StartedInv'
      <4>1. \A j \in Ids : started[j] <= wins'[j]
        BY <3>1, <3>2 DEF ExecutionInv, TypeOK, StartedInv
      <4>2. QED
        BY <4>1, <3>1 DEF ExecutionInv, StartedInv, HistoryIsTrue, Runs
    <3>7. QED
      BY <3>4, <3>5, <3>6
  <2>7. ASSUME NEW r \in Requests, ClaimRefused(r)
        PROVE  ClaimedInv' /\ OwnerInv' /\ StartedInv'
    BY <2>0, <2>7, MovingOnKeepsOwner, NothingStarted, NothingClaimed
    DEF ClaimRefused, lifecycle, effects
  <2>8. ASSUME NEW r \in Requests, ToolWithdrawn(r)
        PROVE  ClaimedInv' /\ OwnerInv' /\ StartedInv'
    BY <2>0, <2>8, MovingOnKeepsOwner, NothingStarted, NothingClaimed
    DEF ToolWithdrawn, lifecycle, effects
  <2>9. ASSUME NEW r \in Requests, Execute(r)
        PROVE  ClaimedInv' /\ OwnerInv' /\ StartedInv'
    <3>1. /\ target[r] \in Ids /\ pc[r] = "execute" /\ Owns(r)
          /\ started' = [started EXCEPT ![target[r]] = @ + 1]
          /\ UNCHANGED <<status, wins, landed, history, target>>
          /\ pc' = [pc EXCEPT ![r] = "running"]
      BY <2>0, <2>9 DEF Execute, Goto, lifecycle, Owns
    <3>2. /\ wins[target[r]] = 1 /\ started[target[r]] = 0
          /\ \A h \in history : h.id # target[r]
          /\ \A q \in Requests : Owns(q) /\ q # r => target[q] # target[r] /\ target[q] \in Ids
      BY <3>1, <2>0 DEF ExecutionInv, TypeOK, OwnerInv, Owns
    <3>3. started'[target[r]] = 1 /\ \A j \in Ids : j # target[r] => started'[j] = started[j]
      BY <3>1, <3>2 DEF ExecutionInv, TypeOK
    <3>4. OwnerInv'
      <4>1. \A q \in Requests : Owns(q)' =>
              /\ Owns(q)
              /\ pc'[q] = IF q = r THEN "running" ELSE pc[q]
        BY <3>1 DEF ExecutionInv, TypeOK, Owns
      <4>2. QED
        BY <4>1, <3>1, <3>2, <3>3 DEF ExecutionInv, OwnerInv
    <3>5. StartedInv'
      <4>1. \A j \in Ids : started'[j] <= wins[j]
        BY <3>2, <3>3 DEF ExecutionInv, TypeOK, StartedInv
      <4>2. \A h \in history : started'[h.id] = 1
        BY <3>2, <3>3 DEF ExecutionInv, TypeOK, StartedInv, HistoryIsTrue
      <4>3. QED
        BY <4>1, <4>2, <3>1 DEF ExecutionInv, StartedInv, HistoryIsTrue, Runs
    <3>6. QED
      BY <3>1, <3>4, <3>5, NothingClaimed DEF lifecycle
  <2>10. ASSUME NEW r \in Requests, Completes(r)
         PROVE  ClaimedInv' /\ OwnerInv' /\ StartedInv'
    <3>1. OwnerInv'
      BY <2>10, MovingOnKeepsOwner DEF Completes, lifecycle, Owns
    <3>2. QED
      BY <3>1, <2>10, NothingStarted, NothingClaimed DEF Completes, lifecycle
  <2>11. ASSUME NEW r \in Requests, TimesOut(r)
         PROVE  ClaimedInv' /\ OwnerInv' /\ StartedInv'
    <3>1. OwnerInv'
      BY <2>0, <2>11, MovingOnKeepsOwner DEF TimesOut, lifecycle, effects, Owns
    <3>2. QED
      BY <3>1, <2>0, <2>11, NothingStarted, NothingClaimed DEF TimesOut, lifecycle, effects
  <2>12. ASSUME NEW r \in Requests, AppendRun(r)
         PROVE  ClaimedInv' /\ OwnerInv' /\ StartedInv'
    <3> DEFINE status0 == IF pc[r] = "appendCompleted" THEN "completed" ELSE "failed"
               run == [id |-> target[r], status |-> status0, by |-> r]
    <3>1. /\ target[r] \in Ids /\ Owns(r) /\ pc[r] \in {"appendCompleted", "appendFailed"}
          /\ history' = history \cup {run}
          /\ UNCHANGED <<status, wins, started, landed, target>>
          /\ pc' = [pc EXCEPT ![r] = "answer"]
      BY <2>0, <2>12 DEF AppendRun, Write, Goto, lifecycle, effects, Owns
    <3>2. /\ started[target[r]] = 1
          /\ status0 = "completed" => target[r] \in landed
          /\ \A h \in history : h.id # target[r]
          /\ \A q \in Requests : Owns(q) /\ q # r => target[q] # target[r]
      BY <3>1 DEF ExecutionInv, OwnerInv
    <3>3. OwnerInv'
      <4>1. \A q \in Requests : Owns(q)' => q # r /\ Owns(q) /\ pc'[q] = pc[q]
        BY <3>1 DEF ExecutionInv, TypeOK, Owns
      <4>2. QED
        BY <4>1, <3>1, <3>2 DEF ExecutionInv, OwnerInv
    <3>4. HistoryIsTrue'
      <4> SUFFICES ASSUME NEW h \in history'
                   PROVE  /\ started[h.id] = 1
                          /\ h.status = "completed" => h.id \in landed
                          /\ {g \in history' : g.id = h.id} = {h}
        BY <3>1 DEF HistoryIsTrue, Runs
      <4>1. CASE h = run
        BY <4>1, <3>1, <3>2
      <4>2. CASE h \in history
        BY <4>2, <3>1, <3>2 DEF ExecutionInv, StartedInv, HistoryIsTrue, Runs
      <4>3. QED
        BY <4>1, <4>2, <3>1
    <3>5. QED
      BY <3>1, <3>3, <3>4, NothingClaimed DEF lifecycle, ExecutionInv, StartedInv
  <2>13. ASSUME NEW r \in Requests, AppendFails(r)
         PROVE  ClaimedInv' /\ OwnerInv' /\ StartedInv'
    <3>1. OwnerInv'
      BY <2>0, <2>13, MovingOnKeepsOwner DEF AppendFails, lifecycle, effects, Owns
    <3>2. QED
      BY <3>1, <2>0, <2>13, NothingStarted, NothingClaimed DEF AppendFails, lifecycle, effects
  <2>14. ASSUME NEW r \in Requests, Answer(r)
         PROVE  ClaimedInv' /\ OwnerInv' /\ StartedInv'
    BY <2>0, <2>14, LeavingKeepsOwner, NothingStarted, NothingClaimed
    DEF Answer, lifecycle, effects
  <2>15. ASSUME NEW r \in Requests, Crash(r)
         PROVE  ClaimedInv' /\ OwnerInv' /\ StartedInv'
    BY <2>0, <2>15, LeavingKeepsOwner, NothingStarted, NothingClaimed
    DEF Crash, lifecycle, effects
  <2>16. CASE UNCHANGED vars
    BY <2>0, <2>16, StandingStillKeepsOwner, NothingStarted, NothingClaimed DEF vars, lifecycle
  <2>17. ASSUME LockLeft
         PROVE  ClaimedInv' /\ OwnerInv' /\ StartedInv'
    BY <2>0, <2>17, StandingStillKeepsOwner, NothingStarted, NothingClaimed
    DEF LockLeft, lifecycle, request, effects
  <2>18. ASSUME NEW r \in Requests, NEW i \in Ids, NEW d \in {"approved", "rejected"},
                DecideUnreleased(r, i, d)
         PROVE  ClaimedInv' /\ OwnerInv' /\ StartedInv'
    <3>1. ClaimedInv'
      BY <2>18 DEF ExecutionInv, TypeOK, ClaimedInv, DecideUnreleased, Lifecycle!Decide,
                   Lifecycle!Live
    <3>2. QED
      BY <3>1, <2>0, <2>18, StandingStillKeepsOwner, NothingStarted
      DEF DecideUnreleased, Lifecycle!Decide, request, effects
  <2>19. ASSUME NEW r \in Requests, ClaimFails(r)
         PROVE  ClaimedInv' /\ OwnerInv' /\ StartedInv'
    <3>1. OwnerInv'
      BY <2>0, <2>19, MovingOnKeepsOwner DEF ClaimFails, lifecycle, effects
    <3>2. QED
      BY <3>1, <2>0, <2>19, NothingStarted, NothingClaimed DEF ClaimFails, lifecycle, effects
  <2>20. ASSUME NEW r \in Requests, ClaimUnreleased(r)
         PROVE  ClaimedInv' /\ OwnerInv' /\ StartedInv'
    <3>1. /\ target[r] \in Ids /\ status[target[r]] = "approved"
          /\ status' = [status EXCEPT ![target[r]] = "consumed"]
          /\ wins' = [wins EXCEPT ![target[r]] = @ + 1]
          /\ UNCHANGED <<started, landed, history, target>>
          /\ pc' = [pc EXCEPT ![r] = "answer"]
      BY <2>0, <2>20 DEF ClaimUnreleased, Lifecycle!Consume, Goto, effects
    <3>2. wins[target[r]] = 0 /\ started[target[r]] = 0
      BY <3>1, <2>0 DEF ExecutionInv, TypeOK, ClaimedInv, StartedInv
    <3>3. \A q \in Requests : Owns(q) => target[q] # target[r] /\ target[q] \in Ids
      BY <3>2, <2>0 DEF ExecutionInv, OwnerInv, Owns
    <3>4. ClaimedInv'
      BY <3>1, <3>2, <2>0 DEF ExecutionInv, TypeOK, ClaimedInv
    <3>5. OwnerInv'
      <4>1. \A j \in Ids : j # target[r] => wins'[j] = wins[j]
        BY <3>1 DEF ExecutionInv, TypeOK
      <4>2. \A q \in Requests : Owns(q)' => Owns(q) /\ pc'[q] = pc[q]
        BY <3>1 DEF ExecutionInv, TypeOK, Owns
      <4>3. QED
        BY <4>1, <4>2, <3>1, <3>3 DEF ExecutionInv, OwnerInv
    <3>6. StartedInv'
      <4>1. \A j \in Ids : started[j] <= wins'[j]
        BY <3>1, <3>2 DEF ExecutionInv, TypeOK, StartedInv
      <4>2. QED
        BY <4>1, <3>1 DEF ExecutionInv, StartedInv, HistoryIsTrue, Runs
    <3>7. QED
      BY <3>4, <3>5, <3>6
  <2>21. QED
    BY <2>1, <2>2, <2>3, <2>4, <2>5, <2>6, <2>7, <2>8, <2>9, <2>10, <2>11, <2>12, <2>13, <2>14,
       <2>15, <2>16, <2>17, <2>18, <2>19, <2>20 DEF Next, Step
<1>3. QED
  BY <1>1, <1>2, ExecutionTypes, PTL DEF Spec

-----------------------------------------------------------------------------
(* The theorems                                                            *)

(* "Consumption happens before execution to prevent replay": the stored    *)
(* action of executeApprovedApproval() is started at most once, and only   *)
(* when its approval was consumed.                                         *)
THEOREM ExecutedOnce == Spec => []ExecutedAtMostOnce
<1>1. ExecutionInv => ExecutedAtMostOnce
  BY DEF ExecutionInv, TypeOK, ClaimedInv, StartedInv, ExecutedAtMostOnce
<1>2. QED
  BY <1>1, ExecutionInvHolds, PTL

(* The run history of approved actions tells one story of each of them,    *)
(* and a success only if the tool has resolved.                            *)
THEOREM HistoryOfApprovedActions == Spec => []HistoryIsTrue
<1>1. ExecutionInv => HistoryIsTrue
  BY DEF ExecutionInv, StartedInv
<1>2. QED
  BY <1>1, ExecutionInvHolds, PTL
-----------------------------------------------------------------------------
(* What was started and is not excused is in the history, or in the hands  *)
(* of a request that will append it before it answers. That request must   *)
(* be named: "not handled any more" says nothing of a step back.           *)
Appends(r) == pc[r] \in {"running", "appendCompleted", "appendFailed"}

RecordedInv ==
  \A i \in Ids : started[i] > 0 /\ i \notin excused =>
    \/ \E h \in history : h.id = i
    \/ \E r \in Requests : target[r] = i /\ Appends(r)

(* A step that starts nothing, keeps the history and the excuses, and      *)
(* takes no approval out of the hands of a request that has one to append. *)
LEMMA HandsKeepRecorded ==
  ASSUME RecordedInv, UNCHANGED started, history \subseteq history', excused \subseteq excused',
         \A r \in Requests : Appends(r) => Appends(r)' /\ target'[r] = target[r]
  PROVE  RecordedInv'
  BY DEF RecordedInv

(* So does a step of a request that has nothing to append yet.             *)
LEMMA BeforeTheStart ==
  ASSUME TypeOK, RecordedInv, NEW r \in Requests, NEW label, NEW t, ~Appends(r),
         pc' = [pc EXCEPT ![r] = label], target' = [target EXCEPT ![r] = t],
         UNCHANGED <<started, history, excused>>
  PROVE  RecordedInv'
<1>1. \A q \in Requests : Appends(q) => q # r /\ Appends(q)' /\ target'[q] = target[q]
  BY DEF TypeOK, Appends
<1>2. QED
  BY <1>1, HandsKeepRecorded

(* And a step of a request that goes on appending.                         *)
LEMMA OnTheWay ==
  ASSUME TypeOK, RecordedInv, NEW r \in Requests, NEW label, Goto(r, label),
         label \in {"appendCompleted", "appendFailed"},
         UNCHANGED <<started, history, excused>>
  PROVE  RecordedInv'
<1>1. \A q \in Requests : Appends(q) => Appends(q)' /\ target'[q] = target[q]
  BY DEF TypeOK, Appends, Goto
<1>2. QED
  BY <1>1, HandsKeepRecorded

(* The request that lets go of an approval leaves a run or an excuse.      *)
LEMMA LettingGo ==
  ASSUME TypeOK, RecordedInv, NEW r \in Requests, UNCHANGED started,
         history \subseteq history', excused \subseteq excused',
         \A q \in Requests \ {r} : pc'[q] = pc[q] /\ target'[q] = target[q],
         target[r] \in excused' \/ \E h \in history' : h.id = target[r]
  PROVE  RecordedInv'
<1> SUFFICES ASSUME NEW i \in Ids, started[i] > 0, i \notin excused',
                    ~\E h \in history' : h.id = i
             PROVE  \E q \in Requests : target'[q] = i /\ Appends(q)'
  BY DEF RecordedInv
<1>1. PICK q \in Requests : target[q] = i /\ Appends(q)
  BY DEF RecordedInv
<1>2. q # r
  BY <1>1
<1>3. QED
  BY <1>1, <1>2 DEF Appends

(* Writing back what is there changes nothing.                             *)
LEMMA UnmovedTarget ==
  ASSUME TypeOK, UNCHANGED target
  PROVE  \A r \in Requests : target' = [target EXCEPT ![r] = target[r]]
  BY DEF TypeOK

LEMMA RecordedInvHolds == Spec => []RecordedInv
<1>1. Init => RecordedInv
  BY DEF Init, RecordedInv
<1>2. TypeOK /\ RecordedInv /\ [Next]_vars => RecordedInv'
  <2> SUFFICES ASSUME TypeOK, RecordedInv, [Next]_vars PROVE RecordedInv'
    OBVIOUS
  <2>0. \A r \in Requests : pc[r] # "idle" => target[r] \in Ids
    BY DEF TypeOK
  <2>1. ASSUME NEW i \in Ids, NEW d \in SUBSET Ids, Create(i, d) PROVE RecordedInv'
    BY <2>1, HandsKeepRecorded DEF Create, request, effects, faults, Appends
  <2>2. ASSUME NEW d \in SUBSET Ids, Expire(d) PROVE RecordedInv'
    BY <2>2, HandsKeepRecorded DEF Expire, request, effects, faults, Appends
  <2>3. ASSUME NEW i \in Ids, Withdraw(i) PROVE RecordedInv'
    BY <2>3, HandsKeepRecorded DEF Withdraw, request, effects, faults, Appends
  <2>4. ASSUME NEW i \in Ids, LandsLate(i) PROVE RecordedInv'
    BY <2>4, HandsKeepRecorded DEF LandsLate, request, effects, faults, Appends
  <2>5. ASSUME NEW r \in Requests, NEW i \in Ids, NEW d \in {"approved", "rejected"},
               Decide(r, i, d)
        PROVE RecordedInv'
    BY <2>5, BeforeTheStart DEF Decide, Begin, effects, faults, Appends
  <2>6. ASSUME NEW r \in Requests, Claim(r) PROVE RecordedInv'
    BY <2>6, BeforeTheStart, UnmovedTarget DEF Claim, Goto, effects, faults, Appends
  <2>7. ASSUME NEW r \in Requests, ClaimRefused(r) PROVE RecordedInv'
    BY <2>7, BeforeTheStart, UnmovedTarget DEF ClaimRefused, Goto, effects, faults, Appends
  <2>8. ASSUME NEW r \in Requests, ToolWithdrawn(r) PROVE RecordedInv'
    BY <2>8, BeforeTheStart, UnmovedTarget DEF ToolWithdrawn, Goto, effects, faults, Appends
  <2>9. ASSUME NEW r \in Requests, Execute(r) PROVE RecordedInv'
    <3>1. \A i \in Ids : i # target[r] => started'[i] = started[i]
      BY <2>0, <2>9 DEF TypeOK, Execute
    <3>2. \A q \in Requests : Appends(q) => Appends(q)'
      BY <2>9 DEF TypeOK, Execute, Goto, Appends
    <3>3. Appends(r)' /\ UNCHANGED <<target, history, excused>>
      BY <2>9 DEF TypeOK, Execute, Goto, Appends, faults
    <3>4. QED
      BY <3>1, <3>2, <3>3 DEF RecordedInv
  <2>10. ASSUME NEW r \in Requests, Completes(r) PROVE RecordedInv'
    BY <2>10, OnTheWay DEF Completes, faults
  <2>11. ASSUME NEW r \in Requests, TimesOut(r) PROVE RecordedInv'
    BY <2>11, OnTheWay DEF TimesOut, effects, faults
  <2>12. ASSUME NEW r \in Requests, AppendRun(r) PROVE RecordedInv'
    <3>1. \E h \in history' : h.id = target[r]
      <4> DEFINE run == [id |-> target[r],
                         status |-> IF pc[r] = "appendCompleted" THEN "completed" ELSE "failed",
                         by |-> r]
      <4>1. run \in history' /\ run.id = target[r]
        BY <2>12 DEF AppendRun, Write
      <4>2. QED
        BY <4>1
    <3>2. /\ history \subseteq history' /\ UNCHANGED <<started, excused>>
          /\ \A q \in Requests \ {r} : pc'[q] = pc[q] /\ target'[q] = target[q]
      BY <2>12 DEF TypeOK, AppendRun, Write, Goto, effects, faults
    <3>3. QED
      BY <3>1, <3>2, LettingGo
  <2>13. ASSUME NEW r \in Requests, AppendFails(r) PROVE RecordedInv'
    BY <2>13, LettingGo DEF TypeOK, AppendFails, Goto, effects
  <2>14. ASSUME NEW r \in Requests, Answer(r) PROVE RecordedInv'
    BY <2>14, BeforeTheStart DEF Answer, Leave, effects, faults, Appends
  <2>15. ASSUME NEW r \in Requests, Crash(r) PROVE RecordedInv'
    <3>1. /\ target[r] \in excused' /\ UNCHANGED <<started, history>>
          /\ excused \subseteq excused'
          /\ \A q \in Requests \ {r} : pc'[q] = pc[q] /\ target'[q] = target[q]
      BY <2>15 DEF TypeOK, Crash, Leave, effects
    <3>2. QED
      BY <3>1, LettingGo
  <2>16. CASE UNCHANGED vars
    BY <2>16, HandsKeepRecorded DEF vars, Appends
  <2>17. ASSUME LockLeft PROVE RecordedInv'
    BY <2>17, HandsKeepRecorded DEF LockLeft, request, effects, Appends
  <2>18. ASSUME NEW r \in Requests, NEW i \in Ids, NEW d \in {"approved", "rejected"},
                DecideUnreleased(r, i, d)
         PROVE RecordedInv'
    BY <2>18, HandsKeepRecorded DEF DecideUnreleased, request, effects, Appends
  <2>19. ASSUME NEW r \in Requests, ClaimFails(r) PROVE RecordedInv'
    BY <2>19, BeforeTheStart, UnmovedTarget DEF ClaimFails, Goto, effects, Appends
  <2>20. ASSUME NEW r \in Requests, ClaimUnreleased(r) PROVE RecordedInv'
    <3>1. \A q \in Requests : Appends(q) => Appends(q)' /\ target'[q] = target[q]
      BY <2>20 DEF TypeOK, ClaimUnreleased, Goto, Appends
    <3>2. QED
      BY <2>20, <3>1, HandsKeepRecorded DEF ClaimUnreleased, effects
  <2>21. QED
    BY <2>1, <2>2, <2>3, <2>4, <2>5, <2>6, <2>7, <2>8, <2>9, <2>10, <2>11, <2>12, <2>13, <2>14,
       <2>15, <2>16, <2>17, <2>18, <2>19, <2>20 DEF Next, Step
<1>3. QED
  BY <1>1, <1>2, ExecutionTypes, PTL DEF Spec

(* "executed from the persisted action record, and written to run          *)
(* history": whatever executeApprovedApproval() has started is in the      *)
(* history once nobody handles it, but for a crash or a failed write.      *)
THEOREM StartsAreRecorded == Spec => []StartedIsRecorded
<1>1. TypeOK /\ RecordedInv => StartedIsRecorded
  BY DEF TypeOK, RecordedInv, StartedIsRecorded, Runs, Handled
<1>2. QED
  BY <1>1, ExecutionTypes, RecordedInvHolds, PTL

-----------------------------------------------------------------------------
(* Grants that are never forgotten                                         *)

(* A step that grants nothing, keeps what is stranded, and takes a claimer *)
(* from no approval but one that is granted no more, or stranded.          *)
LEMMA NoGrantIsForgotten ==
  ASSUME GrantIsPursued, stranded \subseteq stranded',
         \A i \in Ids : status'[i] = "approved" => status[i] = "approved",
         \A r \in Requests : pc[r] = "claim" =>
           \/ pc'[r] = "claim" /\ target'[r] = target[r]
           \/ status'[target[r]] # "approved" \/ target[r] \in stranded'
  PROVE  GrantIsPursued'
<1> SUFFICES ASSUME NEW i \in Ids, status'[i] = "approved", i \notin stranded'
             PROVE  \E r \in Requests : pc'[r] = "claim" /\ target'[r] = i
  BY DEF GrantIsPursued, Pursued
<1>1. PICK r \in Requests : pc[r] = "claim" /\ target[r] = i
  BY DEF GrantIsPursued, Pursued
<1>2. QED
  BY <1>1

(* No grant of decide() is simply forgotten by claimApproved(): one that   *)
(* no request is about to claim met a crash or a failure of the store.     *)
THEOREM GrantsArePursued == Spec => []GrantIsPursued
<1>1. Init => GrantIsPursued
  BY DEF Init, Lifecycle!Init, GrantIsPursued
<1>2. TypeOK /\ GrantIsPursued /\ [Next]_vars => GrantIsPursued'
  <2> SUFFICES ASSUME TypeOK, GrantIsPursued, [Next]_vars PROVE GrantIsPursued'
    OBVIOUS
  <2>0. \A r \in Requests : pc[r] # "idle" => target[r] \in Ids
    BY DEF TypeOK
  <2>1. ASSUME NEW i \in Ids, NEW d \in SUBSET Ids, Create(i, d) PROVE GrantIsPursued'
    <3>1. \A j \in Ids : status'[j] = "approved" => status[j] = "approved"
      BY <2>1 DEF Create, Lifecycle!Create
    <3>2. QED
      BY <2>1, <3>1, NoGrantIsForgotten DEF Create, request, faults
  <2>2. ASSUME NEW d \in SUBSET Ids, Expire(d) PROVE GrantIsPursued'
    <3>1. \A j \in Ids : status'[j] = "approved" => status[j] = "approved"
      BY <2>2 DEF Expire, Lifecycle!Expire
    <3>2. QED
      BY <2>2, <3>1, NoGrantIsForgotten DEF Expire, request, faults
  <2>3. CASE (\E i \in Ids : Withdraw(i) \/ LandsLate(i)) \/ LockLeft \/ UNCHANGED vars
    <3>1. UNCHANGED <<status, pc, target, stranded>>
      BY <2>3 DEF Withdraw, LandsLate, LockLeft, lifecycle, request, faults, vars
    <3>2. QED
      BY <3>1, NoGrantIsForgotten
  <2>4. ASSUME NEW r \in Requests, NEW i \in Ids, NEW d \in {"approved", "rejected"},
               Decide(r, i, d)
        PROVE GrantIsPursued'
    <3>1. /\ pc[r] = "idle" /\ status' = [status EXCEPT ![i] = d]
          /\ target' = [target EXCEPT ![r] = i] /\ UNCHANGED stranded
          /\ pc' = [pc EXCEPT ![r] = IF d = "approved" THEN "claim" ELSE "answer"]
      BY <2>4 DEF Decide, Begin, Lifecycle!Decide, faults
    <3>2. \A q \in Requests : pc[q] = "claim" => pc'[q] = "claim" /\ target'[q] = target[q]
      BY <3>1 DEF TypeOK
    <3>3. d = "approved" => pc'[r] = "claim" /\ target'[r] = i
      BY <3>1 DEF TypeOK
    <3>4. \A j \in Ids : status'[j] = "approved" => status[j] = "approved" \/ (j = i /\ d = "approved")
      BY <3>1 DEF TypeOK
    <3>5. QED
      BY <3>1, <3>2, <3>3, <3>4 DEF GrantIsPursued, Pursued
  <2>5. ASSUME NEW r \in Requests, NEW i \in Ids, NEW d \in {"approved", "rejected"},
               DecideUnreleased(r, i, d)
        PROVE GrantIsPursued'
    <3>1. /\ status' = [status EXCEPT ![i] = d] /\ UNCHANGED <<pc, target>>
          /\ stranded' = IF d = "approved" THEN stranded \cup {i} ELSE stranded
      BY <2>5 DEF DecideUnreleased, Lifecycle!Decide, request
    <3>2. \A j \in Ids : status'[j] = "approved" => status[j] = "approved" \/ j \in stranded'
      BY <3>1 DEF TypeOK
    <3>3. QED
      BY <3>1, <3>2 DEF GrantIsPursued, Pursued
  <2>6. ASSUME NEW r \in Requests, Claim(r) \/ ClaimUnreleased(r) PROVE GrantIsPursued'
    <3>1. /\ target[r] \in Ids /\ status' = [status EXCEPT ![target[r]] = "consumed"]
          /\ UNCHANGED <<target, stranded>>
          /\ \A q \in Requests \ {r} : pc'[q] = pc[q]
      <4>1. CASE Claim(r)
        BY <2>0, <4>1 DEF TypeOK, Claim, Lifecycle!Consume, Goto, faults
      <4>2. CASE ClaimUnreleased(r)
        BY <2>0, <4>2 DEF TypeOK, ClaimUnreleased, Lifecycle!Consume, Goto
      <4>3. QED
        BY <2>6, <4>1, <4>2
    <3>2. \A q \in Requests : pc[q] = "claim" =>
            \/ pc'[q] = "claim" /\ target'[q] = target[q]
            \/ status'[target[q]] # "approved"
      BY <3>1 DEF TypeOK
    <3>3. \A j \in Ids : status'[j] = "approved" => status[j] = "approved"
      BY <3>1 DEF TypeOK
    <3>4. QED
      BY <3>1, <3>2, <3>3, NoGrantIsForgotten
  <2>7. ASSUME NEW r \in Requests, ClaimRefused(r) PROVE GrantIsPursued'
    <3>1. \A q \in Requests : pc[q] = "claim" =>
            \/ pc'[q] = "claim" /\ target'[q] = target[q]
            \/ status'[target[q]] # "approved"
      BY <2>7 DEF TypeOK, ClaimRefused, Goto, lifecycle
    <3>2. QED
      BY <2>7, <3>1, NoGrantIsForgotten DEF ClaimRefused, lifecycle, faults
  <2>8. ASSUME NEW r \in Requests, ClaimFails(r) \/ Crash(r) PROVE GrantIsPursued'
    <3>1. UNCHANGED status /\ stranded \subseteq stranded'
      BY <2>8 DEF ClaimFails, Crash, lifecycle
    <3>2. pc[r] = "claim" => target[r] \in stranded'
      BY <2>8 DEF ClaimFails, Crash
    <3>3. \A q \in Requests \ {r} : pc'[q] = pc[q] /\ target'[q] = target[q]
      BY <2>8 DEF TypeOK, ClaimFails, Crash, Goto, Leave
    <3>4. QED
      BY <3>1, <3>2, <3>3, NoGrantIsForgotten
  <2>9. ASSUME NEW r \in Requests,
                ToolWithdrawn(r) \/ Execute(r) \/ Completes(r) \/ TimesOut(r) \/ AppendRun(r)
                  \/ AppendFails(r) \/ Answer(r)
         PROVE GrantIsPursued'
    <3>1. pc[r] # "claim" /\ UNCHANGED <<status, stranded>>
      BY <2>9 DEF ToolWithdrawn, Execute, Completes, TimesOut, AppendRun, AppendFails, Answer,
                   lifecycle, faults
    <3>2. \A q \in Requests \ {r} : pc'[q] = pc[q] /\ target'[q] = target[q]
      BY <2>9 DEF TypeOK, ToolWithdrawn, Execute, Completes, TimesOut, AppendRun, AppendFails,
                   Answer, Goto, Leave
    <3>3. QED
      BY <3>1, <3>2, NoGrantIsForgotten
  <2>10. QED
    BY <2>1, <2>2, <2>3, <2>4, <2>5, <2>6, <2>7, <2>8, <2>9 DEF Next, Step
<1>3. QED
  BY <1>1, <1>2, ExecutionTypes, PTL DEF Spec

-----------------------------------------------------------------------------
(* What slice(-n) and splice(0, length - n) keep                           *)

(* Newest keeps a short sequence, and the last MaxRecords of a long one,   *)
(* in their order.                                                         *)
LEMMA NewestKeepsTheLast ==
  ASSUME NEW s \in Seq(Writers)
  PROVE  /\ Newest(s) \in Seq(Writers)
         /\ Len(s) <= MaxRecords => Newest(s) = s
         /\ Len(s) > MaxRecords =>
              /\ Len(Newest(s)) = MaxRecords
              /\ \A i \in 1..MaxRecords : Newest(s)[i] = s[i + (Len(s) - MaxRecords)]
<1> USE StoreAssumption
<1>0. Len(s) \in Nat
  BY LenProperties
<1>1. CASE Len(s) <= MaxRecords
  BY <1>0, <1>1 DEF Newest
<1>2. CASE Len(s) > MaxRecords
  <2> DEFINE m == Len(s) - MaxRecords + 1
  <2>1. m \in Int /\ m >= 1 /\ ~(Len(s) <= MaxRecords) /\ m <= Len(s)
    BY <1>0, <1>2
  <2>2. Newest(s) = SubSeq(s, m, Len(s))
    BY <2>1 DEF Newest
  <2>3. \A i \in m..Len(s) : s[i] \in Writers
    BY <1>0, <2>1, ElementOfSeq
  <2>5. \A i \in Int : m + i - 1 = i + (Len(s) - MaxRecords)
    BY <1>0
  <2>6. Len(s) - m + 1 = MaxRecords
    BY <1>0
  <2>7. Len(s) \in Int
    BY <1>0
  <2> HIDE DEF m
  <2>8. /\ SubSeq(s, m, Len(s)) \in Seq(Writers)
        /\ Len(SubSeq(s, m, Len(s))) = MaxRecords
        /\ \A i \in 1..MaxRecords : SubSeq(s, m, Len(s))[i] = s[m + i - 1]
    BY <2>1, <2>3, <2>6, <2>7, SubSeqProperties
  <2>9. \A i \in 1..MaxRecords : Newest(s)[i] = s[i + (Len(s) - MaxRecords)]
    <3>1. \A i \in 1..MaxRecords : m + i - 1 = i + (Len(s) - MaxRecords)
      BY <2>5
    <3> QED BY <2>2, <2>8, <3>1
  <2>10. Newest(s) \in Seq(Writers) /\ Len(Newest(s)) = MaxRecords
    BY <2>2, <2>8
  <2> QED BY <2>1, <2>9, <2>10
<1>3. QED
  BY <1>0, <1>1, <1>2

(* What is appended is last.                                               *)
LEMMA AppendedIsLast ==
  ASSUME NEW s \in Seq(Writers), NEW w \in Writers
  PROVE  /\ Append(s, w) \in Seq(Writers)
         /\ Len(Append(s, w)) = Len(s) + 1
         /\ \A i \in 1..Len(s) + 1 : Append(s, w)[i] = IF i <= Len(s) THEN s[i] ELSE w
  OBVIOUS

(* Dropping the oldest before a record is pushed, as load() does, keeps    *)
(* what dropping them once afterwards keeps.                               *)
LEMMA NewestOfAppend ==
  ASSUME NEW s \in Seq(Writers), NEW w \in Writers
  PROVE  Newest(Append(Newest(s), w)) = Newest(Append(s, w))
<1> USE StoreAssumption
<1> DEFINE t == Newest(s)
           a == Append(s, w)
           b == Append(t, w)
<1>0. Len(s) \in Nat
  BY LenProperties
<1>1. t \in Seq(Writers) /\ Len(t) \in Nat
  BY NewestKeepsTheLast, LenProperties
<1>2. CASE Len(s) <= MaxRecords
  BY <1>2 DEF Newest
<1>3. CASE Len(s) > MaxRecords
  <2>1. /\ Len(t) = MaxRecords
        /\ \A i \in 1..MaxRecords : t[i] = s[i + (Len(s) - MaxRecords)]
    BY <1>0, <1>3, NewestKeepsTheLast
  <2> HIDE DEF t
  <2>2. /\ a \in Seq(Writers) /\ Len(a) = Len(s) + 1
        /\ \A i \in 1..Len(s) + 1 : a[i] = IF i <= Len(s) THEN s[i] ELSE w
    BY AppendedIsLast
  <2>3. /\ b \in Seq(Writers) /\ Len(b) = MaxRecords + 1
        /\ \A i \in 1..MaxRecords + 1 : b[i] = IF i <= MaxRecords THEN t[i] ELSE w
    BY <1>1, <2>1, AppendedIsLast
  <2> HIDE DEF a, b
  <2>0. Len(a) > MaxRecords /\ Len(b) > MaxRecords /\ Len(b) - MaxRecords = 1
    BY <1>0, <1>3, <2>2, <2>3
  <2>4. /\ Newest(a) \in Seq(Writers) /\ Len(Newest(a)) = MaxRecords
        /\ \A i \in 1..MaxRecords : Newest(a)[i] = a[i + (Len(a) - MaxRecords)]
    BY <2>0, <2>2, NewestKeepsTheLast
  <2>5. /\ Newest(b) \in Seq(Writers) /\ Len(Newest(b)) = MaxRecords
        /\ \A i \in 1..MaxRecords : Newest(b)[i] = b[i + 1]
    <3>1. /\ Newest(b) \in Seq(Writers) /\ Len(Newest(b)) = MaxRecords
          /\ \A i \in 1..MaxRecords : Newest(b)[i] = b[i + (Len(b) - MaxRecords)]
      BY <2>0, <2>3, NewestKeepsTheLast
    <3>2. QED
      BY <2>0, <3>1
  <2>6. ASSUME NEW i \in 1..MaxRecords PROVE Newest(a)[i] = Newest(b)[i]
    <3>1. CASE i = MaxRecords
      <4>1. a[i + (Len(a) - MaxRecords)] = w
        BY <1>0, <1>3, <2>2, <3>1
      <4>2. b[i + 1] = w
        BY <2>3, <3>1
      <4>3. QED
        BY <2>4, <2>5, <4>1, <4>2
    <3>2. CASE i < MaxRecords
      <4>1. a[i + (Len(a) - MaxRecords)] = s[i + 1 + (Len(s) - MaxRecords)]
        BY <1>0, <1>3, <2>2, <3>2
      <4>2. b[i + 1] = s[i + 1 + (Len(s) - MaxRecords)]
        BY <2>1, <2>3, <3>2
      <4>3. QED
        BY <2>4, <2>5, <4>1, <4>2
    <3>3. QED
      BY <3>1, <3>2
  <2>7. Newest(a) = Newest(b)
    BY <2>4, <2>5, <2>6, SeqEqual
  <2>8. QED
    BY <2>7 DEF a, b, t
<1>4. QED
  BY <1>0, <1>2, <1>3

(* What is already bounded is left alone.                                  *)
LEMMA NewestOfNewest ==
  ASSUME NEW s \in Seq(Writers)
  PROVE  Newest(Newest(s)) = Newest(s)
<1> USE StoreAssumption
<1>1. Len(s) \in Nat
  BY LenProperties
<1>2. CASE Len(s) <= MaxRecords
  BY <1>2, NewestKeepsTheLast
<1>3. CASE Len(s) > MaxRecords
  <2>1. Newest(s) \in Seq(Writers) /\ Len(Newest(s)) = MaxRecords
    BY <1>3, NewestKeepsTheLast
  <2>2. Len(Newest(s)) <= MaxRecords
    BY <2>1
  <2>3. QED
    BY <2>1, <2>2, NewestKeepsTheLast
<1>4. QED
  BY <1>1, <1>2, <1>3

-----------------------------------------------------------------------------
(* Types                                                                   *)

(* Appending to the file keeps the types of everything.                    *)
THEOREM StoreTypes == StoreSpec => []StoreTypeOK
<1>1. StoreInit => StoreTypeOK
  BY StoreAssumption DEF StoreInit, StoreTypeOK
<1>2. StoreTypeOK /\ [StoreNext]_storeVars => StoreTypeOK'
  <2> USE DEF StoreTypeOK
  <2> SUFFICES ASSUME StoreTypeOK, [StoreNext]_storeVars PROVE StoreTypeOK'
    OBVIOUS
  <2>1. CASE UNCHANGED storeVars
    BY <2>1 DEF storeVars
  <2>2. ASSUME NEW w \in Writers, Open(w) PROVE StoreTypeOK'
    BY <2>2, NewestKeepsTheLast DEF Open, Becomes
  <2>3. ASSUME NEW w \in Writers, MakeLock(w) PROVE StoreTypeOK'
    BY <2>3 DEF MakeLock, Becomes
  <2>4. ASSUME NEW w \in Writers, GiveUp(w) PROVE StoreTypeOK'
    BY <2>4 DEF GiveUp, Becomes
  <2>5. ASSUME NEW w \in Writers, Reload(w) PROVE StoreTypeOK'
    <3>1. Newest(file) \in Seq(Writers)
      BY NewestKeepsTheLast
    <3>2. Append(Newest(file), w) \in Seq(Writers)
      BY <3>1, AppendedIsLast
    <3>3. Newest(Append(Newest(file), w)) \in Seq(Writers)
      BY <3>2, NewestKeepsTheLast
    <3>4. QED
      BY <2>5, <3>3 DEF Reload, Becomes
  <2>6. ASSUME NEW w \in Writers, Replace(w) PROVE StoreTypeOK'
    <3>1. Append(log, w) \in Seq(Writers)
      BY AppendedIsLast
    <3>2. QED
      BY <2>6, <3>1 DEF Replace, Becomes
  <2>7. ASSUME NEW w \in Writers, FileFails(w) PROVE StoreTypeOK'
    BY <2>7 DEF FileFails, Becomes
  <2>8. ASSUME NEW w \in Writers, RemoveLock(w) PROVE StoreTypeOK'
    BY <2>8 DEF RemoveLock, Finish, Becomes
  <2>9. ASSUME NEW w \in Writers, RemoveFails(w) PROVE StoreTypeOK'
    BY <2>9 DEF RemoveFails, Finish, Becomes
  <2>10. ASSUME NEW w \in Writers, Die(w) PROVE StoreTypeOK'
    BY <2>10 DEF Die, Becomes
  <2>11. QED
    BY <2>1, <2>2, <2>3, <2>4, <2>5, <2>6, <2>7, <2>8, <2>9, <2>10
    DEF StoreNext, AppendStep
<1>3. QED
  BY <1>1, <1>2, PTL DEF StoreSpec

-----------------------------------------------------------------------------
(* The file and its history                                                *)

(* One request at a time is between mkdir and rm of the lock directory; in *)
(* that span the file does not change under it, so what it has read and    *)
(* pushed is still the newest of the history and itself when it replaces   *)
(* the file.                                                               *)
StoreInv ==
  /\ file = Newest(log)
  /\ \A i, j \in DOMAIN log : log[i] = log[j] => i = j
  /\ \A w \in Writers :
       /\ Holds(w) => lock = w
       /\ at[w] = "loaded" => records[w] = Newest(Append(log, w))
       /\ at[w] \in {"written", "done"} => Logged(w)
       /\ at[w] \notin {"written", "done", "dead"} => ~Logged(w)

(* A request that changes neither the file nor the history, and whose own  *)
(* place agrees with both, leaves the invariant.                           *)
LEMMA OnlyThePlaceChanges ==
  ASSUME StoreTypeOK, StoreInv, NEW w \in Writers, NEW label,
         at' = [at EXCEPT ![w] = label], file' = file, log' = log,
         \A v \in Writers \ {w} : (Holds(v) => lock' = lock) /\ records'[v] = records[v],
         label \in {"locked", "loaded", "written", "failed"} => lock' = w,
         label = "loaded" => records'[w] = Newest(Append(log, w)),
         label \in {"written", "done"} => Logged(w),
         label \notin {"written", "done", "dead"} => ~Logged(w)
  PROVE  StoreInv'
<1>1. at'[w] = label /\ \A v \in Writers \ {w} : at'[v] = at[v]
  BY DEF StoreTypeOK
<1>2. \A v \in Writers : Logged(v)' <=> Logged(v)
  BY DEF Logged
<1>3. ASSUME NEW v \in Writers
      PROVE  /\ Holds(v)' => lock' = v
             /\ at'[v] = "loaded" => records'[v] = Newest(Append(log', v))
             /\ at'[v] \in {"written", "done"} => Logged(v)'
             /\ at'[v] \notin {"written", "done", "dead"} => ~Logged(v)'
  <2>1. CASE v = w
    BY <1>1, <1>2, <2>1 DEF Holds
  <2>2. CASE v # w
    BY <1>1, <1>2, <2>2 DEF StoreInv, Holds
  <2>3. QED
    BY <2>1, <2>2
<1>4. file' = Newest(log)'
  BY DEF StoreInv, Newest
<1>5. (\A i, j \in DOMAIN log : log[i] = log[j] => i = j)'
  BY DEF StoreInv
<1>6. QED
  BY <1>3, <1>4, <1>5 DEF StoreInv

(* Only the request that holds the lock replaces the file, with the newest *)
(* of the history and its own record, which was not there.                 *)
LEMMA ReplaceKeepsTheHistory ==
  ASSUME StoreTypeOK, StoreInv, NEW w \in Writers, Replace(w)
  PROVE  StoreInv'
<1> USE DEF StoreTypeOK
<1>1. /\ at[w] = "loaded" /\ file' = records[w] /\ log' = Append(log, w)
      /\ at' = [at EXCEPT ![w] = "written"] /\ lock' = lock /\ records' = records
  BY DEF Replace, Becomes
<1>2. lock = w /\ records[w] = Newest(Append(log, w)) /\ ~Logged(w)
  BY <1>1 DEF StoreInv, Holds
<1>3. at'[w] = "written" /\ \A v \in Writers \ {w} : at'[v] = at[v]
  BY <1>1
<1>4. /\ Len(log) \in Nat /\ DOMAIN log = 1..Len(log)
      /\ log' \in Seq(Writers) /\ DOMAIN log' = 1..Len(log) + 1
      /\ \A i \in 1..Len(log) + 1 : log'[i] = IF i <= Len(log) THEN log[i] ELSE w
  BY <1>1, AppendedIsLast, LenProperties
<1>5. Logged(w)' /\ \A v \in Writers \ {w} : Logged(v)' <=> Logged(v)
  <2>1. log'[Len(log) + 1] = w /\ Len(log) + 1 \in DOMAIN log'
    <3>1. Len(log) + 1 \in 1..Len(log) + 1 /\ ~(Len(log) + 1 <= Len(log))
      BY <1>4
    <3>2. QED
      BY <1>4, <3>1
  <2>2. \A i \in DOMAIN log : i \in DOMAIN log' /\ log'[i] = log[i]
    BY <1>4
  <2>3. \A i \in DOMAIN log' : i \in DOMAIN log \/ log'[i] = w
    BY <1>4
  <2>4. QED
    BY <2>1, <2>2, <2>3 DEF Logged
<1>6. \A i, j \in DOMAIN log' : log'[i] = log'[j] => i = j
  <2>1. \A i \in 1..Len(log) : log[i] # w
    BY <1>2, <1>4 DEF Logged
  <2>2. \A i, j \in 1..Len(log) : log[i] = log[j] => i = j
    BY <1>4 DEF StoreInv
  <2>3. SUFFICES ASSUME NEW i \in 1..Len(log) + 1, NEW j \in 1..Len(log) + 1, log'[i] = log'[j]
                 PROVE  i = j
    BY <1>4
  <2>4. log'[i] = (IF i <= Len(log) THEN log[i] ELSE w) /\ log'[j] = IF j <= Len(log) THEN log[j] ELSE w
    BY <1>4
  <2>5. CASE i <= Len(log) /\ j <= Len(log)
    <3>1. i \in 1..Len(log) /\ j \in 1..Len(log)
      BY <1>4, <2>5
    <3>2. QED
      BY <2>2, <2>3, <2>4, <2>5, <3>1
  <2>6. CASE ~(i <= Len(log) /\ j <= Len(log))
    <3>1. (i \in 1..Len(log) \/ i = Len(log) + 1) /\ (j \in 1..Len(log) \/ j = Len(log) + 1)
      BY <1>4
    <3>2. ASSUME i \in 1..Len(log), j = Len(log) + 1 PROVE FALSE
      <4>1. log'[i] = log[i] /\ log'[j] = w
        BY <1>4, <2>4, <3>2
      <4>2. QED
        BY <2>1, <2>3, <3>2, <4>1
    <3>3. ASSUME j \in 1..Len(log), i = Len(log) + 1 PROVE FALSE
      <4>1. log'[j] = log[j] /\ log'[i] = w
        BY <1>4, <2>4, <3>3
      <4>2. QED
        BY <2>1, <2>3, <3>3, <4>1
    <3>4. QED
      BY <1>4, <2>6, <3>1, <3>2, <3>3
  <2>7. QED
    BY <2>5, <2>6
<1>7. file' = Newest(log')
  BY <1>1, <1>2
<1>8. ASSUME NEW v \in Writers
      PROVE  /\ Holds(v)' => lock' = v
             /\ at'[v] = "loaded" => records'[v] = Newest(Append(log', v))
             /\ at'[v] \in {"written", "done"} => Logged(v)'
             /\ at'[v] \notin {"written", "done", "dead"} => ~Logged(v)'
  <2>1. CASE v = w
    BY <1>1, <1>2, <1>3, <1>5, <2>1 DEF Holds
  <2>2. CASE v # w
    <3>1. at[v] # "loaded"
      BY <1>2, <2>2 DEF StoreInv, Holds
    <3>2. QED
      BY <1>1, <1>3, <1>5, <2>2, <3>1 DEF StoreInv, Holds
  <2>3. QED
    BY <2>1, <2>2
<1>9. QED
  BY <1>6, <1>7, <1>8 DEF StoreInv, Newest

(* "preserves concurrent appends", for every number of requests and every  *)
(* number of faults: the file is the newest of the records that reached    *)
(* it, each once; an acknowledged one did, a rejected one did not.         *)
THEOREM FileTellsTheStory == StoreSpec => []FileTellsTheOutcome
<1>1. StoreInit => StoreInv
  <2> SUFFICES ASSUME StoreInit PROVE StoreInv
    OBVIOUS
  <2>1. Len(<<>>) = 0 /\ DOMAIN <<>> = {}
    OBVIOUS
  <2>2. Newest(<<>>) = <<>>
    BY <2>1, StoreAssumption DEF Newest
  <2>3. QED
    BY <2>1, <2>2 DEF StoreInit, StoreInv, Holds, Logged
<1>2. StoreTypeOK /\ StoreInv /\ [StoreNext]_storeVars => StoreInv'
  <2> SUFFICES ASSUME StoreTypeOK, StoreInv, [StoreNext]_storeVars PROVE StoreInv'
    OBVIOUS
  <2>0. \A v, u \in Writers : Holds(v) /\ Holds(u) => v = u
    BY DEF StoreInv
  <2>1. CASE UNCHANGED storeVars
    BY <2>1 DEF storeVars, StoreInv, Holds, Logged, Newest
  <2>2. ASSUME NEW w \in Writers, Open(w) PROVE StoreInv'
    <3>1. ~Logged(w)
      BY <2>2 DEF Open, StoreInv
    <3>2. \A v \in Writers \ {w} : records'[v] = records[v]
      BY <2>2 DEF Open, StoreTypeOK
    <3>3. QED
      BY <2>2, <3>1, <3>2, OnlyThePlaceChanges DEF Open, Becomes
  <2>3. ASSUME NEW w \in Writers, MakeLock(w) PROVE StoreInv'
    <3>1. ~Logged(w)
      BY <2>3 DEF MakeLock, StoreInv
    <3>2. \A v \in Writers : ~Holds(v)
      BY <2>3, StoreAssumption DEF MakeLock, StoreInv
    <3>3. QED
      BY <2>3, <3>1, <3>2, OnlyThePlaceChanges DEF MakeLock, Becomes
  <2>4. ASSUME NEW w \in Writers, GiveUp(w) PROVE StoreInv'
    <3>1. ~Logged(w)
      BY <2>4 DEF GiveUp, StoreInv
    <3>2. QED
      BY <2>4, <3>1, OnlyThePlaceChanges DEF GiveUp, Becomes
  <2>5. ASSUME NEW w \in Writers, Reload(w) PROVE StoreInv'
    <3>1. ~Logged(w) /\ lock = w /\ file = Newest(log) /\ log \in Seq(Writers)
      BY <2>5 DEF Reload, StoreInv, Holds, StoreTypeOK
    <3>2. Newest(Append(Newest(file), w)) = Newest(Append(log, w))
      BY <3>1, NewestOfNewest, NewestOfAppend
    <3>3. records'[w] = Newest(Append(log, w)) /\ \A v \in Writers \ {w} : records'[v] = records[v]
      BY <2>5, <3>2 DEF Reload, StoreTypeOK
    <3>4. QED
      BY <2>5, <3>1, <3>3, OnlyThePlaceChanges DEF Reload, Becomes
  <2>6. ASSUME NEW w \in Writers, Replace(w) PROVE StoreInv'
    BY <2>6, ReplaceKeepsTheHistory
  <2>7. ASSUME NEW w \in Writers, FileFails(w) PROVE StoreInv'
    <3>1. ~Logged(w) /\ (at[w] # "waiting" => lock = w)
      BY <2>7 DEF FileFails, StoreInv, Holds
    <3>2. CASE at[w] = "waiting"
      BY <2>7, <3>1, <3>2, OnlyThePlaceChanges DEF FileFails, Becomes
    <3>3. CASE at[w] # "waiting"
      BY <2>7, <3>1, <3>3, OnlyThePlaceChanges DEF FileFails, Becomes
    <3>4. QED
      BY <3>2, <3>3
  <2>8. ASSUME NEW w \in Writers, RemoveLock(w) \/ RemoveFails(w) PROVE StoreInv'
    <3>1. \A v \in Writers \ {w} : ~Holds(v)
      BY <2>0, <2>8 DEF RemoveLock, RemoveFails, Holds
    <3>2. CASE at[w] = "written"
      <4>1. Logged(w)
        BY <3>2 DEF StoreInv
      <4>2. QED
        BY <2>8, <3>1, <3>2, <4>1, OnlyThePlaceChanges DEF RemoveLock, RemoveFails, Finish, Becomes
    <3>3. CASE at[w] # "written"
      <4>1. ~Logged(w)
        BY <2>8, <3>3 DEF StoreInv, RemoveLock, RemoveFails
      <4>2. QED
        BY <2>8, <3>1, <3>3, <4>1, OnlyThePlaceChanges DEF RemoveLock, RemoveFails, Finish, Becomes
    <3>4. QED
      BY <3>2, <3>3
  <2>9. ASSUME NEW w \in Writers, Die(w) PROVE StoreInv'
    BY <2>9, OnlyThePlaceChanges DEF Die, Becomes
  <2>10. QED
    BY <2>1, <2>2, <2>3, <2>4, <2>5, <2>6, <2>7, <2>8, <2>9 DEF StoreNext, AppendStep
<1>3. StoreInv => FileTellsTheOutcome
  BY DEF StoreInv, FileTellsTheOutcome
<1>4. QED
  BY <1>1, <1>2, <1>3, StoreTypes, PTL DEF StoreSpec
=============================================================================
