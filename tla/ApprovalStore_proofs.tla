------------------------ MODULE ApprovalStore_proofs ------------------------
(***************************************************************************)
(* Theorems about ApprovalStore for every number of callers, approvals,    *)
(* records, ticks and crashes.                                             *)
(***************************************************************************)
EXTENDS ApprovalStore, FiniteSetTheorems, TLAPS

-----------------------------------------------------------------------------
(* What the operators on snapshots do                                      *)

(* Reading or trimming keeps a record as it is or drops it.                *)
LEMMA NewestKeepsOrDrops ==
  ASSUME NEW s \in Snapshot
  PROVE  /\ Newest(s) \in Snapshot
         /\ \A i \in Ids : Newest(s)[i] = s[i] \/ Newest(s)[i] = "absent"
<1>1. \A i \in Ids : (IF Cardinality({j \in Stored(s) : j > i}) < MaxRecords
                      THEN s[i] ELSE "absent") \in RecordStatus
  BY DEF Snapshot, RecordStatus
<1>2. QED
  BY <1>1 DEF Newest, Snapshot

(* Expiry touches pending records only.                                    *)
LEMMA ExpiredKeepsDecided ==
  ASSUME NEW s \in Snapshot
  PROVE  /\ Expired(s) \in Snapshot
         /\ \A i \in Ids : \/ Expired(s)[i] = s[i]
                           \/ s[i] = "pending" /\ Expired(s)[i] = "expired"
  BY DEF Expired, Overdue, Snapshot, RecordStatus

-----------------------------------------------------------------------------
(* Type correctness                                                        *)

(* Every variable keeps its type in every reachable state.                 *)
THEOREM TypeCorrect == Spec => []TypeOK
<1>1. Init => TypeOK
  <2>1. Empty \in Snapshot /\ NoCall \in Call
    BY DEF Empty, Snapshot, RecordStatus, NoCall, Call
  <2>2. QED
    <3> SUFFICES ASSUME Init PROVE TypeOK
      OBVIOUS
    <3>1. file \in Snapshot /\ records \in [Actors -> Snapshot]
      BY <2>1 DEF Init
    <3>2. /\ pc \in [Actors -> {"idle"}] /\ call \in [Actors -> Call]
          /\ \A a \in Actors : pc[a] # "persist"
      BY <2>1 DEF Init
    <3>3. /\ expiresAt \in [Ids -> Nat] /\ wins \in [Ids -> Nat]
          /\ nextId \in Nat /\ now \in Nat /\ crashes \in Nat
          /\ lock \in Actors \cup {Nobody, Orphan}
      BY DEF Init
    <3>4. born \subseteq Ids /\ granted \subseteq Ids /\ stale \subseteq Actors /\ raced \in BOOLEAN
      BY DEF Init
    <3>5. QED
      BY <3>1, <3>2, <3>3, <3>4 DEF TypeOK
<1>2. TypeOK /\ [Next]_vars => TypeOK'
  <2> SUFFICES ASSUME TypeOK, [Next]_vars PROVE TypeOK'
    OBVIOUS
  <2> USE BoundsAssumption, ActorsAssumption
  <2> Empty \in Snapshot /\ NoCall \in Call
    BY DEF Empty, Snapshot, RecordStatus, NoCall, Call
  <2>0. /\ \A s \in Snapshot : Newest(s) \in Snapshot
        /\ \A s \in Snapshot : Expired(s) \in Snapshot
    BY NewestKeepsOrDrops, ExpiredKeepsDecided
  <2>a. \A a \in Actors : call[a].kind \in {"approved", "rejected", "claim"} => call[a].id \in Ids
    BY DEF TypeOK, Call
  <2>1. ASSUME NEW a \in Actors, LoadRead(a) PROVE TypeOK'
    BY <2>0, <2>1 DEF TypeOK, LoadRead, Goto, Finish, Forget, disk, clock, history
  <2>2. ASSUME NEW a \in Actors, LoadPersist(a) PROVE TypeOK'
    BY <2>2 DEF TypeOK, LoadPersist, Replace, Goto, Finish, Forget, clock
  <2>3. ASSUME NEW a \in Actors, Acquire(a) PROVE TypeOK'
    BY <2>3 DEF TypeOK, Acquire, Goto, disk, clock, history
  <2>4. ASSUME NEW a \in Actors, Busy(a) PROVE TypeOK'
    BY <2>4 DEF TypeOK, Busy, Finish, Forget, disk, clock, history
  <2>5. ASSUME NEW a \in Actors, Reload(a) PROVE TypeOK'
    BY <2>0, <2>5 DEF TypeOK, Reload, Goto, disk, clock, history
  <2>6. ASSUME NEW a \in Actors, ExpirePersist(a) PROVE TypeOK'
    BY <2>6 DEF TypeOK, ExpirePersist, Replace, Goto, clock, history
  <2>7. ASSUME NEW a \in Actors, Create(a) PROVE TypeOK'
    <3>1. [records[a] EXCEPT ![nextId] = "pending"] \in Snapshot
      BY <2>7 DEF TypeOK, Create, Snapshot, RecordStatus
    <3>2. call' \in [Actors -> Call]
      <4>1. [call[a] EXCEPT !.id = nextId] \in Call
        BY <2>7 DEF TypeOK, Create, Call
      <4>2. QED
        BY <4>1, <2>7 DEF TypeOK, Create
    <3>3. expiresAt' \in [Ids -> Nat] /\ nextId' \in Nat
      BY <2>7 DEF TypeOK, Create
    <3>4. records' \in [Actors -> Snapshot]
      BY <2>0, <3>1, <2>7 DEF TypeOK, Create
    <3>5. QED
      BY <3>2, <3>3, <3>4, <2>7 DEF TypeOK, Create, disk, history
  <2>8. ASSUME NEW a \in Actors, Decide(a) PROVE TypeOK'
    <3>1. [records[a] EXCEPT ![call[a].id] = call[a].kind] \in Snapshot
      <4>1. call[a].kind \in RecordStatus
        BY <2>8 DEF Decide, RecordStatus
      <4>2. records[a] \in Snapshot
        BY DEF TypeOK
      <4>3. QED
        BY <4>1, <4>2 DEF Snapshot
    <3>2. QED
      BY <2>a, <3>1, <2>8 DEF TypeOK, Decide, Goto, disk, clock, history
  <2>9. ASSUME NEW a \in Actors, Claim(a) PROVE TypeOK'
    <3>1. [records[a] EXCEPT ![call[a].id] = "consumed"] \in Snapshot
      BY <2>9 DEF TypeOK, Claim, Snapshot, RecordStatus
    <3>2. QED
      BY <2>a, <3>1, <2>9 DEF TypeOK, Claim, Goto, disk, clock, history
  <2>10. ASSUME NEW a \in Actors, Refuse(a) PROVE TypeOK'
    BY <2>10 DEF TypeOK, Refuse, Done, Forget, disk, clock, history
  <2>11. ASSUME NEW a \in Actors, Persist(a) PROVE TypeOK'
    <3>1. call[a].id \in Ids
      BY <2>11 DEF TypeOK, Persist
    <3>2. born' \subseteq Ids /\ granted' \subseteq Ids /\ wins' \in [Ids -> Nat]
      BY <3>1, <2>11 DEF TypeOK, Persist
    <3>3. QED
      BY <3>2, <2>11 DEF TypeOK, Persist, Replace, Done, Forget, clock
  <2>12. ASSUME NEW a \in Actors, PersistFails(a) PROVE TypeOK'
    BY <2>12 DEF TypeOK, PersistFails, Finish, Done, Forget, clock, history
  <2>13. ASSUME NEW a \in Actors, Release(a) PROVE TypeOK'
    BY <2>13 DEF TypeOK, Release, Finish, Forget, disk, clock, history
  <2>14. ASSUME NEW a \in Actors, Crash(a) PROVE TypeOK'
    BY <2>14 DEF TypeOK, Crash, Finish, Forget, disk, clock, history
  <2>15. ASSUME NEW a \in Actors, NEW c \in Call, NEW fresh \in BOOLEAN, Request(a, c, fresh)
         PROVE  TypeOK'
    BY <2>15 DEF TypeOK, Request, disk, clock, history
  <2>16. CASE Tick
    BY <2>16 DEF TypeOK, Tick, disk, history
  <2>17. CASE UNCHANGED vars
    BY <2>17 DEF TypeOK, vars
  <2>18. QED
    BY <2>1, <2>2, <2>3, <2>4, <2>5, <2>6, <2>7, <2>8, <2>9, <2>10, <2>11, <2>12,
       <2>13, <2>14, <2>15, <2>16, <2>17 DEF Next, Step
<1>3. QED
  BY <1>1, <1>2, PTL DEF Spec
-----------------------------------------------------------------------------
(* Only granted approvals are claimed                                      *)

Usable == {"approved", "consumed"}

(* No copy of a record, in the file or in any instance, says "approved" or *)
(* "consumed" before the decision reached the file. The one exception is   *)
(* the deciding instance itself, between its mutator and its persist.      *)
GrantInv ==
  /\ \A i \in Ids : file[i] \in Usable => i \in granted
  /\ \A a \in Actors, i \in Ids : records[a][i] \in Usable =>
       \/ i \in granted
       \/ pc[a] = "persist" /\ call[a].kind = "approved" /\ call[a].id = i
  /\ \A a \in Actors : pc[a] = "persist" /\ call[a].kind = "claim" =>
       call[a].id \in granted
  /\ OnlyGrantedClaimed

(* An approval is handed out for execution only when an operator granted   *)
(* it, under every interleaving, unlocked write, failed write and crash.   *)
THEOREM GrantedBeforeClaimed == Spec => []OnlyGrantedClaimed
<1>1. Init => GrantInv
  BY DEF Init, GrantInv, OnlyGrantedClaimed, Empty, Usable
<1>2. TypeOK /\ GrantInv /\ [Next]_vars => GrantInv'
  <2> SUFFICES ASSUME TypeOK, GrantInv, [Next]_vars PROVE GrantInv'
    OBVIOUS
  <2> USE DEF Usable, OnlyGrantedClaimed
  <2>a. \A i \in Ids : Empty[i] \notin Usable
    BY DEF Empty
  <2>b. /\ \A s \in Snapshot, i \in Ids : Newest(s)[i] \in Usable => s[i] \in Usable
        /\ \A s \in Snapshot, i \in Ids : Expired(s)[i] \in Usable => s[i] \in Usable
        /\ \A s \in Snapshot : Newest(s) \in Snapshot
    BY NewestKeepsOrDrops, ExpiredKeepsDecided
  <2>c. file \in Snapshot /\ Newest(file) \in Snapshot
    BY <2>b DEF TypeOK
  <2>1. ASSUME NEW a \in Actors, LoadRead(a) PROVE GrantInv'
    BY <2>a, <2>b, <2>c, <2>1 DEF TypeOK, GrantInv, LoadRead, Goto, Finish, Forget, disk, history
  <2>2. ASSUME NEW a \in Actors, LoadPersist(a) PROVE GrantInv'
    BY <2>a, <2>2 DEF TypeOK, GrantInv, LoadPersist, Replace, Goto, Finish, Forget
  <2>3. ASSUME NEW a \in Actors, Acquire(a) PROVE GrantInv'
    BY <2>3 DEF TypeOK, GrantInv, Acquire, Goto, disk, history
  <2>4. ASSUME NEW a \in Actors, Busy(a) PROVE GrantInv'
    BY <2>a, <2>4 DEF TypeOK, GrantInv, Busy, Finish, Forget, disk, history
  <2>5. ASSUME NEW a \in Actors, Reload(a) PROVE GrantInv'
    BY <2>b, <2>c, <2>5 DEF TypeOK, GrantInv, Reload, Goto, disk, history
  <2>6. ASSUME NEW a \in Actors, ExpirePersist(a) PROVE GrantInv'
    BY <2>6 DEF TypeOK, GrantInv, ExpirePersist, Replace, Goto, history
  <2>7. ASSUME NEW a \in Actors, Create(a) PROVE GrantInv'
    <3>1. [records[a] EXCEPT ![nextId] = "pending"] \in Snapshot
      BY <2>7 DEF TypeOK, Create, Snapshot, RecordStatus
    <3>2. \A i \in Ids : records'[a][i] \in Usable => records[a][i] \in Usable
      <4> DEFINE pushed == [records[a] EXCEPT ![nextId] = "pending"]
      <4>1. \A i \in Ids : pushed[i] \in Usable => records[a][i] \in Usable
        BY <2>7 DEF TypeOK, Create, Snapshot
      <4>2. \A i \in Ids : Newest(pushed)[i] \in Usable => pushed[i] \in Usable
        BY <2>b, <3>1
      <4>3. records'[a] = Newest(pushed)
        BY <2>7 DEF TypeOK, Create
      <4>4. QED
        BY <4>1, <4>2, <4>3
    <3>3. call'[a].kind = "create"
      <4>1. call[a] \in Call /\ call' = [call EXCEPT ![a] = [call[a] EXCEPT !.id = nextId]]
        BY <2>7 DEF TypeOK, Create
      <4>2. [call[a] EXCEPT !.id = nextId].kind = call[a].kind
        BY <4>1 DEF Call
      <4>3. QED
        BY <4>1, <4>2, <2>7 DEF TypeOK, Create
    <3>4. \A b \in Actors \ {a} : records'[b] = records[b] /\ call'[b] = call[b] /\ pc'[b] = pc[b]
      BY <2>7 DEF TypeOK, Create
    <3>5. pc[a] = "mutate" /\ UNCHANGED <<file, granted, wins>>
      BY <2>7 DEF Create, disk, history
    <3>6. QED
      BY <3>2, <3>3, <3>4, <3>5 DEF GrantInv
  <2>8. ASSUME NEW a \in Actors, Decide(a) PROVE GrantInv'
    BY <2>8 DEF TypeOK, GrantInv, Decide, Goto, Snapshot, disk, history
  <2>9. ASSUME NEW a \in Actors, Claim(a) PROVE GrantInv'
    <3>1. call[a].id \in Ids /\ pc[a] = "mutate" /\ call[a].kind = "claim"
      BY <2>9 DEF TypeOK, Claim, Call
    <3>2. call[a].id \in granted
      BY <3>1, <2>9 DEF GrantInv, Claim
    <3>3. QED
      BY <3>1, <3>2, <2>9 DEF TypeOK, GrantInv, Claim, Goto, Snapshot, disk, history
  <2>10. ASSUME NEW a \in Actors, Refuse(a) PROVE GrantInv'
    BY <2>a, <2>10 DEF TypeOK, GrantInv, Refuse, Done, Forget, disk, history
  <2>11. ASSUME NEW a \in Actors, Persist(a) PROVE GrantInv'
    <3>1. call[a].id \in Ids /\ granted \subseteq granted'
      BY <2>11 DEF TypeOK, Persist
    <3>2. \A i \in Ids : records[a][i] \in Usable => i \in granted'
      BY <2>11 DEF GrantInv, Persist
    <3>3. \A i \in Ids : wins'[i] > 0 => i \in granted'
      BY <3>1, <2>11 DEF TypeOK, GrantInv, Persist
    <3>4. \A i \in Ids : file'[i] \in Usable => i \in granted'
      BY <3>2, <2>11 DEF Persist, Replace
    <3>5. \A b \in Actors, i \in Ids : records'[b][i] \in Usable =>
            \/ i \in granted'
            \/ pc'[b] = "persist" /\ call'[b].kind = "approved" /\ call'[b].id = i
      BY <2>a, <3>1, <2>11 DEF TypeOK, GrantInv, Persist, Done, Forget
    <3>6. \A b \in Actors : pc'[b] = "persist" /\ call'[b].kind = "claim" => call'[b].id \in granted'
      BY <3>1, <2>11 DEF TypeOK, GrantInv, Persist, Done
    <3>7. QED
      BY <3>3, <3>4, <3>5, <3>6 DEF GrantInv
  <2>12. ASSUME NEW a \in Actors, PersistFails(a) PROVE GrantInv'
    BY <2>a, <2>12 DEF TypeOK, GrantInv, PersistFails, Finish, Done, Forget, history
  <2>13. ASSUME NEW a \in Actors, Release(a) PROVE GrantInv'
    BY <2>a, <2>13 DEF TypeOK, GrantInv, Release, Finish, Forget, disk, history
  <2>14. ASSUME NEW a \in Actors, Crash(a) PROVE GrantInv'
    BY <2>a, <2>14 DEF TypeOK, GrantInv, Crash, Finish, Forget, disk, history
  <2>15. ASSUME NEW a \in Actors, NEW c \in Call, NEW fresh \in BOOLEAN, Request(a, c, fresh)
         PROVE  GrantInv'
    BY <2>15 DEF TypeOK, GrantInv, Request, disk, history
  <2>16. CASE Tick
    BY <2>16 DEF GrantInv, Tick, disk, history
  <2>17. CASE UNCHANGED vars
    BY <2>17 DEF GrantInv, vars
  <2>18. QED
    BY <2>1, <2>2, <2>3, <2>4, <2>5, <2>6, <2>7, <2>8, <2>9, <2>10, <2>11, <2>12,
       <2>13, <2>14, <2>15, <2>16, <2>17 DEF Next, Step
<1>3. GrantInv => OnlyGrantedClaimed
  BY DEF GrantInv
<1>4. QED
  BY <1>1, <1>2, <1>3, TypeCorrect, PTL DEF Spec
-----------------------------------------------------------------------------
(* The lock excludes                                                       *)

Critical == {"reload", "release"} \cup Mutating

(* A call inside #mutate() made the lock directory that is there.          *)
LockInv == \A a \in Actors : pc[a] \in Critical => lock = a

LEMMA LockHeld == Spec => []LockInv
<1>1. Init => LockInv
  BY DEF Init, LockInv, Critical, Mutating
<1>2. TypeOK /\ LockInv /\ [Next]_vars => LockInv'
  <2> SUFFICES ASSUME TypeOK, LockInv, [Next]_vars PROVE LockInv'
    OBVIOUS
  <2> USE ActorsAssumption DEF LockInv, Critical, Mutating, TypeOK
  <2>1. ASSUME NEW a \in Actors, LoadRead(a) PROVE LockInv'
    BY <2>1 DEF LoadRead, Goto, Finish
  <2>2. ASSUME NEW a \in Actors, LoadPersist(a) PROVE LockInv'
    BY <2>2 DEF LoadPersist, Goto, Finish
  <2>3. ASSUME NEW a \in Actors, Acquire(a) PROVE LockInv'
    BY <2>3 DEF Acquire, Goto
  <2>4. ASSUME NEW a \in Actors, Busy(a) PROVE LockInv'
    BY <2>4 DEF Busy, Finish
  <2>5. ASSUME NEW a \in Actors, Reload(a) PROVE LockInv'
    BY <2>5 DEF Reload, Goto
  <2>6. ASSUME NEW a \in Actors, ExpirePersist(a) PROVE LockInv'
    BY <2>6 DEF ExpirePersist, Goto
  <2>7. ASSUME NEW a \in Actors, Create(a) PROVE LockInv'
    BY <2>7 DEF Create
  <2>8. ASSUME NEW a \in Actors, Decide(a) PROVE LockInv'
    BY <2>8 DEF Decide, Goto
  <2>9. ASSUME NEW a \in Actors, Claim(a) PROVE LockInv'
    BY <2>9 DEF Claim, Goto
  <2>10. ASSUME NEW a \in Actors, Refuse(a) PROVE LockInv'
    BY <2>10 DEF Refuse, Done
  <2>11. ASSUME NEW a \in Actors, Persist(a) PROVE LockInv'
    BY <2>11 DEF Persist, Done
  <2>12. ASSUME NEW a \in Actors, PersistFails(a) PROVE LockInv'
    BY <2>12 DEF PersistFails, Finish, Done
  <2>13. ASSUME NEW a \in Actors, Release(a) PROVE LockInv'
    BY <2>13 DEF Release, Finish
  <2>14. ASSUME NEW a \in Actors, Crash(a) PROVE LockInv'
    BY <2>14 DEF Crash, Finish
  <2>15. ASSUME NEW a \in Actors, NEW c \in Call, NEW fresh \in BOOLEAN, Request(a, c, fresh)
         PROVE  LockInv'
    BY <2>15 DEF Request
  <2>16. CASE Tick
    BY <2>16 DEF Tick
  <2>17. CASE UNCHANGED vars
    BY <2>17 DEF vars
  <2>18. QED
    BY <2>1, <2>2, <2>3, <2>4, <2>5, <2>6, <2>7, <2>8, <2>9, <2>10, <2>11, <2>12,
       <2>13, <2>14, <2>15, <2>16, <2>17 DEF Next, Step
<1>3. QED
  BY <1>1, <1>2, TypeCorrect, PTL DEF Spec
-----------------------------------------------------------------------------
(* One claim per approval                                                  *)

(* A snapshot that knows of every claim made so far.                       *)
Knows(s) == \A i \in Ids : wins[i] > 0 => s[i] \in {"consumed", "absent"}

KnownIds ==
  /\ \A i \in Ids : wins[i] > 0 => i < nextId
  /\ \A a \in Actors : call[a].kind \in {"approved", "rejected", "claim"} => call[a].id < nextId

(* Until a race, whatever may be written next knows of every claim: the    *)
(* snapshot under the lock, and that of a load() the file did not outrun.  *)
ClaimInv ==
  /\ ClaimedOnce
  /\ Knows(file)
  /\ \A a \in Actors : pc[a] \in Mutating => Knows(records[a])
  /\ \A a \in Actors \ stale : pc[a] = "loadPersist" => Knows(records[a])
  /\ \A a \in Actors : pc[a] = "persist" /\ call[a].kind = "claim" =>
       wins[call[a].id] = 0 /\ records[a][call[a].id] = "consumed"

WinInv == KnownIds /\ (~raced => ClaimInv)

(* Two calls of claimApproved() are handed the same approval only after a  *)
(* load() wrote the file while another caller was between its reload and   *)
(* its persist, or after the file had changed since that load() read it.   *)
THEOREM SingleClaim == Spec => []ClaimedOnceUnlessRaced
<1>1. Init => WinInv
  BY DEF Init, WinInv, KnownIds, ClaimInv, ClaimedOnce, Knows, Mutating, NoCall
<1>2. TypeOK /\ LockInv /\ WinInv /\ [Next]_vars => WinInv'
  <2> SUFFICES ASSUME TypeOK, LockInv, WinInv, [Next]_vars PROVE WinInv'
    OBVIOUS
  <2> USE ActorsAssumption
  <2> USE DEF WinInv, KnownIds, ClaimInv, ClaimedOnce, Mutating
  <2>a. ASSUME NEW s \in Snapshot, Knows(s)
        PROVE  Knows(Newest(s)) /\ Knows(Expired(s)) /\ Knows(Expired(Newest(s)))
    BY <2>a, NewestKeepsOrDrops, ExpiredKeepsDecided DEF Knows
  <2>b. file \in Snapshot /\ (~raced => Knows(Expired(Newest(file))))
    BY <2>a DEF TypeOK
  <2>c. \A a \in Actors : call[a].kind \in {"approved", "rejected", "claim"} => call[a].id \in Ids
    BY DEF TypeOK, Call
  <2>1. ASSUME NEW a \in Actors, LoadRead(a) PROVE WinInv'
    BY <2>b, <2>1 DEF TypeOK, Knows, LoadRead, Goto, Finish, Forget, disk, clock, history, NoCall
  <2>2. ASSUME NEW a \in Actors, LoadPersist(a) PROVE WinInv'
    <3>1. KnownIds'
      BY <2>2 DEF TypeOK, LoadPersist, Goto, Finish, clock, NoCall
    <3>2. SUFFICES ASSUME ~raced' PROVE ClaimInv'
      BY <3>1
    <3>3. /\ ~raced /\ a \notin stale /\ \A b \in Actors : pc[b] \notin Mutating
          /\ UNCHANGED wins
      BY <2>2, <3>2 DEF TypeOK, LoadPersist
    <3>4. Knows(file)'
      BY <2>2, <3>3 DEF Knows, LoadPersist, Replace
    <3>5. \A b \in Actors : pc'[b] \notin Mutating
      BY <2>2, <3>3 DEF TypeOK, LoadPersist, Goto, Finish
    <3>6. \A b \in Actors \ stale' : pc'[b] # "loadPersist"
      BY <2>2 DEF TypeOK, LoadPersist, Replace, Goto, Finish
    <3>7. QED
      BY <3>3, <3>4, <3>5, <3>6
  <2>3. ASSUME NEW a \in Actors, Acquire(a) PROVE WinInv'
    BY <2>3 DEF TypeOK, Knows, Acquire, Goto, disk, clock, history
  <2>4. ASSUME NEW a \in Actors, Busy(a) PROVE WinInv'
    BY <2>4 DEF TypeOK, Knows, Busy, Finish, Forget, disk, clock, history, NoCall
  <2>5. ASSUME NEW a \in Actors, Reload(a) PROVE WinInv'
    BY <2>b, <2>5 DEF TypeOK, Knows, Reload, Goto, disk, clock, history
  <2>6. ASSUME NEW a \in Actors, ExpirePersist(a) PROVE WinInv'
    BY <2>6 DEF TypeOK, Knows, ExpirePersist, Replace, Goto, clock, history
  <2>7. ASSUME NEW a \in Actors, Create(a) PROVE WinInv'
    <3> DEFINE pushed == [records[a] EXCEPT ![nextId] = "pending"]
    <3>1. pushed \in Snapshot /\ nextId' = nextId + 1 /\ pc[a] = "mutate"
      BY <2>7 DEF TypeOK, Create, Snapshot, RecordStatus
    <3>2. UNCHANGED <<file, stale, wins, raced>> /\ records'[a] = Newest(pushed)
      BY <2>7 DEF TypeOK, Create, disk, history
    <3>3. call'[a].kind = "create" /\ \A b \in Actors \ {a} : call'[b] = call[b]
      <4>1. call[a] \in Call /\ call' = [call EXCEPT ![a] = [call[a] EXCEPT !.id = nextId]]
        BY <2>7 DEF TypeOK, Create
      <4>2. [call[a] EXCEPT !.id = nextId].kind = call[a].kind
        BY <4>1 DEF Call
      <4>3. QED
        BY <4>1, <4>2, <2>7 DEF TypeOK, Create
    <3>4. KnownIds'
      BY <2>c, <3>1, <3>2, <3>3 DEF TypeOK, Ids
    <3>5. ~raced => Knows(records[a])'
      <4>1. ~raced => Knows(pushed)
        BY <3>1 DEF TypeOK, Knows, Snapshot
      <4>2. QED
        BY <2>a, <3>1, <3>2, <4>1 DEF Knows
    <3>6. \A b \in Actors \ {a} : records'[b] = records[b] /\ pc'[b] = pc[b]
      BY <2>7 DEF TypeOK, Create
    <3>7. pc'[a] = "persist"
      BY <2>7 DEF TypeOK, Create
    <3>8. QED
      BY <3>2, <3>3, <3>4, <3>5, <3>6, <3>7 DEF Knows
  <2>8. ASSUME NEW a \in Actors, Decide(a) PROVE WinInv'
    <3>1. call[a].id \in Ids /\ (~raced => wins[call[a].id] = 0)
      BY <2>c, <2>8 DEF TypeOK, Knows, Decide
    <3>2. QED
      BY <3>1, <2>8 DEF TypeOK, Knows, Snapshot, Decide, Goto, disk, clock, history
  <2>9. ASSUME NEW a \in Actors, Claim(a) PROVE WinInv'
    <3>1. call[a].id \in Ids /\ (~raced => wins[call[a].id] = 0)
      BY <2>c, <2>9 DEF TypeOK, Knows, Claim
    <3>2. QED
      BY <3>1, <2>9 DEF TypeOK, Knows, Snapshot, Claim, Goto, disk, clock, history
  <2>10. ASSUME NEW a \in Actors, Refuse(a) PROVE WinInv'
    BY <2>10 DEF TypeOK, Knows, Refuse, Done, Forget, disk, clock, history, NoCall
  <2>11. ASSUME NEW a \in Actors, Persist(a) PROVE WinInv'
    <3>1. pc[a] = "persist" /\ call[a].id \in Ids /\ UNCHANGED <<nextId, raced>>
      BY <2>11 DEF TypeOK, Persist, clock
    <3>2. KnownIds'
      BY <3>1, <2>11 DEF TypeOK, Persist, Done, NoCall
    <3>3. \A b \in Actors : pc'[b] \notin Mutating
      <4>1. \A b \in Actors \ {a} : pc[b] \notin Mutating
        BY <3>1 DEF LockInv, Critical
      <4>2. QED
        BY <4>1, <2>11 DEF TypeOK, Persist, Done
    <3>4. \A b \in Actors \ stale' : pc'[b] # "loadPersist"
      BY <2>11 DEF TypeOK, Persist, Replace, Done
    <3>5. ~raced => ClaimedOnce' /\ Knows(file)'
      BY <3>1, <2>11 DEF TypeOK, Knows, Persist, Replace
    <3>6. QED
      BY <3>1, <3>2, <3>3, <3>4, <3>5
  <2>12. ASSUME NEW a \in Actors, PersistFails(a) PROVE WinInv'
    BY <2>12 DEF TypeOK, Knows, PersistFails, Finish, Done, Forget, clock, history, NoCall
  <2>13. ASSUME NEW a \in Actors, Release(a) PROVE WinInv'
    BY <2>13 DEF TypeOK, Knows, Release, Finish, Forget, disk, clock, history, NoCall
  <2>14. ASSUME NEW a \in Actors, Crash(a) PROVE WinInv'
    BY <2>14 DEF TypeOK, Knows, Crash, Finish, Forget, disk, clock, history, NoCall
  <2>15. ASSUME NEW a \in Actors, NEW c \in Call, NEW fresh \in BOOLEAN, Request(a, c, fresh)
         PROVE  WinInv'
    BY <2>15 DEF TypeOK, Knows, Request, disk, clock, history
  <2>16. CASE Tick
    BY <2>16 DEF Knows, Tick, disk, history
  <2>17. CASE UNCHANGED vars
    BY <2>17 DEF Knows, vars
  <2>18. QED
    BY <2>1, <2>2, <2>3, <2>4, <2>5, <2>6, <2>7, <2>8, <2>9, <2>10, <2>11, <2>12,
       <2>13, <2>14, <2>15, <2>16, <2>17 DEF Next, Step
<1>3. WinInv => ClaimedOnceUnlessRaced
  BY DEF WinInv, ClaimInv, ClaimedOnceUnlessRaced
<1>4. QED
  BY <1>1, <1>2, <1>3, TypeCorrect, LockHeld, PTL DEF Spec

-----------------------------------------------------------------------------
(* The lifecycle is implemented                                            *)

(* A snapshot that reading or trimming would leave as it is.               *)
Whole(s) == Newest(s) = s

LEMMA IdsAreFinite == \A S \in SUBSET Ids : IsFiniteSet(S) /\ Cardinality(S) \in Nat
<1> SUFFICES ASSUME NEW S \in SUBSET Ids PROVE IsFiniteSet(S)
  BY FS_CardinalityType
<1>1. IsFiniteSet(Ids)
  BY BoundsAssumption, FS_Interval DEF Ids
<1> QED BY <1>1, FS_Subset

(* Whether a record is dropped depends on how many newer ones are stored.  *)
LEMMA FewerNewer ==
  ASSUME NEW s, NEW t, NEW i \in Ids, NEW j \in Ids,
         \A k \in Ids : k > i /\ s[k] # "absent" => k > j /\ t[k] # "absent",
         Cardinality({k \in Stored(t) : k > j}) < MaxRecords
  PROVE  Cardinality({k \in Stored(s) : k > i}) < MaxRecords
<1>1. {k \in Stored(s) : k > i} \subseteq {k \in Stored(t) : k > j} /\ {k \in Stored(t) : k > j} \in SUBSET Ids
  BY DEF Stored
<1>2. Cardinality({k \in Stored(s) : k > i}) <= Cardinality({k \in Stored(t) : k > j})
  BY <1>1, IdsAreFinite, FS_Subset
<1>3. {k \in Stored(s) : k > i} \in SUBSET Ids
  BY DEF Stored
<1> QED BY <1>1, <1>2, <1>3, IdsAreFinite, BoundsAssumption

(* What was read or trimmed is whole, and so is what changes no record's   *)
(* presence.                                                               *)
LEMMA NewestIsWhole ==
  ASSUME NEW s \in Snapshot
  PROVE  Whole(Newest(s))
<1>1. PICK t : t = Newest(s)
  OBVIOUS
<1>2. t \in Snapshot /\ \A i \in Ids : t[i] = s[i] \/ t[i] = "absent"
  BY <1>1, NewestKeepsOrDrops
<1>3. ASSUME NEW i \in Ids PROVE Newest(t)[i] = t[i]
  <2>1. CASE t[i] = "absent"
    BY <2>1 DEF Newest
  <2>2. CASE t[i] # "absent"
    <3>1. Cardinality({k \in Stored(s) : k > i}) < MaxRecords
      BY <1>1, <2>2 DEF Newest
    <3>2. Cardinality({k \in Stored(t) : k > i}) < MaxRecords
      BY <1>2, <3>1, FewerNewer
    <3> QED BY <3>2 DEF Newest
  <2> QED BY <2>1, <2>2
<1>4. Newest(t) = [i \in Ids |-> Newest(t)[i]] /\ t = [i \in Ids |-> t[i]]
  BY <1>2 DEF Newest, Snapshot
<1> QED BY <1>1, <1>3, <1>4 DEF Whole

LEMMA SameStoredIsWhole ==
  ASSUME NEW s \in Snapshot, Whole(s), NEW t \in Snapshot,
         \A i \in Ids : s[i] = "absent" <=> t[i] = "absent"
  PROVE  Whole(t)
<1>1. ASSUME NEW i \in Ids PROVE Newest(t)[i] = t[i]
  <2>1. CASE t[i] = "absent"
    BY <2>1 DEF Newest
  <2>2. CASE t[i] # "absent"
    <3>1. Newest(s)[i] = s[i] /\ s[i] # "absent"
      BY <2>2 DEF Whole
    <3>2. Cardinality({k \in Stored(s) : k > i}) < MaxRecords
      BY <3>1 DEF Newest
    <3>3. Cardinality({k \in Stored(t) : k > i}) < MaxRecords
      BY <3>2, FewerNewer
    <3> QED BY <3>3 DEF Newest
  <2> QED BY <2>1, <2>2
<1>2. Newest(t) = [i \in Ids |-> Newest(t)[i]] /\ t = [i \in Ids |-> t[i]]
  BY DEF Newest, Snapshot
<1> QED BY <1>1, <1>2 DEF Whole

(* t is s after a write that only expires.                                 *)
Expiry(s, t) == \A i \in Ids : t[i] = s[i] \/ (s[i] = "pending" /\ t[i] = "expired")

(* What the mutator of a has made of the file.                             *)
Mutated(a) ==
  LET i == call[a].id IN
  \/ /\ call[a].kind = "create" /\ i \in Ids /\ i < nextId /\ i \notin born
     /\ records[a] = Newest([file EXCEPT ![i] = "pending"]) /\ records[a][i] = "pending"
  \/ /\ call[a].kind \in {"approved", "rejected"} /\ i \in Ids /\ file[i] = "pending"
     /\ records[a] = [file EXCEPT ![i] = call[a].kind]
  \/ /\ call[a].kind = "claim" /\ i \in Ids /\ file[i] = "approved"
     /\ records[a] = [file EXCEPT ![i] = "consumed"]

(* The file is within its bound and holds only what was created.           *)
FileInv ==
  /\ Whole(file)
  /\ \A i \in Ids : file[i] # "absent" => i \in born
  /\ \A i \in born : i < nextId

(* What is about to be written is one step of the lifecycle from the file. *)
CopyInv ==
  /\ \A a \in Actors \ stale : pc[a] = "loadPersist" => Expiry(file, records[a])
  /\ \A a \in Actors : /\ pc[a] = "expirePersist" => Expiry(file, records[a])
                       /\ pc[a] = "mutate" => records[a] = file
                       /\ pc[a] = "persist" => Mutated(a)

RefInv == ~raced => FileInv /\ CopyInv

LEMMA RefStarts == Init => RefInv
<1> SUFFICES ASSUME Init PROVE FileInv /\ CopyInv
  BY DEF RefInv
<1>1. Newest(Empty) = Empty
  BY DEF Newest, Empty
<1> QED BY <1>1 DEF Init, FileInv, CopyInv, Whole, Empty

(* A step that does not write and prepares nothing wrong to be written.    *)
LEMMA NothingWritten ==
  ASSUME TypeOK, RefInv, NEW a \in Actors, UNCHANGED <<file, born, raced>>, nextId' >= nextId, nextId' \in Nat,
         \A b \in Actors \ {a} : pc'[b] = pc[b] /\ call'[b] = call[b] /\ records'[b] = records[b],
         stale \ {a} \subseteq stale',
         ~raced => /\ pc'[a] = "loadPersist" /\ a \notin stale' => Expiry(file, records'[a])
                   /\ pc'[a] = "expirePersist" => Expiry(file, records'[a])
                   /\ pc'[a] = "mutate" => records'[a] = file
                   /\ pc'[a] = "persist" => Mutated(a)'
  PROVE  RefInv'
<1> SUFFICES ASSUME ~raced PROVE FileInv' /\ CopyInv'
  BY DEF RefInv
<1>1. FileInv /\ CopyInv
  BY DEF RefInv
<1>2. \A i \in born : i \in Nat
  BY DEF TypeOK, Ids
<1>3. FileInv'
  BY <1>1, <1>2 DEF FileInv, Whole, TypeOK
<1>4. ASSUME NEW b \in Actors \ {a}, pc[b] = "persist", Mutated(b)
      PROVE  Mutated(b)'
  <2>1. call'[b] = call[b] /\ records'[b] = records[b]
    OBVIOUS
  <2>2. call[b].id \in Ids /\ call[b].id < nextId => call[b].id < nextId'
    BY DEF TypeOK, Ids
  <2> QED BY <1>4, <2>1, <2>2 DEF Mutated
<1>5. CopyInv'
  BY <1>1, <1>4 DEF CopyInv, Expiry
<1> QED BY <1>3, <1>5

(* A write by the only call that is about to write a mutation.             *)
LEMMA WrittenOver ==
  ASSUME NEW a \in Actors, Replace(a), ~raced' => FileInv',
         \A b \in Actors \ {a} : pc'[b] = pc[b] /\ (~raced' => pc[b] \notin Mutating),
         \/ pc'[a] \in {"idle", "acquire", "release"}
         \/ pc'[a] = "mutate" /\ records'[a] = file'
  PROVE  RefInv'
<1> SUFFICES ASSUME ~raced' PROVE CopyInv'
  BY DEF RefInv
<1>1. \A b \in Actors \ {a} : pc'[b] = "loadPersist" => b \in stale'
  BY DEF Replace
<1>2. \A b \in Actors \ {a} : pc'[b] \notin Mutating
  OBVIOUS
<1> QED BY <1>1, <1>2 DEF CopyInv, Mutating

(* After a write that only expires, the file is as good as it was.         *)
LEMMA ExpiryKeepsFile ==
  ASSUME TypeOK, FileInv, file' \in Snapshot, Expiry(file, file'), UNCHANGED <<born, nextId>>
  PROVE  FileInv'
<1>1. \A i \in Ids : file[i] = "absent" <=> file'[i] = "absent"
  BY DEF Expiry
<1>2. Whole(file')
  BY <1>1, SameStoredIsWhole DEF TypeOK, FileInv
<1> QED BY <1>1, <1>2 DEF FileInv

(* What the store has read and expired.                                    *)
LEMMA ReadIsExpiry ==
  ASSUME TypeOK, Whole(file), NEW read, read = Newest(file)
  PROVE  /\ Expiry(file, Expired(read))
         /\ Overdue(read) = {} => Expired(read) = file
<1>1. read = file /\ file \in Snapshot
  BY DEF TypeOK, Whole
<1>2. \A i \in Ids : Expired(read)[i] = file[i] \/ (file[i] = "pending" /\ Expired(read)[i] = "expired")
  BY <1>1 DEF Expired, Overdue
<1>3. Overdue(read) = {} => Expired(read) = [i \in Ids |-> file[i]]
  BY <1>1 DEF Expired
<1>4. file = [i \in Ids |-> file[i]]
  BY <1>1 DEF Snapshot
<1> QED BY <1>2, <1>3, <1>4 DEF Expiry

(* The mutator of create(): a new record, and what it pushes out.          *)
LEMMA CreateMutates ==
  ASSUME TypeOK, NEW a \in Actors, Create(a), FileInv, records[a] = file
  PROVE  Mutated(a)'
<1>1. PICK pushed : pushed = [file EXCEPT ![nextId] = "pending"]
  OBVIOUS
<1>2. /\ nextId \in Ids /\ nextId \in Nat /\ file \in Snapshot /\ call[a] \in Call /\ call[a].kind = "create"
      /\ UNCHANGED <<file, born>> /\ nextId' = nextId + 1
  BY DEF Create, TypeOK, disk, history
<1>3. call'[a] = [call[a] EXCEPT !.id = nextId] /\ records'[a] = Newest(pushed)
  BY <1>1 DEF Create, TypeOK
<1>4. call'[a].id = nextId /\ call'[a].kind = "create"
  BY <1>2, <1>3 DEF Call
<1>5. nextId \notin born /\ nextId < nextId'
  <2>1. \A i \in born : i < nextId
    BY DEF FileInv
  <2> QED BY <1>2, <2>1
<1>6. Newest(pushed)[nextId] = "pending"
  <2>1. {k \in Stored(pushed) : k > nextId} = {}
    <3> SUFFICES ASSUME NEW k \in Ids, pushed[k] # "absent", k > nextId PROVE FALSE
      BY DEF Stored
    <3>1. k \in Nat
      BY DEF Ids
    <3>2. file[k] # "absent"
      BY <1>1, <1>2, <3>1 DEF Snapshot
    <3>3. k < nextId
      BY <3>2 DEF FileInv
    <3> QED BY <1>2, <3>1, <3>3
  <2>2. Cardinality({k \in Stored(pushed) : k > nextId}) < MaxRecords
    BY <2>1, FS_EmptySet, BoundsAssumption
  <2>3. pushed[nextId] = "pending"
    BY <1>1, <1>2 DEF Snapshot
  <2> QED BY <1>2, <2>2, <2>3 DEF Newest
<1> QED BY <1>1, <1>2, <1>3, <1>4, <1>5, <1>6 DEF Mutated

(* The file after the write of a mutation.                                 *)
LEMMA MutationKeepsFile ==
  ASSUME TypeOK, FileInv, NEW a \in Actors, Mutated(a), Persist(a)
  PROVE  FileInv'
<1>1. PICK i : i = call[a].id
  OBVIOUS
<1>2. /\ file \in Snapshot /\ file' \in Snapshot /\ file' = records[a] /\ nextId' = nextId /\ nextId \in Nat
      /\ born' = IF call[a].kind = "create" THEN born \cup {i} ELSE born
  BY <1>1 DEF Persist, Replace, TypeOK, clock
<1>3. CASE call[a].kind = "create"
  <2>1. PICK pushed : pushed = [file EXCEPT ![i] = "pending"]
    OBVIOUS
  <2>2. i \in Ids /\ i < nextId /\ file' = Newest(pushed) /\ born' = born \cup {i}
    BY <1>1, <1>2, <1>3, <2>1 DEF Mutated
  <2>3. pushed \in Snapshot /\ \A k \in Ids : k # i => pushed[k] = file[k]
    BY <1>2, <2>1, <2>2 DEF Snapshot, RecordStatus
  <2>4. Whole(file')
    BY <2>2, <2>3, NewestIsWhole
  <2>5. \A k \in Ids : file'[k] # "absent" => k \in born'
    BY <2>2, <2>3, NewestKeepsOrDrops DEF FileInv
  <2> QED BY <1>2, <2>2, <2>4, <2>5 DEF FileInv
<1>4. CASE call[a].kind # "create"
  <2>1. PICK status : status # "absent" /\ i \in Ids /\ file[i] # "absent" /\ file' = [file EXCEPT ![i] = status]
    BY <1>1, <1>2, <1>4 DEF Mutated
  <2>2. \A k \in Ids : file[k] = "absent" <=> file'[k] = "absent"
    BY <1>2, <2>1 DEF Snapshot
  <2>3. Whole(file')
    BY <1>2, <2>2, SameStoredIsWhole DEF FileInv
  <2> QED BY <1>2, <1>4, <2>2, <2>3 DEF FileInv
<1> QED BY <1>3, <1>4

LEMMA RefHolds ==
  ASSUME TypeOK, LockInv, RefInv, [Next]_vars, TypeOK'
  PROVE  RefInv'
<1> USE ActorsAssumption
<1>a. \A a, b \in Actors : pc[a] \in Mutating /\ pc[b] \in Mutating => a = b
  BY DEF LockInv, Critical
<1>b. nextId \in Nat /\ ~raced => FileInv /\ CopyInv
  BY DEF RefInv
<1>1. ASSUME NEW a \in Actors, LoadRead(a) PROVE RefInv'
  <2>1. ~raced => (pc'[a] = "loadPersist" => Expiry(file, records'[a])) /\ pc'[a] \notin Mutating
    BY <1>b, <1>1, ReadIsExpiry DEF LoadRead, Goto, Finish, Forget, FileInv, TypeOK, Mutating
  <2>2. \A b \in Actors \ {a} : pc'[b] = pc[b] /\ call'[b] = call[b] /\ records'[b] = records[b]
    BY <1>1 DEF LoadRead, Goto, Finish, Forget, TypeOK
  <2> QED BY <1>1, <2>1, <2>2, NothingWritten DEF LoadRead, disk, clock, history, Mutating, TypeOK
<1>2. ASSUME NEW a \in Actors, LoadPersist(a) PROVE RefInv'
  <2>1. Replace(a) /\ UNCHANGED <<born, nextId>> /\ pc[a] = "loadPersist" /\ pc'[a] \in {"idle", "acquire"}
    BY <1>2 DEF LoadPersist, Goto, Finish, clock, TypeOK
  <2>2. \A b \in Actors \ {a} : pc'[b] = pc[b] /\ (~raced' => pc[b] \notin Mutating)
    BY <1>2 DEF LoadPersist, Goto, Finish, TypeOK
  <2>3. ~raced' => FileInv'
    <3> SUFFICES ASSUME ~raced' PROVE FileInv'
      OBVIOUS
    <3>1. ~raced /\ a \notin stale
      BY <1>2 DEF LoadPersist, TypeOK
    <3>2. FileInv /\ Expiry(file, file')
      BY <1>b, <2>1, <3>1 DEF CopyInv, Replace, TypeOK
    <3>3. file' \in Snapshot
      BY DEF TypeOK
    <3> QED BY <2>1, <3>2, <3>3, ExpiryKeepsFile
  <2> QED BY <2>1, <2>2, <2>3, WrittenOver
<1>3. ASSUME NEW a \in Actors, Acquire(a) \/ Busy(a) \/ Refuse(a) \/ PersistFails(a) \/ Release(a) \/ Crash(a)
      PROVE  RefInv'
  <2>1. pc'[a] \in {"reload", "idle", "release"}
    BY <1>3 DEF Acquire, Busy, Refuse, PersistFails, Release, Crash, Goto, Done, Finish, TypeOK
  <2>2. \A b \in Actors \ {a} : pc'[b] = pc[b] /\ call'[b] = call[b] /\ records'[b] = records[b]
    BY <1>3 DEF Acquire, Busy, Refuse, PersistFails, Release, Crash, Goto, Done, Finish, Forget, TypeOK
  <2>3. UNCHANGED <<file, born, raced, nextId>> /\ stale \ {a} \subseteq stale'
    BY <1>3 DEF Acquire, Busy, Refuse, PersistFails, Release, Crash, disk, clock, history
  <2> QED BY <2>1, <2>2, <2>3, NothingWritten DEF TypeOK
<1>4. ASSUME NEW a \in Actors, Reload(a) PROVE RefInv'
  <2>1. /\ pc'[a] = IF Overdue(Newest(file)) # {} THEN "expirePersist" ELSE "mutate"
        /\ records'[a] = Expired(Newest(file)) /\ UNCHANGED <<file, born, raced, nextId, stale>>
    BY <1>4 DEF Reload, Goto, TypeOK, disk, clock, history
  <2>2. \A b \in Actors \ {a} : pc'[b] = pc[b] /\ call'[b] = call[b] /\ records'[b] = records[b]
    BY <1>4 DEF Reload, Goto, TypeOK
  <2>3. ~raced => Expiry(file, records'[a]) /\ (Overdue(Newest(file)) = {} => records'[a] = file)
    BY <1>b, <2>1, ReadIsExpiry DEF FileInv, TypeOK
  <2> QED BY <2>1, <2>2, <2>3, NothingWritten DEF TypeOK
<1>5. ASSUME NEW a \in Actors, ExpirePersist(a) PROVE RefInv'
  <2>1. /\ Replace(a) /\ UNCHANGED <<born, nextId, raced>> /\ pc[a] = "expirePersist" /\ pc'[a] = "mutate"
        /\ records'[a] = file'
    BY <1>5 DEF ExpirePersist, Goto, Replace, clock, history, TypeOK
  <2>2. \A b \in Actors \ {a} : pc'[b] = pc[b] /\ (~raced' => pc[b] \notin Mutating)
    <3>1. \A b \in Actors \ {a} : pc[b] \notin Mutating
      BY <1>a, <2>1 DEF Mutating
    <3> QED BY <1>5, <3>1 DEF ExpirePersist, Goto, TypeOK
  <2>3. ~raced' => FileInv'
    <3> SUFFICES ASSUME ~raced PROVE FileInv'
      BY <2>1
    <3>1. FileInv /\ Expiry(file, file')
      BY <1>b, <2>1 DEF CopyInv, Replace, TypeOK
    <3>2. file' \in Snapshot
      BY DEF TypeOK
    <3> QED BY <2>1, <3>1, <3>2, ExpiryKeepsFile
  <2> QED BY <2>1, <2>2, <2>3, WrittenOver
<1>6. ASSUME NEW a \in Actors, Create(a) PROVE RefInv'
  <2>1. pc'[a] = "persist" /\ UNCHANGED <<file, born, raced, stale>> /\ nextId' = nextId + 1 /\ pc[a] = "mutate"
    BY <1>6 DEF Create, TypeOK, disk, history
  <2>2. \A b \in Actors \ {a} : pc'[b] = pc[b] /\ call'[b] = call[b] /\ records'[b] = records[b]
    BY <1>6 DEF Create, TypeOK
  <2>3. ~raced => Mutated(a)'
    BY <1>b, <1>6, <2>1, CreateMutates DEF CopyInv, TypeOK
  <2>4. nextId' >= nextId /\ nextId' \in Nat
    BY <2>1 DEF TypeOK
  <2> QED BY <2>1, <2>2, <2>3, <2>4, NothingWritten
<1>7. ASSUME NEW a \in Actors, Decide(a) \/ Claim(a) PROVE RefInv'
  <2>1. /\ pc'[a] = "persist" /\ UNCHANGED <<file, born, raced, stale, nextId, call>> /\ pc[a] = "mutate"
        /\ call[a].id \in Ids
    BY <1>7 DEF Decide, Claim, Goto, TypeOK, disk, clock, history, Call
  <2>2. \A b \in Actors \ {a} : pc'[b] = pc[b] /\ call'[b] = call[b] /\ records'[b] = records[b]
    BY <1>7 DEF Decide, Claim, Goto, TypeOK
  <2>3. ~raced => Mutated(a)'
    <3> SUFFICES ASSUME ~raced PROVE Mutated(a)'
      OBVIOUS
    <3>1. records[a] = file
      BY <1>b, <2>1 DEF CopyInv, TypeOK
    <3>2. CASE Decide(a)
      <4>1. /\ call[a].kind \in {"approved", "rejected"} /\ file[call[a].id] = "pending"
            /\ records'[a] = [file EXCEPT ![call[a].id] = call[a].kind]
        BY <3>1, <3>2 DEF Decide, TypeOK
      <4> QED BY <2>1, <4>1 DEF Mutated
    <3>3. CASE Claim(a)
      <4>1. /\ call[a].kind = "claim" /\ file[call[a].id] = "approved"
            /\ records'[a] = [file EXCEPT ![call[a].id] = "consumed"]
        BY <3>1, <3>3 DEF Claim, TypeOK
      <4> QED BY <2>1, <4>1 DEF Mutated
    <3> QED BY <1>7, <3>2, <3>3
  <2> QED BY <2>1, <2>2, <2>3, NothingWritten DEF TypeOK
<1>8. ASSUME NEW a \in Actors, Persist(a) PROVE RefInv'
  <2>1. Replace(a) /\ UNCHANGED <<raced, nextId>> /\ pc[a] = "persist" /\ pc'[a] = "release"
    BY <1>8 DEF Persist, Done, clock, TypeOK
  <2>2. \A b \in Actors \ {a} : pc'[b] = pc[b] /\ (~raced' => pc[b] \notin Mutating)
    <3>1. \A b \in Actors \ {a} : pc[b] \notin Mutating
      BY <1>a, <2>1 DEF Mutating
    <3> QED BY <1>8, <3>1 DEF Persist, Done, TypeOK
  <2>3. ~raced' => FileInv'
    BY <1>b, <1>8, <2>1, MutationKeepsFile DEF CopyInv, TypeOK
  <2> QED BY <2>1, <2>2, <2>3, WrittenOver
<1>9. ASSUME NEW a \in Actors, NEW c \in Call, NEW fresh \in BOOLEAN, Request(a, c, fresh)
      PROVE  RefInv'
  <2>1. pc'[a] \in {"load", "acquire"}
    BY <1>9 DEF Request, TypeOK
  <2>2. \A b \in Actors \ {a} : pc'[b] = pc[b] /\ call'[b] = call[b] /\ records'[b] = records[b]
    BY <1>9 DEF Request, TypeOK
  <2>3. UNCHANGED <<file, born, raced, nextId, stale>>
    BY <1>9 DEF Request, disk, clock, history
  <2> QED BY <2>1, <2>2, <2>3, NothingWritten DEF TypeOK
<1>10. CASE Tick \/ UNCHANGED vars
  <2>1. UNCHANGED <<file, born, raced, nextId, stale, pc, call, records>>
    BY <1>10 DEF Tick, vars, disk, history
  <2> QED BY <2>1 DEF RefInv, FileInv, CopyInv, Whole, Mutated
<1> QED BY <1>1, <1>2, <1>3, <1>4, <1>5, <1>6, <1>7, <1>8, <1>9, <1>10 DEF Next, Step

(* Each write is a step of the lifecycle.                                  *)
LEMMA StatusOf ==
  \A i \in Ids : LifecycleStatus[i] = IF file[i] # "absent" THEN file[i]
                                      ELSE IF i \in born THEN "gone" ELSE "absent"
  BY DEF LifecycleStatus

LEMMA StatusAfter ==
  \A i \in Ids : LifecycleStatus'[i] = IF file'[i] # "absent" THEN file'[i]
                                       ELSE IF i \in born' THEN "gone" ELSE "absent"
  BY DEF LifecycleStatus

LEMMA ExpiryIsLifecycle ==
  ASSUME TypeOK, Expiry(file, file'), UNCHANGED <<born, wins>>
  PROVE  \E overdue \in SUBSET Ids : Lifecycle!Expire(overdue)
<1> DEFINE overdue == {i \in Ids : file[i] = "pending" /\ file'[i] = "expired"}
<1>1. \A i \in overdue : LifecycleStatus[i] = "pending"
  BY StatusOf
<1>2. ASSUME NEW i \in Ids
      PROVE  LifecycleStatus'[i] = IF i \in overdue THEN "expired" ELSE LifecycleStatus[i]
  BY StatusOf, StatusAfter DEF Expiry
<1>3. LifecycleStatus' = [i \in Ids |-> LifecycleStatus'[i]]
  BY DEF LifecycleStatus
<1>4. LifecycleStatus' = [i \in Ids |-> IF i \in overdue THEN "expired" ELSE LifecycleStatus[i]]
  BY <1>2, <1>3
<1>5. Lifecycle!Expire(overdue)
  BY <1>1, <1>4 DEF Lifecycle!Expire
<1> QED BY <1>5

LEMMA MutationIsLifecycle ==
  ASSUME TypeOK, FileInv, NEW a \in Actors, Mutated(a), Persist(a)
  PROVE  Lifecycle!Next
<1>1. PICK i : i = call[a].id
  OBVIOUS
<1>2. /\ file \in Snapshot /\ file' = records[a] /\ i \in Ids
      /\ born' = (IF call[a].kind = "create" THEN born \cup {i} ELSE born)
      /\ wins' = (IF call[a].kind = "claim" THEN [wins EXCEPT ![i] = @ + 1] ELSE wins)
  BY <1>1 DEF Persist, Replace, TypeOK
<1>3. LifecycleStatus' = [j \in Ids |-> LifecycleStatus'[j]] /\ LifecycleStatus = [j \in Ids |-> LifecycleStatus[j]]
  BY DEF LifecycleStatus
<1>4. ASSUME NEW status, status # "absent", file[i] # "absent", file' = [file EXCEPT ![i] = status], born' = born
      PROVE  LifecycleStatus' = [LifecycleStatus EXCEPT ![i] = status]
  <2>1. \A j \in Ids : file'[j] = IF j = i THEN status ELSE file[j]
    BY <1>2, <1>4 DEF Snapshot
  <2>2. \A j \in Ids : LifecycleStatus'[j] = IF j = i THEN status ELSE LifecycleStatus[j]
    BY <1>4, <2>1, StatusOf, StatusAfter
  <2> QED BY <1>2, <1>3, <2>2
<1>5. CASE call[a].kind = "create"
  <2>1. PICK pushed : pushed = [file EXCEPT ![i] = "pending"]
    OBVIOUS
  <2>2. /\ i \notin born /\ file' = Newest(pushed) /\ file'[i] = "pending" /\ born' = born \cup {i} /\ wins' = wins
    BY <1>1, <1>2, <1>5, <2>1 DEF Mutated
  <2>3. /\ pushed \in Snapshot /\ pushed[i] = "pending" /\ \A j \in Ids : j # i => pushed[j] = file[j]
    BY <1>2, <2>1 DEF Snapshot, RecordStatus
  <2>4. file[i] = "absent" /\ LifecycleStatus[i] = "absent"
    BY <1>2, <2>2, StatusOf DEF FileInv
  <2> DEFINE dropped == {j \in Ids : file[j] # "absent" /\ file'[j] = "absent"}
  <2>5. \A j \in dropped : LifecycleStatus[j] \in Lifecycle!Live
    BY <1>2, StatusOf DEF Lifecycle!Live, Snapshot, RecordStatus
  <2>6. ASSUME NEW j \in dropped, NEW k \in Ids, k < j, LifecycleStatus[k] \in Lifecycle!Live
        PROVE  k \in dropped
    <3>1. file[k] # "absent" /\ k # i /\ j # i
      BY <2>4, <2>6, StatusOf DEF Lifecycle!Live
    <3>2. ~(Cardinality({x \in Stored(pushed) : x > j}) < MaxRecords)
      BY <2>2, <2>3, <3>1 DEF Newest
    <3>3. \A x \in Ids : x > j /\ pushed[x] # "absent" => x > k /\ pushed[x] # "absent"
      BY <2>6 DEF Ids
    <3>4. ~(Cardinality({x \in Stored(pushed) : x > k}) < MaxRecords)
      BY <3>2, <3>3, FewerNewer
    <3> QED BY <2>2, <3>1, <3>4 DEF Newest
  <2>7. ASSUME NEW j \in Ids
        PROVE  LifecycleStatus'[j] = IF j = i THEN "pending" ELSE IF j \in dropped THEN "gone" ELSE LifecycleStatus[j]
    <3>1. CASE j = i
      BY <2>2, <3>1, StatusAfter
    <3>2. CASE j # i
      <4>1. file'[j] = file[j] \/ file'[j] = "absent"
        BY <2>2, <2>3, <3>2, NewestKeepsOrDrops
      <4>2. file[j] # "absent" => j \in born
        BY DEF FileInv
      <4>3. j \in born' <=> j \in born
        BY <2>2, <3>2
      <4> QED BY <3>2, <4>1, <4>2, <4>3, StatusOf, StatusAfter
    <3> QED BY <3>1, <3>2
  <2>8. LifecycleStatus' = [j \in Ids |-> IF j = i THEN "pending" ELSE IF j \in dropped THEN "gone" ELSE LifecycleStatus[j]]
    BY <1>3, <2>7
  <2> HIDE DEF dropped
  <2>9. Lifecycle!Create(i, dropped)
    BY <1>2, <2>2, <2>4, <2>5, <2>6, <2>8 DEF Lifecycle!Create
  <2>10. dropped \in SUBSET Ids
    BY DEF dropped
  <2> QED BY <1>2, <2>9, <2>10 DEF Lifecycle!Next
<1>6. CASE call[a].kind \in {"approved", "rejected"}
  <2>1. PICK decision \in {"approved", "rejected"} : decision = call[a].kind
    BY <1>6
  <2>2. file[i] = "pending" /\ file' = [file EXCEPT ![i] = decision] /\ born' = born /\ wins' = wins
    BY <1>1, <1>2, <1>6, <2>1 DEF Mutated
  <2>3. LifecycleStatus' = [LifecycleStatus EXCEPT ![i] = decision] /\ LifecycleStatus[i] = "pending"
    BY <1>2, <1>4, <2>1, <2>2, StatusOf
  <2>4. Lifecycle!Decide(i, decision)
    BY <2>2, <2>3 DEF Lifecycle!Decide
  <2> QED BY <1>2, <2>4 DEF Lifecycle!Next
<1>7. CASE call[a].kind = "claim"
  <2>1. /\ file[i] = "approved" /\ file' = [file EXCEPT ![i] = "consumed"] /\ born' = born
        /\ wins' = [wins EXCEPT ![i] = @ + 1]
    BY <1>1, <1>2, <1>7 DEF Mutated
  <2>2. LifecycleStatus' = [LifecycleStatus EXCEPT ![i] = "consumed"] /\ LifecycleStatus[i] = "approved"
    BY <1>2, <1>4, <2>1, StatusOf
  <2>3. Lifecycle!Consume(i)
    BY <2>1, <2>2 DEF Lifecycle!Consume
  <2> QED BY <1>2, <2>3 DEF Lifecycle!Next
<1> QED BY <1>5, <1>6, <1>7 DEF Mutated

(* Which steps write the file, and what they write.                        *)
LEMMA LifecycleSteps ==
  ASSUME TypeOK, RefInv, [Next]_vars
  PROVE  [raced' \/ Lifecycle!Next]_(Lifecycle!vars)
<1> SUFFICES ASSUME ~raced' PROVE Lifecycle!Next \/ UNCHANGED Lifecycle!vars
  OBVIOUS
<1>1. ~raced => FileInv /\ CopyInv
  BY DEF RefInv
<1>2. ASSUME UNCHANGED <<file, born, wins>> PROVE UNCHANGED Lifecycle!vars
  BY <1>2 DEF Lifecycle!vars, LifecycleStatus
<1>3. ASSUME NEW a \in Actors, LoadPersist(a) PROVE Lifecycle!Next
  <2>1. ~raced /\ a \notin stale /\ pc[a] = "loadPersist" /\ file' = records[a] /\ UNCHANGED <<born, wins>>
    BY <1>3 DEF LoadPersist, Replace, TypeOK
  <2>2. Expiry(file, file')
    BY <1>1, <2>1 DEF CopyInv
  <2> QED BY <2>1, <2>2, ExpiryIsLifecycle DEF Lifecycle!Next
<1>4. ASSUME NEW a \in Actors, ExpirePersist(a) PROVE Lifecycle!Next
  <2>1. ~raced /\ pc[a] = "expirePersist" /\ file' = records[a] /\ UNCHANGED <<born, wins>>
    BY <1>4 DEF ExpirePersist, Replace, history
  <2>2. Expiry(file, file')
    BY <1>1, <2>1 DEF CopyInv
  <2> QED BY <2>1, <2>2, ExpiryIsLifecycle DEF Lifecycle!Next
<1>5. ASSUME NEW a \in Actors, Persist(a) PROVE Lifecycle!Next
  <2>1. ~raced /\ pc[a] = "persist"
    BY <1>5 DEF Persist
  <2>2. FileInv /\ Mutated(a)
    BY <1>1, <2>1 DEF CopyInv
  <2> QED BY <1>5, <2>2, MutationIsLifecycle
<1>6. ASSUME NEW a \in Actors,
             \/ LoadRead(a) \/ Acquire(a) \/ Busy(a) \/ Reload(a) \/ Create(a) \/ Decide(a) \/ Claim(a) \/ Refuse(a)
             \/ PersistFails(a) \/ Release(a) \/ Crash(a)
      PROVE  UNCHANGED <<file, born, wins>>
  BY <1>6 DEF LoadRead, Acquire, Busy, Reload, Create, Decide, Claim, Refuse, PersistFails, Release, Crash, disk, history
<1>7. ASSUME NEW a \in Actors, NEW c \in Call, NEW fresh \in BOOLEAN, Request(a, c, fresh)
      PROVE  UNCHANGED <<file, born, wins>>
  BY <1>7 DEF Request, disk, history
<1>8. CASE Tick \/ UNCHANGED vars
  BY <1>2, <1>8 DEF Tick, vars, disk, history
<1> QED BY <1>2, <1>3, <1>4, <1>5, <1>6, <1>7, <1>8 DEF Next, Step

(* The store implements the lifecycle, for every number of callers,        *)
(* approvals and records: up to the step in which the unlocked write of a  *)
(* load() races a mutation, no decision is undone and nothing is lost.     *)
THEOREM LifecycleIsImplemented == Spec => ImplementsLifecycle
<1>1. Init => Lifecycle!Init
  BY DEF Init, Lifecycle!Init, LifecycleStatus, Empty
<1>2. TypeOK /\ LockInv /\ RefInv /\ [Next]_vars /\ TypeOK' => RefInv'
  BY RefHolds
<1>3. TypeOK /\ RefInv /\ [Next]_vars => [raced' \/ Lifecycle!Next]_(Lifecycle!vars)
  BY LifecycleSteps
<1> QED BY <1>1, <1>2, <1>3, RefStarts, TypeCorrect, LockHeld, PTL DEF Spec, ImplementsLifecycle
=============================================================================
