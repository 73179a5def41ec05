--------------------------- MODULE ApprovalStore ---------------------------
(***************************************************************************)
(* JsonApprovalStore: a JSON file of approval records shared by every      *)
(* request handler, a lock directory around each mutation, and a load()    *)
(* that rewrites the file without that lock when a record has expired.     *)
(* An actor is one call on one store instance; a step is what happens      *)
(* between two awaits that touch the file system.                          *)
(***************************************************************************)
EXTENDS Integers, FiniteSets

CONSTANTS Actors,       \* concurrent callers, each with its own instance
          MaxId,        \* bound on the number of approvals ever created
          MaxRecords,   \* options.maxRecords
          TTL,          \* options.ttlMs, in ticks
          MaxTime,      \* bound on the clock
          MaxCrashes,   \* bound on the crashes of a caller
          Nobody,       \* the lock directory does not exist
          Orphan        \* the lock directory of a caller that crashed

ASSUME BoundsAssumption == /\ MaxId \in Nat /\ MaxRecords \in Nat \ {0}
                           /\ TTL \in Nat \ {0} /\ MaxTime \in Nat /\ MaxCrashes \in Nat
ASSUME ActorsAssumption == /\ Nobody \notin Actors /\ Orphan \notin Actors
                           /\ Nobody # Orphan

Ids == 1..MaxId

RecordStatus == {"absent", "pending", "approved", "rejected", "expired", "consumed"}

(* The records of a file or of an instance. Records are appended, so their *)
(* order in the array is the order of their ids, the creation order.       *)
Snapshot == [Ids -> RecordStatus]
Empty == [i \in Ids |-> "absent"]

Call == [kind : {"none", "list", "create"}, id : {0}]
          \cup [kind : {"create", "approved", "rejected", "claim"}, id : Ids]
NoCall == [kind |-> "none", id |-> 0]

VARIABLES
  file,        \* what approvals.json holds
  expiresAt,   \* expiresAt[i] of every approval created
  nextId,      \* the next identifier randomUUID() returns
  lock,        \* who made the lock directory
  now,         \* Date.now()
  records,     \* this.records of each instance
  pc,          \* where each call stands
  call,        \* what each actor called
  born,        \* history: approvals whose creation reached the file
  granted,     \* history: approvals whose "approved" decision reached the file
  wins,        \* history: calls of claimApproved that returned each approval
  stale,       \* history: loads whose snapshot the file has moved on from
  raced,       \* history: an unlocked write of load() met another write
  crashes

vars == <<file, expiresAt, nextId, lock, now, records, pc, call, born, granted,
          wins, stale, raced, crashes>>
disk == <<file, stale>>
history == <<born, granted, wins, raced>>
clock == <<now, expiresAt, nextId>>

-----------------------------------------------------------------------------
(* Operators on snapshots                                                  *)

Stored(s) == {i \in Ids : s[i] # "absent"}

(* parsed.slice(-maxRecords), and the splice of #trim.                     *)
Newest(s) ==
  [i \in Ids |-> IF Cardinality({j \in Stored(s) : j > i}) < MaxRecords
                 THEN s[i] ELSE "absent"]

IsExpired(i) == expiresAt[i] <= now

Overdue(s) == {i \in Ids : s[i] = "pending" /\ IsExpired(i)}

Expired(s) == [i \in Ids |-> IF i \in Overdue(s) THEN "expired" ELSE s[i]]

-----------------------------------------------------------------------------

Init ==
  /\ file = Empty
  /\ expiresAt = [i \in Ids |-> 0]
  /\ nextId = 1
  /\ lock = Nobody
  /\ now = 0
  /\ records = [a \in Actors |-> Empty]
  /\ pc = [a \in Actors |-> "idle"]
  /\ call = [a \in Actors |-> NoCall]
  /\ born = {} /\ granted = {} /\ wins = [i \in Ids |-> 0]
  /\ stale = {} /\ raced = FALSE
  /\ crashes = 0

Goto(a, label) == /\ pc' = [pc EXCEPT ![a] = label]
                  /\ UNCHANGED call

(* Nothing reads this.records again before the next load or reload.        *)
Forget(a) == records' = [records EXCEPT ![a] = Empty]

(* The call has its result and releases the lock.                          *)
Done(a) ==
  /\ pc' = [pc EXCEPT ![a] = "release"]
  /\ call' = [call EXCEPT ![a] = NoCall]
  /\ Forget(a)

(* The call returns or throws.                                             *)
Finish(a) ==
  /\ pc' = [pc EXCEPT ![a] = "idle"]
  /\ call' = [call EXCEPT ![a] = NoCall]
  /\ Forget(a)

(* writeFile of a private temporary file, then rename over the store: one  *)
(* atomic replacement. Every load that has already read is now behind.     *)
Replace(a) ==
  /\ file' = records[a]
  /\ stale' = {b \in Actors \ {a} : pc[b] = "loadPersist"}

(* A request starts. The HTTP routes build an instance and load() it first *)
(* (fresh); a long-lived runtime has loaded long ago and calls directly.   *)
Request(a, c, fresh) ==
  /\ pc[a] = "idle"
  /\ c.kind # "none"
  /\ c.kind = "list" => fresh
  /\ c.kind = "create" =>
       c.id = 0 /\ nextId + Cardinality({b \in Actors : call[b].kind = "create"}) <= MaxId
  /\ c.kind \in {"approved", "rejected", "claim"} => c.id < nextId
  /\ pc' = [pc EXCEPT ![a] = IF fresh THEN "load" ELSE "acquire"]
  /\ call' = [call EXCEPT ![a] = c]
  /\ UNCHANGED <<disk, clock, lock, records, history, crashes>>

-----------------------------------------------------------------------------
(* load(): no lock is taken                                                *)

(* readFile resolves, and its continuation expires what is overdue.        *)
LoadRead(a) ==
  /\ pc[a] = "load"
  /\ LET read == Newest(file) IN
       IF Overdue(read) # {}
       THEN /\ records' = [records EXCEPT ![a] = Expired(read)]
            /\ Goto(a, "loadPersist")
       ELSE IF call[a].kind = "list"
            THEN Finish(a)
            ELSE Goto(a, "acquire") /\ UNCHANGED records
  /\ UNCHANGED <<disk, clock, lock, history, crashes>>

Mutating == {"expirePersist", "mutate", "persist"}

(* #persist() of load(), outside of any lock.                              *)
LoadPersist(a) ==
  /\ pc[a] = "loadPersist"
  /\ Replace(a)
  /\ raced' = (raced \/ a \in stale \/ \E b \in Actors : pc[b] \in Mutating)
  /\ IF call[a].kind = "list"
     THEN Finish(a)
     ELSE Goto(a, "acquire") /\ Forget(a)
  /\ UNCHANGED <<clock, lock, born, granted, wins, crashes>>

-----------------------------------------------------------------------------
(* #mutate(): acquire, reload, expire, mutator, persist, release           *)

(* Mutant of Acquire: the directory of another caller is adopted (mkdir    *)
(* with recursive: true does not fail on it).                              *)
AcquireAnyway(a) ==
  /\ pc[a] = "acquire"
  /\ lock' = a
  /\ Goto(a, "reload")
  /\ UNCHANGED <<disk, clock, records, history, crashes>>

(* mkdir(lockPath) succeeds.                                               *)
Acquire(a) ==
  /\ pc[a] = "acquire"
  /\ lock = Nobody
  /\ lock' = a
  /\ Goto(a, "reload")
  /\ UNCHANGED <<disk, clock, records, history, crashes>>

(* Mutant of Busy: no deadline on a lock whose owner is gone.              *)
BusyWhileOwned(a) ==
  /\ pc[a] = "acquire"
  /\ lock \in Actors
  /\ Finish(a)
  /\ UNCHANGED <<disk, clock, lock, history, crashes>>

(* EEXIST until lockTimeoutMs has passed: "Approval store is busy".        *)
Busy(a) ==
  /\ pc[a] = "acquire"
  /\ lock # Nobody
  /\ Finish(a)
  /\ UNCHANGED <<disk, clock, lock, history, crashes>>

(* #reloadUnderLock(), then #expire().                                     *)
Reload(a) ==
  /\ pc[a] = "reload"
  /\ LET read == Newest(file) IN
       /\ records' = [records EXCEPT ![a] = Expired(read)]
       /\ Goto(a, IF Overdue(read) # {} THEN "expirePersist" ELSE "mutate")
  /\ UNCHANGED <<disk, clock, lock, history, crashes>>

ExpirePersist(a) ==
  /\ pc[a] = "expirePersist"
  /\ Replace(a)
  /\ Goto(a, "mutate")
  /\ UNCHANGED <<clock, lock, records, history, crashes>>

(* create(): push the record, trim the oldest.                             *)
Create(a) ==
  /\ pc[a] = "mutate"
  /\ call[a].kind = "create"
  /\ nextId \in Ids
  /\ records' = [records EXCEPT ![a] = Newest([@ EXCEPT ![nextId] = "pending"])]
  /\ expiresAt' = [expiresAt EXCEPT ![nextId] = now + TTL]
  /\ call' = [call EXCEPT ![a].id = nextId]
  /\ nextId' = nextId + 1
  /\ pc' = [pc EXCEPT ![a] = "persist"]
  /\ UNCHANGED <<disk, now, lock, history, crashes>>

(* Mutant of Decide: a decision replaces whatever the record says.         *)
DecideAgain(a) ==
  /\ pc[a] = "mutate"
  /\ call[a].kind \in {"approved", "rejected"}
  /\ records[a][call[a].id] # "absent"
  /\ records' = [records EXCEPT ![a][call[a].id] = call[a].kind]
  /\ Goto(a, "persist")
  /\ UNCHANGED <<disk, clock, lock, history, crashes>>

(* decide(): only a pending record whose deadline has not passed.          *)
Decide(a) ==
  /\ pc[a] = "mutate"
  /\ call[a].kind \in {"approved", "rejected"}
  /\ records[a][call[a].id] = "pending"
  /\ ~IsExpired(call[a].id)
  /\ records' = [records EXCEPT ![a][call[a].id] = call[a].kind]
  /\ Goto(a, "persist")
  /\ UNCHANGED <<disk, clock, lock, history, crashes>>

(* Mutant of Claim: a record that is still pending may be claimed.         *)
ClaimUndecided(a) ==
  /\ pc[a] = "mutate"
  /\ call[a].kind = "claim"
  /\ records[a][call[a].id] \in {"pending", "approved"}
  /\ records' = [records EXCEPT ![a][call[a].id] = "consumed"]
  /\ Goto(a, "persist")
  /\ UNCHANGED <<disk, clock, lock, history, crashes>>

(* claimApproved(): an approved record becomes consumed.                   *)
Claim(a) ==
  /\ pc[a] = "mutate"
  /\ call[a].kind = "claim"
  /\ records[a][call[a].id] = "approved"
  /\ records' = [records EXCEPT ![a][call[a].id] = "consumed"]
  /\ Goto(a, "persist")
  /\ UNCHANGED <<disk, clock, lock, history, crashes>>

(* The mutator throws: nothing is persisted, the lock is released.         *)
Refuse(a) ==
  /\ pc[a] = "mutate"
  /\ \/ /\ call[a].kind \in {"approved", "rejected"}
        /\ records[a][call[a].id] # "pending" \/ IsExpired(call[a].id)
     \/ /\ call[a].kind = "claim"
        /\ records[a][call[a].id] # "approved"
  /\ Done(a)
  /\ UNCHANGED <<disk, clock, lock, history, crashes>>

(* #persist() of #mutate(): the mutation is made, and it counts even for a *)
(* call that gets an error because its release fails.                      *)
Persist(a) ==
  /\ pc[a] = "persist"
  /\ Replace(a)
  /\ born' = IF call[a].kind = "create" THEN born \cup {call[a].id} ELSE born
  /\ granted' = IF call[a].kind = "approved" THEN granted \cup {call[a].id} ELSE granted
  /\ wins' = IF call[a].kind = "claim" THEN [wins EXCEPT ![call[a].id] = @ + 1] ELSE wins
  /\ Done(a)
  /\ UNCHANGED <<clock, lock, raced, crashes>>

(* writeFile or rename fails: the file is as it was, the lock is released. *)
PersistFails(a) ==
  /\ pc[a] \in {"expirePersist", "persist", "loadPersist"}
  /\ IF pc[a] = "loadPersist"
     THEN Finish(a)
     ELSE Done(a)
  /\ stale' = stale \ {a}
  /\ UNCHANGED <<file, clock, lock, history, crashes>>

(* finally { await release() }                                             *)
Release(a) ==
  /\ pc[a] = "release"
  /\ lock' = Nobody
  /\ Finish(a)
  /\ UNCHANGED <<disk, clock, history, crashes>>

-----------------------------------------------------------------------------
(* The environment                                                         *)

(* The process of a dies in its critical section; nothing ever removes the *)
(* lock directory. A crash anywhere else leaves what a failed call leaves. *)
(* In Release it is also a rm() that fails: the mutation is written, its   *)
(* caller gets an error, and the directory stays.                          *)
Crash(a) ==
  /\ lock = a
  /\ crashes < MaxCrashes
  /\ crashes' = crashes + 1
  /\ lock' = Orphan
  /\ Finish(a)
  /\ UNCHANGED <<disk, clock, history>>

Tick ==
  /\ now < MaxTime
  /\ now' = now + 1
  /\ UNCHANGED <<disk, expiresAt, nextId, lock, records, pc, call, history, crashes>>

Step(a) ==
  \/ LoadRead(a) \/ LoadPersist(a)
  \/ Acquire(a) \/ Busy(a) \/ Reload(a) \/ ExpirePersist(a)
  \/ Create(a) \/ Decide(a) \/ Claim(a) \/ Refuse(a)
  \/ Persist(a) \/ PersistFails(a) \/ Release(a)

Next ==
  \/ \E a \in Actors : Step(a) \/ Crash(a)
  \/ \E a \in Actors, c \in Call, fresh \in BOOLEAN : Request(a, c, fresh)
  \/ Tick

Spec == Init /\ [][Next]_vars

(* A call that has started keeps running: its awaits resolve, its 25 ms    *)
(* retry timer fires. Nothing makes a client send a request, the clock of  *)
(* the bound advance, or a process crash.                                  *)
FairSpec == Spec /\ \A a \in Actors : WF_vars(Step(a))
-----------------------------------------------------------------------------
(* Properties                                                              *)

(* Every variable has its type.                                            *)
TypeOK ==
  /\ file \in Snapshot
  /\ expiresAt \in [Ids -> Nat]
  /\ nextId \in Nat
  /\ lock \in Actors \cup {Nobody, Orphan}
  /\ now \in Nat
  /\ records \in [Actors -> Snapshot]
  /\ pc \in [Actors -> {"idle", "load", "loadPersist", "acquire", "reload",
                        "expirePersist", "mutate", "persist", "release"}]
  /\ call \in [Actors -> Call]
  /\ \A a \in Actors : pc[a] = "persist" => call[a].id \in Ids
  /\ born \subseteq Ids /\ granted \subseteq Ids /\ wins \in [Ids -> Nat]
  /\ stale \subseteq Actors /\ raced \in BOOLEAN /\ crashes \in Nat

(* "can be consumed only once" (docs/benchmark-runtime.md): no two calls   *)
(* of claimApproved() are ever handed the same approval.                   *)
ClaimedOnce == \A i \in Ids : wins[i] <= 1

(* The lock does its part: two claims of one approval both succeed only    *)
(* after the unlocked write of load() has raced a locked mutation, or that *)
(* of another load(), which raced does not tell apart.                     *)
ClaimedOnceUnlessRaced == ~raced => ClaimedOnce

(* Whatever races, crashes and failed writes happen, an action is handed   *)
(* out for execution only when an operator's "approved" reached the file:  *)
(* claimApproved() never acts on a status nobody decided.                  *)
OnlyGrantedClaimed == \A i \in Ids : wins[i] > 0 => i \in granted

LifecycleStatus ==
  [i \in Ids |-> IF file[i] # "absent" THEN file[i]
                 ELSE IF i \in born THEN "gone" ELSE "absent"]

Lifecycle == INSTANCE ApprovalLifecycle WITH status <- LifecycleStatus

(* The file, its lock and its expiry implement the lifecycle: no decision  *)
(* is undone, no record lost or revived, whichever calls interleave, fail  *)
(* or crash, up to the step in which a load() overwrites a mutation.       *)
ImplementsLifecycle ==
  Lifecycle!Init /\ [][raced' \/ Lifecycle!Next]_(Lifecycle!vars)

(* No caller waits for ever: a lock that another caller holds, or left     *)
(* behind when it crashed, is answered with "busy" after lockTimeoutMs.    *)
EveryCallReturns == \A a \in Actors : pc[a] # "idle" ~> pc[a] = "idle"
=============================================================================
