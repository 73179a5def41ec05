---------------------------- MODULE AppendStore ----------------------------
(***************************************************************************)
(* The JSON file behind JsonRunStore and JsonMemory, which are the same    *)
(* code: a request reads the file when its runtime is initialized, appends *)
(* its record under a lock directory, and replaces the file. A request may *)
(* die at any await, a read or a write may fail, and so may the removal of *)
(* the lock, whose error is swallowed.                                     *)
(***************************************************************************)
EXTENDS Integers, Sequences, FiniteSets

CONSTANTS Writers,    \* requests; each appends one record, named after it
          MaxRecords, \* maxRuns, maxRecords
          MaxFaults,  \* bound on crashes and failed calls of the file system
          Free        \* no lock directory

ASSUME StoreAssumption ==
  /\ IsFiniteSet(Writers) /\ MaxRecords \in Nat \ {0} /\ MaxFaults \in Nat
  /\ Free \notin Writers

VARIABLES
  file,     \* the records in the file; no file reads as none
  lock,     \* who has made the lock directory
  at,       \* where each request stands
  records,  \* this.runs, this.records of each request's instance
  log,      \* history: the records in the order in which they reached the file
  storeFaults    \* crashes and failures so far

storeVars == <<file, lock, at, records, log, storeFaults>>

StoreInit ==
  /\ file = <<>> /\ lock = Free /\ log = <<>> /\ storeFaults = 0
  /\ at = [w \in Writers |-> "idle"] /\ records = [w \in Writers |-> <<>>]

(* slice(-n), and splice(0, length - n): the last n of a sequence.         *)
Newest(s) == IF Len(s) <= MaxRecords THEN s
             ELSE SubSeq(s, Len(s) - MaxRecords + 1, Len(s))

Becomes(w, label) == at' = [at EXCEPT ![w] = label]

(* initialize(): the runtime of the request loads the store.               *)
Open(w) ==
  /\ at[w] = "idle"
  /\ records' = [records EXCEPT ![w] = Newest(file)]
  /\ Becomes(w, "waiting")
  /\ UNCHANGED <<file, lock, log, storeFaults>>

(* Mutant of MakeLock: an existing directory is taken for one's own.       *)
MakeLockAnyway(w) ==
  /\ at[w] = "waiting"
  /\ lock' = w
  /\ Becomes(w, "locked")
  /\ UNCHANGED <<file, records, log, storeFaults>>

(* mkdir() of the lock directory succeeds in one process only.             *)
MakeLock(w) ==
  /\ at[w] = "waiting" /\ lock = Free
  /\ lock' = w
  /\ Becomes(w, "locked")
  /\ UNCHANGED <<file, records, log, storeFaults>>

(* Mutant of GiveUp: EEXIST is retried without a limit.                    *)
NeverGiveUp(w) == FALSE /\ at[w] = "waiting" /\ UNCHANGED storeVars

(* EEXIST until lockTimeoutMs have passed: append() rejects.               *)
GiveUp(w) ==
  /\ at[w] = "waiting" /\ lock # Free
  /\ Becomes(w, "rejected")
  /\ UNCHANGED <<file, lock, records, log, storeFaults>>

(* Mutant of Reload: what the instance has read before is trusted.         *)
PushOnly(w) ==
  /\ at[w] = "locked"
  /\ records' = [records EXCEPT ![w] = Newest(Append(@, w))]
  /\ Becomes(w, "loaded")
  /\ UNCHANGED <<file, lock, log, storeFaults>>

(* load() again under the lock, push, and drop the oldest.                 *)
Reload(w) ==
  /\ at[w] = "locked"
  /\ records' = [records EXCEPT ![w] = Newest(Append(Newest(file), w))]
  /\ Becomes(w, "loaded")
  /\ UNCHANGED <<file, lock, log, storeFaults>>

(* The temporary file is complete and renamed over the old one.            *)
Replace(w) ==
  /\ at[w] = "loaded"
  /\ file' = records[w] /\ log' = Append(log, w)
  /\ Becomes(w, "written")
  /\ UNCHANGED <<lock, records, storeFaults>>

(* mkdir, readFile, JSON.parse, writeFile or rename fails: append() will   *)
(* reject, after the finally block if it has made the lock.                *)
FileFails(w) ==
  /\ at[w] \in {"waiting", "locked", "loaded"} /\ storeFaults < MaxFaults
  /\ storeFaults' = storeFaults + 1
  /\ Becomes(w, IF at[w] = "waiting" THEN "rejected" ELSE "failed")
  /\ UNCHANGED <<file, lock, records, log>>

Finish(w) == Becomes(w, IF at[w] = "written" THEN "done" ELSE "rejected")

(* finally: the lock directory is removed.                                 *)
RemoveLock(w) ==
  /\ at[w] \in {"written", "failed"}
  /\ lock' = Free
  /\ Finish(w)
  /\ UNCHANGED <<file, records, log, storeFaults>>

(* rm().catch(() => {}): the directory stays, the answer is the same.      *)
RemoveFails(w) ==
  /\ at[w] \in {"written", "failed"} /\ storeFaults < MaxFaults
  /\ storeFaults' = storeFaults + 1
  /\ Finish(w)
  /\ UNCHANGED <<file, lock, records, log>>

(* The process dies: whatever lock it holds is there for ever.             *)
Die(w) ==
  /\ at[w] \notin {"idle", "done", "rejected", "dead"} /\ storeFaults < MaxFaults
  /\ storeFaults' = storeFaults + 1
  /\ Becomes(w, "dead")
  /\ UNCHANGED <<file, lock, records, log>>

AppendStep(w) == MakeLock(w) \/ GiveUp(w) \/ Reload(w) \/ Replace(w) \/ FileFails(w)
                   \/ RemoveLock(w) \/ RemoveFails(w)

StoreNext == \E w \in Writers : Open(w) \/ AppendStep(w) \/ Die(w)

StoreSpec == StoreInit /\ [][StoreNext]_storeVars

(* The event loop runs an append that has begun, and its timer fires.      *)
StoreFairness == \A w \in Writers : WF_storeVars(AppendStep(w))

-----------------------------------------------------------------------------
(* Properties                                                              *)

Holds(w) == at[w] \in {"locked", "loaded", "written", "failed"}

(* Every variable has its type.                                            *)
StoreTypeOK ==
  /\ file \in Seq(Writers) /\ log \in Seq(Writers)
  /\ lock \in Writers \cup {Free}
  /\ at \in [Writers -> {"idle", "waiting", "locked", "loaded", "written", "failed",
                         "done", "rejected", "dead"}]
  /\ records \in [Writers -> Seq(Writers)]
  /\ storeFaults \in Nat

Logged(w) == \E i \in DOMAIN log : log[i] = w

(* "preserves concurrent appends": whoever overlaps, fails or dies, the    *)
(* file holds the newest records of all that ever reached it, in their     *)
(* order, each once. An acknowledged record has reached it, one whose      *)
(* append was rejected never has.                                          *)
FileTellsTheOutcome ==
  /\ file = Newest(log)
  /\ \A i, j \in DOMAIN log : log[i] = log[j] => i = j
  /\ \A w \in Writers : /\ at[w] = "done" => Logged(w)
                        /\ at[w] = "rejected" => ~Logged(w)

(* An append ends: even when a dead process, or a lock that could not be   *)
(* removed, has left the directory behind, every later one is rejected     *)
(* rather than kept waiting.                                               *)
EveryAppendEnds ==
  \A w \in Writers : at[w] = "waiting" ~> at[w] \in {"done", "rejected", "dead"}
=============================================================================
