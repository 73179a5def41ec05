------------------------------ MODULE ApiKeys ------------------------------
(***************************************************************************)
(* API keys. Every operation is one Python worker process that runs one    *)
(* SQLite statement and prints one JSON line; the route waits for the      *)
(* process to close. Workers of several requests overlap, may be refused   *)
(* by a locked database, and may die before or after their statement.      *)
(***************************************************************************)
EXTENDS Integers, FiniteSets

CONSTANTS Callers,    \* requests to /api/keys, /api/run and /api/chat
          Keys,       \* the keys that can be created, and an unknown one
          Unknown,    \* what a caller without a valid key supplies
          MaxDeaths   \* bound on the workers that die or give up

ASSUME KeysAssumption ==
  Unknown \in Keys /\ IsFiniteSet(Keys) /\ MaxDeaths \in Nat

Tools == {"api_key_create", "api_key_list", "api_key_revoke", "api_key_verify"}
Stages == {"idle", "spawned", "ran", "closed"}

VARIABLES
  keyRow,   \* api_keys: "absent", "valid", or "revoked"
  told,     \* told[k]: revocations of k that were answered revoked = true
  shown,    \* keys whose secret was answered to its creator
  call,     \* the tool and the key of each caller's worker
  stage,    \* where the worker and the route that waits for it stand
  result,   \* what the worker prints: "yes", "no", or "error"
  barred,   \* history: keys known to be revoked when the call began
  running,  \* callers whose run was admitted
  deaths    \* workers that failed so far

keyVars == <<keyRow, told, shown, call, stage, result, barred, running, deaths>>
table == <<keyRow, told, shown>>

NoCall == [tool |-> "none", key |-> Unknown]

KeysInit ==
  /\ keyRow = [k \in Keys |-> "absent"] /\ told = [k \in Keys |-> 0] /\ shown = {}
  /\ call = [c \in Callers |-> NoCall] /\ stage = [c \in Callers |-> "idle"]
  /\ result = [c \in Callers |-> "no"] /\ barred = [c \in Callers |-> {}]
  /\ running = {} /\ deaths = 0

(* runPythonTool(): spawn the worker and write the request to it. A key is *)
(* supplied once its secret is known, and revoked by the id in the list.   *)
Spawn(c, tool, k) ==
  /\ stage[c] = "idle" /\ c \notin running
  /\ CASE tool = "api_key_create" -> k # Unknown /\ keyRow[k] = "absent"
                                       /\ \A d \in Callers : call[d] # [tool |-> tool, key |-> k]
       [] tool = "api_key_verify" -> k = Unknown \/ k \in shown
       [] tool = "api_key_revoke" -> k # Unknown /\ keyRow[k] # "absent"
       [] OTHER -> k = Unknown
  /\ call' = [call EXCEPT ![c] = [tool |-> tool, key |-> k]]
  /\ stage' = [stage EXCEPT ![c] = "spawned"]
  /\ barred' = [barred EXCEPT ![c] = {j \in Keys : told[j] > 0}]
  /\ UNCHANGED <<table, result, running, deaths>>

(* Mutant of Revoked: revoked_at is overwritten each time.                 *)
RevokedAgain(k) == keyRow[k] # "absent"

(* UPDATE ... WHERE id = ? AND revoked_at IS NULL; rowcount > 0            *)
Revoked(k) == keyRow[k] = "valid"

(* Mutant of Verified: the key is found whether revoked or not.            *)
Found(k) == keyRow[k] # "absent"

(* SELECT ... WHERE key_hash = ? AND revoked_at IS NULL                    *)
Verified(k) == keyRow[k] = "valid"

Outcome(tool, k) ==
  CASE tool = "api_key_revoke" -> Revoked(k)
    [] tool = "api_key_verify" -> Verified(k)
    [] OTHER -> TRUE

(* main(): one statement, committed when its connection is left.           *)
Run(c) ==
  LET tool == call[c].tool k == call[c].key IN
  /\ stage[c] = "spawned"
  /\ keyRow' = CASE tool = "api_key_create" -> [keyRow EXCEPT ![k] = "valid"]
                [] tool = "api_key_revoke" /\ Revoked(k) -> [keyRow EXCEPT ![k] = "revoked"]
                [] OTHER -> keyRow
  /\ result' = [result EXCEPT ![c] = IF Outcome(tool, k) THEN "yes" ELSE "no"]
  /\ stage' = [stage EXCEPT ![c] = "ran"]
  /\ UNCHANGED <<told, shown, call, barred, running, deaths>>

(* "database is locked", a missing interpreter, or a killed worker: it     *)
(* closes with a code other than 0, whatever it has done by then.          *)
WorkerFails(c) ==
  /\ stage[c] \in {"spawned", "ran"} /\ deaths < MaxDeaths
  /\ deaths' = deaths + 1
  /\ result' = [result EXCEPT ![c] = "error"]
  /\ stage' = [stage EXCEPT ![c] = "closed"]
  /\ UNCHANGED <<table, call, barred, running>>

(* The worker prints its line and exits with 0.                            *)
Exit(c) ==
  /\ stage[c] = "ran"
  /\ stage' = [stage EXCEPT ![c] = "closed"]
  /\ UNCHANGED <<table, call, result, barred, running, deaths>>

(* The request is answered: nothing of its call is left.                   *)
Forget(c) == /\ call' = [call EXCEPT ![c] = NoCall]
             /\ result' = [result EXCEPT ![c] = "no"]
             /\ barred' = [barred EXCEPT ![c] = {}]

(* Mutant of Admitted: only an answer that says no keeps the caller out.   *)
AdmittedUnlessRefused(c) == call[c].tool = "api_key_verify" /\ result[c] # "no"

(* if (!check.valid) 401; a worker that failed rejects, and answers 500.   *)
Admitted(c) == call[c].tool = "api_key_verify" /\ result[c] = "yes"

(* "close": the route answers, or goes on to run the agent.                *)
Reply(c) ==
  LET tool == call[c].tool k == call[c].key yes == result[c] = "yes" IN
  /\ stage[c] = "closed"
  /\ told' = [told EXCEPT ![k] = IF tool = "api_key_revoke" /\ yes THEN @ + 1 ELSE @]
  /\ shown' = IF tool = "api_key_create" /\ yes THEN shown \cup {k} ELSE shown
  /\ running' = IF Admitted(c) THEN running \cup {c} ELSE running
  /\ stage' = [stage EXCEPT ![c] = "idle"]
  /\ IF Admitted(c) THEN UNCHANGED <<call, result, barred>> ELSE Forget(c)
  /\ UNCHANGED <<keyRow, deaths>>

(* The admitted run ends; the caller may come back.                        *)
RunEnds(c) ==
  /\ c \in running
  /\ running' = running \ {c}
  /\ Forget(c)
  /\ UNCHANGED <<table, stage, deaths>>

KeysNext ==
  \E c \in Callers :
    \/ \E tool \in Tools, k \in Keys : Spawn(c, tool, k)
    \/ Run(c) \/ WorkerFails(c) \/ Exit(c) \/ Reply(c) \/ RunEnds(c)

KeysSpec == KeysInit /\ [][KeysNext]_keyVars

-----------------------------------------------------------------------------
(* Properties                                                              *)

(* Every variable has its type.                                            *)
KeysTypeOK ==
  /\ keyRow \in [Keys -> {"absent", "valid", "revoked"}]
  /\ told \in [Keys -> Nat] /\ shown \subseteq Keys
  /\ call \in [Callers -> [tool : Tools \cup {"none"}, key : Keys]]
  /\ stage \in [Callers -> Stages]
  /\ result \in [Callers -> {"yes", "no", "error"}]
  /\ barred \in [Callers -> SUBSET Keys]
  /\ running \subseteq Callers /\ deaths \in 0..MaxDeaths

(* Once a revocation has been answered, no request that begins afterwards  *)
(* is admitted with that key, however many workers overlap or die; a key   *)
(* is revoked once, and only a key whose secret was handed out admits.     *)
RevocationHolds ==
  /\ \A c \in running : call[c].key \in shown \ barred[c]
  /\ \A k \in Keys : told[k] <= 1 /\ (told[k] > 0 => keyRow[k] = "revoked")
=============================================================================
