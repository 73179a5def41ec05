--------------------------- MODULE Access_proofs ---------------------------
(***************************************************************************)
(* Theorems about who may use the system, for every number of requests,    *)
(* accounts, sessions, keys and workers: operator accounts and API keys.   *)
(***************************************************************************)
EXTENDS MCAccounts, FiniteSetTheorems, TLAPS

-----------------------------------------------------------------------------
(* API keys: type correctness                                              *)

(* Every variable of ApiKeys keeps its type in every reachable state.      *)
THEOREM KeysTypes == KeysSpec => []KeysTypeOK
<1> USE KeysAssumption
<1>1. KeysInit => KeysTypeOK
  BY DEF KeysInit, KeysTypeOK, NoCall, Stages
<1>2. KeysTypeOK /\ [KeysNext]_keyVars => KeysTypeOK'
  <2> SUFFICES ASSUME KeysTypeOK, [KeysNext]_keyVars PROVE KeysTypeOK'
    OBVIOUS
  <2> USE DEF KeysTypeOK, Stages
  <2>1. ASSUME NEW c \in Callers, NEW tool \in Tools, NEW k \in Keys, Spawn(c, tool, k)
        PROVE KeysTypeOK'
    BY <2>1 DEF Spawn, table
  <2>2. ASSUME NEW c \in Callers, Run(c) PROVE KeysTypeOK'
    <3>1. keyRow' \in [Keys -> {"absent", "valid", "revoked"}]
      BY <2>2 DEF Run
    <3>2. result' \in [Callers -> {"yes", "no", "error"}] /\ stage' \in [Callers -> Stages]
      BY <2>2 DEF Run
    <3>3. QED
      BY <3>1, <3>2, <2>2 DEF Run
  <2>3. ASSUME NEW c \in Callers, WorkerFails(c) PROVE KeysTypeOK'
    BY <2>3 DEF WorkerFails, table
  <2>4. ASSUME NEW c \in Callers, Exit(c) PROVE KeysTypeOK'
    BY <2>4 DEF Exit, table
  <2>5. ASSUME NEW c \in Callers, Reply(c) PROVE KeysTypeOK'
    <3>1. call[c].key \in Keys
      OBVIOUS
    <3>2. told' \in [Keys -> Nat]
      <4>1. \A k \in Keys : told'[k] \in Nat
        BY <3>1, <2>5 DEF Reply
      <4>2. QED
        BY <4>1, <2>5 DEF Reply
    <3>3. call' \in [Callers -> [tool : Tools \cup {"none"}, key : Keys]]
      BY <2>5 DEF Reply, Forget, NoCall
    <3>4. barred' \in [Callers -> SUBSET Keys] /\ result' \in [Callers -> {"yes", "no", "error"}]
      BY <2>5 DEF Reply, Forget
    <3>5. shown' \subseteq Keys /\ running' \subseteq Callers /\ stage' \in [Callers -> Stages]
      BY <3>1, <2>5 DEF Reply
    <3>6. QED
      BY <3>2, <3>3, <3>4, <3>5, <2>5 DEF Reply
  <2>6. ASSUME NEW c \in Callers, RunEnds(c) PROVE KeysTypeOK'
    BY <2>6 DEF RunEnds, Forget, NoCall, table
  <2>7. CASE UNCHANGED keyVars
    BY <2>7 DEF keyVars
  <2>8. QED
    BY <2>1, <2>2, <2>3, <2>4, <2>5, <2>6, <2>7 DEF KeysNext
<1>3. QED
  BY <1>1, <1>2, PTL DEF KeysSpec

-----------------------------------------------------------------------------
(* API keys: the inductive invariant of revocation                         *)

(* A worker has revoked its key, and its caller will be told so.           *)
Revokes(c) ==
  stage[c] \in {"ran", "closed"} /\ call[c].tool = "api_key_revoke" /\ result[c] = "yes"

(* A worker has found its key valid, and its caller will be admitted.      *)
Admits(c) ==
  stage[c] \in {"ran", "closed"} /\ call[c].tool = "api_key_verify" /\ result[c] = "yes"

(* What a caller supplies: a key that was shown, or none that exists; and  *)
(* a key is created by one worker, which finds it absent.                  *)
SuppliedInv ==
  \A c \in Callers :
    /\ call[c].tool = "api_key_verify" => call[c].key = Unknown \/ call[c].key \in shown
    /\ call[c].tool \in {"api_key_create", "api_key_revoke"} => call[c].key # Unknown
    /\ call[c].tool = "api_key_create" /\ stage[c] = "spawned" => keyRow[call[c].key] = "absent"
    /\ call[c].tool = "api_key_create" => \A d \in Callers : call[d] = call[c] => d = c

(* What is barred stays revoked, and what was found valid was not barred.  *)
BarredInv ==
  \A c \in Callers :
    /\ \A k \in barred[c] : keyRow[k] = "revoked"
    /\ Admits(c) \/ c \in running => call[c].key \in shown \ barred[c]
    /\ c \in running => stage[c] = "idle"

(* Of all workers and answers one has revoked a key.                       *)
RevokedInv ==
  /\ keyRow[Unknown] = "absent"
  /\ \A k \in Keys : told[k] <= 1 /\ (told[k] > 0 => keyRow[k] = "revoked")
  /\ \A c \in Callers : Revokes(c) =>
       /\ keyRow[call[c].key] = "revoked" /\ told[call[c].key] = 0
       /\ \A d \in Callers : Revokes(d) /\ call[d].key = call[c].key => d = c

KeysInv == SuppliedInv /\ BarredInv /\ RevokedInv

(* Only Run writes the table, and it never brings a revoked key back.      *)
LEMMA RunMovesOneKey ==
  ASSUME KeysTypeOK, KeysInv, NEW c \in Callers, Run(c)
  PROVE  /\ \A k \in Keys : keyRow[k] = "revoked" => keyRow'[k] = "revoked"
         /\ \A k \in Keys \ {call[c].key} : keyRow'[k] = keyRow[k]
         /\ keyRow'[Unknown] = "absent"
         /\ keyRow'[call[c].key] # keyRow[call[c].key] =>
              call[c].tool \in {"api_key_create", "api_key_revoke"}
         /\ call[c].tool = "api_key_create" => keyRow[call[c].key] = "absent"
         /\ call[c].tool = "api_key_revoke" /\ result'[c] = "yes" =>
              keyRow[call[c].key] = "valid" /\ keyRow'[call[c].key] = "revoked"
         /\ call[c].tool = "api_key_verify" /\ result'[c] = "yes" => keyRow[call[c].key] = "valid"
<1>1. call[c].key \in Keys /\ Unknown \in Keys
  BY KeysAssumption DEF KeysTypeOK
<1>2. /\ call[c].tool \in {"api_key_create", "api_key_revoke"} => call[c].key # Unknown
      /\ call[c].tool = "api_key_create" => keyRow[call[c].key] = "absent"
      /\ keyRow[Unknown] = "absent"
  BY DEF KeysInv, SuppliedInv, RevokedInv, Run
<1>3. keyRow' = CASE call[c].tool = "api_key_create" -> [keyRow EXCEPT ![call[c].key] = "valid"]
                  [] call[c].tool = "api_key_revoke" /\ keyRow[call[c].key] = "valid" ->
                       [keyRow EXCEPT ![call[c].key] = "revoked"]
                  [] OTHER -> keyRow
  BY DEF Run, Revoked
<1>4. result'[c] = IF Outcome(call[c].tool, call[c].key) THEN "yes" ELSE "no"
  BY DEF Run, KeysTypeOK
<1>5. /\ call[c].tool = "api_key_create" => keyRow' = [keyRow EXCEPT ![call[c].key] = "valid"]
      /\ call[c].tool = "api_key_revoke" /\ keyRow[call[c].key] = "valid" =>
           keyRow' = [keyRow EXCEPT ![call[c].key] = "revoked"]
      /\ call[c].tool # "api_key_create"
           /\ ~(call[c].tool = "api_key_revoke" /\ keyRow[call[c].key] = "valid")
           => keyRow' = keyRow
  BY <1>3
<1>6. /\ call[c].tool = "api_key_revoke" /\ result'[c] = "yes" => keyRow[call[c].key] = "valid"
      /\ call[c].tool = "api_key_verify" /\ result'[c] = "yes" => keyRow[call[c].key] = "valid"
  BY <1>4 DEF Outcome, Revoked, Verified
<1>7. QED
  BY <1>1, <1>2, <1>5, <1>6 DEF KeysTypeOK

(* A caller whose worker is not running its statement may answer, fail or  *)
(* come back: the table and the other callers are left alone.              *)
LEMMA OneCallerMoves ==
  ASSUME KeysTypeOK, KeysInv, NEW c \in Callers, UNCHANGED <<keyRow, told>>, shown \subseteq shown',
         \A d \in Callers \ {c} : /\ call'[d] = call[d] /\ stage'[d] = stage[d]
                                  /\ result'[d] = result[d] /\ barred'[d] = barred[d]
                                  /\ d \in running' <=> d \in running,
         call'[c] = call[c] \/ call'[c] = NoCall,
         stage'[c] # "spawned", barred'[c] \subseteq barred[c],
         Revokes(c)' => Revokes(c) /\ call'[c] = call[c],
         Admits(c)' \/ c \in running' =>
           (Admits(c) \/ c \in running) /\ call'[c] = call[c],
         c \in running' => stage'[c] = "idle"
  PROVE  KeysInv'
<1> USE DEF KeysInv
<1>1. SuppliedInv'
  BY DEF SuppliedInv, NoCall
<1>2. BarredInv'
  <2>1. \A d \in Callers : \A k \in barred'[d] : keyRow'[k] = "revoked"
    BY DEF BarredInv
  <2>2. \A d \in Callers : Admits(d)' \/ d \in running' =>
          (Admits(d) \/ d \in running) /\ call'[d] = call[d] /\ barred'[d] \subseteq barred[d]
    BY DEF Admits
  <2>3. QED
    BY <2>1, <2>2 DEF BarredInv
<1>3. RevokedInv'
  <2>1. \A d \in Callers : Revokes(d)' => Revokes(d) /\ call'[d] = call[d]
    BY DEF Revokes
  <2>2. QED
    BY <2>1 DEF RevokedInv
<1>4. QED
  BY <1>1, <1>2, <1>3

LEMMA SpawnKeepsKeys ==
  ASSUME KeysTypeOK, KeysInv, NEW c \in Callers, NEW tool \in Tools, NEW k \in Keys,
         Spawn(c, tool, k)
  PROVE  KeysInv'
<1> USE DEF KeysInv
<1>1. /\ stage[c] = "idle" /\ c \notin running
      /\ UNCHANGED <<keyRow, told, shown, result, running>>
      /\ call'[c] = [tool |-> tool, key |-> k] /\ stage'[c] = "spawned"
      /\ barred'[c] = {j \in Keys : told[j] > 0}
      /\ \A d \in Callers \ {c} : /\ call'[d] = call[d] /\ stage'[d] = stage[d]
                                  /\ barred'[d] = barred[d]
  BY DEF KeysTypeOK, Spawn, table
<1>2. /\ tool = "api_key_create" => k # Unknown /\ keyRow[k] = "absent"
                                   /\ \A d \in Callers : call[d] # [tool |-> tool, key |-> k]
      /\ tool = "api_key_verify" => k = Unknown \/ k \in shown
      /\ tool = "api_key_revoke" => k # Unknown
  BY DEF Spawn
<1>3. SuppliedInv'
  BY <1>1, <1>2 DEF SuppliedInv
<1>4. BarredInv'
  <2>1. \A j \in barred'[c] : keyRow[j] = "revoked"
    BY <1>1 DEF RevokedInv
  <2>2. ~Admits(c)' /\ \A d \in Callers \ {c} : Admits(d)' = Admits(d)
    BY <1>1 DEF Admits
  <2>3. QED
    BY <1>1, <2>1, <2>2 DEF BarredInv
<1>5. RevokedInv'
  <2>1. ~Revokes(c)' /\ \A d \in Callers \ {c} : Revokes(d)' = Revokes(d)
    BY <1>1 DEF Revokes
  <2>2. QED
    BY <1>1, <2>1 DEF RevokedInv
<1>6. QED
  BY <1>3, <1>4, <1>5

LEMMA RunKeepsKeys ==
  ASSUME KeysTypeOK, KeysInv, NEW c \in Callers, Run(c)
  PROVE  KeysInv'
<1> DEFINE k == call[c].key
<1> USE DEF KeysInv
<1>1. /\ \A j \in Keys : keyRow[j] = "revoked" => keyRow'[j] = "revoked"
      /\ \A j \in Keys \ {k} : keyRow'[j] = keyRow[j]
      /\ keyRow'[Unknown] = "absent"
      /\ keyRow'[k] # keyRow[k] => call[c].tool \in {"api_key_create", "api_key_revoke"}
      /\ call[c].tool = "api_key_create" => keyRow[k] = "absent"
      /\ call[c].tool = "api_key_revoke" /\ result'[c] = "yes" =>
           keyRow[k] = "valid" /\ keyRow'[k] = "revoked"
      /\ call[c].tool = "api_key_verify" /\ result'[c] = "yes" => keyRow[k] = "valid"
  BY RunMovesOneKey
<1>2. /\ stage[c] = "spawned" /\ stage'[c] = "ran"
      /\ UNCHANGED <<told, shown, call, barred, running>>
      /\ \A d \in Callers \ {c} : stage'[d] = stage[d] /\ result'[d] = result[d]
      /\ k \in Keys /\ \A d \in Callers : call[d].key \in Keys /\ barred[d] \subseteq Keys
  BY DEF KeysTypeOK, Run
<1> HIDE DEF k
<1>3. SuppliedInv'
  <2>1. ASSUME NEW d \in Callers, call[d].tool = "api_key_create", stage'[d] = "spawned"
        PROVE  keyRow'[call[d].key] = "absent"
    <3>1. d # c /\ stage[d] = "spawned" /\ keyRow[call[d].key] = "absent"
      BY <2>1, <1>2 DEF SuppliedInv
    <3>2. CASE call[d].key # k
      BY <3>1, <3>2, <1>1, <1>2
    <3>3. CASE call[d].key = k
      <4>1. call[c].tool # "api_key_create"
        <5>1. call[c].tool = "api_key_create" => call[c] = call[d]
          BY <2>1, <3>3 DEF KeysTypeOK, k
        <5>2. QED
          BY <5>1, <3>1, <2>1 DEF SuppliedInv
      <4>2. CASE call[c].tool = "api_key_revoke"
        BY <4>2, <3>1, <3>3 DEF Run, Revoked, k
      <4>3. CASE call[c].tool # "api_key_revoke"
        BY <4>1, <4>3, <3>1, <3>3, <1>1
      <4>4. QED
        BY <4>2, <4>3
    <3>4. QED
      BY <3>2, <3>3
  <2>2. QED
    BY <2>1, <1>2 DEF SuppliedInv
<1>4. BarredInv'
  <2>1. Admits(c)' => k \in shown \ barred[c]
    <3>1. Admits(c)' => call[c].tool = "api_key_verify" /\ keyRow[k] = "valid"
      BY <1>1, <1>2 DEF Admits
    <3>2. keyRow[k] = "valid" => k # Unknown /\ k \notin barred[c]
      BY DEF BarredInv, RevokedInv
    <3>3. QED
      BY <3>1, <3>2 DEF SuppliedInv, k
  <2>2. \A d \in Callers \ {c} : Admits(d)' = Admits(d)
    BY <1>2 DEF Admits
  <2>3. c \notin running
    BY <1>2 DEF BarredInv
  <2>4. \A d \in Callers : \A j \in barred[d] : keyRow'[j] = "revoked"
    BY <1>1, <1>2 DEF BarredInv
  <2>5. QED
    BY <1>2, <2>1, <2>2, <2>3, <2>4 DEF BarredInv, k
<1>5. RevokedInv'
  <2>1. \A d \in Callers \ {c} : Revokes(d)' = Revokes(d)
    BY <1>2 DEF Revokes
  <2>2. Revokes(c)' => keyRow[k] = "valid" /\ keyRow'[k] = "revoked"
    BY <1>1, <1>2 DEF Revokes
  <2>3. \A j \in Keys : told[j] <= 1 /\ (told[j] > 0 => keyRow'[j] = "revoked")
    BY <1>1 DEF RevokedInv
  <2>4. keyRow[k] = "valid" => told[k] = 0 /\ \A d \in Callers : Revokes(d) => call[d].key # k
    BY <1>2 DEF RevokedInv, KeysTypeOK
  <2>5. QED
    BY <1>1, <1>2, <2>1, <2>2, <2>3, <2>4 DEF RevokedInv, k
<1>6. QED
  BY <1>3, <1>4, <1>5

LEMMA ReplyKeepsKeys ==
  ASSUME KeysTypeOK, KeysInv, NEW c \in Callers, Reply(c)
  PROVE  KeysInv'
<1> DEFINE k == call[c].key
<1> USE DEF KeysInv
<1>1. /\ stage[c] = "closed" /\ stage'[c] = "idle" /\ UNCHANGED keyRow
      /\ shown \subseteq shown' /\ k \in Keys
      /\ \A d \in Callers \ {c} : /\ call'[d] = call[d] /\ stage'[d] = stage[d]
                                  /\ result'[d] = result[d] /\ barred'[d] = barred[d]
                                  /\ d \in running' <=> d \in running
      /\ \A j \in Keys \ {k} : told'[j] = told[j]
      /\ told'[k] = IF Revokes(c) THEN told[k] + 1 ELSE told[k]
  BY DEF KeysTypeOK, Reply, Revokes, Forget
<1>2. /\ c \in running' => Admits(c) /\ call'[c] = call[c] /\ barred'[c] = barred[c]
      /\ c \notin running' => call'[c] = NoCall /\ barred'[c] = {}
  <2>1. c \notin running
    BY <1>1 DEF BarredInv
  <2>2. QED
    BY <1>1, <2>1 DEF Reply, Admitted, Admits, Forget, KeysTypeOK
<1> HIDE DEF k
<1>3. SuppliedInv'
  BY <1>1, <1>2 DEF SuppliedInv, NoCall, Admits
<1>4. BarredInv'
  <2>1. ~Admits(c)' /\ \A d \in Callers \ {c} : Admits(d)' = Admits(d)
    BY <1>1 DEF Admits
  <2>2. \A d \in Callers : \A j \in barred'[d] : keyRow'[j] = "revoked"
    BY <1>1, <1>2 DEF BarredInv
  <2>3. QED
    BY <1>1, <1>2, <2>1, <2>2 DEF BarredInv
<1>5. RevokedInv'
  <2>1. ~Revokes(c)' /\ \A d \in Callers \ {c} : Revokes(d)' = Revokes(d)
    BY <1>1 DEF Revokes
  <2>2. Revokes(c) => /\ keyRow[k] = "revoked" /\ told[k] = 0
                      /\ \A d \in Callers \ {c} : Revokes(d) => call[d].key # k
    BY DEF RevokedInv, k
  <2>3. \A j \in Keys : told'[j] <= 1 /\ (told'[j] > 0 => keyRow[j] = "revoked")
    BY <1>1, <2>2 DEF RevokedInv, KeysTypeOK
  <2>4. \A d \in Callers \ {c} : Revokes(d) => told'[call[d].key] = 0
    BY <1>1, <2>2 DEF RevokedInv, KeysTypeOK
  <2>5. QED
    BY <1>1, <2>1, <2>3, <2>4 DEF RevokedInv
<1>6. QED
  BY <1>3, <1>4, <1>5

LEMMA KeysInvHolds == KeysSpec => []KeysInv
<1>1. KeysInit => KeysInv
  BY KeysAssumption
  DEF KeysInit, KeysInv, SuppliedInv, BarredInv, RevokedInv, Revokes, Admits, NoCall
<1>2. KeysTypeOK /\ KeysInv /\ [KeysNext]_keyVars => KeysInv'
  <2> SUFFICES ASSUME KeysTypeOK, KeysInv, [KeysNext]_keyVars PROVE KeysInv'
    OBVIOUS
  <2>1. ASSUME NEW c \in Callers, NEW tool \in Tools, NEW k \in Keys, Spawn(c, tool, k)
        PROVE KeysInv'
    BY <2>1, SpawnKeepsKeys
  <2>2. ASSUME NEW c \in Callers, Run(c) PROVE KeysInv'
    BY <2>2, RunKeepsKeys
  <2>3. ASSUME NEW c \in Callers, WorkerFails(c) PROVE KeysInv'
    BY <2>3, OneCallerMoves
    DEF WorkerFails, table, KeysTypeOK, KeysInv, BarredInv, Revokes, Admits
  <2>4. ASSUME NEW c \in Callers, Exit(c) PROVE KeysInv'
    BY <2>4, OneCallerMoves DEF Exit, table, KeysTypeOK, KeysInv, BarredInv, Revokes, Admits
  <2>5. ASSUME NEW c \in Callers, Reply(c) PROVE KeysInv'
    BY <2>5, ReplyKeepsKeys
  <2>6. ASSUME NEW c \in Callers, RunEnds(c) PROVE KeysInv'
    <3>1. stage[c] = "idle"
      BY <2>6 DEF RunEnds, KeysInv, BarredInv
    <3>2. QED
      BY <2>6, <3>1, OneCallerMoves DEF RunEnds, Forget, table, KeysTypeOK, Revokes, Admits
  <2>7. CASE UNCHANGED keyVars
    BY <2>7 DEF keyVars, KeysInv, SuppliedInv, BarredInv, RevokedInv, Revokes, Admits
  <2>8. QED
    BY <2>1, <2>2, <2>3, <2>4, <2>5, <2>6, <2>7 DEF KeysNext
<1>3. QED
  BY <1>1, <1>2, KeysTypes, PTL DEF KeysSpec

(* A revoked API key stays out: once the revocation was answered no        *)
(* request that begins later is admitted with it, whatever workers of      *)
(* api_key_verify and api_key_revoke overlap, fail or die.                 *)
THEOREM RevokedKeysStayOut == KeysSpec => []RevocationHolds
<1>1. KeysTypeOK /\ KeysInv => RevocationHolds
  BY DEF KeysTypeOK, KeysInv, BarredInv, RevokedInv, RevocationHolds
<1>2. QED
  BY <1>1, KeysTypes, KeysInvHolds, PTL

-----------------------------------------------------------------------------
(* Operator accounts: type correctness                                     *)

Account == [email : Emails \cup {NoEmail}, failures : Nat, lockedUntil : Nat \cup {Never}]
Session == [user : Users \cup {NoUser}, expires : Nat, revoked : BOOLEAN, seen : Nat]

(* A row of net_users with other counters is a row.                        *)
LEMMA AccountFields ==
  ASSUME NEW a \in Account, NEW n, NEW l
  PROVE  [a EXCEPT !.failures = n, !.lockedUntil = l] =
           [email |-> a.email, failures |-> n, lockedUntil |-> l]
<1> DEFINE b == [a EXCEPT !.failures = n]
<1>1. b = [email |-> a.email, failures |-> n, lockedUntil |-> a.lockedUntil]
  BY DEF Account
<1>2. [b EXCEPT !.lockedUntil = l] = [email |-> a.email, failures |-> n, lockedUntil |-> l]
  <2> HIDE DEF b
  <2> QED
    BY <1>1
<1>3. QED
  BY <1>2, Zenon

(* set failed_login_count = failed_login_count + 1, locked_until = ...     *)
LEMMA FailedAccount ==
  ASSUME NEW a \in Account, now \in Nat
  PROVE  /\ Failed(a) \in Account
         /\ Failed(a).email = a.email
         /\ Failed(a).failures = a.failures + 1
         /\ Failed(a).lockedUntil = IF a.failures + 1 >= MaxFailures THEN now + LockTime
                                    ELSE a.lockedUntil
<1> DEFINE n == a.failures + 1
           l == IF n >= MaxFailures THEN now + LockTime ELSE a.lockedUntil
<1>1. n \in Nat /\ l \in Nat \cup {Never}
  BY AccountsAssumption DEF Account
<1>2. Failed(a) = [email |-> a.email, failures |-> n, lockedUntil |-> l]
  BY AccountFields DEF Failed
<1>3. Failed(a) \in Account /\ Failed(a).failures = n /\ Failed(a).lockedUntil = l
      /\ Failed(a).email = a.email
  <2> HIDE DEF n, l
  <2> QED
    BY <1>1, <1>2 DEF Account
<1>4. QED
  BY <1>3

(* Every variable of Accounts keeps its type in every reachable state.     *)
THEOREM AccountsTypes == Spec => []TypeOK
<1> USE AccountsAssumption
<1>1. Init => TypeOK
  BY DEF Init, TypeOK, NoAccount, NoSession, NoUser, NoToken, Users, Tokens
<1>2. TypeOK /\ [Next]_vars => TypeOK'
  <2> SUFFICES ASSUME TypeOK, [Next]_vars PROVE TypeOK'
    OBVIOUS
  <2> USE DEF TypeOK
  <2>0. /\ NoUser \notin Users /\ NoToken \notin Tokens
        /\ user \in [Users -> Account] /\ session \in [Tokens -> Session]
    BY DEF NoUser, NoToken, Users, Tokens, Account, Session
  <2>1. ASSUME NEW c \in Clients, NEW e \in Emails, NEW label \in {"register", "login"},
               Begin(c, e, label)
        PROVE TypeOK'
    BY <2>1 DEF Begin, Goto, history
  <2>2. ASSUME NEW c \in Clients, CheckEmail(c) PROVE TypeOK'
    <3>1. overlapped' \subseteq Emails
      BY <2>2 DEF CheckEmail, Finish
    <3>2. QED
      BY <2>0, <2>2, <3>1 DEF CheckEmail, Finish, Goto, request
  <2>3. ASSUME NEW c \in Clients, InsertUser(c) PROVE TypeOK'
    <3>1. PICK u \in Users \ Registered :
            /\ user' = [user EXCEPT ![u] = [NoAccount EXCEPT !.email = email[c]]]
            /\ row' = [row EXCEPT ![c] = u]
      BY <2>3 DEF InsertUser
    <3>2. [NoAccount EXCEPT !.email = email[c]] \in Account
      BY DEF NoAccount, Account
    <3>3. user' \in [Users -> Account]
      BY <2>0, <3>1, <3>2
    <3>4. QED
      BY <2>0, <2>3, <3>1, <3>3 DEF InsertUser, Goto, history, Account
  <2>4. ASSUME NEW c \in Clients, InsertFails(c) PROVE TypeOK'
    BY <2>0, <2>4 DEF InsertFails, Finish, Goto, history
  <2>5. ASSUME NEW c \in Clients, FindUser(c) PROVE TypeOK'
    <3>1. CASE Finish(c)
      BY <2>0, <2>5, <3>1 DEF FindUser, Finish, Goto, history
    <3>2. CASE ~Finish(c)
      <4>1. PICK u \in AccountsOf(email[c]) :
              row' = [row EXCEPT ![c] = u] /\ Goto(c, "password") /\ UNCHANGED <<email, token>>
        BY <2>5, <3>2 DEF FindUser
      <4>2. u \in Users
        BY DEF AccountsOf, Registered
      <4>3. QED
        BY <2>0, <2>5, <4>1, <4>2 DEF FindUser, Goto, history
    <3>3. QED
      BY <3>1, <3>2
  <2>6. ASSUME NEW c \in Clients, WrongPassword(c) PROVE TypeOK'
    <3>1. row[c] \in Users
      BY <2>6 DEF WrongPassword
    <3>2. user' \in [Users -> Account]
      <4>1. user[row[c]] \in Account
        BY <2>0, <3>1
      <4>2. Failed(user[row[c]]) \in Account
        BY <4>1, FailedAccount
      <4>3. user' = [user EXCEPT ![row[c]] = Failed(user[row[c]])]
        BY <2>6 DEF WrongPassword, Failed
      <4>4. QED
        BY <2>0, <3>1, <4>2, <4>3
    <3>3. guesses' \in [Users -> Nat]
      <4>1. guesses[row[c]] + 1 \in Nat
        BY <3>1
      <4>2. QED
        BY <4>1, <2>6 DEF WrongPassword
    <3>4. QED
      BY <2>0, <2>6, <3>2, <3>3 DEF WrongPassword, Finish, Goto, Account
  <2>7. ASSUME NEW c \in Clients, RightPassword(c) PROVE TypeOK'
    BY <2>7 DEF RightPassword, Goto, request, history
  <2>8. ASSUME NEW c \in Clients, CreateSession(c) PROVE TypeOK'
    <3>1. row[c] \in Users
      BY <2>8 DEF CreateSession
    <3>2. user' \in [Users -> Account]
      <4>1. [user[row[c]] EXCEPT !.failures = 0, !.lockedUntil = Never] \in Account
        <5>1. user[row[c]] \in Account /\ 0 \in Nat
          BY <2>0, <3>1
        <5>2. QED
          BY <5>1, AccountFields DEF Account
      <4>2. user' = [user EXCEPT ![row[c]] =
                       [user[row[c]] EXCEPT !.failures = 0, !.lockedUntil = Never]]
        BY <2>8 DEF CreateSession
      <4>3. QED
        BY <2>0, <3>1, <4>1, <4>2
    <3>3. session' \in [Tokens -> Session]
      <4>1. [user |-> row[c], expires |-> now + SessionTime, revoked |-> FALSE, seen |-> now]
              \in Session
        BY <3>1 DEF Session
      <4>2. QED
        BY <2>0, <2>8, <4>1 DEF CreateSession
    <3>4. guesses' \in [Users -> Nat]
      BY <2>8 DEF CreateSession
    <3>5. QED
      BY <2>0, <2>8, <3>2, <3>3, <3>4 DEF CreateSession, Finish, Goto, Account, Session
  <2>9. ASSUME NEW c \in Clients, SessionFails(c) \/ CountFails(c) PROVE TypeOK'
    BY <2>0, <2>9 DEF SessionFails, CountFails, Finish, Goto, history
  <2>10. ASSUME NEW c \in Clients, NEW t \in Tokens, FindSession(c, t) PROVE TypeOK'
    BY <2>0, <2>10 DEF FindSession, Goto, history
  <2>11. ASSUME NEW c \in Clients, Touch(c) PROVE TypeOK'
    <3>1. session' \in [Tokens -> Session]
      <4>1. CASE session' = session
        BY <4>1, <2>0
      <4>2. CASE session' = [session EXCEPT ![token[c]].seen = now]
        BY <4>2, <2>0 DEF Session
      <4>3. QED
        BY <4>1, <4>2, <2>11 DEF Touch
    <3>2. QED
      BY <2>0, <2>11, <3>1 DEF Touch, Finish, Goto, history, Session
  <2>12. ASSUME NEW t \in Tokens, RevokeSession(t) PROVE TypeOK'
    <3>1. session' \in [Tokens -> Session]
      <4>1. session' = [session EXCEPT ![t].revoked = TRUE]
        BY <2>12 DEF RevokeSession
      <4>2. [session[t] EXCEPT !.revoked = TRUE] \in Session
        <5>1. PICK s \in Session : s = session[t]
          BY <2>0
        <5>2. [s EXCEPT !.revoked = TRUE] \in Session
          BY DEF Session
        <5>3. QED
          BY <5>1, <5>2
      <4>3. session' = [session EXCEPT ![t] = [session[t] EXCEPT !.revoked = TRUE]]
        BY <2>0, <4>1
      <4>4. QED
        BY <2>0, <4>2, <4>3
    <3>2. QED
      BY <2>12, <3>1 DEF RevokeSession, request, history, Session
  <2>13. CASE Tick
    BY <2>13 DEF Tick, request, history
  <2>14. CASE UNCHANGED vars
    BY <2>14 DEF vars
  <2>15. QED
    BY <2>1, <2>2, <2>3, <2>4, <2>5, <2>6, <2>7, <2>8, <2>9, <2>10, <2>11, <2>12, <2>13,
       <2>14 DEF Next
<1>3. QED
  BY <1>1, <1>2, PTL DEF Spec

(* What the run of MCAccounts checks of both parts, side by side.          *)
THEOREM AccessTypes == Spec /\ KeysSpec => []TypesOK
<1>1. TypeOK /\ KeysTypeOK => TypesOK
  BY DEF TypesOK
<1>2. QED
  BY <1>1, AccountsTypes, KeysTypes, PTL

-----------------------------------------------------------------------------
(* Operator accounts: one account for an address                           *)

(* Outside of the addresses whose registrations overlapped, an address is  *)
(* registered once, and nobody inserts it who is not the only one and has  *)
(* not found it free.                                                      *)
DistinctInv ==
  \A e \in Emails \ overlapped :
    /\ \A u, v \in AccountsOf(e) : u = v
    /\ \A c \in Clients : pc[c] = "insert" /\ email[c] = e =>
         /\ AccountsOf(e) = {}
         /\ \A d \in Clients : pc[d] = "insert" /\ email[d] = e => d = c

(* Steps that write no address and bring nobody to the insertion keep it.  *)
LEMMA AddressesKeepDistinct ==
  ASSUME DistinctInv, overlapped \subseteq overlapped',
         \A u \in Users : user'[u].email = user[u].email,
         \A c \in Clients : pc'[c] = "insert" => pc[c] = "insert" /\ email'[c] = email[c]
  PROVE  DistinctInv'
<1>1. \A e : AccountsOf(e)' = AccountsOf(e)
  BY DEF AccountsOf, Registered
<1>2. QED
  BY <1>1 DEF DistinctInv

LEMMA CheckKeepsDistinct ==
  ASSUME TypeOK, DistinctInv, NEW c \in Clients, CheckEmail(c)
  PROVE  DistinctInv'
<1>1. CASE AccountsOf(email[c]) # {}
  BY <1>1, AddressesKeepDistinct DEF TypeOK, CheckEmail, Finish, Goto
<1>2. CASE AccountsOf(email[c]) = {}
  <2>1. /\ pc' = [pc EXCEPT ![c] = "insert"] /\ UNCHANGED <<user, email>>
        /\ overlapped \subseteq overlapped'
        /\ email[c] \notin overlapped' =>
             \A d \in Clients : ~(pc[d] = "insert" /\ email[d] = email[c])
    BY <1>2 DEF CheckEmail, Goto, request
  <2>2. \A e : AccountsOf(e)' = AccountsOf(e)
    BY <2>1 DEF AccountsOf, Registered
  <2>3. \A d \in Clients : pc'[d] = IF d = c THEN "insert" ELSE pc[d]
    BY <2>1 DEF TypeOK
  <2>4. QED
    BY <1>2, <2>1, <2>2, <2>3 DEF DistinctInv
<1>3. QED
  BY <1>1, <1>2

LEMMA InsertKeepsDistinct ==
  ASSUME TypeOK, DistinctInv, NEW c \in Clients, InsertUser(c)
  PROVE  DistinctInv'
<1>1. PICK u \in Users \ Registered :
        user' = [user EXCEPT ![u] = [NoAccount EXCEPT !.email = email[c]]]
  BY DEF InsertUser
<1>2. /\ pc[c] = "insert" /\ UNCHANGED <<email, overlapped>>
      /\ \A d \in Clients : pc'[d] = "insert" => d # c /\ pc[d] = "insert"
  BY DEF TypeOK, InsertUser, Goto, history
<1>3. email[c] \in Emails /\ email[c] # NoEmail /\ NoEmail \notin Emails
  BY AccountsAssumption DEF TypeOK
<1>4. user'[u].email = email[c] /\ \A v \in Users \ {u} : user'[v] = user[v]
  BY <1>1 DEF TypeOK, NoAccount
<1>5. ASSUME NEW e \in Emails
      PROVE  AccountsOf(e)' = IF e = email[c] THEN AccountsOf(e) \cup {u} ELSE AccountsOf(e)
  <2>1. user[u].email = NoEmail
    BY DEF Registered
  <2>2. QED
    BY <1>3, <1>4, <2>1 DEF AccountsOf, Registered
<1>6. QED
  BY <1>2, <1>3, <1>5 DEF DistinctInv

LEMMA DistinctInvHolds == Spec => []DistinctInv
<1>1. Init => DistinctInv
  BY AccountsAssumption DEF Init, DistinctInv, AccountsOf, Registered, NoAccount
<1>2. TypeOK /\ DistinctInv /\ [Next]_vars => DistinctInv'
  <2> SUFFICES ASSUME TypeOK, DistinctInv, [Next]_vars PROVE DistinctInv'
    OBVIOUS
  <2>1. ASSUME NEW c \in Clients, NEW e \in Emails, NEW label \in {"register", "login"},
               Begin(c, e, label)
        PROVE DistinctInv'
    BY <2>1, AddressesKeepDistinct DEF TypeOK, Begin, Goto, history
  <2>2. ASSUME NEW c \in Clients, CheckEmail(c) PROVE DistinctInv'
    BY <2>2, CheckKeepsDistinct
  <2>3. ASSUME NEW c \in Clients, InsertUser(c) PROVE DistinctInv'
    BY <2>3, InsertKeepsDistinct
  <2>4. ASSUME NEW c \in Clients, InsertFails(c) PROVE DistinctInv'
    BY <2>4, AddressesKeepDistinct DEF TypeOK, InsertFails, Finish, Goto, history
  <2>5. ASSUME NEW c \in Clients, FindUser(c) PROVE DistinctInv'
    BY <2>5, AddressesKeepDistinct DEF TypeOK, FindUser, Finish, Goto, history
  <2>6. ASSUME NEW c \in Clients, WrongPassword(c) PROVE DistinctInv'
    <3>1. \A u \in Users : user'[u].email = user[u].email
      <4>1. /\ row[c] \in Users /\ user \in [Users -> Account]
            /\ user' = [user EXCEPT ![row[c]] = Failed(user[row[c]])]
        BY <2>6 DEF TypeOK, WrongPassword, Failed, Account
      <4>2. Failed(user[row[c]]).email = user[row[c]].email
        BY <4>1, FailedAccount DEF TypeOK
      <4>3. QED
        BY <4>1, <4>2
    <3>2. QED
      BY <2>6, <3>1, AddressesKeepDistinct DEF TypeOK, WrongPassword, Finish, Goto
  <2>7. ASSUME NEW c \in Clients, RightPassword(c) PROVE DistinctInv'
    BY <2>7, AddressesKeepDistinct DEF TypeOK, RightPassword, Goto, request, history
  <2>8. ASSUME NEW c \in Clients, CreateSession(c) PROVE DistinctInv'
    <3>1. \A u \in Users : user'[u].email = user[u].email
      BY <2>8 DEF TypeOK, CreateSession
    <3>2. QED
      BY <2>8, <3>1, AddressesKeepDistinct DEF TypeOK, CreateSession, Finish, Goto
  <2>9. ASSUME NEW c \in Clients, SessionFails(c) \/ CountFails(c) PROVE DistinctInv'
    BY <2>9, AddressesKeepDistinct DEF TypeOK, SessionFails, CountFails, Finish, Goto, history
  <2>10. ASSUME NEW c \in Clients, NEW t \in Tokens, FindSession(c, t) PROVE DistinctInv'
    BY <2>10, AddressesKeepDistinct DEF TypeOK, FindSession, Goto, history
  <2>11. ASSUME NEW c \in Clients, Touch(c) PROVE DistinctInv'
    BY <2>11, AddressesKeepDistinct DEF TypeOK, Touch, Finish, Goto, history
  <2>12. ASSUME NEW t \in Tokens, RevokeSession(t) PROVE DistinctInv'
    BY <2>12, AddressesKeepDistinct DEF RevokeSession, request, history
  <2>13. CASE Tick
    BY <2>13, AddressesKeepDistinct DEF Tick, request, history
  <2>14. CASE UNCHANGED vars
    BY <2>14, AddressesKeepDistinct DEF vars
  <2>15. QED
    BY <2>1, <2>2, <2>3, <2>4, <2>5, <2>6, <2>7, <2>8, <2>9, <2>10, <2>11, <2>12, <2>13,
       <2>14 DEF Next
<1>3. QED
  BY <1>1, <1>2, AccountsTypes, PTL DEF Spec

(* "An account with this email already exists": registerOperator() founds  *)
(* no second account for an address, unless two registrations of it were   *)
(* both between the check and the commit.                                  *)
THEOREM OneAccountForAnAddress == Spec => []AccountsAreDistinct
<1>1. DistinctInv => AccountsAreDistinct
  <2> SUFFICES ASSUME DistinctInv, NEW e \in Emails \ overlapped
               PROVE  Cardinality(AccountsOf(e)) <= 1
    BY DEF AccountsAreDistinct
  <2>1. CASE AccountsOf(e) = {}
    BY <2>1, FS_EmptySet
  <2>2. CASE AccountsOf(e) # {}
    <3>1. PICK u : AccountsOf(e) = {u}
      BY <2>2 DEF DistinctInv
    <3>2. QED
      BY <3>1, FS_Singleton
  <2>3. QED
    BY <2>1, <2>2
<1>2. QED
  BY <1>1, DistinctInvHolds, PTL

-----------------------------------------------------------------------------
(* Operator accounts: guesses are bounded                                  *)

(* Lock periods: one LockTime later is the next one, later is not earlier, *)
(* and as many requests again fit into it.                                 *)
LEMMA NextPeriod ==
  ASSUME NEW t \in Nat
  PROVE  t \div LockTime \in Nat /\ (t + LockTime) \div LockTime = 1 + t \div LockTime
  BY AccountsAssumption

LEMMA LaterPeriod ==
  ASSUME NEW s \in Nat, NEW t \in Nat, s <= t
  PROVE  s \div LockTime <= t \div LockTime
  BY AccountsAssumption

LEMMA MorePeriods ==
  ASSUME NEW n \in Nat, NEW x \in Nat, NEW y \in Nat, x <= y
  PROVE  n * x \in Nat /\ n * x <= n * y /\ n * (1 + x) = n + n * x
  OBVIOUS

(* What is still to be answered for an account: the requests that found it *)
(* unlocked and compare a password now. While it is locked nobody joins    *)
(* them.                                                                   *)
InFlight(u) == {c \in Clients : pc[c] = "password" /\ row[c] = u}
Waiting(u) == IF Locked(u) THEN Cardinality(InFlight(u)) ELSE 0

LEMMA Flights ==
  ASSUME NEW u
  PROVE  /\ IsFiniteSet(InFlight(u)) /\ Cardinality(InFlight(u)) \in Nat
         /\ Cardinality(Clients) \in Nat /\ Cardinality(InFlight(u)) <= Cardinality(Clients)
         /\ Waiting(u) \in Nat /\ Waiting(u) <= Cardinality(InFlight(u))
<1>1. InFlight(u) \subseteq Clients /\ IsFiniteSet(Clients)
  BY AccountsAssumption DEF InFlight
<1>2. /\ IsFiniteSet(InFlight(u)) /\ Cardinality(InFlight(u)) <= Cardinality(Clients)
  BY <1>1, FS_Subset
<1>3. Cardinality(InFlight(u)) \in Nat /\ Cardinality(Clients) \in Nat
  BY <1>1, <1>2, FS_CardinalityType
<1>4. QED
  BY <1>2, <1>3 DEF Waiting

(* No request goes on with an account that does not exist, and one that    *)
(* does not exist has not been guessed at.                                 *)
RowInv ==
  /\ \A u \in Users \ Registered : guesses[u] = 0
  /\ \A c \in Clients : row[c] # NoUser => row[c] \in Registered

(* The counter of the account counts the guesses; at the limit it is       *)
(* locked; and those guesses, with the ones in flight as long as the lock  *)
(* holds, fit into the lock periods up to the end of the last lock.        *)
Covered(u) ==
  /\ user[u].failures = guesses[u]
  /\ user[u].lockedUntil = Never <=> guesses[u] < MaxFailures
  /\ user[u].lockedUntil # Never =>
       /\ user[u].lockedUntil <= now + LockTime
       /\ guesses[u] + Waiting(u) <=
            MaxFailures - 1 + Cardinality(Clients) * (user[u].lockedUntil \div LockTime)

GuessInv == RowInv /\ \A u \in Users : Covered(u)

(* A step that leaves the counters of an account alone and brings nobody   *)
(* to it while it is locked.                                               *)
LEMMA CountersKeepCovered ==
  ASSUME TypeOK, TypeOK', NEW u \in Users, Covered(u), now <= now',
         user'[u].failures = user[u].failures, user'[u].lockedUntil = user[u].lockedUntil,
         guesses'[u] = guesses[u], Locked(u) => InFlight(u)' \subseteq InFlight(u)
  PROVE  Covered(u)'
<1>1. CASE user[u].lockedUntil = Never
  BY <1>1 DEF Covered
<1>2. CASE user[u].lockedUntil # Never
  <2>1. user[u].lockedUntil \in Nat
    BY <1>2 DEF TypeOK
  <2>2. Locked(u)' => Locked(u)
    BY <2>1 DEF Locked, TypeOK
  <2>3. /\ Waiting(u) \in Nat
        /\ Waiting(u) = IF Locked(u) THEN Cardinality(InFlight(u)) ELSE 0
        /\ Waiting(u)' = IF Locked(u)' THEN Cardinality(InFlight(u)') ELSE 0
    BY Flights DEF Waiting
  <2>4. Waiting(u)' <= Waiting(u) /\ Waiting(u)' \in Nat
    <3>1. CASE ~Locked(u)'
      BY <3>1, <2>3
    <3>2. CASE Locked(u)'
      <4>1. IsFiniteSet(InFlight(u)) /\ InFlight(u)' \subseteq InFlight(u)
        BY <3>2, <2>2, Flights
      <4>2. IsFiniteSet(InFlight(u)') /\ Cardinality(InFlight(u)') <= Cardinality(InFlight(u))
        BY <4>1, FS_Subset
      <4>3. Cardinality(InFlight(u)') \in Nat
        BY <4>2, FS_CardinalityType
      <4>4. QED
        BY <4>2, <4>3, <3>2, <2>2, <2>3
    <3>3. QED
      BY <3>1, <3>2
  <2> DEFINE bound == MaxFailures - 1 +
                        Cardinality(Clients) * (user[u].lockedUntil \div LockTime)
  <2>5. bound \in Int /\ guesses[u] \in Nat /\ guesses[u] + Waiting(u) <= bound
    <3>1. /\ user[u].lockedUntil \div LockTime \in Nat /\ Cardinality(Clients) \in Nat
          /\ MaxFailures \in Nat
      BY <2>1, NextPeriod, Flights, AccountsAssumption
    <3>2. Cardinality(Clients) * (user[u].lockedUntil \div LockTime) \in Nat
      BY <3>1, MorePeriods
    <3>3. QED
      BY <3>1, <3>2, <1>2 DEF TypeOK, Covered
  <2>6. bound' = bound
    OBVIOUS
  <2>7. guesses'[u] + Waiting(u)' <= bound
    <3> HIDE DEF bound
    <3> QED
      BY <2>3, <2>4, <2>5
  <2>8. user[u].lockedUntil <= now' + LockTime
    BY <1>2, <2>1, AccountsAssumption DEF TypeOK, Covered
  <2>9. QED
    BY <2>7, <2>8, <1>2 DEF Covered
<1>3. QED
  BY <1>1, <1>2

(* A wrong password: one guess more and one request in flight less; it     *)
(* counts against the lock that holds, or begins a new one.                *)
LEMMA WrongPasswordIsCovered ==
  ASSUME TypeOK, TypeOK', GuessInv, NEW c \in Clients, WrongPassword(c)
  PROVE  \A u \in Users : Covered(u)'
<1> DEFINE N == Cardinality(Clients)
<1>0. PICK u \in Users : u = row[c]
  BY DEF TypeOK, WrongPassword
<1>1. /\ u = row[c] /\ user \in [Users -> Account] /\ now \in Nat /\ guesses[u] \in Nat
      /\ user' = [user EXCEPT ![u] = Failed(user[u])] /\ now' = now
      /\ guesses' = [guesses EXCEPT ![u] = guesses[u] + 1]
      /\ pc[c] = "password" /\ pc' = [pc EXCEPT ![c] = "idle"]
      /\ row' = [row EXCEPT ![c] = NoUser] /\ NoUser \notin Users
  BY <1>0 DEF TypeOK, WrongPassword, Failed, Finish, Goto, Account, NoUser, Users
<1>2. ASSUME NEW v \in Users, v # u
      PROVE  Covered(v)'
  <2>1. InFlight(v)' = InFlight(v) /\ user'[v] = user[v] /\ guesses'[v] = guesses[v]
    BY <1>1, <1>2 DEF InFlight, TypeOK
  <2>2. QED
    BY <1>1, <2>1, CountersKeepCovered DEF GuessInv
<1>3. Covered(u)'
  <2>1. InFlight(u)' = InFlight(u) \ {c} /\ c \in InFlight(u)
    BY <1>1 DEF InFlight, TypeOK
  <2>2. /\ Cardinality(InFlight(u)') = Cardinality(InFlight(u)) - 1
        /\ Cardinality(InFlight(u)) \in Nat /\ Cardinality(InFlight(u)) <= N /\ N \in Nat
    BY <2>1, Flights, FS_RemoveElement
  <2>3. /\ guesses'[u] = guesses[u] + 1 /\ user[u].failures = guesses[u]
        /\ user'[u].failures = guesses[u] + 1
        /\ user'[u].lockedUntil = IF guesses[u] + 1 >= MaxFailures THEN now + LockTime
                                  ELSE user[u].lockedUntil
    <3>1. user'[u] = Failed(user[u]) /\ user[u] \in Account
      BY <1>1
    <3>2. user[u].failures = guesses[u]
      BY <1>1 DEF GuessInv, Covered
    <3>3. QED
      BY <1>1, <3>1, <3>2, FailedAccount DEF TypeOK
  <2>4. /\ MaxFailures \in Nat \ {0} /\ LockTime \in Nat \ {0} /\ Never \notin Int
        /\ now + LockTime \in Nat
    BY <1>1, AccountsAssumption
  <2>5. CASE guesses[u] + 1 < MaxFailures
    <3>1. user[u].lockedUntil = Never
      BY <1>1, <2>4, <2>5 DEF GuessInv, Covered
    <3>2. user'[u].lockedUntil = Never
      BY <3>1, <2>3, <2>4, <2>5, <1>1
    <3>3. QED
      BY <3>2, <2>3, <2>5 DEF Covered
  <2>6. CASE guesses[u] + 1 >= MaxFailures
    <3> DEFINE k == now \div LockTime
    <3>1. user'[u].lockedUntil = now + LockTime /\ Locked(u)'
      BY <2>3, <2>4, <2>6, <1>1 DEF Locked
    <3>2. Waiting(u)' = Cardinality(InFlight(u)) - 1
      BY <3>1, <2>2 DEF Waiting
    <3>3. /\ k \in Nat /\ (now + LockTime) \div LockTime = 1 + k
          /\ N * k \in Nat /\ N * (1 + k) = N + N * k
      BY <1>1, <2>2, NextPeriod, MorePeriods
    <3>4. guesses[u] + Cardinality(InFlight(u)) <= MaxFailures - 1 + N * (1 + k)
      <4>1. CASE user[u].lockedUntil = Never
        <5>1. guesses[u] < MaxFailures
          BY <4>1, <1>1 DEF GuessInv, Covered
        <5> HIDE DEF k, N
        <5>2. QED
          BY <5>1, <1>1, <2>2, <2>4, <3>3
      <4>2. CASE user[u].lockedUntil # Never
        <5> DEFINE l == user[u].lockedUntil
        <5>1. /\ l \in Nat /\ l <= now + LockTime
              /\ guesses[u] + Waiting(u) <= MaxFailures - 1 + N * (l \div LockTime)
          BY <4>2, <1>1 DEF GuessInv, Covered, TypeOK
        <5>2. CASE Locked(u)
          <6>1. /\ l \div LockTime \in Nat /\ l \div LockTime <= 1 + k
                /\ Waiting(u) = Cardinality(InFlight(u))
            BY <5>1, <5>2, <2>4, <3>3, NextPeriod, LaterPeriod DEF Waiting
          <6>2. N * (l \div LockTime) \in Nat /\ N * (l \div LockTime) <= N * (1 + k)
            BY <6>1, <2>2, <3>3, MorePeriods
          <6> HIDE DEF l, k, N
          <6>3. QED
            BY <6>1, <6>2, <5>1, <1>1, <2>2, <2>4, <3>3
        <5>3. CASE ~Locked(u)
          <6>1. l <= now /\ Waiting(u) = 0
            BY <5>1, <5>3, <4>2, <1>1 DEF Locked, Waiting
          <6>2. l \div LockTime \in Nat /\ l \div LockTime <= k
            BY <6>1, <5>1, <1>1, NextPeriod, LaterPeriod
          <6>3. N * (l \div LockTime) \in Nat /\ N * (l \div LockTime) <= N * k
            BY <6>2, <2>2, <3>3, MorePeriods
          <6> HIDE DEF l, k, N
          <6>4. QED
            BY <6>1, <6>3, <5>1, <1>1, <2>2, <2>4, <3>3
        <5>4. QED
          BY <5>2, <5>3
      <4>3. QED
        BY <4>1, <4>2
    <3>5. guesses'[u] + Waiting(u)' <=
            MaxFailures - 1 + N * (user'[u].lockedUntil \div LockTime)
      <4>1. guesses'[u] + Waiting(u)' = guesses[u] + Cardinality(InFlight(u))
        BY <1>1, <2>2, <2>3, <3>2
      <4>2. QED
        BY <4>1, <3>1, <3>3, <3>4
    <3>6. /\ user'[u].failures = guesses'[u]
          /\ ~(guesses'[u] < MaxFailures) /\ user'[u].lockedUntil # Never
          /\ user'[u].lockedUntil <= now' + LockTime
      BY <1>1, <2>3, <2>4, <2>6, <3>1
    <3>7. QED
      BY <3>5, <3>6 DEF Covered
  <2>7. QED
    BY <2>5, <2>6, <1>1, <2>4
<1>4. QED
  BY <1>2, <1>3

(* A session resets the counter and the lock together.                     *)
LEMMA SessionIsCovered ==
  ASSUME TypeOK, TypeOK', GuessInv, NEW c \in Clients, CreateSession(c)
  PROVE  \A u \in Users : Covered(u)'
<1>0. PICK u \in Users : u = row[c]
  BY DEF TypeOK, CreateSession
<1>1. /\ u = row[c] /\ NoUser \notin Users /\ pc[c] = "session" /\ now' = now /\ now <= now'
      /\ user' = [user EXCEPT ![u] =
                    [user[u] EXCEPT !.failures = 0, !.lockedUntil = Never]]
      /\ guesses' = [guesses EXCEPT ![u] = 0]
      /\ pc' = [pc EXCEPT ![c] = "idle"] /\ row' = [row EXCEPT ![c] = NoUser]
  BY <1>0 DEF TypeOK, CreateSession, Finish, Goto, NoUser, Users
<1>2. ASSUME NEW v \in Users, v # u
      PROVE  Covered(v)'
  <2>1. InFlight(v)' = InFlight(v) /\ user'[v] = user[v] /\ guesses'[v] = guesses[v]
    BY <1>1, <1>2 DEF InFlight, TypeOK
  <2>2. QED
    BY <1>1, <2>1, CountersKeepCovered DEF GuessInv
<1>3. Covered(u)'
  <2>1. user[u] \in Account
    BY <1>1 DEF TypeOK, Account
  <2>2. user'[u].failures = 0 /\ user'[u].lockedUntil = Never
    <3>1. user'[u] = [user[u] EXCEPT !.failures = 0, !.lockedUntil = Never]
      BY <1>1 DEF TypeOK
    <3>2. user'[u] = [email |-> user[u].email, failures |-> 0, lockedUntil |-> Never]
      BY <2>1, <3>1, AccountFields
    <3>3. QED
      BY <3>2
  <2>3. guesses'[u] = 0 /\ 0 < MaxFailures
    BY <1>1, AccountsAssumption DEF TypeOK
  <2>4. QED
    BY <2>2, <2>3 DEF Covered
<1>4. QED
  BY <1>2, <1>3

(* Nobody comes to a locked account: the others leave its counters alone.  *)
LEMMA OthersKeepCovered ==
  ASSUME TypeOK, TypeOK', GuessInv, UNCHANGED <<user, guesses>>, now <= now',
         \A c \in Clients : pc'[c] = "password" =>
           \/ pc[c] = "password" /\ row'[c] = row[c]
           \/ \E u \in Users : row'[c] = u /\ ~Locked(u)
  PROVE  \A u \in Users : Covered(u)'
<1> SUFFICES ASSUME NEW u \in Users PROVE Covered(u)'
  OBVIOUS
<1>1. Locked(u) => InFlight(u)' \subseteq InFlight(u)
  BY DEF InFlight
<1>2. QED
  BY <1>1, CountersKeepCovered DEF GuessInv

LEMMA RowInvHolds == Spec => []RowInv
<1>1. Init => RowInv
  BY DEF Init, RowInv
<1>2. TypeOK /\ TypeOK' /\ RowInv /\ [Next]_vars => RowInv'
  <2> SUFFICES ASSUME TypeOK, TypeOK', RowInv, [Next]_vars PROVE RowInv'
    OBVIOUS
  <2> USE DEF TypeOK, RowInv
  <2>0. ASSUME \A u \in Users : user'[u].email = user[u].email,
               \A u \in Users : u \notin Registered => guesses'[u] = 0,
               \A c \in Clients : row'[c] \in {row[c], NoUser} \cup Registered
        PROVE  RowInv'
    BY <2>0 DEF Registered
  <2>1. ASSUME NEW c \in Clients, NEW e \in Emails, NEW label \in {"register", "login"},
               Begin(c, e, label)
        PROVE RowInv'
    BY <2>0, <2>1 DEF Begin, history
  <2>2. ASSUME NEW c \in Clients, CheckEmail(c) PROVE RowInv'
    BY <2>0, <2>2 DEF CheckEmail, Finish, request
  <2>3. ASSUME NEW c \in Clients, InsertUser(c) PROVE RowInv'
    <3>1. PICK u \in Users \ Registered :
            /\ user' = [user EXCEPT ![u] = [NoAccount EXCEPT !.email = email[c]]]
            /\ row' = [row EXCEPT ![c] = u]
      BY <2>3 DEF InsertUser
    <3>2. user'[u].email # NoEmail
      BY <3>1, AccountsAssumption DEF NoAccount
    <3>3. Registered' = Registered \cup {u}
      BY <3>1, <3>2 DEF Registered
    <3>4. QED
      BY <2>3, <3>1, <3>3 DEF InsertUser, history
  <2>4. ASSUME NEW c \in Clients, InsertFails(c) PROVE RowInv'
    BY <2>0, <2>4 DEF InsertFails, Finish, history
  <2>5. ASSUME NEW c \in Clients, FindUser(c) PROVE RowInv'
    <3>1. \A e : AccountsOf(e) \subseteq Registered
      BY DEF AccountsOf
    <3>2. \A d \in Clients : row'[d] \in {row[d], NoUser} \cup Registered
      BY <2>5, <3>1 DEF FindUser, Finish
    <3>3. QED
      BY <2>0, <2>5, <3>2 DEF FindUser, history
  <2>6. ASSUME NEW c \in Clients, WrongPassword(c) PROVE RowInv'
    <3>1. /\ row[c] \in Users /\ user \in [Users -> Account] /\ row[c] \in Registered
          /\ user' = [user EXCEPT ![row[c]] = Failed(user[row[c]])]
      BY <2>6 DEF WrongPassword, Failed, Account
    <3>2. Failed(user[row[c]]).email = user[row[c]].email
      BY <3>1, FailedAccount
    <3>3. \A u \in Users : user'[u].email = user[u].email
      BY <3>1, <3>2
    <3>4. QED
      BY <2>0, <2>6, <3>1, <3>3 DEF WrongPassword, Finish
  <2>7. ASSUME NEW c \in Clients, RightPassword(c) PROVE RowInv'
    BY <2>0, <2>7 DEF RightPassword, request, history
  <2>8. ASSUME NEW c \in Clients, CreateSession(c) PROVE RowInv'
    <3>1. \A u \in Users : user'[u].email = user[u].email
      BY <2>8 DEF CreateSession
    <3>2. \A u \in Users : u \notin Registered => guesses'[u] = 0
      BY <2>8 DEF CreateSession
    <3>3. QED
      BY <2>0, <2>8, <3>1, <3>2 DEF CreateSession, Finish
  <2>9. ASSUME NEW c \in Clients, SessionFails(c) \/ CountFails(c) PROVE RowInv'
    BY <2>0, <2>9 DEF SessionFails, CountFails, Finish, history
  <2>10. ASSUME NEW c \in Clients, NEW t \in Tokens, FindSession(c, t) PROVE RowInv'
    BY <2>0, <2>10 DEF FindSession, history
  <2>11. ASSUME NEW c \in Clients, Touch(c) PROVE RowInv'
    BY <2>0, <2>11 DEF Touch, Finish, history
  <2>12. ASSUME NEW t \in Tokens, RevokeSession(t) PROVE RowInv'
    BY <2>0, <2>12 DEF RevokeSession, request, history
  <2>13. CASE Tick
    BY <2>0, <2>13 DEF Tick, request, history
  <2>14. CASE UNCHANGED vars
    BY <2>0, <2>14 DEF vars
  <2>15. QED
    BY <2>1, <2>2, <2>3, <2>4, <2>5, <2>6, <2>7, <2>8, <2>9, <2>10, <2>11, <2>12, <2>13,
       <2>14 DEF Next
<1>3. QED
  BY <1>1, <1>2, AccountsTypes, PTL DEF Spec

LEMMA GuessInvHolds == Spec => []GuessInv
<1>1. Init => GuessInv
  BY AccountsAssumption DEF Init, GuessInv, RowInv, Covered, NoAccount
<1>2. TypeOK /\ TypeOK' /\ GuessInv /\ RowInv' /\ [Next]_vars => GuessInv'
  <2> SUFFICES ASSUME TypeOK, TypeOK', GuessInv, [Next]_vars
               PROVE  \A u \in Users : Covered(u)'
    BY DEF GuessInv
  <2>0. now <= now
    BY DEF TypeOK
  <2>1. ASSUME NEW c \in Clients, NEW e \in Emails, NEW label \in {"register", "login"},
               Begin(c, e, label)
        PROVE \A u \in Users : Covered(u)'
    BY <2>0, <2>1, OthersKeepCovered DEF TypeOK, Begin, Goto, history
  <2>2. ASSUME NEW c \in Clients, CheckEmail(c) PROVE \A u \in Users : Covered(u)'
    BY <2>0, <2>2, OthersKeepCovered DEF TypeOK, CheckEmail, Finish, Goto, request
  <2>3. ASSUME NEW c \in Clients, InsertUser(c) PROVE \A u \in Users : Covered(u)'
    <3>1. PICK u \in Users \ Registered :
            /\ user' = [user EXCEPT ![u] = [NoAccount EXCEPT !.email = email[c]]]
            /\ row' = [row EXCEPT ![c] = u]
      BY <2>3 DEF InsertUser
    <3>2. /\ pc' = [pc EXCEPT ![c] = "session"] /\ now' = now /\ guesses' = guesses
          /\ guesses[u] = 0
      BY <2>3 DEF InsertUser, Goto, history, GuessInv, RowInv
    <3>3. Covered(u)'
      <4>1. user'[u].failures = 0 /\ user'[u].lockedUntil = Never
        BY <3>1 DEF TypeOK, NoAccount
      <4>2. QED
        BY <3>2, <4>1, AccountsAssumption DEF Covered
    <3>4. ASSUME NEW v \in Users, v # u PROVE Covered(v)'
      <4>1. InFlight(v)' \subseteq InFlight(v) /\ user'[v] = user[v]
        BY <3>1, <3>2, <3>4 DEF InFlight, TypeOK
      <4>2. QED
        BY <2>0, <3>2, <4>1, CountersKeepCovered DEF GuessInv
    <3>5. QED
      BY <3>3, <3>4
  <2>4. ASSUME NEW c \in Clients, InsertFails(c) PROVE \A u \in Users : Covered(u)'
    BY <2>0, <2>4, OthersKeepCovered DEF TypeOK, InsertFails, Finish, Goto, history
  <2>5. ASSUME NEW c \in Clients, FindUser(c) PROVE \A u \in Users : Covered(u)'
    <3>1. CASE Finish(c)
      BY <2>0, <2>5, <3>1, OthersKeepCovered DEF TypeOK, FindUser, Finish, Goto, history
    <3>2. CASE ~Finish(c)
      <4>1. PICK u \in AccountsOf(email[c]) :
              /\ ~Locked(u) /\ row' = [row EXCEPT ![c] = u] /\ Goto(c, "password")
        BY <2>5, <3>2 DEF FindUser
      <4>2. u \in Users
        BY DEF AccountsOf, Registered
      <4>3. QED
        BY <2>0, <2>5, <4>1, <4>2, OthersKeepCovered DEF TypeOK, FindUser, Goto, history
    <3>3. QED
      BY <3>1, <3>2
  <2>6. ASSUME NEW c \in Clients, WrongPassword(c) PROVE \A u \in Users : Covered(u)'
    BY <2>6, WrongPasswordIsCovered
  <2>7. ASSUME NEW c \in Clients, RightPassword(c) PROVE \A u \in Users : Covered(u)'
    BY <2>0, <2>7, OthersKeepCovered DEF TypeOK, RightPassword, Goto, request, history
  <2>8. ASSUME NEW c \in Clients, CreateSession(c) PROVE \A u \in Users : Covered(u)'
    BY <2>8, SessionIsCovered
  <2>9. ASSUME NEW c \in Clients, SessionFails(c) \/ CountFails(c) PROVE \A u \in Users : Covered(u)'
    BY <2>0, <2>9, OthersKeepCovered DEF TypeOK, SessionFails, CountFails, Finish, Goto, history
  <2>10. ASSUME NEW c \in Clients, NEW t \in Tokens, FindSession(c, t)
         PROVE \A u \in Users : Covered(u)'
    BY <2>0, <2>10, OthersKeepCovered DEF TypeOK, FindSession, Goto, history
  <2>11. ASSUME NEW c \in Clients, Touch(c) PROVE \A u \in Users : Covered(u)'
    BY <2>0, <2>11, OthersKeepCovered DEF TypeOK, Touch, Finish, Goto, history
  <2>12. ASSUME NEW t \in Tokens, RevokeSession(t) PROVE \A u \in Users : Covered(u)'
    BY <2>0, <2>12, OthersKeepCovered DEF RevokeSession, request, history
  <2>13. CASE Tick
    BY <2>13, OthersKeepCovered DEF TypeOK, Tick, request, history
  <2>14. CASE UNCHANGED vars
    BY <2>0, <2>14, OthersKeepCovered DEF vars
  <2>15. QED
    BY <2>1, <2>2, <2>3, <2>4, <2>5, <2>6, <2>7, <2>8, <2>9, <2>10, <2>11, <2>12, <2>13,
       <2>14 DEF Next
<1>3. QED
  BY <1>1, <1>2, RowInvHolds, AccountsTypes, PTL DEF Spec

(* locked_until slows guessing down however many requests overlap with the *)
(* check of authenticateOperator(): for every number of clients, limit and *)
(* length of the lock, the wrong passwords answered for an account since   *)
(* its last session are the ones below the limit and one for every client  *)
(* in each lock period.                                                    *)
THEOREM GuessingIsSlow == Spec => []GuessesAreBounded
<1>1. TypeOK /\ GuessInv => GuessesAreBounded
  <2> SUFFICES ASSUME TypeOK, GuessInv, NEW u \in Users
               PROVE  guesses[u] <=
                        MaxFailures - 1 + Cardinality(Clients) * (1 + now \div LockTime)
    BY DEF GuessesAreBounded
  <2> DEFINE N == Cardinality(Clients)
             k == now \div LockTime
  <2>1. /\ N \in Nat /\ now \in Nat /\ guesses[u] \in Nat /\ MaxFailures \in Nat
        /\ LockTime \in Nat /\ now + LockTime \in Nat /\ Covered(u)
    <3>1. N \in Nat
      BY FS_CardinalityType, AccountsAssumption
    <3>2. QED
      BY <3>1, AccountsAssumption DEF TypeOK, GuessInv
  <2>2. /\ k \in Nat /\ 1 + k \in Nat /\ (now + LockTime) \div LockTime = 1 + k
        /\ N * (1 + k) \in Nat
    <3>1. k \in Nat /\ (now + LockTime) \div LockTime = 1 + k
      BY <2>1, NextPeriod
    <3>2. 1 + k \in Nat /\ 1 + k <= 1 + k
      BY <3>1
    <3>3. N * (1 + k) \in Nat
      BY <2>1, <3>2, MorePeriods
    <3>4. QED
      BY <3>1, <3>2, <3>3
  <2>3. CASE user[u].lockedUntil = Never
    <3>1. guesses[u] < MaxFailures
      BY <2>1, <2>3 DEF Covered
    <3> HIDE DEF N, k
    <3>2. guesses[u] <= MaxFailures - 1 + N * (1 + k)
      BY <2>1, <2>2, <3>1
    <3>3. QED
      BY <3>2 DEF N, k
  <2>4. CASE user[u].lockedUntil # Never
    <3> DEFINE l == user[u].lockedUntil
    <3>1. /\ l \in Nat /\ l <= now + LockTime /\ Waiting(u) \in Nat
          /\ guesses[u] + Waiting(u) <= MaxFailures - 1 + N * (l \div LockTime)
      BY <2>1, <2>4, Flights DEF Covered, TypeOK
    <3>2. l \div LockTime \in Nat /\ l \div LockTime <= 1 + k
      BY <2>1, <2>2, <3>1, NextPeriod, LaterPeriod
    <3>3. N * (l \div LockTime) \in Nat /\ N * (l \div LockTime) <= N * (1 + k)
      BY <2>1, <2>2, <3>2, MorePeriods
    <3>4. guesses[u] <= MaxFailures - 1 + N * (1 + k)
      <4> HIDE DEF N, k, l
      <4> QED
        BY <2>1, <2>2, <3>1, <3>3
    <3>5. QED
      BY <3>4
  <2>5. QED
    BY <2>3, <2>4
<1>2. QED
  BY <1>1, AccountsTypes, GuessInvHolds, PTL
=============================================================================
