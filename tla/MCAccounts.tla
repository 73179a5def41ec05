----------------------------- MODULE MCAccounts -----------------------------
(* Who may use the system: operators with a password and a session, and    *)
(* callers with an API key. Two requests, one address that both may        *)
(* register, a lock at the second failure that lasts one tick; two callers *)
(* and two keys. The two share no state and are explored as a sum: one     *)
(* takes steps while the other is in its initial state.                    *)
EXTENDS Accounts, ApiKeys

MCInit == Init /\ KeysInit
MCNext ==
  \/ KeysInit /\ Next /\ UNCHANGED keyVars
  \/ Init /\ KeysNext /\ UNCHANGED vars
MCSpec == MCInit /\ [][MCNext]_<<vars, keyVars>>

(* Every variable has its type.                                            *)
TypesOK == TypeOK /\ KeysTypeOK
=============================================================================
