------------------------------ MODULE Accounts ------------------------------
(***************************************************************************)
(* Operator accounts: registration, password login with a failure counter  *)
(* and a temporary lock, sessions. A step is one SQL statement or one      *)
(* transaction; between two steps of a request scrypt runs, and every      *)
(* other request may.                                                      *)
(***************************************************************************)
EXTENDS Integers, FiniteSets

CONSTANTS
  Clients,       \* concurrent requests
  Emails,        \* normalized addresses
  MaxUsers,      \* bound on the accounts
  MaxSessions,   \* bound on the sessions
  MaxFailures,   \* MAX_FAILURES
  LockTime,      \* 15 minutes, in ticks
  SessionTime,   \* 7 days, in ticks
  MaxTime,       \* bound on the clock
  NoEmail,       \* the account does not exist
  Never          \* a null timestamp

ASSUME AccountsAssumption ==
  /\ IsFiniteSet(Clients) /\ NoEmail \notin Emails /\ Never \notin Int
  /\ {MaxUsers, MaxSessions, MaxTime} \subseteq Nat
  /\ {MaxFailures, LockTime, SessionTime} \subseteq Nat \ {0}

Users == 1..MaxUsers        \* in the order of insertion; each founds its organization
Tokens == 1..MaxSessions    \* in the order of insertion
NoUser == 0
NoToken == 0

VARIABLES
  user,       \* net_users: email, failures, lockedUntil
  session,    \* net_auth_sessions: user, expires, revoked, seen (last_seen_at)
  now,        \* the clock of the server and of the database
  pc,         \* where each request stands
  email,      \* the address each request is about
  row,        \* the account each request goes on with
  token,      \* the session each request was let in by
  guesses,    \* history: wrong passwords answered as such since the last session
  overlapped  \* history: addresses two registrations were inserting at once

vars == <<user, session, now, pc, email, row, token, guesses, overlapped>>
request == <<email, row, token>>
history == <<guesses, overlapped>>

NoAccount == [email |-> NoEmail, failures |-> 0, lockedUntil |-> Never]
NoSession == [user |-> NoUser, expires |-> 0, revoked |-> FALSE, seen |-> 0]

Registered == {u \in Users : user[u].email # NoEmail}
AccountsOf(e) == {u \in Registered : user[u].email = e}
Opened == {t \in Tokens : session[t].user # NoUser}

Init ==
  /\ user = [u \in Users |-> NoAccount]
  /\ session = [t \in Tokens |-> NoSession]
  /\ now = 0
  /\ pc = [c \in Clients |-> "idle"]
  /\ email \in [Clients -> Emails]
  /\ row = [c \in Clients |-> NoUser] /\ token = [c \in Clients |-> NoToken]
  /\ guesses = [u \in Users |-> 0] /\ overlapped = {}

Goto(c, label) == pc' = [pc EXCEPT ![c] = label]

(* Mutant of Finish: the account of one request is left to the next.       *)
FinishHolding(c) == Goto(c, "idle") /\ UNCHANGED request

(* The request is answered.                                                *)
Finish(c) == /\ Goto(c, "idle")
             /\ row' = [row EXCEPT ![c] = NoUser]
             /\ token' = [token EXCEPT ![c] = NoToken]
             /\ UNCHANGED email

Begin(c, e, label) ==
  /\ pc[c] = "idle"
  /\ email' = [email EXCEPT ![c] = e]
  /\ Goto(c, label)
  /\ UNCHANGED <<user, session, now, row, token, history>>

-----------------------------------------------------------------------------
(* registerOperator                                                        *)

(* Mutant of CheckEmail: the existence check is left to the unique index,  *)
(* which is on (organization_id, email) and never fires.                   *)
CheckEmailNever(c) ==
  /\ pc[c] = "register"
  /\ Goto(c, "insert")
  /\ UNCHANGED <<user, session, now, request, history>>

(* select 1 from net_users where lower(email) = ...: committed rows only.  *)
CheckEmail(c) ==
  /\ pc[c] = "register"
  /\ IF AccountsOf(email[c]) # {}
     THEN Finish(c) /\ UNCHANGED overlapped
     ELSE /\ Goto(c, "insert")
          /\ overlapped' = IF \E d \in Clients : pc[d] = "insert" /\ email[d] = email[c]
                           THEN overlapped \cup {email[c]} ELSE overlapped
          /\ UNCHANGED request
  /\ UNCHANGED <<user, session, now, guesses>>

(* The new organization, its operator and the event commit together.       *)
InsertUser(c) ==
  /\ pc[c] = "insert"
  /\ \E u \in Users \ Registered :
       /\ \A v \in Users \ Registered : u <= v
       /\ user' = [user EXCEPT ![u] = [NoAccount EXCEPT !.email = email[c]]]
       /\ row' = [row EXCEPT ![c] = u]
  /\ Goto(c, "session")
  /\ UNCHANGED <<session, now, email, token, history>>

(* The transaction rolls back.                                             *)
InsertFails(c) ==
  /\ pc[c] = "insert"
  /\ Finish(c)
  /\ UNCHANGED <<user, session, now, history>>

-----------------------------------------------------------------------------
(* authenticateOperator                                                    *)

Locked(u) == user[u].lockedUntil # Never /\ user[u].lockedUntil > now

(* select ... where lower(email) = $1 limit 1, and the lock check.         *)
FindUser(c) ==
  /\ pc[c] = "login"
  /\ \/ /\ AccountsOf(email[c]) = {}
        /\ Finish(c)
     \/ \E u \in AccountsOf(email[c]) :
          IF Locked(u) THEN Finish(c)
          ELSE /\ row' = [row EXCEPT ![c] = u]
               /\ Goto(c, "password")
               /\ UNCHANGED <<email, token>>
  /\ UNCHANGED <<user, session, now, history>>

(* Mutant of Failed: only the failure that reaches the limit locks.        *)
FailedLockingOnce(account) ==
  LET count == account.failures + 1 IN
    [account EXCEPT !.failures = count,
                    !.lockedUntil = IF count = MaxFailures THEN now + LockTime ELSE @]

(* set failed_login_count = failed_login_count + 1, locked_until = case... *)
Failed(account) ==
  LET count == account.failures + 1 IN
    [account EXCEPT !.failures = count,
                    !.lockedUntil = IF count >= MaxFailures THEN now + LockTime ELSE @]

WrongPassword(c) ==
  /\ pc[c] = "password"
  /\ user' = [user EXCEPT ![row[c]] = Failed(@)]
  /\ guesses' = [guesses EXCEPT ![row[c]] = @ + 1]
  /\ Finish(c)
  /\ UNCHANGED <<session, now, overlapped>>

(* The update fails: the request ends in that error, and nothing counts.   *)
CountFails(c) ==
  /\ pc[c] = "password"
  /\ Finish(c)
  /\ UNCHANGED <<user, session, now, history>>

RightPassword(c) ==
  /\ pc[c] = "password"
  /\ Goto(c, "session")
  /\ UNCHANGED <<user, session, now, request, history>>

-----------------------------------------------------------------------------
(* Sessions                                                                *)

(* createSession: the session and the reset of the counter commit together *)
(* or fail together.                                                       *)
CreateSession(c) ==
  /\ pc[c] = "session"
  /\ \E t \in Tokens \ Opened :
       /\ \A other \in Tokens \ Opened : t <= other
       /\ session' = [session EXCEPT ![t] =
            [user |-> row[c], expires |-> now + SessionTime, revoked |-> FALSE, seen |-> now]]
  /\ user' = [user EXCEPT ![row[c]] = [@ EXCEPT !.failures = 0, !.lockedUntil = Never]]
  /\ guesses' = [guesses EXCEPT ![row[c]] = 0]
  /\ Finish(c)
  /\ UNCHANGED <<now, overlapped>>

SessionFails(c) ==
  /\ pc[c] = "session"
  /\ Finish(c)
  /\ UNCHANGED <<user, session, now, history>>

(* getSession, requireSession: the cookie's session is not revoked and has  *)
(* not expired; its user was inserted ACTIVE and stays so. Otherwise the   *)
(* request is refused.                                                     *)
Valid(t) == t \in Opened /\ ~session[t].revoked /\ session[t].expires > now

FindSession(c, t) ==
  /\ pc[c] = "idle"
  /\ Valid(t)
  /\ token' = [token EXCEPT ![c] = t]
  /\ Goto(c, "seen")
  /\ UNCHANGED <<user, session, now, email, row, history>>

(* update net_auth_sessions set last_seen_at = now() where id = ...: the   *)
(* row may be revoked or expired by now. If the update fails, so does the  *)
(* request.                                                                *)
Touch(c) ==
  /\ pc[c] = "seen"
  /\ \/ session' = [session EXCEPT ![token[c]].seen = now]
     \/ UNCHANGED session
  /\ Finish(c)
  /\ UNCHANGED <<user, now, history>>

(* revokeSession: the row of the cookie's token, if it is not yet revoked. *)
RevokeSession(t) ==
  /\ t \in Opened
  /\ ~session[t].revoked
  /\ session' = [session EXCEPT ![t].revoked = TRUE]
  /\ UNCHANGED <<user, now, pc, request, history>>

Tick ==
  /\ now < MaxTime
  /\ now' = now + 1
  /\ UNCHANGED <<user, session, pc, request, history>>

Next ==
  \/ \E c \in Clients, e \in Emails : Begin(c, e, "register") \/ Begin(c, e, "login")
  \/ \E c \in Clients :
       \/ CheckEmail(c) \/ InsertUser(c) \/ InsertFails(c)
       \/ FindUser(c) \/ WrongPassword(c) \/ RightPassword(c)
       \/ CreateSession(c) \/ SessionFails(c) \/ CountFails(c) \/ Touch(c)
       \/ \E t \in Tokens : FindSession(c, t)
  \/ \E t \in Tokens : RevokeSession(t)
  \/ Tick

Spec == Init /\ [][Next]_vars

-----------------------------------------------------------------------------
(* Properties                                                              *)

(* Every variable has its type.                                            *)
TypeOK ==
  /\ user \in [Users -> [email : Emails \cup {NoEmail}, failures : Nat,
                         lockedUntil : Nat \cup {Never}]]
  /\ session \in [Tokens -> [user : Users \cup {NoUser}, expires : Nat, revoked : BOOLEAN,
                             seen : Nat]]
  /\ now \in Nat
  /\ pc \in [Clients -> {"idle", "register", "insert", "login", "password", "session",
                         "seen"}]
  /\ email \in [Clients -> Emails]
  /\ row \in [Clients -> Users \cup {NoUser}]
  /\ \A c \in Clients : pc[c] \in {"password", "session"} <=> row[c] # NoUser
  /\ token \in [Clients -> Tokens \cup {NoToken}]
  /\ \A c \in Clients : pc[c] = "seen" <=> token[c] # NoToken
  /\ guesses \in [Users -> Nat] /\ overlapped \subseteq Emails

(* The lock check reads the row before scrypt runs, so requests in flight  *)
(* are still answered when the lock is set. They are all that gets past    *)
(* it: after the first MaxFailures - 1, each lock period lets one wrong    *)
(* password per concurrent request through. A guess whose update failed is *)
(* answered with that error and bounded by nothing; it is not counted here.*)
GuessesAreBounded ==
  \A u \in Users :
    guesses[u] <= MaxFailures - 1 + Cardinality(Clients) * (1 + now \div LockTime)

(* "An account with this email already exists" (auth.mjs): two accounts    *)
(* share an address only if their registrations overlapped between the     *)
(* check and the commit; no unique index forbids it.                       *)
AccountsAreDistinct ==
  \A e \in Emails \ overlapped : Cardinality(AccountsOf(e)) <= 1
=============================================================================
