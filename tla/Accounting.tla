----------------------------- MODULE Accounting -----------------------------
(***************************************************************************)
(* RADIUS accounting: a NAS reports the sessions it serves over UDP and    *)
(* retransmits each Accounting-Request until it is answered; the server    *)
(* persists the event and the session in one transaction and answers only  *)
(* then. Datagrams are lost, duplicated and reordered, handlers of the     *)
(* same request run concurrently, transactions fail.                       *)
(* A packet of the model has passed parseRadiusPacket and                  *)
(* verifyAccountingRequest: what they reject leaves no trace.              *)
(***************************************************************************)
EXTENDS Integers, FiniteSets, Sequences

CONSTANTS
  Sessions,   \* (nas_identifier, acct_session_id) keys
  Report,     \* Report[k]: the events of session k in the order the NAS sends them
  Handlers,   \* concurrent runs of the message handler
  MaxTime,    \* bound on the clock
  MaxFailures, \* bound on the handlers that fail
  Never       \* a null timestamp

StatusTypes == {"Start", "Interim-Update", "Stop"}

(* What normalizeAccounting() accepts and returns, without receivedAt.     *)
Packets(k) == [session : {k}, type : StatusTypes, octets : Nat, time : Nat]

(* What accountingFingerprint() hashes; receivedAt is not in it.           *)
Events == UNION {{Report[k][i] : i \in DOMAIN Report[k]} : k \in Sessions}

ASSUME ReportAssumption ==
  /\ MaxTime \in Nat /\ MaxFailures \in Nat /\ Never \notin Nat
  /\ \A k \in Sessions :
       Report[k] \in Seq(Packets(k))

VARIABLES
  cursor,     \* the NAS: which event of session k it is sending
  requests,   \* datagrams the network may deliver, again and again
  responses,  \* events whose Accounting-Response may reach the NAS
  pc, packet, \* where each handler stands, and the event it handles
  receivedAt, \* the time it was received
  received,   \* net_accounting_events: received[e], Never when there is no row
  session,    \* net_sessions
  now,
  failures    \* handlers that have failed so far

vars == <<cursor, requests, responses, pc, packet, receivedAt, received, session,
          now, failures>>
nas == <<cursor, requests>>
tables == <<received, session>>

NoSession == [state |-> "ABSENT", started |-> Never, last |-> Never, ended |-> Never, octets |-> 0]
NoPacket == [session |-> "none"]

Persisted(k) == {e \in Events : e.session = k /\ received[e] # Never}

Init ==
  /\ cursor = [k \in Sessions |-> 1]
  /\ requests = {} /\ responses = {}
  /\ pc = [h \in Handlers |-> "idle"]
  /\ packet = [h \in Handlers |-> NoPacket]
  /\ receivedAt = [h \in Handlers |-> Never]
  /\ received = [e \in Events |-> Never]
  /\ session = [k \in Sessions |-> NoSession]
  /\ now = 0 /\ failures = 0

-----------------------------------------------------------------------------
(* The NAS                                                                 *)

Reporting(k) == cursor[k] <= Len(Report[k])
Current(k) == Report[k][cursor[k]]

(* The first transmission; every later delivery is a retransmission.       *)
Send(k) ==
  /\ Reporting(k)
  /\ Current(k) \notin requests
  /\ requests' = requests \cup {Current(k)}
  /\ UNCHANGED <<cursor, responses, pc, packet, receivedAt, tables, now, failures>>

(* The answer arrives, or the NAS gives up and goes on to the next event.  *)
Advance(k) ==
  /\ Reporting(k)
  /\ cursor' = [cursor EXCEPT ![k] = @ + 1]
  /\ UNCHANGED <<requests, responses, pc, packet, receivedAt, tables, now, failures>>

Acknowledged(k) == Advance(k) /\ Current(k) \in responses
GiveUp(k) == Advance(k) /\ Current(k) \in requests

-----------------------------------------------------------------------------
(* socket.on("message"), persistAccounting                                 *)

Receive(h, e) ==
  /\ pc[h] = "idle"
  /\ e \in requests
  /\ pc' = [pc EXCEPT ![h] = "insert"]
  /\ packet' = [packet EXCEPT ![h] = e]
  /\ receivedAt' = [receivedAt EXCEPT ![h] = now]
  /\ UNCHANGED <<nas, responses, tables, now, failures>>

Goto(h, label) ==
  /\ pc' = [pc EXCEPT ![h] = label]
  /\ UNCHANGED <<nas, responses, packet, receivedAt, now, failures>>

(* Mutant of InsertEvent: a row that is being inserted, not committed,     *)
(* already counts as a duplicate.                                          *)
InsertEventWithoutWaiting(h) ==
  /\ pc[h] = "insert"
  /\ Goto(h, IF \/ received[packet[h]] # Never
                \/ \E g \in Handlers : pc[g] = "upsert" /\ packet[g] = packet[h]
             THEN "respond" ELSE "upsert")
  /\ UNCHANGED tables

(* Mutant of InsertEvent: a duplicate is an error, so nothing answers it.  *)
InsertEventRejectingDuplicates(h) ==
  /\ pc[h] = "insert"
  /\ received[packet[h]] = Never
  /\ \A g \in Handlers : ~(pc[g] = "upsert" /\ packet[g] = packet[h])
  /\ Goto(h, "upsert")
  /\ UNCHANGED tables

(* insert into net_accounting_events ... on conflict do nothing: waits for *)
(* the transaction that has inserted the same fingerprint.                 *)
InsertEvent(h) ==
  /\ pc[h] = "insert"
  /\ \A g \in Handlers : ~(pc[g] = "upsert" /\ packet[g] = packet[h])
  /\ Goto(h, IF received[packet[h]] # Never THEN "respond" ELSE "upsert")
  /\ UNCHANGED tables

Coalesce(x, y) == IF x # Never THEN x ELSE y
Greatest(x, y) == IF x = Never \/ y > x THEN y ELSE x

(* Mutant of Merged: the last event written decides, as with a plain       *)
(* "do update set state = excluded.state, input_octets = excluded...".     *)
MergedLastWriterWins(s, e, at) ==
  [state   |-> IF e.type = "Stop" THEN "TERMINATED" ELSE "ACTIVE",
   started |-> Coalesce(s.started, IF e.type = "Start" THEN at ELSE Never),
   last    |-> at,
   ended   |-> Coalesce(s.ended, IF e.type = "Stop" THEN at ELSE Never),
   octets  |-> e.octets]

(* insert into net_sessions ... on conflict do update.                     *)
Merged(s, e, at) ==
  LET state == IF e.type = "Stop" THEN "TERMINATED" ELSE "ACTIVE" IN
    [state   |-> IF s.state = "ABSENT" \/ state = "TERMINATED" THEN state ELSE s.state,
     started |-> Coalesce(s.started, IF e.type = "Start" THEN at ELSE Never),
     last    |-> Greatest(s.last, at),
     ended   |-> Coalesce(s.ended, IF e.type = "Stop" THEN at ELSE Never),
     octets  |-> IF e.octets > s.octets THEN e.octets ELSE s.octets]

(* The session row, then COMMIT of both rows.                              *)
Commit(h) ==
  /\ pc[h] = "upsert"
  /\ received' = [received EXCEPT ![packet[h]] = receivedAt[h]]
  /\ session' = [session EXCEPT ![packet[h].session] = Merged(@, packet[h], receivedAt[h])]
  /\ Goto(h, "respond")

Idle(h) ==
  /\ pc' = [pc EXCEPT ![h] = "idle"]
  /\ packet' = [packet EXCEPT ![h] = NoPacket]
  /\ receivedAt' = [receivedAt EXCEPT ![h] = Never]
  /\ UNCHANGED <<nas, tables, now>>

Respond(h) ==
  /\ pc[h] = "respond"
  /\ responses' = responses \cup {packet[h]}
  /\ Idle(h)
  /\ UNCHANGED failures

(* The transaction rolls back, the process dies, or the answer is lost.    *)
Fail(h) ==
  /\ pc[h] # "idle"
  /\ failures < MaxFailures
  /\ failures' = failures + 1
  /\ Idle(h)
  /\ UNCHANGED responses

Tick == /\ now < MaxTime
        /\ now' = now + 1
        /\ UNCHANGED <<nas, responses, pc, packet, receivedAt, tables, failures>>

Handle(h) == InsertEvent(h) \/ Commit(h) \/ Respond(h)

Next == \/ \E k \in Sessions : Send(k) \/ Acknowledged(k) \/ GiveUp(k)
        \/ \E h \in Handlers, e \in Events : Receive(h, e)
        \/ \E h \in Handlers : Handle(h) \/ Fail(h)
        \/ Tick

Spec == Init /\ [][Next]_vars

(* The NAS transmits and reads its answers; a handler keeps running; and a *)
(* request that is sent again and again is received in the end, however    *)
(* many copies of others arrive.                                           *)
Fairness ==
  /\ \A k \in Sessions : WF_vars(Send(k)) /\ WF_vars(Acknowledged(k))
  /\ \A h \in Handlers : WF_vars(Handle(h))
  /\ \A e \in Events : SF_vars(\E h \in Handlers : Receive(h, e))

FairSpec == Spec /\ Fairness

-----------------------------------------------------------------------------
(* Properties                                                              *)

(* Every variable has its type.                                            *)
TypeOK ==
  /\ cursor \in [Sessions -> Nat \ {0}]
  /\ requests \subseteq Events /\ responses \subseteq Events
  /\ pc \in [Handlers -> {"idle", "insert", "upsert", "respond"}]
  /\ packet \in [Handlers -> Events \cup {NoPacket}]
  /\ receivedAt \in [Handlers -> Nat \cup {Never}]
  /\ received \in [Events -> Nat \cup {Never}]
  /\ session \in [Sessions -> [state : {"ABSENT", "ACTIVE", "TERMINATED"},
                              started : Nat \cup {Never}, last : Nat \cup {Never},
                              ended : Nat \cup {Never}, octets : Nat]]
  /\ now \in Nat /\ failures \in Nat

(* "returns Accounting-Response only after the accounting write succeeds"  *)
(* (README): an event the NAS may stop sending is in the table and in its  *)
(* session.                                                                *)
AnsweredIsPersisted == \A e \in responses : received[e] # Never

(* The session is the same whatever the order, the number of copies and    *)
(* the failures of its events: closed exactly when a Stop was persisted,   *)
(* with the largest counters and the latest time of its persisted events,  *)
(* and never reopened by an event that comes late.                         *)
SessionReflectsItsEvents ==
  \A k \in Sessions :
    LET p == Persisted(k) IN
      /\ session[k].state = IF p = {} THEN "ABSENT"
                            ELSE IF \E e \in p : e.type = "Stop" THEN "TERMINATED" ELSE "ACTIVE"
      /\ \A e \in p : session[k].octets >= e.octets /\ session[k].last >= received[e]
      /\ IF p = {} THEN session[k].last = Never ELSE \E e \in p : session[k].last = received[e]
      /\ session[k].octets > 0 => \E e \in p : session[k].octets = e.octets
      /\ session[k].started # Never <=> \E e \in p : e.type = "Start"
      /\ session[k].ended # Never <=> \E e \in p : e.type = "Stop"

(* No event is lost to a NAS that keeps retransmitting: it is answered, or *)
(* the NAS moves on.                                                       *)
EveryEventIsAnswered ==
  \A k \in Sessions : \A i \in 1..Len(Report[k]) : cursor[k] = i ~> cursor[k] > i
=============================================================================
