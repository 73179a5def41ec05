------------------------- MODULE SessionDisconnect -------------------------
(***************************************************************************)
(* POST /api/net/sessions/disconnect behind its gate, and the MikroTik     *)
(* adapter that it drives: a session is removed from the router, and the   *)
(* route polls the lists of active sessions until it is gone. Operators    *)
(* disconnect the same session, clients come and go, requests fail or time *)
(* out after the router has acted, and an answer may not be a list at all. *)
(***************************************************************************)
EXTENDS Integers, FiniteSets

CONSTANTS
  Operators,    \* concurrent requests
  Sessions,     \* ids of active sessions; a client that returns gets a new one
  HotspotIds,   \* those of the hotspot; the others are PPPoE
  MaxAttempts,  \* 4 polls
  MaxNetFaults, \* bound on failures and garbled answers
  NoSession     \* none; also one that was never there

ASSUME DisconnectAssumption ==
  /\ HotspotIds \subseteq Sessions /\ NoSession \notin Sessions
  /\ MaxAttempts \in Nat \ {0} /\ MaxNetFaults \in Nat

Lists == {"ip/hotspot/active", "ppp/active"}
ListOf(s) == IF s \in HotspotIds THEN "ip/hotspot/active" ELSE "ppp/active"

VARIABLES
  online, departed,  \* sessions the router has, and has had
  stand, victim,     \* where each request stands, and the session it names
  attempt,           \* the poll it is at
  listed,            \* lists of this poll that have arrived
  remaining,         \* the session was in the list of its type
  misread,           \* history: that list was an answer without rows
  netFaults

disconnectVars == <<online, departed, stand, victim, attempt, listed, remaining, misread, netFaults>>
router == <<online, departed>>
poll == <<attempt, listed, remaining, misread>>

DisconnectInit ==
  /\ online = {} /\ departed = {} /\ netFaults = 0
  /\ stand = [o \in Operators |-> "idle"] /\ victim = [o \in Operators |-> NoSession]
  /\ attempt = [o \in Operators |-> 1] /\ listed = [o \in Operators |-> {}]
  /\ remaining = [o \in Operators |-> FALSE] /\ misread = [o \in Operators |-> FALSE]

Stand(o, label) == stand' = [stand EXCEPT ![o] = label]
Fault == netFaults < MaxNetFaults /\ netFaults' = netFaults + 1

-----------------------------------------------------------------------------
(* The router                                                              *)

Connect(s) ==
  /\ s \notin online \cup departed
  /\ online' = online \cup {s}
  /\ UNCHANGED <<departed, stand, victim, poll, netFaults>>

Gone(s) == online' = online \ {s} /\ departed' = departed \cup {s}

Depart(s) == s \in online /\ Gone(s) /\ UNCHANGED <<stand, victim, poll, netFaults>>

-----------------------------------------------------------------------------
(* The route                                                               *)

(* An operator names a session that a list has shown, by its id and type;  *)
(* one that no list has shown if the type, "hotspot" by default, does not  *)
(* go with the id.                                                         *)
Post(o, s) ==
  /\ stand[o] = "idle" /\ s \in online \cup departed \cup {NoSession}
  /\ victim' = [victim EXCEPT ![o] = s]
  /\ Stand(o, "removing")
  /\ UNCHANGED <<router, poll, netFaults>>

(* disconnect(): acknowledged, and in effect now or a little later; a      *)
(* session that is not there is an error, and the route answers 502.       *)
Remove(o) ==
  /\ stand[o] = "removing"
  /\ IF victim[o] \in online
     THEN Stand(o, "polling") /\ (Gone(victim[o]) \/ UNCHANGED router)
     ELSE Stand(o, "502") /\ UNCHANGED router
  /\ UNCHANGED <<victim, poll, netFaults>>

(* The answer is lost or too late: the router has acted, or not.           *)
RemoveLost(o) ==
  /\ stand[o] = "removing" /\ Fault
  /\ (victim[o] \in online /\ Gone(victim[o])) \/ UNCHANGED router
  /\ Stand(o, "502")
  /\ UNCHANGED <<victim, poll>>

Arrived(o, list, found, garbled) ==
  /\ stand[o] = "polling" /\ list \in Lists \ listed[o]
  /\ listed' = [listed EXCEPT ![o] = @ \cup {list}]
  /\ IF list = ListOf(victim[o])
     THEN /\ remaining' = [remaining EXCEPT ![o] = found]
          /\ misread' = [misread EXCEPT ![o] = garbled]
     ELSE UNCHANGED <<remaining, misread>>
  /\ UNCHANGED <<router, stand, victim, attempt>>

(* Mutant of ListArrives: the session is looked for in whatever came last. *)
ListArrivesEither(o, list) ==
  /\ stand[o] = "polling" /\ list \in Lists \ listed[o]
  /\ listed' = [listed EXCEPT ![o] = @ \cup {list}]
  /\ remaining' = [remaining EXCEPT ![o] = victim[o] \in online /\ list = ListOf(victim[o])]
  /\ UNCHANGED <<router, stand, victim, attempt, misread, netFaults>>

(* getSessions() asks for both lists at once.                              *)
ListArrives(o, list) ==
  Arrived(o, list, victim[o] \in online, FALSE) /\ UNCHANGED netFaults

(* 200 with a body that is not JSON, or an empty one: asList() makes of it *)
(* one row without an id, or none.                                         *)
ListGarbled(o, list) == Arrived(o, list, FALSE, TRUE) /\ Fault

(* Either list fails: Promise.all rejects, and the route answers 502.      *)
ListFails(o) ==
  /\ stand[o] = "polling" /\ listed[o] # Lists /\ Fault
  /\ Stand(o, "502")
  /\ UNCHANGED <<router, victim, poll>>

(* Mutant of Settle: polls until the session is gone.                      *)
SettleWhenGone(o) ==
  /\ stand[o] = "polling" /\ listed[o] = Lists
  /\ Stand(o, IF ~remaining[o] THEN "200" ELSE "polling")
  /\ listed' = [listed EXCEPT ![o] = {}]
  /\ UNCHANGED <<router, victim, attempt, remaining, misread, netFaults>>

(* verified, the next poll, or 409 after the last.                         *)
Settle(o) ==
  LET next == remaining[o] /\ attempt[o] < MaxAttempts IN
  /\ stand[o] = "polling" /\ listed[o] = Lists
  /\ Stand(o, IF next THEN "polling" ELSE IF remaining[o] THEN "409" ELSE "200")
  /\ attempt' = [attempt EXCEPT ![o] = IF next THEN @ + 1 ELSE @]
  /\ listed' = [listed EXCEPT ![o] = IF next THEN {} ELSE @]
  /\ UNCHANGED <<router, victim, remaining, misread, netFaults>>

(* The operator has read the answer.                                       *)
Dismiss(o) ==
  /\ stand[o] \in {"200", "409", "502"}
  /\ Stand(o, "idle")
  /\ victim' = [victim EXCEPT ![o] = NoSession] /\ attempt' = [attempt EXCEPT ![o] = 1]
  /\ listed' = [listed EXCEPT ![o] = {}]
  /\ remaining' = [remaining EXCEPT ![o] = FALSE] /\ misread' = [misread EXCEPT ![o] = FALSE]
  /\ UNCHANGED <<router, netFaults>>

DisconnectStep(o) == Remove(o) \/ Settle(o) \/ \E list \in Lists : ListArrives(o, list)

DisconnectNext ==
  \/ \E s \in Sessions : Connect(s) \/ Depart(s)
  \/ \E o \in Operators :
       \/ \E s \in Sessions \cup {NoSession} : Post(o, s)
       \/ DisconnectStep(o) \/ RemoveLost(o) \/ ListFails(o) \/ Dismiss(o)
       \/ \E list \in Lists : ListGarbled(o, list)

(* The router answers, or the request is aborted after timeoutMs.          *)
DisconnectFairness == \A o \in Operators : WF_disconnectVars(DisconnectStep(o))

DisconnectSpec == DisconnectInit /\ [][DisconnectNext]_disconnectVars

-----------------------------------------------------------------------------
(* Properties                                                              *)

(* Every variable has its type.                                            *)
DisconnectTypeOK ==
  /\ online \subseteq Sessions /\ departed \subseteq Sessions \ online
  /\ stand \in [Operators -> {"idle", "removing", "polling", "200", "409", "502"}]
  /\ victim \in [Operators -> Sessions \cup {NoSession}]
  /\ attempt \in [Operators -> 1..MaxAttempts]
  /\ listed \in [Operators -> SUBSET Lists]
  /\ remaining \in [Operators -> BOOLEAN] /\ misread \in [Operators -> BOOLEAN]
  /\ netFaults \in 0..MaxNetFaults

(* "verified" is true: the session is not on the router, whoever else      *)
(* disconnected it, unless the list that was to show it had no rows; and   *)
(* an error with no fault of the network means that it was gone before,    *)
(* as when a disconnection is repeated, or that there was no such session. *)
VerifiedIsGone ==
  \A o \in Operators :
    /\ stand[o] = "200" /\ ~misread[o] => victim[o] \in departed
    /\ stand[o] = "502" /\ netFaults = 0 => victim[o] \in departed \cup {NoSession}

(* A disconnection is answered, even if the session never goes away.       *)
EveryDisconnectEnds ==
  \A o \in Operators : stand[o] = "removing" ~> stand[o] \in {"200", "409", "502"}
=============================================================================
