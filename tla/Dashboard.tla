----------------------------- MODULE Dashboard -----------------------------
(***************************************************************************)
(* The network console: a page that refreshes itself, and the routes that  *)
(* answer it. The overview asks the network for its health and then for    *)
(* its sessions; /api/net/health asks at another moment. A refresh takes   *)
(* as long as its slowest request, so refreshes overlap.                   *)
(***************************************************************************)
EXTENDS Integers

CONSTANTS
  Refreshes,   \* refreshes that may be under way together
  MaxChanges,  \* bound on the changes of the network
  MaxLosses,   \* bound on the requests that fail
  Nothing      \* null; no answer yet

ASSUME DashboardAssumption == {MaxChanges, MaxLosses} \subseteq Nat

(* What is configured: one of the providers, only a database, or nothing.  *)
Providers == {"mikrotik-rest", "omada-openapi"}
Sources == Providers \cup {"postgresql", "none"}

(* What a source can have behind it; partial: healthy, but a list fails.   *)
NetworkStates == {"up", "partial", "down"}
StatesOf(s) == CASE s = "mikrotik-rest" -> NetworkStates
                 [] s = "omada-openapi" -> {"up", "down"}
                 [] OTHER -> {"down"}

VARIABLES
  source,           \* of Sources
  network, changes, \* environment
  mounted,          \* the page is open: not cancelled, not sent to /login
  initial,          \* the first refresh of the page is this one
  stage,            \* of each refresh: "idle", "session", or "fetching"
  probed,           \* health in the overview request of each refresh
  overview, health, \* answers of each refresh
  live, shown,      \* what the page shows of them
  losses

dashboardVars == <<source, network, changes, mounted, initial, stage, probed, overview, health,
                   live, shown, losses>>
environment == <<source, network, changes>>
answers == <<probed, overview, health>>
screen == <<live, shown>>

DashboardInit ==
  /\ source \in Sources /\ network \in StatesOf(source) /\ changes = 0
  /\ mounted = FALSE /\ initial = Nothing /\ losses = 0
  /\ stage = [r \in Refreshes |-> "idle"]
  /\ probed = [r \in Refreshes |-> Nothing]
  /\ overview = [r \in Refreshes |-> Nothing] /\ health = [r \in Refreshes |-> Nothing]
  /\ live = Nothing /\ shown = Nothing

(* checkNetworkHealth()                                                    *)
Healthy == source \in Providers /\ network # "down"

(* What the overview says when the network was healthy or not at first. It *)
(* asks for the sessions only if a provider has them: Omada has none.      *)
Overview(ok) ==
  IF source = "none" THEN "unconfigured"
  ELSE IF source # "mikrotik-rest" \/ network = "up" THEN (IF ok THEN "healthy" ELSE "unknown")
  ELSE (IF ok THEN "degraded" ELSE "failed")

Change(state) ==
  /\ state \in StatesOf(source) \ {network} /\ changes < MaxChanges
  /\ network' = state /\ changes' = changes + 1
  /\ UNCHANGED <<source, mounted, initial, stage, answers, screen, losses>>

StartRefresh(r) ==
  /\ stage[r] = "idle"
  /\ stage' = [stage EXCEPT ![r] = "session"]
  /\ UNCHANGED <<environment, answers, screen, losses>>

Mount(r) ==
  /\ ~mounted /\ initial = Nothing
  /\ mounted' = TRUE /\ initial' = r
  /\ StartRefresh(r)

(* Mutant of Interval: a refresh is due when the last one has succeeded.   *)
IntervalAfterSuccess(r) == mounted /\ losses = 0 /\ StartRefresh(r) /\ UNCHANGED <<mounted, initial>>

(* Every 15 seconds, whatever has become of the last refresh.              *)
Interval(r) == mounted /\ StartRefresh(r) /\ UNCHANGED <<mounted, initial>>

Authenticated(r) ==
  /\ stage[r] = "session"
  /\ stage' = [stage EXCEPT ![r] = "fetching"]
  /\ UNCHANGED <<environment, mounted, initial, answers, screen, losses>>

(* window.location.assign("/login"), or the component is unmounted.        *)
Leave ==
  /\ mounted
  /\ mounted' = FALSE
  /\ UNCHANGED <<environment, initial, stage, answers, screen, losses>>

(* GET /api/net/overview, up to its first await.                           *)
Probe(r) ==
  /\ stage[r] = "fetching" /\ probed[r] = Nothing
  /\ probed' = [probed EXCEPT ![r] = Healthy]
  /\ UNCHANGED <<environment, mounted, initial, stage, overview, health, screen, losses>>

(* ... and the rest: the sessions, and the status 200, 502 or 503.         *)
OverviewArrives(r) ==
  /\ probed[r] # Nothing /\ overview[r] = Nothing
  /\ overview' = [overview EXCEPT ![r] = Overview(probed[r])]
  /\ UNCHANGED <<environment, mounted, initial, stage, probed, health, screen, losses>>

HealthArrives(r) ==
  /\ stage[r] = "fetching" /\ health[r] = Nothing
  /\ health' = [health EXCEPT ![r] = IF Healthy THEN "ok" ELSE "not ok"]
  /\ UNCHANGED <<environment, mounted, initial, stage, probed, overview, screen, losses>>

(* Any other status counts as null.                                        *)
BadStatus(r) ==
  /\ stage[r] = "fetching" /\ losses < MaxLosses
  /\ losses' = losses + 1
  /\ \/ probed[r] # Nothing /\ overview[r] = Nothing
        /\ overview' = [overview EXCEPT ![r] = "null"] /\ UNCHANGED health
     \/ health[r] = Nothing /\ health' = [health EXCEPT ![r] = "null"] /\ UNCHANGED overview
  /\ UNCHANGED <<environment, mounted, initial, stage, probed, screen>>

Forgets(r) ==
  /\ stage' = [stage EXCEPT ![r] = "idle"]
  /\ probed' = [probed EXCEPT ![r] = Nothing]
  /\ overview' = [overview EXCEPT ![r] = Nothing] /\ health' = [health EXCEPT ![r] = Nothing]
  /\ initial' = IF initial = r THEN "done" ELSE initial
  /\ UNCHANGED <<environment, mounted>>

(* setLive, setHealth: together, in the order in which refreshes end.      *)
Apply(r) ==
  /\ overview[r] # Nothing /\ health[r] # Nothing
  /\ IF mounted THEN live' = overview[r] /\ shown' = health[r] ELSE UNCHANGED screen
  /\ Forgets(r) /\ UNCHANGED losses

(* A request or its JSON fails: the first refresh clears the screen, a     *)
(* later one leaves it as it is.                                           *)
RefreshFails(r) ==
  /\ stage[r] # "idle" /\ losses < MaxLosses
  /\ losses' = losses + 1
  /\ IF mounted /\ initial = r THEN live' = Nothing /\ shown' = Nothing ELSE UNCHANGED screen
  /\ Forgets(r)

Progress(r) == Authenticated(r) \/ Probe(r) \/ OverviewArrives(r) \/ HealthArrives(r) \/ Apply(r)

DashboardNext ==
  \/ \E state \in NetworkStates : Change(state)
  \/ \E r \in Refreshes : Mount(r) \/ Interval(r) \/ Progress(r) \/ BadStatus(r) \/ RefreshFails(r)
  \/ Leave

(* The timer fires, and every request is answered in the end.              *)
DashboardFairness == \A r \in Refreshes : WF_dashboardVars(Interval(r)) /\ WF_dashboardVars(Progress(r))

DashboardSpec == DashboardInit /\ [][DashboardNext]_dashboardVars

-----------------------------------------------------------------------------
(* Properties                                                              *)

(* Every variable has its type.                                            *)
DashboardTypeOK ==
  /\ source \in Sources /\ network \in StatesOf(source)
  /\ changes \in 0..MaxChanges /\ losses \in 0..MaxLosses
  /\ mounted \in BOOLEAN /\ initial \in Refreshes \cup {Nothing, "done"}
  /\ stage \in [Refreshes -> {"idle", "session", "fetching"}]
  /\ probed \in [Refreshes -> BOOLEAN \cup {Nothing}]
  /\ {overview[r] : r \in Refreshes} \cup {live} \subseteq
       {"healthy", "unknown", "degraded", "failed", "unconfigured", "null", Nothing}
  /\ {health[r] : r \in Refreshes} \cup {shown} \subseteq {"ok", "not ok", "null", Nothing}

(* The page is behind the network only for a while: once the network stays *)
(* as it is and requests are answered, an open page comes to show its      *)
(* state and goes on showing it, although a late refresh may put older     *)
(* evidence back and a failed one leaves it there.                         *)
DashboardCatchesUp ==
  <>[](mounted => live = Overview(Healthy) /\ shown = IF Healthy THEN "ok" ELSE "not ok")
=============================================================================
