----------------------------- MODULE MCConsole -----------------------------
(* What an operator works with: conversations and their page, the network  *)
(* dashboard, session disconnection, and the Omada adapter. The five share *)
(* no state. They are explored as a sum: one takes steps while the others  *)
(* are in their initial states, in which none of their fair actions is     *)
(* enabled, so the fairness of one asks nothing of another.                *)
EXTENDS Conversations, CommunicationsPage, Dashboard, SessionDisconnect, OmadaProvider

CONSTANTS ada, bob, eve

MCOrgOf == [u \in Users |-> IF u = eve THEN "other" ELSE "ours"]

MCInit == Init /\ PageInit /\ DashboardInit /\ DisconnectInit /\ OmadaInit

(* Where the others stand while one runs: of their several initial states  *)
(* one is enough.                                                          *)
DashboardUnused == source = "none"
OmadaUnused == size = CHOOSE n \in ListSizes : TRUE

MCNext ==
  \/ /\ DashboardUnused /\ OmadaUnused
     /\ PageInit /\ DashboardInit /\ DisconnectInit /\ OmadaInit /\ Next
     /\ UNCHANGED <<pageVars, dashboardVars, disconnectVars, omadaVars>>
  \/ /\ DashboardUnused /\ OmadaUnused
     /\ Init /\ DashboardInit /\ DisconnectInit /\ OmadaInit /\ PageNext
     /\ UNCHANGED <<vars, dashboardVars, disconnectVars, omadaVars>>
  \/ /\ OmadaUnused
     /\ Init /\ PageInit /\ DisconnectInit /\ OmadaInit /\ DashboardNext
     /\ UNCHANGED <<vars, pageVars, disconnectVars, omadaVars>>
  \/ /\ DashboardUnused /\ OmadaUnused
     /\ Init /\ PageInit /\ DashboardInit /\ OmadaInit /\ DisconnectNext
     /\ UNCHANGED <<vars, pageVars, dashboardVars, omadaVars>>
  \/ /\ DashboardUnused
     /\ Init /\ PageInit /\ DashboardInit /\ DisconnectInit /\ OmadaNext
     /\ UNCHANGED <<vars, pageVars, dashboardVars, disconnectVars>>

MCVars == <<vars, pageVars, dashboardVars, disconnectVars, omadaVars>>

MCSpec ==
  /\ MCInit /\ [][MCNext]_MCVars
  /\ Fairness /\ DashboardFairness /\ DisconnectFairness /\ OmadaFairness

(* Every variable has its type. *)
TypesOK == TypeOK /\ PageTypeOK /\ DashboardTypeOK /\ DisconnectTypeOK /\ OmadaTypeOK

(* A call of a network provider ends: a disconnection is answered, even if *)
(* the session never goes away, and a list is read or refused, however     *)
(* often tokens are refused.                                               *)
EveryNetworkCallEnds == EveryDisconnectEnds /\ EveryCallEnds
=============================================================================
