------------------------- MODULE CommunicationsPage -------------------------
(***************************************************************************)
(* The page of the communication centre: what is selected, what is shown,  *)
(* and where a message goes. Requests are answered in any order, or fail;  *)
(* none is aborted when the selection moves on.                            *)
(***************************************************************************)
EXTENDS Integers

CONSTANTS Listed,     \* conversations in the list, numbered from the first
          MaxLoads,   \* bound on the loads of one conversation under way
          NoConv      \* null

ASSUME PageAssumption ==
  /\ Listed \subseteq Nat \ {0} /\ MaxLoads \in Nat \ {0} /\ NoConv \notin Listed

VARIABLES
  list,       \* "loading", "loaded", or "failed" for the first time
  activeId,   \* the selected conversation
  active,     \* the conversation whose messages, title and form are shown
  loads,      \* loads[k]: loadConversation(k) calls under way
  sending,    \* "no", "posting", or "reloading"
  to,         \* activeId in the closure of send()
  astray      \* history: why active is not activeId, if no load is to blame

pageVars == <<list, activeId, active, loads, sending, to, astray>>

PageInit ==
  /\ list = "loading" /\ activeId = NoConv /\ active = NoConv
  /\ loads = [k \in Listed |-> 0]
  /\ sending = "no" /\ to = NoConv /\ astray = "no"

(* loadConversation(k) is called.                                          *)
Load(k) == loads[k] < MaxLoads /\ loads' = [loads EXCEPT ![k] = @ + 1]

(* setActiveId(k), and the effect of the page on activeId.                 *)
SelectAndLoad(k) == activeId' = k /\ astray' = "no" /\ Load(k)

(* loadConversations() at the start; an empty list selects nothing.        *)
ListArrivesFirst ==
  /\ list = "loading"
  /\ list' = "loaded"
  /\ \/ \E k \in Listed : (\A j \in Listed : k <= j) /\ SelectAndLoad(k)
     \/ Listed = {} /\ UNCHANGED <<activeId, astray, loads>>
  /\ UNCHANGED <<active, sending, to>>

(* It is not tried again.                                                  *)
ListFailsFirst ==
  /\ list = "loading"
  /\ list' = "failed"
  /\ UNCHANGED <<activeId, active, loads, sending, to, astray>>

(* Mutant of Select: the effect does not depend on activeId.               *)
SelectOnly(k) ==
  /\ list = "loaded" /\ k # activeId
  /\ activeId' = k /\ astray' = "no"
  /\ UNCHANGED <<list, active, loads, sending, to>>

(* A click on a conversation; a click on the selected one changes nothing. *)
Select(k) ==
  /\ list = "loaded" /\ k # activeId
  /\ SelectAndLoad(k)
  /\ UNCHANGED <<list, active, sending, to>>

(* setActive(data.conversation), whatever is selected by now.              *)
LoadArrives(k) ==
  /\ loads[k] > 0
  /\ loads' = [loads EXCEPT ![k] = @ - 1]
  /\ active' = k
  /\ astray' = IF k = activeId THEN "no" ELSE "overtaken"
  /\ UNCHANGED <<list, activeId, sending, to>>

(* setError(): what was shown stays.                                       *)
LoadFails(k) ==
  /\ loads[k] > 0
  /\ loads' = [loads EXCEPT ![k] = @ - 1]
  /\ astray' = IF k = activeId /\ active # activeId THEN "failed" ELSE astray
  /\ UNCHANGED <<list, activeId, active, sending, to>>

(* The form is there when something is shown; the message goes to what is  *)
(* selected.                                                               *)
Send ==
  /\ active # NoConv /\ activeId # NoConv /\ sending = "no"
  /\ sending' = "posting" /\ to' = activeId
  /\ UNCHANGED <<list, activeId, active, loads, astray>>

(* Stored: the conversation of the closure is loaded, and the list.        *)
PostStored ==
  /\ sending = "posting"
  /\ sending' = "reloading"
  /\ Load(to)
  /\ UNCHANGED <<list, activeId, active, to, astray>>

(* The request failed; or both loads are answered, or one of them failed   *)
(* and the other is still under way.                                       *)
SendEnds ==
  /\ sending # "no"
  /\ sending' = "no" /\ to' = NoConv
  /\ UNCHANGED <<list, activeId, active, loads, astray>>

PageNext ==
  \/ ListArrivesFirst \/ ListFailsFirst \/ Send \/ PostStored \/ SendEnds
  \/ \E k \in Listed : Select(k) \/ LoadArrives(k) \/ LoadFails(k)

(* The browser settles every request it has sent.                          *)
PageFairness ==
  /\ \A k \in Listed : WF_pageVars(LoadArrives(k) \/ LoadFails(k))
  /\ WF_pageVars(SendEnds)

PageSpec == PageInit /\ [][PageNext]_pageVars

-----------------------------------------------------------------------------
(* Properties                                                              *)

(* Every variable has its type.                                            *)
PageTypeOK ==
  /\ list \in {"loading", "loaded", "failed"}
  /\ {activeId, active, to} \subseteq Listed \cup {NoConv}
  /\ loads \in [Listed -> 0..MaxLoads]
  /\ sending \in {"no", "posting", "reloading"}
  /\ astray \in {"no", "failed", "overtaken"}

(* A message is written under the conversation that it goes to: what is    *)
(* shown is what is selected, however answers are ordered, except while    *)
(* the selected one is still loading, after its load has failed, or after  *)
(* an answer for another one came in last.                                 *)
ShownIsSelected ==
  active # activeId =>
    \/ activeId # NoConv /\ loads[activeId] > 0
    \/ astray # "no"
=============================================================================
