--------------------------- MODULE Console_proofs ---------------------------
(***************************************************************************)
(* Theorems about what an operator works with: the page of the             *)
(* communication centre, session disconnection, the Omada adapter, and     *)
(* conversations. Each is a theorem of its own specification; none of the  *)
(* five shares a variable with another.                                    *)
(***************************************************************************)
EXTENDS MCConsole, FiniteSetTheorems, TLAPS
LOCAL INSTANCE FiniteSetsExt

-----------------------------------------------------------------------------
(* The page of the communication centre                                    *)

LEMMA PageStartsTyped == PageInit => PageTypeOK /\ ShownIsSelected
<1> USE PageAssumption DEF PageInit
<1>1. PageInit => PageTypeOK
  BY DEF PageTypeOK
<1>2. PageInit => ShownIsSelected
  BY DEF ShownIsSelected
<1> QED BY <1>1, <1>2

(* Calling loadConversation(k) counts one more load of k, and no fewer of  *)
(* any other conversation.                                                 *)
LEMMA LoadCounts ==
  ASSUME PageTypeOK, NEW k, Load(k)
  PROVE  /\ loads' \in [Listed -> 0..MaxLoads]
         /\ k \in Listed => loads'[k] > 0
         /\ \A j \in Listed : loads'[j] >= loads[j]
<1>0. /\ loads \in [Listed -> 0..MaxLoads] /\ MaxLoads \in Nat
      /\ loads[k] < MaxLoads /\ loads' = [loads EXCEPT ![k] = @ + 1]
  BY PageAssumption DEF PageTypeOK, Load
<1>1. CASE k \in Listed
  BY <1>0, <1>1
<1>2. CASE k \notin Listed
  <2>1. \A j \in Listed : loads'[j] = loads[j]
    BY <1>0, <1>2
  <2>2. loads' \in [Listed -> 0..MaxLoads]
    BY <1>0, <1>2, <2>1
  <2> QED BY <1>0, <1>2, <2>1, <2>2
<1> QED BY <1>1, <1>2

(* And settling one counts one less of k alone.                            *)
LEMMA SettledCounts ==
  ASSUME PageTypeOK, NEW k \in Listed, loads[k] > 0,
         loads' = [loads EXCEPT ![k] = @ - 1]
  PROVE  /\ loads' \in [Listed -> 0..MaxLoads]
         /\ \A j \in Listed \ {k} : loads'[j] = loads[j]
  BY PageAssumption DEF PageTypeOK

LEMMA PageStaysTyped ==
  ASSUME PageTypeOK, [PageNext]_pageVars
  PROVE  PageTypeOK'
<1>1. CASE UNCHANGED pageVars
  BY <1>1 DEF PageTypeOK, pageVars
<1>2. CASE ListArrivesFirst
  <2>1. CASE Listed = {} /\ UNCHANGED <<activeId, astray, loads>>
    BY <1>2, <2>1 DEF PageTypeOK, ListArrivesFirst
  <2>2. CASE \E k \in Listed : SelectAndLoad(k)
    BY <1>2, <2>2, LoadCounts DEF PageTypeOK, ListArrivesFirst, SelectAndLoad
  <2> QED BY <1>2, <2>1, <2>2 DEF ListArrivesFirst
<1>3. CASE ListFailsFirst
  BY <1>3 DEF PageTypeOK, ListFailsFirst
<1>4. CASE Send
  BY <1>4 DEF PageTypeOK, Send
<1>5. CASE PostStored
  BY <1>5, LoadCounts DEF PageTypeOK, PostStored
<1>6. CASE SendEnds
  BY <1>6 DEF PageTypeOK, SendEnds
<1>7. ASSUME NEW k \in Listed, Select(k)
      PROVE  PageTypeOK'
  BY <1>7, LoadCounts DEF PageTypeOK, Select, SelectAndLoad
<1>8. ASSUME NEW k \in Listed, LoadArrives(k)
      PROVE  PageTypeOK'
  BY <1>8, SettledCounts DEF PageTypeOK, LoadArrives
<1>9. ASSUME NEW k \in Listed, LoadFails(k)
      PROVE  PageTypeOK'
  BY <1>9, SettledCounts DEF PageTypeOK, LoadFails
<1> QED BY <1>1, <1>2, <1>3, <1>4, <1>5, <1>6, <1>7, <1>8, <1>9 DEF PageNext

(* The page of the communication centre has its type.                      *)
THEOREM PageTypes == PageSpec => []PageTypeOK
<1>1. PageInit => PageTypeOK
  BY PageStartsTyped
<1>2. PageTypeOK /\ [PageNext]_pageVars => PageTypeOK'
  BY PageStaysTyped
<1> QED BY <1>1, <1>2, PTL DEF PageSpec

(* A load of the selected conversation keeps its claim to be the reason    *)
(* while it is under way.                                                  *)
LEMMA PageStaysHonest ==
  ASSUME PageTypeOK, ShownIsSelected, [PageNext]_pageVars
  PROVE  ShownIsSelected'
<1>1. CASE UNCHANGED pageVars
  BY <1>1 DEF ShownIsSelected, pageVars
<1>2. CASE ListArrivesFirst
  <2>1. CASE Listed = {} /\ UNCHANGED <<activeId, astray, loads>>
    BY <1>2, <2>1 DEF ShownIsSelected, ListArrivesFirst
  <2>2. CASE \E k \in Listed : SelectAndLoad(k)
    <3>1. PICK k \in Listed : SelectAndLoad(k)
      BY <2>2
    <3>2. activeId' \in Listed /\ loads'[activeId'] > 0
      BY <3>1, LoadCounts DEF SelectAndLoad
    <3> QED BY <3>2, PageAssumption DEF ShownIsSelected
  <2> QED BY <1>2, <2>1, <2>2 DEF ListArrivesFirst
<1>3. CASE ListFailsFirst
  BY <1>3 DEF ShownIsSelected, ListFailsFirst
<1>4. CASE Send
  BY <1>4 DEF ShownIsSelected, Send
<1>5. CASE PostStored
  <2>1. \A j \in Listed : loads'[j] >= loads[j]
    BY <1>5, LoadCounts DEF PostStored
  <2>2. /\ active' = active /\ activeId' = activeId /\ astray' = astray
        /\ activeId \in Listed \cup {NoConv}
        /\ loads \in [Listed -> Nat] /\ loads' \in [Listed -> Nat]
    BY <1>5, LoadCounts, PageAssumption DEF PageTypeOK, PostStored
  <2> QED BY <2>1, <2>2 DEF ShownIsSelected
<1>6. CASE SendEnds
  BY <1>6 DEF ShownIsSelected, SendEnds
<1>7. ASSUME NEW k \in Listed, Select(k)
      PROVE  ShownIsSelected'
  BY <1>7, LoadCounts, PageAssumption DEF ShownIsSelected, Select, SelectAndLoad
<1>8. ASSUME NEW k \in Listed, LoadArrives(k)
      PROVE  ShownIsSelected'
  BY <1>8 DEF ShownIsSelected, LoadArrives
<1>9. ASSUME NEW k \in Listed, LoadFails(k)
      PROVE  ShownIsSelected'
  BY <1>9, SettledCounts DEF PageTypeOK, ShownIsSelected, LoadFails
<1> QED BY <1>1, <1>2, <1>3, <1>4, <1>5, <1>6, <1>7, <1>8, <1>9 DEF PageNext

(* What the page shows is what is selected and written to, in whatever     *)
(* order the requests of any number of conversations are answered, unless  *)
(* the selected one is still loading or the history says why not.          *)
THEOREM PageIsHonest == PageSpec => []ShownIsSelected
<1>1. PageInit => PageTypeOK /\ ShownIsSelected
  BY PageStartsTyped
<1>2. PageTypeOK /\ ShownIsSelected /\ [PageNext]_pageVars => (PageTypeOK /\ ShownIsSelected)'
  BY PageStaysTyped, PageStaysHonest
<1> QED BY <1>1, <1>2, PTL DEF PageSpec

-----------------------------------------------------------------------------
(* Session disconnection                                                   *)

LEMMA ArrivedTyped ==
  ASSUME DisconnectTypeOK, NEW o \in Operators, NEW table \in Lists,
         NEW found \in BOOLEAN, NEW garbled \in BOOLEAN, Arrived(o, table, found, garbled),
         netFaults' \in 0..MaxNetFaults
  PROVE  DisconnectTypeOK'
<1>1. listed' \in [Operators -> SUBSET Lists]
  <2>1. listed[o] \cup {table} \in SUBSET Lists
    BY DEF DisconnectTypeOK
  <2> QED BY <2>1 DEF DisconnectTypeOK, Arrived
<1>2. remaining' \in [Operators -> BOOLEAN] /\ misread' \in [Operators -> BOOLEAN]
  BY DEF DisconnectTypeOK, Arrived
<1> QED BY <1>1, <1>2 DEF DisconnectTypeOK, Arrived, router

LEMMA DisconnectStaysTyped ==
  ASSUME DisconnectTypeOK, [DisconnectNext]_disconnectVars
  PROVE  DisconnectTypeOK'
<1> USE DisconnectAssumption DEF DisconnectTypeOK, Stand, Fault, Gone, router, poll
<1>1. CASE UNCHANGED disconnectVars
  BY <1>1 DEF disconnectVars
<1>2. ASSUME NEW s \in Sessions, Connect(s)
      PROVE  DisconnectTypeOK'
  BY <1>2 DEF Connect
<1>3. ASSUME NEW s \in Sessions, Depart(s)
      PROVE  DisconnectTypeOK'
  BY <1>3 DEF Depart
<1>4. ASSUME NEW o \in Operators, NEW s \in Sessions \cup {NoSession}, Post(o, s)
      PROVE  DisconnectTypeOK'
  BY <1>4 DEF Post
<1>5. ASSUME NEW o \in Operators, Remove(o)
      PROVE  DisconnectTypeOK'
  BY <1>5 DEF Remove
<1>6. ASSUME NEW o \in Operators, Settle(o)
      PROVE  DisconnectTypeOK'
  BY <1>6 DEF Settle
<1>7. ASSUME NEW o \in Operators, NEW table \in Lists, ListArrives(o, table)
      PROVE  DisconnectTypeOK'
  <2>1. Arrived(o, table, victim[o] \in online, FALSE) /\ netFaults' \in 0..MaxNetFaults
    BY <1>7 DEF ListArrives
  <2>2. (victim[o] \in online) \in BOOLEAN
    OBVIOUS
  <2> HIDE DEF DisconnectTypeOK
  <2> QED BY <2>1, <2>2, ArrivedTyped, Zenon
<1>8. ASSUME NEW o \in Operators, RemoveLost(o)
      PROVE  DisconnectTypeOK'
  BY <1>8 DEF RemoveLost
<1>9. ASSUME NEW o \in Operators, ListFails(o)
      PROVE  DisconnectTypeOK'
  BY <1>9 DEF ListFails
<1>10. ASSUME NEW o \in Operators, Dismiss(o)
       PROVE  DisconnectTypeOK'
  BY <1>10 DEF Dismiss
<1>11. ASSUME NEW o \in Operators, NEW table \in Lists, ListGarbled(o, table)
       PROVE  DisconnectTypeOK'
  <2>1. PICK found \in BOOLEAN, garbled \in BOOLEAN : Arrived(o, table, found, garbled)
    BY <1>11 DEF ListGarbled
  <2>2. netFaults' \in 0..MaxNetFaults
    BY <1>11 DEF ListGarbled
  <2> QED BY <2>1, <2>2, ArrivedTyped
<1> QED
  BY <1>1, <1>2, <1>3, <1>4, <1>5, <1>6, <1>7, <1>8, <1>9, <1>10, <1>11
     DEF DisconnectNext, DisconnectStep

LEMMA DisconnectStartsTyped == DisconnectInit => DisconnectTypeOK
  BY DisconnectAssumption DEF DisconnectInit, DisconnectTypeOK

(* Session disconnection has its type: among others, a session is never    *)
(* both on the router and departed.                                        *)
THEOREM DisconnectTypes == DisconnectSpec => []DisconnectTypeOK
<1>1. DisconnectTypeOK /\ [DisconnectNext]_disconnectVars => DisconnectTypeOK'
  BY DisconnectStaysTyped
<1> QED BY DisconnectStartsTyped, <1>1, PTL DEF DisconnectSpec

(* What a request knows of its session. It exists, or has existed, or the  *)
(* request will not get beyond its removal; once the list of its type has  *)
(* arrived with rows and without it, it has departed, and so it has when   *)
(* an error had no other reason; and the answer 200 is given after both    *)
(* lists, without it in its own.                                           *)
Evidence(o) ==
  /\ stand[o] \notin {"idle", "removing", "502"} => victim[o] \in online \cup departed
  /\ stand[o] \in {"removing", "502"} => victim[o] \in online \cup departed \cup {NoSession}
  /\ stand[o] \in {"idle", "removing"} => listed[o] = {}
  /\ ListOf(victim[o]) \in listed[o] /\ ~remaining[o] /\ ~misread[o] => victim[o] \in departed
  /\ stand[o] = "200" => listed[o] = Lists /\ ~remaining[o]
  /\ stand[o] = "502" /\ netFaults = 0 => victim[o] \in departed \cup {NoSession}

EvidenceInv == \A o \in Operators : Evidence(o)

(* Sessions do not come back, and faults are not forgotten.                *)
Onwards ==
  /\ departed \subseteq departed' /\ online \cup departed \subseteq online' \cup departed'
  /\ netFaults' = 0 => netFaults = 0

(* What one request does leaves the others as they stand.                  *)
AllBut(o) == \A p \in Operators \ {o} :
  /\ stand'[p] = stand[p] /\ victim'[p] = victim[p] /\ listed'[p] = listed[p]
  /\ remaining'[p] = remaining[p] /\ misread'[p] = misread[p]

LEMMA EvidenceLasts ==
  ASSUME NEW p \in Operators, Evidence(p), Onwards,
         stand'[p] = stand[p], victim'[p] = victim[p], listed'[p] = listed[p],
         remaining'[p] = remaining[p], misread'[p] = misread[p]
  PROVE  Evidence(p)'
  BY DEF Evidence, Onwards, ListOf

LEMMA OneRequestMoves ==
  ASSUME EvidenceInv, NEW o \in Operators, Onwards, AllBut(o), Evidence(o)'
  PROVE  EvidenceInv'
<1> SUFFICES ASSUME NEW p \in Operators PROVE Evidence(p)'
  BY DEF EvidenceInv
<1>1. CASE p = o
  BY <1>1
<1>2. CASE p # o
  BY <1>2, EvidenceLasts DEF EvidenceInv, AllBut
<1> QED BY <1>1, <1>2

LEMMA SessionsDoNotReturn ==
  ASSUME DisconnectTypeOK, [DisconnectNext]_disconnectVars
  PROVE  Onwards
<1> USE DisconnectAssumption DEF DisconnectTypeOK, Onwards, Stand, Fault, Gone, router, poll
<1>1. CASE UNCHANGED disconnectVars
  BY <1>1 DEF disconnectVars
<1>2. ASSUME NEW s \in Sessions, Connect(s) \/ Depart(s)
      PROVE  Onwards
  BY <1>2 DEF Connect, Depart
<1>3. ASSUME NEW o \in Operators, NEW s \in Sessions \cup {NoSession}, Post(o, s)
      PROVE  Onwards
  BY <1>3 DEF Post
<1>4. ASSUME NEW o \in Operators, Remove(o)
      PROVE  Onwards
  BY <1>4 DEF Remove
<1>5. ASSUME NEW o \in Operators, RemoveLost(o)
      PROVE  Onwards
  BY <1>5 DEF RemoveLost
<1>6. ASSUME NEW o \in Operators, Settle(o) \/ ListFails(o) \/ Dismiss(o)
      PROVE  Onwards
  BY <1>6 DEF Settle, ListFails, Dismiss
<1>7. ASSUME NEW o \in Operators, NEW table \in Lists,
             ListArrives(o, table) \/ ListGarbled(o, table)
      PROVE  Onwards
  BY <1>7 DEF ListArrives, ListGarbled, Arrived
<1> QED BY <1>1, <1>2, <1>3, <1>4, <1>5, <1>6, <1>7 DEF DisconnectNext, DisconnectStep

LEMMA EvidenceHolds ==
  ASSUME DisconnectTypeOK, EvidenceInv, [DisconnectNext]_disconnectVars
  PROVE  EvidenceInv'
<1>0. Onwards
  BY SessionsDoNotReturn
<1>1. CASE UNCHANGED disconnectVars
  BY <1>0, <1>1, EvidenceLasts DEF EvidenceInv, disconnectVars
<1>2. ASSUME NEW s \in Sessions, Connect(s) \/ Depart(s)
      PROVE  EvidenceInv'
  <2>1. UNCHANGED <<stand, victim, poll>>
    BY <1>2 DEF Connect, Depart
  <2> QED BY <1>0, <2>1, EvidenceLasts DEF EvidenceInv, poll
<1> USE DEF DisconnectTypeOK, Stand, AllBut, Evidence, EvidenceInv, router, poll
<1>3. ASSUME NEW o \in Operators, NEW s \in Sessions \cup {NoSession}, Post(o, s)
      PROVE  EvidenceInv'
  <2>1. AllBut(o)
    BY <1>3 DEF Post
  <2>2. Evidence(o)'
    BY <1>3 DEF Post
  <2> QED BY <1>0, <2>1, <2>2, OneRequestMoves
<1>4. ASSUME NEW o \in Operators, Remove(o)
      PROVE  EvidenceInv'
  <2>1. AllBut(o)
    BY <1>4 DEF Remove
  <2>2. Evidence(o)'
    BY <1>4 DEF Remove, Gone
  <2> QED BY <1>0, <2>1, <2>2, OneRequestMoves
<1>5. ASSUME NEW o \in Operators, RemoveLost(o)
      PROVE  EvidenceInv'
  <2>1. AllBut(o)
    BY <1>5 DEF RemoveLost
  <2>2. Evidence(o)'
    BY <1>5, DisconnectAssumption DEF RemoveLost, Gone, Fault
  <2> QED BY <1>0, <2>1, <2>2, OneRequestMoves
<1>6. ASSUME NEW o \in Operators, NEW table \in Lists, ListArrives(o, table)
      PROVE  EvidenceInv'
  <2>1. AllBut(o)
    BY <1>6 DEF ListArrives, Arrived
  <2>2. CASE table = ListOf(victim[o])
    <3>1. Evidence(o)'
      BY <1>6, <2>2 DEF ListArrives, Arrived
    <3> QED BY <1>0, <2>1, <3>1, OneRequestMoves
  <2>3. CASE table # ListOf(victim[o])
    <3>1. Evidence(o)'
      BY <1>6, <2>3 DEF ListArrives, Arrived, ListOf
    <3> QED BY <1>0, <2>1, <3>1, OneRequestMoves
  <2> QED BY <2>2, <2>3
<1>7. ASSUME NEW o \in Operators, NEW table \in Lists, ListGarbled(o, table)
      PROVE  EvidenceInv'
  <2>1. AllBut(o)
    BY <1>7 DEF ListGarbled, Arrived
  <2>2. Evidence(o)'
    BY <1>7, DisconnectAssumption DEF ListGarbled, Arrived, Fault, ListOf
  <2> QED BY <1>0, <2>1, <2>2, OneRequestMoves
<1>8. ASSUME NEW o \in Operators, ListFails(o)
      PROVE  EvidenceInv'
  <2>1. AllBut(o)
    BY <1>8 DEF ListFails
  <2>2. Evidence(o)'
    BY <1>8, DisconnectAssumption DEF ListFails, Fault
  <2> QED BY <1>0, <2>1, <2>2, OneRequestMoves
<1>9. ASSUME NEW o \in Operators, Settle(o)
      PROVE  EvidenceInv'
  <2>1. AllBut(o)
    BY <1>9 DEF Settle
  <2>2. Evidence(o)'
    BY <1>9 DEF Settle
  <2> QED BY <1>0, <2>1, <2>2, OneRequestMoves
<1>10. ASSUME NEW o \in Operators, Dismiss(o)
       PROVE  EvidenceInv'
  <2>1. AllBut(o)
    BY <1>10 DEF Dismiss
  <2>2. Evidence(o)'
    BY <1>10 DEF Dismiss
  <2> QED BY <1>0, <2>1, <2>2, OneRequestMoves
<1> QED
  BY <1>1, <1>2, <1>3, <1>4, <1>5, <1>6, <1>7, <1>8, <1>9, <1>10
     DEF DisconnectNext, DisconnectStep

(* However many operators disconnect one session, and however clients come *)
(* and go and requests fail, "verified" means that the session has         *)
(* departed, unless the list that was to show it had no rows; so does an   *)
(* error when nothing has failed.                                          *)
THEOREM DisconnectedIsGone == DisconnectSpec => []VerifiedIsGone
<1>1. DisconnectInit => DisconnectTypeOK /\ EvidenceInv
  BY DisconnectStartsTyped DEF DisconnectInit, EvidenceInv, Evidence
<1>2. DisconnectTypeOK /\ EvidenceInv /\ [DisconnectNext]_disconnectVars
        => (DisconnectTypeOK /\ EvidenceInv)'
  BY DisconnectStaysTyped, EvidenceHolds
<1>3. EvidenceInv => VerifiedIsGone
  BY DEF EvidenceInv, Evidence, VerifiedIsGone, Lists, ListOf
<1> QED BY <1>1, <1>2, <1>3, PTL DEF DisconnectSpec

-----------------------------------------------------------------------------
(* The Omada adapter                                                       *)

(* The type in parts, which are easier to prove apart.                     *)
FlagsTyped == current \in BOOLEAN /\ fetching \in BOOLEAN
TokensTyped ==
  /\ issued \in Nat /\ accessToken \in 0..issued /\ accepted \subseteq 1..issued
PhasesTyped ==
  phase \in [Callers -> {"idle", "authenticate", "awaitToken", "awaitRenewal", "send",
                         "done", "failed"}]
HeadersTyped ==
  /\ held \in [Callers -> 0..issued] /\ retry \in [Callers -> BOOLEAN]
  /\ refused \in [Callers -> SUBSET (1..issued)]
PagesTyped ==
  size \in ListSizes /\ page \in [Callers -> 1..MaxPages + 1] /\ rows \in [Callers -> Nat]
ListlessTyped == listless \in [Callers -> BOOLEAN]
CountsTyped ==
  /\ renewals \in Nat /\ rejections \in Nat /\ agings \in Nat /\ failures \in Nat
  /\ revocations \in Nat

LEMMA OmadaParts ==
  OmadaTypeOK <=> FlagsTyped /\ TokensTyped /\ PhasesTyped /\ HeadersTyped /\ PagesTyped /\ CountsTyped
                   /\ ListlessTyped
  BY DEF OmadaTypeOK, FlagsTyped, TokensTyped, PhasesTyped, HeadersTyped, PagesTyped, CountsTyped,
         ListlessTyped

LEMMA OmadaPartsNext ==
  ASSUME FlagsTyped', TokensTyped', PhasesTyped', HeadersTyped', PagesTyped', CountsTyped',
         ListlessTyped'
  PROVE  OmadaTypeOK'
  BY DEF OmadaTypeOK, FlagsTyped, TokensTyped, PhasesTyped, HeadersTyped, PagesTyped, CountsTyped,
         ListlessTyped

LEMMA OmadaStartsTyped == OmadaInit => OmadaTypeOK
<1> SUFFICES ASSUME OmadaInit PROVE OmadaTypeOK
  OBVIOUS
<1> USE OmadaAssumption DEF OmadaInit, NoToken
<1>1. TokensTyped BY DEF TokensTyped
<1>2. PhasesTyped BY DEF PhasesTyped
<1>3. HeadersTyped BY DEF HeadersTyped
<1>4. PagesTyped BY DEF PagesTyped
<1>5. CountsTyped BY DEF CountsTyped
<1>6. FlagsTyped BY DEF FlagsTyped
<1>7. ListlessTyped BY DEF ListlessTyped
<1> QED BY <1>7, <1>6, <1>1, <1>2, <1>3, <1>4, <1>5, OmadaParts

(* How many rows page n has, when the pages before it were full: all that  *)
(* are left, if it is not full itself.                                     *)
LEMMA RowsOfAPage ==
  ASSUME NEW n \in Nat \ {0}, size \in Nat
  PROVE  /\ RowsOf(n) \in 0..PageSize
         /\ RowsOf(n) = PageSize <=> size >= (n - 1) * PageSize + PageSize
         /\ RowsOf(n) < PageSize /\ (n - 1) * PageSize <= size
              => /\ (n - 1) * PageSize + RowsOf(n) = size
                 /\ size < (n - 1) * PageSize + PageSize
<1>1. PageSize \in Nat \ {0} /\ (n - 1) * PageSize \in Nat
  BY OmadaAssumption
<1> DEFINE before == (n - 1) * PageSize
<1>2. RowsOf(n) = IF size <= before THEN 0
                  ELSE IF size - before < PageSize THEN size - before ELSE PageSize
  BY DEF RowsOf
<1>3. before \in Nat
  BY <1>1
<1> HIDE DEF before
<1>4. /\ RowsOf(n) \in 0..PageSize
      /\ RowsOf(n) = PageSize <=> size >= before + PageSize
      /\ RowsOf(n) < PageSize /\ before <= size
           => before + RowsOf(n) = size /\ size < before + PageSize
  BY <1>1, <1>2, <1>3
<1> QED BY <1>4 DEF before

(* Pages n - 1 and 1 have together the rows of n, and no more than the     *)
(* limit allows.                                                           *)
LEMMA PagesAddUp ==
  ASSUME NEW n \in Nat \ {0}
  PROVE  /\ (n - 1) * PageSize + PageSize = n * PageSize
         /\ n <= MaxPages => n * PageSize <= MaxPages * PageSize
<1>1. PageSize \in Nat /\ MaxPages \in Nat
  BY OmadaAssumption
<1>2. \A a, b, s \in Nat : a <= b => a * s <= b * s
  OBVIOUS
<1>3. (n - 1) * PageSize + PageSize = n * PageSize
  BY <1>1
<1> QED BY <1>1, <1>2, <1>3

(* A request that is sent has a token in its header, and a page that may   *)
(* be asked for.                                                           *)
WellSent ==
  \A c \in Callers : phase[c] = "send" => held[c] # NoToken /\ page[c] <= MaxPages

LEMMA OmadaStaysTyped ==
  ASSUME OmadaTypeOK, WellSent, [OmadaNext]_omadaVars
  PROVE  OmadaTypeOK'
<1> USE OmadaAssumption DEF NoToken, FlagsTyped, TokensTyped, PhasesTyped, HeadersTyped, PagesTyped, CountsTyped,
                        ListlessTyped
<1>0. /\ FlagsTyped /\ TokensTyped /\ PhasesTyped /\ HeadersTyped /\ PagesTyped /\ CountsTyped
      /\ ListlessTyped
  BY OmadaParts
<1>1. CASE UNCHANGED omadaVars
  <2> USE <1>0, <1>1 DEF omadaVars
  <2>1. TokensTyped'
    OBVIOUS
  <2>2. PhasesTyped'
    OBVIOUS
  <2>3. HeadersTyped'
    OBVIOUS
  <2>4. PagesTyped'
    OBVIOUS
  <2>5. CountsTyped'
    OBVIOUS
  <2>6. FlagsTyped'
    OBVIOUS
  <2>7. ListlessTyped'
    OBVIOUS
  <2> QED BY <2>1, <2>2, <2>3, <2>4, <2>5, <2>6, <2>7, OmadaPartsNext
<1>2. ASSUME NEW c \in Callers, StartCall(c)
      PROVE  OmadaTypeOK'
  <2> USE <1>0, <1>2 DEF StartCall, Enter, cache, controller, progress, counters
  <2>1. TokensTyped'
    OBVIOUS
  <2>2. PhasesTyped'
    OBVIOUS
  <2>3. HeadersTyped'
    OBVIOUS
  <2>4. PagesTyped'
    OBVIOUS
  <2>5. CountsTyped'
    OBVIOUS
  <2>6. FlagsTyped'
    OBVIOUS
  <2>7. ListlessTyped'
    OBVIOUS
  <2> QED BY <2>1, <2>2, <2>3, <2>4, <2>5, <2>6, <2>7, OmadaPartsNext
<1>3. ASSUME NEW c \in Callers, Authenticate(c)
      PROVE  OmadaTypeOK'
  <2> USE <1>0, <1>3 DEF Authenticate, AwaitToken, Enter, cache, controller, progress, counters
  <2>1. TokensTyped'
    OBVIOUS
  <2>2. PhasesTyped'
    OBVIOUS
  <2>3. HeadersTyped'
    OBVIOUS
  <2>4. PagesTyped'
    OBVIOUS
  <2>5. CountsTyped'
    OBVIOUS
  <2>6. FlagsTyped'
    OBVIOUS
  <2>7. ListlessTyped'
    OBVIOUS
  <2> QED BY <2>1, <2>2, <2>3, <2>4, <2>5, <2>6, <2>7, OmadaPartsNext
<1>4. ASSUME NEW c \in Callers, NEW n \in Nat, phase[c] = "send", AddRows(c, n),
             listless' \in [Callers -> BOOLEAN]
      PROVE  OmadaTypeOK'
  <2> USE <1>0, <1>4 DEF AddRows, Enter, cache, controller, counters
  <2>1. TokensTyped'
    OBVIOUS
  <2>2. PhasesTyped'
    OBVIOUS
  <2>3. HeadersTyped'
    OBVIOUS
  <2>4. PagesTyped'
    <3>1. page[c] \in 1..MaxPages
      BY DEF WellSent
    <3>2. page' \in [Callers -> 1..MaxPages + 1]
      BY <3>1
    <3>3. rows' \in [Callers -> Nat]
      OBVIOUS
    <3> QED BY <3>2, <3>3
  <2>5. CountsTyped'
    OBVIOUS
  <2>6. FlagsTyped'
    OBVIOUS
  <2>7. ListlessTyped'
    OBVIOUS
  <2> QED BY <2>1, <2>2, <2>3, <2>4, <2>5, <2>6, <2>7, OmadaPartsNext
<1>11. ASSUME NEW c \in Callers, Receive(c)
       PROVE  OmadaTypeOK'
  <2>1. page[c] \in Nat \ {0} /\ RowsOf(page[c]) \in Nat
    BY <1>0, RowsOfAPage
  <2> QED BY <1>0, <1>4, <1>11, <2>1 DEF Receive
<1>12. ASSUME NEW c \in Callers, ReceiveNoList(c)
       PROVE  OmadaTypeOK'
  <2>1. PICK n \in {0, 1} : AddRows(c, n)
    BY <1>12 DEF ReceiveNoList
  <2>2. listless' \in [Callers -> BOOLEAN]
    BY <1>0, <1>12 DEF ReceiveNoList
  <2> QED BY <1>4, <1>12, <2>1, <2>2 DEF ReceiveNoList
<1>5. ASSUME NEW c \in Callers, Reject(c)
      PROVE  OmadaTypeOK'
  <2> USE <1>0, <1>5 DEF Reject, AwaitToken, Enter, cache, controller, progress
  <2>1. TokensTyped'
    OBVIOUS
  <2>2. PhasesTyped'
    OBVIOUS
  <2>3. HeadersTyped'
    <3>1. held[c] \in 1..issued
      BY DEF WellSent
    <3>2. refused' \in [Callers -> SUBSET (1..issued)]
      BY <3>1
    <3>3. held' \in [Callers -> 0..issued]
      OBVIOUS
    <3>4. retry' \in [Callers -> BOOLEAN]
      OBVIOUS
    <3> QED BY <3>2, <3>3, <3>4
  <2>4. PagesTyped'
    OBVIOUS
  <2>5. CountsTyped'
    OBVIOUS
  <2>6. FlagsTyped'
    OBVIOUS
  <2>7. ListlessTyped'
    OBVIOUS
  <2> QED BY <2>1, <2>2, <2>3, <2>4, <2>5, <2>6, <2>7, OmadaPartsNext
<1>6. ASSUME NEW c \in Callers, RequestFails(c)
      PROVE  OmadaTypeOK'
  <2> USE <1>0, <1>6 DEF RequestFails, Enter, cache, controller, progress
  <2>1. TokensTyped'
    OBVIOUS
  <2>2. PhasesTyped'
    OBVIOUS
  <2>3. HeadersTyped'
    OBVIOUS
  <2>4. PagesTyped'
    OBVIOUS
  <2>5. CountsTyped'
    OBVIOUS
  <2>6. FlagsTyped'
    OBVIOUS
  <2>7. ListlessTyped'
    OBVIOUS
  <2> QED BY <2>1, <2>2, <2>3, <2>4, <2>5, <2>6, <2>7, OmadaPartsNext
<1>7. ASSUME NEW revoked \in SUBSET accepted, TokenArrives(revoked)
      PROVE  OmadaTypeOK'
  <2> USE <1>0, <1>7 DEF TokenArrives, Drop, progress, counters
  <2>1. TokensTyped'
    OBVIOUS
  <2>2. PhasesTyped'
    OBVIOUS
  <2>3. HeadersTyped'
    OBVIOUS
  <2>4. PagesTyped'
    OBVIOUS
  <2>5. CountsTyped'
    OBVIOUS
  <2>6. FlagsTyped'
    OBVIOUS
  <2>7. ListlessTyped'
    OBVIOUS
  <2> QED BY <2>1, <2>2, <2>3, <2>4, <2>5, <2>6, <2>7, OmadaPartsNext
<1>8. CASE TokenFails
  <2> USE <1>0, <1>8 DEF TokenFails, cache, controller, progress
  <2>1. TokensTyped'
    OBVIOUS
  <2>2. PhasesTyped'
    OBVIOUS
  <2>3. HeadersTyped'
    OBVIOUS
  <2>4. PagesTyped'
    OBVIOUS
  <2>5. CountsTyped'
    OBVIOUS
  <2>6. FlagsTyped'
    OBVIOUS
  <2>7. ListlessTyped'
    OBVIOUS
  <2> QED BY <2>1, <2>2, <2>3, <2>4, <2>5, <2>6, <2>7, OmadaPartsNext
<1>9. CASE Age
  <2> USE <1>0, <1>9 DEF Age, controller, progress
  <2>1. TokensTyped'
    OBVIOUS
  <2>2. PhasesTyped'
    OBVIOUS
  <2>3. HeadersTyped'
    OBVIOUS
  <2>4. PagesTyped'
    OBVIOUS
  <2>5. CountsTyped'
    OBVIOUS
  <2>6. FlagsTyped'
    OBVIOUS
  <2>7. ListlessTyped'
    OBVIOUS
  <2> QED BY <2>1, <2>2, <2>3, <2>4, <2>5, <2>6, <2>7, OmadaPartsNext
<1>10. ASSUME NEW t \in accepted, Revoke(t)
      PROVE  OmadaTypeOK'
  <2> USE <1>0, <1>10 DEF Revoke, Drop, cache, progress, counters
  <2>1. TokensTyped'
    OBVIOUS
  <2>2. PhasesTyped'
    OBVIOUS
  <2>3. HeadersTyped'
    OBVIOUS
  <2>4. PagesTyped'
    OBVIOUS
  <2>5. CountsTyped'
    OBVIOUS
  <2>6. FlagsTyped'
    OBVIOUS
  <2>7. ListlessTyped'
    OBVIOUS
  <2> QED BY <2>1, <2>2, <2>3, <2>4, <2>5, <2>6, <2>7, OmadaPartsNext
<1> QED
  BY <1>1, <1>2, <1>3, <1>5, <1>6, <1>7, <1>8, <1>9, <1>10, <1>11, <1>12 DEF OmadaNext, CallStep

(* What a caller has with it. The cached token is the latest one. A page   *)
(* that may be retried was not refused; otherwise the tokens it was        *)
(* refused for were there before the one it is sent with, or before the    *)
(* one it goes back for; it was refused once while it goes on, and at      *)
(* most twice.                                                             *)
Luggage(c) ==
  /\ phase[c] = "idle" => refused[c] = {}
  /\ phase[c] = "authenticate" => \A t \in refused[c] : t < issued
  /\ phase[c] = "send" => held[c] # NoToken /\ \A t \in refused[c] : held[c] > t
  /\ retry[c] => refused[c] = {}
  /\ IsFiniteSet(refused[c]) /\ Cardinality(refused[c]) <= 2
  /\ phase[c] # "failed" => Cardinality(refused[c]) <= 1

LuggageInv ==
  /\ accessToken \in {NoToken, issued}
  /\ \A c \in Callers : Luggage(c)

(* What a caller has read: no page beyond the limit; and unless it was     *)
(* once answered without a list, whole pages, none of them beyond the end, *)
(* and all of the list when it is done.                                    *)
Read(c) ==
  /\ phase[c] \notin {"done", "failed"} =>
       /\ page[c] <= MaxPages
       /\ ~listless[c] => rows[c] = (page[c] - 1) * PageSize /\ rows[c] <= size
  /\ phase[c] = "done" /\ ~listless[c] => rows[c] = size /\ size < MaxPages * PageSize

ReadInv == \A c \in Callers : Read(c)

LEMMA WellSentHolds ==
  ASSUME LuggageInv, ReadInv
  PROVE  WellSent
  BY DEF LuggageInv, Luggage, ReadInv, Read, WellSent

(* Every token request but one that is still owed has its reason; one is   *)
(* owed while there is no token to use and none is asked for.              *)
RenewalsInv ==
  renewals + (IF fetching \/ Cached THEN 0 ELSE 1) <= 1 + agings + rejections + failures

LEMMA RenewalsHaveReasons ==
  ASSUME OmadaTypeOK, RenewalsInv, [OmadaNext]_omadaVars
  PROVE  RenewalsInv'
<1> USE DEF RenewalsInv, Cached, NoToken, cache, progress, counters, controller
<1>0. CountsTyped /\ issued \in Nat
  BY OmadaParts DEF TokensTyped
<1>1. CASE UNCHANGED omadaVars
  BY <1>1 DEF omadaVars
<1>2. ASSUME NEW c \in Callers, StartCall(c)
      PROVE  RenewalsInv'
  BY <1>2 DEF StartCall
<1>3. ASSUME NEW c \in Callers, Authenticate(c)
      PROVE  RenewalsInv'
  BY <1>0, <1>3 DEF Authenticate, AwaitToken, CountsTyped
<1>4. ASSUME NEW c \in Callers, Receive(c) \/ ReceiveNoList(c) \/ RequestFails(c)
      PROVE  RenewalsInv'
  BY <1>0, <1>4 DEF Receive, ReceiveNoList, AddRows, RequestFails, CountsTyped
<1>5. ASSUME NEW c \in Callers, Reject(c)
      PROVE  RenewalsInv'
  BY <1>0, <1>5 DEF Reject, AwaitToken, CountsTyped
<1>7. ASSUME NEW revoked \in SUBSET accepted, TokenArrives(revoked)
      PROVE  RenewalsInv'
  BY <1>0, <1>7 DEF TokenArrives, CountsTyped
<1>8. CASE TokenFails
  BY <1>0, <1>8 DEF TokenFails, CountsTyped
<1>9. CASE Age
  BY <1>0, <1>9 DEF Age, CountsTyped
<1>10. ASSUME NEW t \in accepted, Revoke(t)
       PROVE  RenewalsInv'
  BY <1>10 DEF Revoke
<1> QED BY <1>1, <1>2, <1>3, <1>4, <1>5, <1>7, <1>8, <1>9, <1>10 DEF OmadaNext, CallStep

(* What one caller does leaves the luggage of the others.                  *)
LEMMA OneCallerMoves ==
  ASSUME OmadaTypeOK, LuggageInv, NEW c \in Callers,
         issued' = issued, accessToken' \in {accessToken, NoToken}, Luggage(c)',
         \A d \in Callers \ {c} : /\ phase'[d] = phase[d] /\ held'[d] = held[d]
                                  /\ retry'[d] = retry[d] /\ refused'[d] = refused[d]
  PROVE  LuggageInv'
<1>1. accessToken' \in {NoToken, issued}'
  BY DEF LuggageInv
<1>2. ASSUME NEW d \in Callers \ {c} PROVE Luggage(d)'
  <2>1. Luggage(d)
    BY DEF LuggageInv
  <2> QED BY <2>1 DEF Luggage
<1> QED BY <1>1, <1>2 DEF LuggageInv

LEMMA OneMoreRefused ==
  ASSUME NEW S, NEW t, IsFiniteSet(S), NEW n \in Nat, Cardinality(S) <= n
  PROVE  IsFiniteSet(S \cup {t}) /\ Cardinality(S \cup {t}) <= n + 1
<1>1. IsFiniteSet(S \cup {t})
  BY FS_AddElement
<1>2. Cardinality(S \cup {t}) = Cardinality(S) \/ Cardinality(S \cup {t}) = Cardinality(S) + 1
  BY FS_AddElement
<1>3. Cardinality(S) \in Nat
  BY FS_CardinalityType
<1> QED BY <1>1, <1>2, <1>3

LEMMA LuggageHolds ==
  ASSUME OmadaTypeOK, LuggageInv, [OmadaNext]_omadaVars
  PROVE  LuggageInv'
<1>0. /\ issued \in Nat /\ held \in [Callers -> 0..issued]
      /\ refused \in [Callers -> SUBSET (1..issued)] /\ retry \in [Callers -> BOOLEAN]
      /\ PhasesTyped
  BY DEF OmadaTypeOK, PhasesTyped
<1> USE DEF NoToken, Enter, PhasesTyped
<1>1. CASE UNCHANGED omadaVars
  BY <1>1 DEF omadaVars, LuggageInv, Luggage
<1>2. ASSUME NEW c \in Callers, StartCall(c)
      PROVE  LuggageInv'
  <2>1. Luggage(c)
    BY DEF LuggageInv
  <2>2. /\ UNCHANGED <<issued, accessToken, retry, refused, held>>
        /\ \A d \in Callers \ {c} : phase'[d] = phase[d]
        /\ phase'[c] = "authenticate" /\ phase[c] = "idle"
    BY <1>0, <1>2 DEF StartCall, cache
  <2>3. Luggage(c)'
    BY <2>1, <2>2 DEF Luggage
  <2> QED BY <2>2, <2>3, OneCallerMoves
<1>3. ASSUME NEW c \in Callers, Authenticate(c)
      PROVE  LuggageInv'
  <2>1. Luggage(c) /\ accessToken \in {NoToken, issued}
    BY DEF LuggageInv
  <2>2. /\ UNCHANGED <<issued, accessToken, retry, refused>>
        /\ \A d \in Callers \ {c} : phase'[d] = phase[d] /\ held'[d] = held[d]
    BY <1>0, <1>3 DEF Authenticate, AwaitToken, cache
  <2>3. Luggage(c)'
    <3>1. CASE Cached
      <4>1. phase'[c] = "send" /\ held'[c] = issued /\ issued # 0
        BY <1>0, <1>3, <2>1, <3>1 DEF Authenticate, Cached
      <4> QED BY <1>0, <1>3, <2>1, <2>2, <4>1 DEF Luggage, Authenticate
    <3>2. CASE ~Cached
      <4>1. phase'[c] = "awaitToken" /\ held' = held
        BY <1>0, <1>3, <3>2 DEF Authenticate, AwaitToken
      <4> QED BY <1>0, <1>3, <2>1, <2>2, <4>1 DEF Luggage, Authenticate
    <3> QED BY <3>1, <3>2
  <2> QED BY <2>2, <2>3, OneCallerMoves
<1>4. ASSUME NEW c \in Callers, Receive(c) \/ ReceiveNoList(c)
      PROVE  LuggageInv'
  <2>0. PICK n : AddRows(c, n)
    BY <1>4 DEF Receive, ReceiveNoList
  <2>1. UNCHANGED <<issued, accessToken>>
    BY <2>0 DEF AddRows, cache
  <2>2. \A d \in Callers \ {c} : /\ phase'[d] = phase[d] /\ held'[d] = held[d]
                                  /\ retry'[d] = retry[d] /\ refused'[d] = refused[d]
    BY <1>0, <2>0 DEF AddRows, Enter
  <2>3. refused'[c] = {} /\ phase'[c] # "send" /\ IsFiniteSet({}) /\ Cardinality({}) = 0
    BY <1>0, <2>0, FS_EmptySet DEF AddRows, Enter
  <2>4. Luggage(c)'
    BY <2>3 DEF Luggage
  <2> QED BY <2>1, <2>2, <2>4, OneCallerMoves
<1>5. ASSUME NEW c \in Callers, Reject(c)
      PROVE  LuggageInv'
  <2>1. issued' = issued /\ accessToken' \in {accessToken, NoToken}
    BY <1>5 DEF Reject, cache
  <2>2. \A d \in Callers \ {c} : /\ phase'[d] = phase[d] /\ held'[d] = held[d]
                                  /\ retry'[d] = retry[d] /\ refused'[d] = refused[d]
    BY <1>0, <1>5 DEF Reject, AwaitToken
  <2>3. Luggage(c) /\ phase[c] = "send" /\ refused'[c] = refused[c] \cup {held[c]}
    BY <1>0, <1>5 DEF Reject, LuggageInv
  <2>4. Luggage(c)'
    <3>1. CASE retry[c]
      <4>1. phase'[c] = "awaitRenewal" /\ retry'[c] = FALSE
        BY <1>0, <1>5, <3>1 DEF Reject, AwaitToken
      <4>2. IsFiniteSet({}) /\ Cardinality({}) <= 0
        BY FS_EmptySet
      <4>3. refused[c] = {}
        BY <2>3, <3>1 DEF Luggage
      <4>4. IsFiniteSet({} \cup {held[c]}) /\ Cardinality({} \cup {held[c]}) <= 0 + 1
        BY <4>2, OneMoreRefused
      <4>5. Cardinality({} \cup {held[c]}) \in Nat
        BY <4>4, FS_CardinalityType
      <4> QED BY <2>3, <4>1, <4>3, <4>4, <4>5 DEF Luggage
    <3>2. CASE ~retry[c]
      <4>1. phase'[c] = "failed" /\ retry'[c] = FALSE
        BY <1>0, <1>5, <3>2 DEF Reject
      <4>2. IsFiniteSet(refused[c]) /\ Cardinality(refused[c]) <= 1
        BY <2>3 DEF Luggage
      <4>3. /\ IsFiniteSet(refused[c] \cup {held[c]})
            /\ Cardinality(refused[c] \cup {held[c]}) <= 1 + 1
        BY <4>2, OneMoreRefused
      <4>4. Cardinality(refused[c] \cup {held[c]}) \in Nat
        BY <4>3, FS_CardinalityType
      <4> QED BY <2>3, <4>1, <4>3, <4>4 DEF Luggage
    <3> QED BY <3>1, <3>2
  <2> QED BY <2>1, <2>2, <2>4, OneCallerMoves
<1>6. ASSUME NEW c \in Callers, RequestFails(c)
      PROVE  LuggageInv'
  <2>1. Luggage(c)
    BY DEF LuggageInv
  <2>2. /\ UNCHANGED <<issued, accessToken, retry, refused, held>>
        /\ \A d \in Callers \ {c} : phase'[d] = phase[d]
        /\ phase'[c] = "failed"
    BY <1>0, <1>6 DEF RequestFails, cache
  <2>3. Luggage(c)'
    BY <2>1, <2>2 DEF Luggage
  <2> QED BY <2>2, <2>3, OneCallerMoves
<1>7. ASSUME NEW revoked \in SUBSET accepted, TokenArrives(revoked)
      PROVE  LuggageInv'
  <2>1. accessToken' = issued' /\ issued' = issued + 1 /\ UNCHANGED <<retry, refused>>
    BY <1>7 DEF TokenArrives
  <2>2. ASSUME NEW c \in Callers PROVE Luggage(c)'
    <3>1. Luggage(c) /\ \A t \in refused[c] : t < issued + 1 /\ t \in Nat
      BY <1>0 DEF LuggageInv
    <3>2. CASE phase[c] = "awaitToken"
      <4>1. phase'[c] = "send" /\ held'[c] = issued + 1
        BY <1>0, <1>7, <3>2 DEF TokenArrives
      <4> QED BY <1>0, <2>1, <3>1, <3>2, <4>1 DEF Luggage
    <3>3. CASE phase[c] = "awaitRenewal"
      <4>1. phase'[c] = "authenticate"
        BY <1>0, <1>7, <3>3 DEF TokenArrives
      <4> QED BY <1>0, <2>1, <3>1, <3>3, <4>1 DEF Luggage
    <3>4. CASE phase[c] \notin {"awaitToken", "awaitRenewal"}
      <4>1. phase'[c] = phase[c] /\ held'[c] = held[c]
        BY <1>0, <1>7, <3>4 DEF TokenArrives
      <4> QED BY <1>0, <2>1, <3>1, <4>1 DEF Luggage
    <3> QED BY <3>2, <3>3, <3>4
  <2> QED BY <2>1, <2>2 DEF LuggageInv
<1>8. CASE TokenFails
  <2>1. UNCHANGED <<issued, accessToken, retry, refused, held>>
    BY <1>8 DEF TokenFails, cache
  <2>2. ASSUME NEW c \in Callers PROVE Luggage(c)'
    <3>1. Luggage(c) /\ phase'[c] \in {phase[c], "failed"}
      BY <1>0, <1>8 DEF TokenFails, LuggageInv
    <3> QED BY <2>1, <3>1 DEF Luggage
  <2> QED BY <2>1, <2>2 DEF LuggageInv
<1>9. CASE Age
  BY <1>9 DEF Age, LuggageInv, Luggage
<1>10. ASSUME NEW t \in accepted, Revoke(t)
       PROVE  LuggageInv'
  BY <1>10 DEF Revoke, LuggageInv, Luggage, cache
<1> QED BY <1>1, <1>2, <1>3, <1>4, <1>5, <1>6, <1>7, <1>8, <1>9, <1>10 DEF OmadaNext, CallStep

LEMMA ReadHolds ==
  ASSUME OmadaTypeOK, ReadInv, [OmadaNext]_omadaVars
  PROVE  ReadInv'
<1>0. /\ PhasesTyped /\ size \in Nat /\ listless \in [Callers -> BOOLEAN]
      /\ page \in [Callers -> 1..MaxPages + 1] /\ rows \in [Callers -> Nat]
      /\ PageSize \in Nat \ {0} /\ MaxPages \in Nat \ {0}
  BY OmadaAssumption DEF OmadaTypeOK, PhasesTyped
<1> USE DEF Enter, PhasesTyped, ReadInv
<1>1. CASE UNCHANGED omadaVars
  BY <1>1 DEF omadaVars, Read
<1>2. ASSUME NEW c \in Callers, StartCall(c) \/ Authenticate(c) \/ Reject(c) \/ RequestFails(c)
      PROVE  ReadInv'
  <2>1. /\ UNCHANGED <<size, page, rows, listless>>
        /\ phase'[c] # "done" /\ phase[c] \notin {"done", "failed"}
        /\ \A d \in Callers \ {c} : phase'[d] = phase[d]
    BY <1>0, <1>2 DEF StartCall, Authenticate, Reject, RequestFails, AwaitToken, controller, progress
  <2> QED BY <2>1 DEF Read
<1>3. ASSUME NEW c \in Callers, NEW n, phase[c] = "send", AddRows(c, n),
             \/ n = RowsOf(page[c]) /\ UNCHANGED listless
             \/ listless' = [listless EXCEPT ![c] = TRUE]
      PROVE  ReadInv'
  <2> DEFINE p == page[c]
  <2>1. /\ p \in Nat \ {0} /\ p <= MaxPages
        /\ ~listless[c] => rows[c] = (p - 1) * PageSize /\ rows[c] <= size
    BY <1>0, <1>3 DEF Read
  <2>2. /\ size' = size /\ page'[c] = p + 1 /\ rows'[c] = rows[c] + n
        /\ phase'[c] = IF IsLast(n) THEN "done" ELSE IF p = MaxPages THEN "failed" ELSE "authenticate"
    BY <1>0, <1>3 DEF AddRows, controller
  <2>3. \A d \in Callers \ {c} : /\ phase'[d] = phase[d] /\ page'[d] = page[d] /\ rows'[d] = rows[d]
                                  /\ listless'[d] = listless[d]
    BY <1>0, <1>3 DEF AddRows
  <2>6. ~listless'[c] => ~listless[c] /\ n = RowsOf(p)
    BY <1>0, <1>3
  <2>4. /\ (p - 1) * PageSize + PageSize = p * PageSize
        /\ p * PageSize <= MaxPages * PageSize
        /\ {p * PageSize, (p - 1) * PageSize, MaxPages * PageSize} \subseteq Nat
    BY <1>0, <2>1, PagesAddUp
  <2>5. /\ RowsOf(p) \in 0..PageSize
        /\ RowsOf(p) = PageSize <=> size >= (p - 1) * PageSize + PageSize
        /\ RowsOf(p) < PageSize /\ (p - 1) * PageSize <= size
              => /\ (p - 1) * PageSize + RowsOf(p) = size
                 /\ size < (p - 1) * PageSize + PageSize
    BY <1>0, <2>1, RowsOfAPage
  <2> HIDE DEF p
  <2>7. ASSUME listless'[c] PROVE Read(c)'
    <3>1. phase'[c] \notin {"done", "failed"} => page'[c] <= MaxPages
      BY <1>0, <2>1, <2>2
    <3> QED BY <2>7, <3>1 DEF Read
  <2>8. ASSUME ~listless'[c] PROVE Read(c)'
    <3>0. n = RowsOf(p) /\ rows[c] = (p - 1) * PageSize /\ rows[c] <= size
      BY <2>1, <2>6, <2>8
    <3>1. CASE IsLast(n)
      <4>1. phase'[c] = "done" /\ rows'[c] = size /\ size < MaxPages * PageSize
        BY <1>0, <2>1, <2>2, <2>4, <2>5, <3>0, <3>1 DEF IsLast
      <4> QED BY <2>2, <4>1 DEF Read
    <3>2. CASE ~IsLast(n) /\ p = MaxPages
      <4>1. phase'[c] = "failed"
        BY <2>2, <3>2
      <4> QED BY <4>1 DEF Read
    <3>3. CASE ~IsLast(n) /\ p # MaxPages
      <4>1. phase'[c] = "authenticate" /\ RowsOf(p) = PageSize
        BY <1>0, <2>2, <2>5, <3>0, <3>3 DEF IsLast
      <4>2. rows'[c] = p * PageSize /\ p * PageSize <= size /\ p + 1 <= MaxPages
        <5>1. p + 1 <= MaxPages
          BY <1>0, <2>1, <3>3
        <5>2. (p - 1) * PageSize + PageSize <= size
          BY <2>5, <3>0, <4>1
        <5>3. rows'[c] = (p - 1) * PageSize + PageSize
          BY <2>2, <3>0, <4>1
        <5>4. (p - 1) * PageSize + PageSize = p * PageSize
          BY <2>4
        <5>5. rows'[c] = p * PageSize
          BY <5>3, <5>4, Zenon
        <5>6. p * PageSize <= size
          BY <5>2, <5>4, Zenon
        <5> QED BY <5>1, <5>5, <5>6, Zenon
      <4>3. /\ rows'[c] = (page'[c] - 1) * PageSize /\ rows'[c] <= size'
            /\ page'[c] <= MaxPages
        <5>1. page'[c] = p + 1 /\ size' = size
          BY <2>2
        <5>2. rows'[c] = (page'[c] - 1) * PageSize
          <6>1. page'[c] - 1 = p
            BY <2>1, <5>1
          <6> QED BY <4>2, <6>1
        <5>3. rows'[c] <= size'
          BY <4>2, <5>1, Zenon
        <5> QED BY <4>2, <5>1, <5>2, <5>3, Zenon
      <4> QED BY <4>1, <4>3 DEF Read
    <3> QED BY <3>1, <3>2, <3>3
  <2> QED BY <2>2, <2>3, <2>7, <2>8 DEF Read
<1>8. ASSUME NEW c \in Callers, Receive(c) \/ ReceiveNoList(c)
      PROVE  ReadInv'
  <2>1. CASE Receive(c)
    BY <1>3, <2>1 DEF Receive
  <2>2. CASE ReceiveNoList(c)
    BY <1>3, <2>2 DEF ReceiveNoList
  <2> QED BY <1>8, <2>1, <2>2
<1>4. ASSUME NEW revoked \in SUBSET accepted, TokenArrives(revoked)
      PROVE  ReadInv'
  <2>1. /\ UNCHANGED <<size, page, rows, listless>>
        /\ \A c \in Callers :
             \/ phase'[c] = phase[c]
             \/ phase'[c] \in {"send", "authenticate"} /\ phase[c] \notin {"done", "failed"}
    <3>1. UNCHANGED <<size, page, rows, listless>>
      BY <1>4 DEF TokenArrives, progress
    <3>2. ASSUME NEW c \in Callers
          PROVE  \/ phase'[c] = phase[c]
                 \/ phase'[c] \in {"send", "authenticate"} /\ phase[c] \notin {"done", "failed"}
      <4>1. CASE phase[c] = "awaitToken"
        BY <1>4, <4>1 DEF TokenArrives
      <4>2. CASE phase[c] = "awaitRenewal"
        BY <1>4, <4>2 DEF TokenArrives
      <4>3. CASE phase[c] \notin {"awaitToken", "awaitRenewal"}
        <5>1. phase'[c] = phase[c]
          BY <1>0, <1>4, <4>3 DEF TokenArrives
        <5> QED BY <5>1
      <4> QED BY <4>1, <4>2, <4>3
    <3> QED BY <3>1, <3>2
  <2> QED BY <2>1 DEF Read
<1>5. CASE TokenFails
  <2>1. /\ UNCHANGED <<size, page, rows, listless>>
        /\ \A c \in Callers : phase'[c] \in {phase[c], "failed"}
    BY <1>0, <1>5 DEF TokenFails, controller, progress
  <2> QED BY <2>1 DEF Read
<1>6. CASE Age
  BY <1>6 DEF Age, Read, controller, progress
<1>7. ASSUME NEW t \in accepted, Revoke(t)
      PROVE  ReadInv'
  BY <1>7 DEF Revoke, Read, progress
<1> QED BY <1>1, <1>2, <1>4, <1>5, <1>6, <1>7, <1>8 DEF OmadaNext, CallStep

OmadaInv == OmadaTypeOK /\ LuggageInv /\ ReadInv /\ RenewalsInv

LEMMA OmadaStarts == OmadaInit => OmadaInv
<1> SUFFICES ASSUME OmadaInit PROVE OmadaInv
  OBVIOUS
<1>1. LuggageInv
  BY FS_EmptySet DEF OmadaInit, LuggageInv, Luggage
<1>2. ReadInv
  BY OmadaAssumption DEF OmadaInit, ReadInv, Read
<1>3. RenewalsInv
  BY DEF OmadaInit, RenewalsInv, Cached
<1> QED BY <1>1, <1>2, <1>3, OmadaStartsTyped DEF OmadaInv

LEMMA OmadaGoesOn == OmadaInv /\ [OmadaNext]_omadaVars => OmadaInv'
<1> SUFFICES ASSUME OmadaInv, [OmadaNext]_omadaVars PROVE OmadaInv'
  OBVIOUS
<1>1. OmadaTypeOK'
  BY OmadaStaysTyped, WellSentHolds DEF OmadaInv
<1> QED BY <1>1, LuggageHolds, ReadHolds, RenewalsHaveReasons DEF OmadaInv

(* The Omada adapter has its type: among others, every token it holds was  *)
(* issued by the controller, and no page beyond the limit is asked for.    *)
THEOREM OmadaTypes == OmadaSpec => []OmadaTypeOK
<1>1. OmadaInv => OmadaTypeOK
  BY DEF OmadaInv
<1> QED BY <1>1, OmadaStarts, OmadaGoesOn, PTL DEF OmadaSpec

(* Whoever else clears or renews the shared token meanwhile, a refused     *)
(* page is sent again at most once and with a token that is newer than the *)
(* refused one, and no token is requested without a reason.                *)
THEOREM RetriesAreWorthIt == OmadaSpec => []RetryUsesNewerToken
<1>1. OmadaInv => RetryUsesNewerToken
  <2> SUFFICES ASSUME OmadaInv PROVE RetryUsesNewerToken
    OBVIOUS
  <2>1. CountsTyped
    BY OmadaParts DEF OmadaInv
  <2>2. renewals <= 1 + agings + rejections + failures
    BY <2>1 DEF OmadaInv, RenewalsInv, CountsTyped
  <2> QED BY <2>2 DEF OmadaInv, LuggageInv, Luggage, RetryUsesNewerToken
<1> QED BY <1>1, OmadaStarts, OmadaGoesOn, PTL DEF OmadaSpec

(* A list that is returned is the whole list, or its caller was answered   *)
(* 200 without a list on the way (omada-openapi.mjs:127), for every page   *)
(* size, page limit and number of rows, whatever is refused in between.    *)
THEOREM ReturnedListsAreComplete == OmadaSpec => []ListsAreComplete
<1>1. OmadaInv => ListsAreComplete
  BY DEF OmadaInv, ReadInv, Read, ListsAreComplete
<1> QED BY <1>1, OmadaStarts, OmadaGoesOn, PTL DEF OmadaSpec

-----------------------------------------------------------------------------
(* Conversations                                                           *)

(* The next number of a conversation whose messages have the first n.      *)
LEMMA NextOf ==
  ASSUME NEW k, NEW n \in Nat, SequencesOf(k) = 1..n
  PROVE  NextSequence(k) = n + 1
<1>1. SequencesOf(k) \cup {0} = 0..n
  OBVIOUS
<1>2. Max(0..n) = n
  BY DEF Max
<1> QED BY <1>1, <1>2 DEF NextSequence

(* The numbers of a conversation: no gap, none used twice; and its         *)
(* last_message_at is that of the message with the last one.               *)
Count(k) == Cardinality(Messages(k))

Numbered(k) ==
  /\ IsFiniteSet(Messages(k)) /\ SequencesOf(k) = 1..Count(k)
  /\ \A m, n \in Messages(k) : m.sequence = n.sequence => m = n
  /\ lastAt[k] = Never <=> Messages(k) = {}
  /\ \A m \in Messages(k) : m.sequence = Count(k) => lastAt[k] = m.at

(* The number that a request has got: not beyond the next one, and if its  *)
(* row is inserted, the next one; no other row of the conversation is      *)
(* waiting to be committed then.                                           *)
Holds(c) ==
  /\ pc[c] # "idle" => conv[c] \in Conversations /\ actor[c] \in Users
  /\ pc[c] \in {"insert", "commit"} => sequence[c] \in 1..Count(conv[c]) + 1
  /\ pc[c] = "commit" =>
       /\ sequence[c] = Count(conv[c]) + 1
       /\ \A d \in Clients \ {c} : pc[d] = "commit" => conv[d] # conv[c]

NumbersInv == (\A k \in Conversations : Numbered(k)) /\ (\A c \in Clients : Holds(c))

LEMMA CountIsNat ==
  ASSUME NumbersInv, NEW k \in Conversations
  PROVE  Count(k) \in Nat
  BY FS_CardinalityType DEF NumbersInv, Numbered, Count

LEMMA ConversationsStartTyped == Init => TypeOK
  BY ConversationsAssumption DEF Init, TypeOK

LEMMA FinishTyped ==
  ASSUME TypeOK, NEW c \in Clients, Finish(c), UNCHANGED tables
  PROVE  TypeOK'
<1>1. pc' \in [Clients -> {"idle", "member", "sequence", "insert", "commit"}]
  BY DEF TypeOK, Finish, Goto
<1>2. actor' \in [Clients -> Users \cup {Nobody}] /\ conv' \in [Clients -> Conversations \cup {0}]
  BY DEF TypeOK, Finish
<1>3. begun' \in [Clients -> Nat] /\ sequence' \in [Clients -> Nat]
  BY DEF TypeOK, Finish
<1> QED BY <1>1, <1>2, <1>3 DEF TypeOK, Finish, tables

LEMMA ConversationsStayTyped ==
  ASSUME TypeOK, NumbersInv, [Next]_vars
  PROVE  TypeOK'
<1> USE ConversationsAssumption DEF Goto, tables, request
<1>1. CASE UNCHANGED vars
  BY <1>1 DEF vars, TypeOK
<1>2. ASSUME NEW u \in Users, NEW invited \in SUBSET Users, CreateConversation(u, invited)
      PROVE  TypeOK'
  BY <1>2 DEF CreateConversation, TypeOK
<1>3. ASSUME NEW c \in Clients, NEW u \in Users, NEW k \in Conversations, Begin(c, u, k)
      PROVE  TypeOK'
  BY <1>3 DEF Begin, TypeOK
<1>4. ASSUME NEW c \in Clients, CheckMember(c)
      PROVE  TypeOK'
  <2>1. CASE Finish(c)
    BY <1>4, <2>1, FinishTyped DEF CheckMember
  <2>2. CASE Goto(c, "sequence") /\ UNCHANGED <<request, now>>
    BY <1>4, <2>2 DEF CheckMember, TypeOK
  <2> QED BY <1>4, <2>1, <2>2 DEF CheckMember
<1>5. ASSUME NEW c \in Clients, ReadSequence(c)
      PROVE  TypeOK'
  <2>1. conv[c] \in Conversations
    BY <1>5 DEF ReadSequence, NumbersInv, Holds
  <2>2. NextSequence(conv[c]) = Count(conv[c]) + 1
    BY <2>1, NextOf, CountIsNat DEF NumbersInv, Numbered
  <2>3. NextSequence(conv[c]) \in Nat
    BY <2>1, <2>2, CountIsNat
  <2> QED BY <1>5, <2>3 DEF ReadSequence, TypeOK
<1>6. ASSUME NEW c \in Clients, Insert(c)
      PROVE  TypeOK'
  <2>1. CASE Finish(c)
    BY <1>6, <2>1, FinishTyped DEF Insert
  <2>2. CASE Goto(c, "commit") /\ UNCHANGED <<request, now>>
    BY <1>6, <2>2 DEF Insert, TypeOK
  <2> QED BY <1>6, <2>1, <2>2 DEF Insert
<1>7. ASSUME NEW c \in Clients, Commit(c)
      PROVE  TypeOK'
  <2>1. conv[c] \in Conversations /\ actor[c] \in Users /\ sequence[c] \in Nat \ {0} /\ begun[c] \in Nat
    <3>1. conv[c] \in Conversations /\ actor[c] \in Users /\ sequence[c] = Count(conv[c]) + 1
      BY <1>7 DEF Commit, NumbersInv, Holds
    <3> QED BY <3>1, CountIsNat DEF TypeOK
  <2>2. messages' \subseteq [conv : Conversations, sequence : Nat \ {0}, sender : Users, at : Nat]
    BY <1>7, <2>1 DEF Commit, TypeOK
  <2>3. lastAt' \in [Conversations -> Nat \cup {Never}]
    BY <1>7, <2>1 DEF Commit, StampOf, TypeOK
  <2> QED BY <1>7, <2>2, <2>3 DEF Commit, TypeOK, Finish
<1>8. ASSUME NEW c \in Clients, RefuseReference(c) \/ Rollback(c)
      PROVE  TypeOK'
  BY <1>8, FinishTyped DEF RefuseReference, Rollback
<1>9. ASSUME NEW u \in Users, NEW k \in Conversations, MarkRead(u, k)
      PROVE  TypeOK'
  BY <1>9 DEF MarkRead, TypeOK
<1>10. ASSUME NEW u \in Users, NEW k \in Conversations, NEW n \in 1..MaxMessages, MarkReadTo(u, k, n)
       PROVE  TypeOK'
  <2>1. (IF n \in SequencesOf(k)
         THEN (CHOOSE m \in Messages(k) : m.sequence = n).at ELSE Never) \in Nat \cup {Never}
    <3>1. CASE n \in SequencesOf(k)
      <4>1. \E m \in Messages(k) : m.sequence = n
        BY <3>1 DEF SequencesOf
      <4>2. (CHOOSE m \in Messages(k) : m.sequence = n) \in messages
        BY <4>1 DEF Messages
      <4> QED BY <3>1, <4>2 DEF TypeOK
    <3>2. CASE n \notin SequencesOf(k)
      BY <3>2
    <3> QED BY <3>1, <3>2
  <2>2. readAt' \in [Conversations -> [Users -> Nat \cup {Never}]]
    BY <1>10, <2>1 DEF MarkReadTo, TypeOK
  <2> QED BY <1>10, <2>2 DEF MarkReadTo, TypeOK
<1>11. CASE Tick
  BY <1>11 DEF Tick, TypeOK
<1> QED
  BY <1>1, <1>2, <1>3, <1>4, <1>5, <1>6, <1>7, <1>8, <1>9, <1>10, <1>11 DEF Next, Step

(* A request that stores nothing leaves the numbers and the others alone.  *)
LEMMA OneRequestMovesOn ==
  ASSUME NumbersInv, NEW c \in Clients, messages' = messages, lastAt' = lastAt,
         Holds(c)',
         \A d \in Clients \ {c} : /\ pc'[d] = pc[d] /\ conv'[d] = conv[d]
                                  /\ actor'[d] = actor[d] /\ sequence'[d] = sequence[d]
  PROVE  NumbersInv'
<1>1. ASSUME NEW k \in Conversations PROVE Numbered(k)'
  BY DEF NumbersInv, Numbered, Count, Messages, SequencesOf
<1>2. ASSUME NEW d \in Clients \ {c} PROVE Holds(d)'
  <2>1. Holds(d) /\ Count(conv[d])' = Count(conv[d])
    BY DEF NumbersInv, Count, Messages
  <2>2. Holds(c)'
    OBVIOUS
  <2> QED BY <2>1, <2>2 DEF Holds, Count, Messages
<1>3. Holds(c)'
  OBVIOUS
<1> QED BY <1>1, <1>2, <1>3 DEF NumbersInv

LEMMA FinishMovesOn ==
  ASSUME TypeOK, NumbersInv, NEW c \in Clients, Finish(c), UNCHANGED tables
  PROVE  NumbersInv'
<1>1. pc'[c] = "idle" /\ messages' = messages /\ lastAt' = lastAt
  BY DEF TypeOK, Finish, Goto, tables
<1>2. Holds(c)'
  BY <1>1 DEF Holds
<1>3. \A d \in Clients \ {c} : /\ pc'[d] = pc[d] /\ conv'[d] = conv[d]
                                 /\ actor'[d] = actor[d] /\ sequence'[d] = sequence[d]
  BY DEF TypeOK, Finish, Goto
<1> QED BY <1>1, <1>2, <1>3, OneRequestMovesOn

(* A row is inserted with the next number, and no two are waiting.         *)
LEMMA InsertKeepsNumbers ==
  ASSUME TypeOK, NumbersInv, NEW c \in Clients, Insert(c)
  PROVE  NumbersInv'
<1>1. CASE Finish(c)
  BY <1>1, FinishMovesOn DEF Insert
<1>2. CASE ~Finish(c)
  <2>1. /\ pc[c] = "insert" /\ pc' = [pc EXCEPT ![c] = "commit"] /\ UNCHANGED <<tables, request>>
        /\ ~MustWait(c) /\ sequence[c] \notin SequencesOf(conv[c])
    BY <1>2 DEF Insert, Goto
  <2>2. /\ conv[c] \in Conversations /\ actor[c] \in Users
        /\ sequence[c] \in 1..Count(conv[c]) + 1 /\ SequencesOf(conv[c]) = 1..Count(conv[c])
    BY <2>1 DEF NumbersInv, Holds, Numbered
  <2>3. sequence[c] = Count(conv[c]) + 1
    BY <2>1, <2>2, CountIsNat
  <2>4. ASSUME NEW d \in Clients \ {c}, pc[d] = "commit" PROVE conv[d] # conv[c]
    <3>1. sequence[d] = Count(conv[d]) + 1
      BY <2>4 DEF NumbersInv, Holds
    <3> QED BY <2>1, <2>3, <2>4, <3>1 DEF MustWait
  <2>5. /\ messages' = messages /\ lastAt' = lastAt /\ pc'[c] = "commit"
        /\ conv' = conv /\ actor' = actor /\ sequence' = sequence
        /\ \A d \in Clients \ {c} : pc'[d] = pc[d]
    BY <2>1 DEF TypeOK, tables, request
  <2>6. Holds(c)'
    BY <2>2, <2>3, <2>4, <2>5 DEF Holds, Count, Messages
  <2> QED BY <2>5, <2>6, OneRequestMovesOn
<1> QED BY <1>1, <1>2

(* A message is committed: it is the next one of its conversation.         *)
LEMMA CommitKeepsNumbers ==
  ASSUME TypeOK, NumbersInv, NEW c \in Clients, Commit(c)
  PROVE  NumbersInv'
<1> DEFINE m0 == [conv |-> conv[c], sequence |-> sequence[c], sender |-> actor[c], at |-> begun[c]]
<1>1. PICK k \in Conversations : k = conv[c]
  BY DEF Commit, NumbersInv, Holds
<1>2. PICK m : m = m0
  OBVIOUS
<1>3. /\ m.conv = k /\ m.sequence = Count(k) + 1 /\ m.at = begun[c] /\ m.at \in Nat
      /\ messages' = messages \cup {m} /\ lastAt' = [lastAt EXCEPT ![k] = m.at]
  BY <1>1, <1>2 DEF Commit, NumbersInv, Holds, StampOf, TypeOK
<1>4. Numbered(k) /\ Count(k) \in Nat
  BY CountIsNat DEF NumbersInv
<1>5. Messages(k)' = Messages(k) \cup {m} /\ m \notin Messages(k)
  <2>1. Messages(k)' = Messages(k) \cup {m}
    BY <1>3 DEF Messages
  <2>2. m.sequence \notin SequencesOf(k)
    BY <1>3, <1>4 DEF Numbered
  <2> QED BY <2>1, <2>2 DEF SequencesOf
<1>6. IsFiniteSet(Messages(k)') /\ Count(k)' = Count(k) + 1
  BY <1>4, <1>5, FS_AddElement DEF Numbered, Count
<1>7. ASSUME NEW j \in Conversations, j # k
      PROVE  Messages(j)' = Messages(j) /\ Count(j)' = Count(j) /\ lastAt'[j] = lastAt[j]
  BY <1>3, <1>7 DEF Messages, Count, TypeOK
<1>8. Numbered(k)'
  <2>1. lastAt'[k] = m.at /\ lastAt'[k] # Never
    BY <1>3, ConversationsAssumption DEF TypeOK
  <2>2. SequencesOf(k)' = 1..Count(k) + 1
    <3>1. SequencesOf(k)' = SequencesOf(k) \cup {m.sequence}
      BY <1>5 DEF SequencesOf
    <3> QED BY <1>3, <1>4, <3>1 DEF Numbered
  <2>3. \A n \in Messages(k) : n.sequence \in 1..Count(k)
    BY <1>4 DEF Numbered, SequencesOf
  <2>4. \A n \in Messages(k) : n.sequence # Count(k) + 1
    BY <1>4, <2>3
  <2>5. \A n, p \in Messages(k)' : n.sequence = p.sequence => n = p
    BY <1>3, <1>4, <1>5, <2>4 DEF Numbered
  <2>6. \A n \in Messages(k)' : n.sequence = Count(k)' => lastAt'[k] = n.at
    BY <1>3, <1>5, <1>6, <2>1, <2>4
  <2> QED BY <1>5, <1>6, <2>1, <2>2, <2>5, <2>6 DEF Numbered
<1>9. ASSUME NEW j \in Conversations, j # k PROVE Numbered(j)'
  <2>1. Numbered(j) /\ SequencesOf(j)' = SequencesOf(j)
    BY <1>7, <1>9 DEF NumbersInv, SequencesOf
  <2> QED BY <1>7, <1>9, <2>1 DEF Numbered
<1>10. ASSUME NEW d \in Clients PROVE Holds(d)'
  <2>1. /\ pc'[c] = "idle" /\ pc[c] = "commit"
        /\ \A p \in Clients \ {c} : /\ pc'[p] = pc[p] /\ conv'[p] = conv[p]
                                      /\ actor'[p] = actor[p] /\ sequence'[p] = sequence[p]
    BY DEF Commit, Finish, Goto, TypeOK
  <2>2. CASE d = c
    BY <2>1, <2>2 DEF Holds
  <2>3. CASE d # c /\ conv[d] = k
    <3>1. Holds(c) /\ Holds(d)
      BY DEF NumbersInv
    <3>2. pc[d] # "commit"
      BY <1>1, <2>1, <2>3, <3>1 DEF Holds
    <3>3. pc[d] = "insert" => sequence[d] \in 1..Count(k)' + 1
      BY <1>4, <1>6, <2>3, <3>1 DEF Holds
    <3> QED BY <2>1, <2>3, <3>1, <3>2, <3>3 DEF Holds, Count, Messages
  <2>4. CASE d # c /\ conv[d] # k
    <3>1. Holds(d)
      BY DEF NumbersInv
    <3>2. CASE pc[d] = "idle"
      BY <2>1, <2>4, <3>2 DEF Holds
    <3>3. CASE pc[d] # "idle"
      <4>1. PICK j \in Conversations : j = conv[d] /\ j # k
        BY <2>4, <3>1, <3>3 DEF Holds
      <4>2. Count(j)' = Count(j) /\ conv'[d] = j
        BY <1>7, <2>1, <2>4, <4>1
      <4>3. Count(conv[d])' = Count(conv[d])
        BY <4>1, <4>2
      <4> QED BY <2>1, <2>4, <3>1, <4>3 DEF Holds
    <3> QED BY <3>2, <3>3
  <2> QED BY <2>2, <2>3, <2>4
<1> QED BY <1>8, <1>9, <1>10 DEF NumbersInv

LEMMA NumbersHold ==
  ASSUME TypeOK, NumbersInv, [Next]_vars
  PROVE  NumbersInv'
<1>1. ASSUME UNCHANGED <<messages, lastAt, pc, request>>
      PROVE  NumbersInv'
  <2>1. UNCHANGED <<messages, lastAt, pc, actor, conv, sequence>>
    BY <1>1 DEF request
  <2>2. \A k \in Conversations : Numbered(k)'
    BY <2>1 DEF NumbersInv, Numbered, Count, Messages, SequencesOf
  <2>3. \A c \in Clients : Holds(c)'
    BY <2>1 DEF NumbersInv, Holds, Count, Messages
  <2> QED BY <2>2, <2>3 DEF NumbersInv
<1>2. CASE UNCHANGED vars
  BY <1>1, <1>2 DEF vars, request
<1>3. ASSUME NEW u \in Users, NEW invited \in SUBSET Users, CreateConversation(u, invited)
      PROVE  NumbersInv'
  BY <1>1, <1>3 DEF CreateConversation
<1>4. ASSUME NEW c \in Clients, NEW u \in Users, NEW k \in Conversations, Begin(c, u, k)
      PROVE  NumbersInv'
  <2>1. /\ messages' = messages /\ lastAt' = lastAt
        /\ pc'[c] = "member" /\ conv'[c] = k /\ actor'[c] = u
        /\ \A d \in Clients \ {c} : /\ pc'[d] = pc[d] /\ conv'[d] = conv[d]
                                      /\ actor'[d] = actor[d] /\ sequence'[d] = sequence[d]
    BY <1>4 DEF Begin, Goto, TypeOK, tables
  <2>2. Holds(c)'
    BY <2>1 DEF Holds
  <2> QED BY <2>1, <2>2, OneRequestMovesOn
<1>5. ASSUME NEW c \in Clients, CheckMember(c)
      PROVE  NumbersInv'
  <2>1. CASE Finish(c)
    BY <1>5, <2>1, FinishMovesOn DEF CheckMember
  <2>2. CASE Goto(c, "sequence") /\ UNCHANGED <<request, now>>
    <3>1. /\ messages' = messages /\ lastAt' = lastAt /\ pc[c] = "member" /\ pc'[c] = "sequence"
          /\ conv' = conv /\ actor' = actor /\ sequence' = sequence
          /\ \A d \in Clients \ {c} : pc'[d] = pc[d]
      BY <1>5, <2>2 DEF CheckMember, Goto, TypeOK, tables, request
    <3>2. Holds(c)'
      BY <3>1 DEF Holds, NumbersInv
    <3> QED BY <3>1, <3>2, OneRequestMovesOn
  <2> QED BY <1>5, <2>1, <2>2 DEF CheckMember
<1>6. ASSUME NEW c \in Clients, ReadSequence(c)
      PROVE  NumbersInv'
  <2>1. PICK k \in Conversations : k = conv[c] /\ actor[c] \in Users
    BY <1>6 DEF ReadSequence, NumbersInv, Holds
  <2>2. NextSequence(k) = Count(k) + 1 /\ Count(k) \in Nat
    BY <2>1, NextOf, CountIsNat DEF NumbersInv, Numbered
  <2>3. /\ messages' = messages /\ lastAt' = lastAt /\ pc'[c] = "insert"
        /\ conv' = conv /\ actor' = actor /\ sequence'[c] = Count(k) + 1
        /\ \A d \in Clients \ {c} : pc'[d] = pc[d] /\ sequence'[d] = sequence[d]
    BY <1>6, <2>1, <2>2 DEF ReadSequence, Goto, TypeOK, tables
  <2>4. Holds(c)'
    <3>1. Count(k)' = Count(k)
      BY <2>3 DEF Count, Messages
    <3>2. sequence'[c] \in 1..Count(k)' + 1
      BY <2>2, <2>3, <3>1
    <3> QED BY <2>1, <2>3, <3>2 DEF Holds, Count, Messages
  <2> QED BY <2>3, <2>4, OneRequestMovesOn
<1>7. ASSUME NEW c \in Clients, RefuseReference(c) \/ Rollback(c)
      PROVE  NumbersInv'
  BY <1>7, FinishMovesOn DEF RefuseReference, Rollback
<1>8. ASSUME NEW u \in Users, NEW k \in Conversations,
             MarkRead(u, k) \/ \E n \in 1..MaxMessages : MarkReadTo(u, k, n)
      PROVE  NumbersInv'
  BY <1>1, <1>8 DEF MarkRead, MarkReadTo
<1>9. CASE Tick
  BY <1>1, <1>9 DEF Tick, tables
<1> QED
  BY <1>2, <1>3, <1>4, <1>5, <1>6, <1>7, <1>8, <1>9, InsertKeepsNumbers, CommitKeepsNumbers
     DEF Next, Step

LEMMA NumbersStart == Init => NumbersInv
<1> SUFFICES ASSUME Init PROVE NumbersInv
  OBVIOUS
<1>1. ASSUME NEW k \in Conversations PROVE Numbered(k)
  <2>1. Messages(k) = {} /\ SequencesOf(k) = {}
    BY DEF Init, Messages, SequencesOf
  <2>2. IsFiniteSet(Messages(k)) /\ Count(k) = 0
    BY <2>1, FS_EmptySet DEF Count
  <2> QED BY <2>1, <2>2 DEF Numbered, Init
<1>2. \A c \in Clients : Holds(c)
  BY DEF Init, Holds
<1> QED BY <1>1, <1>2 DEF NumbersInv

(* The communication centre has its type.                                  *)
THEOREM ConversationsTypes == Spec => []TypeOK
<1>1. Init => TypeOK /\ NumbersInv
  BY ConversationsStartTyped, NumbersStart
<1>2. TypeOK /\ NumbersInv /\ [Next]_vars => (TypeOK /\ NumbersInv)'
  BY ConversationsStayTyped, NumbersHold
<1> QED BY <1>1, <1>2, PTL DEF Spec

(* Messages are numbered without a gap and without a number used twice,    *)
(* however many requests overlap, lose a race for a number or roll back.   *)
THEOREM NumbersHaveNoGap == Spec => []SequencesAreContiguous
<1>1. Init => TypeOK /\ NumbersInv
  BY ConversationsStartTyped, NumbersStart
<1>2. TypeOK /\ NumbersInv /\ [Next]_vars => (TypeOK /\ NumbersInv)'
  BY ConversationsStayTyped, NumbersHold
<1>3. NumbersInv => SequencesAreContiguous
  BY DEF NumbersInv, Numbered, Count, SequencesAreContiguous
<1> QED BY <1>1, <1>2, <1>3, PTL DEF Spec

(* last_message_at belongs to the message that the list shows, although it *)
(* is set by the transaction that commits last and is the time at which    *)
(* that transaction began.                                                 *)
THEOREM ListIsOrderedByItsMessages == Spec => []ListShowsLastMessage
<1>1. Init => TypeOK /\ NumbersInv
  BY ConversationsStartTyped, NumbersStart
<1>2. TypeOK /\ NumbersInv /\ [Next]_vars => (TypeOK /\ NumbersInv)'
  BY ConversationsStayTyped, NumbersHold
<1>3. NumbersInv => ListShowsLastMessage
  <2> SUFFICES ASSUME NumbersInv, NEW k \in Conversations
               PROVE  /\ lastAt[k] = Never <=> LastMessage(k) = {}
                      /\ \A m \in LastMessage(k) : lastAt[k] = m.at
    BY DEF ListShowsLastMessage
  <2>1. Numbered(k) /\ Count(k) \in Nat
    BY CountIsNat DEF NumbersInv
  <2>2. \A m \in Messages(k) : m.sequence \in 1..Count(k)
    BY <2>1 DEF Numbered, SequencesOf
  <2>3. ASSUME NEW m \in LastMessage(k) PROVE m \in Messages(k) /\ m.sequence = Count(k)
    <3>1. m \in Messages(k) /\ \A n \in 1..Count(k) : n <= m.sequence
      BY <2>1 DEF LastMessage, Numbered
    <3>2. m.sequence \in 1..Count(k)
      BY <2>2, <3>1
    <3> QED BY <2>1, <3>1, <3>2
  <2>4. Messages(k) # {} => LastMessage(k) # {}
    <3> SUFFICES ASSUME Messages(k) # {} PROVE LastMessage(k) # {}
      OBVIOUS
    <3>1. Count(k) \in 1..Count(k)
      BY <2>1, <2>2
    <3>2. PICK m \in Messages(k) : m.sequence = Count(k)
      BY <2>1, <3>1 DEF Numbered, SequencesOf
    <3>3. \A n \in SequencesOf(k) : n <= m.sequence
      BY <2>1, <3>2 DEF Numbered
    <3> QED BY <3>2, <3>3 DEF LastMessage
  <2> QED BY <2>1, <2>3, <2>4 DEF Numbered
<1> QED BY <1>1, <1>2, <1>3, PTL DEF Spec

-----------------------------------------------------------------------------
(* The dashboard                                                           *)

OverviewAnswers == {"healthy", "unknown", "degraded", "failed", "unconfigured", "null", Nothing}
HealthAnswers == {"ok", "not ok", "null", Nothing}

(* The type, with the answers of every refresh as functions, in parts.     *)
PollingTyped ==
  /\ source \in Sources /\ network \in StatesOf(source)
  /\ changes \in 0..MaxChanges /\ losses \in 0..MaxLosses
  /\ initial \in Refreshes \cup {Nothing, "done"}
  /\ stage \in [Refreshes -> {"idle", "session", "fetching"}]
MountedTyped == mounted \in BOOLEAN
ProbedTyped == probed \in [Refreshes -> BOOLEAN \cup {Nothing}]
AnswersTyped ==
  /\ overview \in [Refreshes -> OverviewAnswers] /\ live \in OverviewAnswers
  /\ health \in [Refreshes -> HealthAnswers] /\ shown \in HealthAnswers

DashboardInv == PollingTyped /\ MountedTyped /\ ProbedTyped /\ AnswersTyped

LEMMA OverviewIsAnAnswer == \A ok : Overview(ok) \in OverviewAnswers
  BY DEF Overview, OverviewAnswers

LEMMA DashboardStarts == DashboardInit => DashboardInv
<1> SUFFICES ASSUME DashboardInit PROVE DashboardInv
  OBVIOUS
<1> USE DashboardAssumption DEF DashboardInit
<1>1. PollingTyped BY DEF PollingTyped
<1>2. MountedTyped BY DEF MountedTyped
<1>3. ProbedTyped BY DEF ProbedTyped
<1>4. AnswersTyped BY DEF AnswersTyped, OverviewAnswers, HealthAnswers
<1> QED BY <1>1, <1>2, <1>3, <1>4 DEF DashboardInv

LEMMA ForgottenTyped ==
  ASSUME DashboardInv, NEW r \in Refreshes, Forgets(r), losses' \in 0..MaxLosses,
         live' \in OverviewAnswers, shown' \in HealthAnswers
  PROVE  DashboardInv'
<1> USE DEF DashboardInv, Forgets, environment
<1>1. PollingTyped' BY DEF PollingTyped
<1>2. MountedTyped' BY DEF MountedTyped
<1>3. ProbedTyped' BY DEF ProbedTyped
<1>4. AnswersTyped' BY DEF AnswersTyped, OverviewAnswers, HealthAnswers
<1> QED BY <1>1, <1>2, <1>3, <1>4

LEMMA DashboardStaysTyped ==
  ASSUME DashboardInv, [DashboardNext]_dashboardVars
  PROVE  DashboardInv'
<1>0. PollingTyped /\ MountedTyped /\ ProbedTyped /\ AnswersTyped
  BY DEF DashboardInv
<1> USE DashboardAssumption DEF PollingTyped, MountedTyped, ProbedTyped, AnswersTyped
<1>1. CASE UNCHANGED dashboardVars
  BY <1>0, <1>1 DEF dashboardVars, DashboardInv
<1>2. ASSUME NEW state \in NetworkStates, Change(state)
      PROVE  DashboardInv'
  BY <1>0, <1>2 DEF Change, DashboardInv, answers, screen
<1>3. ASSUME NEW r \in Refreshes, Mount(r)
      PROVE  DashboardInv'
  <2>1. PollingTyped'
    BY <1>0, <1>3 DEF Mount, StartRefresh, environment
  <2>2. MountedTyped' /\ ProbedTyped' /\ AnswersTyped'
    BY <1>0, <1>3 DEF Mount, StartRefresh, answers, screen
  <2> QED BY <2>1, <2>2 DEF DashboardInv
<1>4. ASSUME NEW r \in Refreshes, Interval(r)
      PROVE  DashboardInv'
  BY <1>0, <1>4 DEF Interval, StartRefresh, environment, answers, screen, DashboardInv
<1>5. ASSUME NEW r \in Refreshes, Authenticated(r)
      PROVE  DashboardInv'
  BY <1>0, <1>5 DEF Authenticated, environment, answers, screen, DashboardInv
<1>6. ASSUME NEW r \in Refreshes, Probe(r)
      PROVE  DashboardInv'
  <2>1. PollingTyped' /\ MountedTyped' /\ AnswersTyped'
    BY <1>0, <1>6 DEF Probe, environment, screen
  <2>2. ProbedTyped'
    <3>1. Healthy \in BOOLEAN
      BY DEF Healthy
    <3> QED BY <1>0, <1>6, <3>1 DEF Probe
  <2> QED BY <2>1, <2>2 DEF DashboardInv
<1>7. ASSUME NEW r \in Refreshes, OverviewArrives(r)
      PROVE  DashboardInv'
  BY <1>0, <1>7, OverviewIsAnAnswer DEF OverviewArrives, environment, screen, DashboardInv
<1>8. ASSUME NEW r \in Refreshes, HealthArrives(r)
      PROVE  DashboardInv'
  <2>1. PollingTyped' /\ MountedTyped' /\ ProbedTyped'
    BY <1>0, <1>8 DEF HealthArrives, environment
  <2>2. AnswersTyped'
    BY <1>0, <1>8 DEF HealthArrives, screen, HealthAnswers
  <2> QED BY <2>1, <2>2 DEF DashboardInv
<1>9. ASSUME NEW r \in Refreshes, BadStatus(r)
      PROVE  DashboardInv'
  <2>1. PollingTyped' /\ MountedTyped' /\ ProbedTyped'
    BY <1>0, <1>9 DEF BadStatus, environment
  <2>2. AnswersTyped'
    BY <1>0, <1>9 DEF BadStatus, screen, HealthAnswers, OverviewAnswers
  <2> QED BY <2>1, <2>2 DEF DashboardInv
<1>10. ASSUME NEW r \in Refreshes, Apply(r)
       PROVE  DashboardInv'
  BY <1>0, <1>10, ForgottenTyped DEF Apply, screen
<1>11. ASSUME NEW r \in Refreshes, RefreshFails(r)
       PROVE  DashboardInv'
  <2>1. losses' \in 0..MaxLosses
    BY <1>0, <1>11 DEF RefreshFails
  <2>2. /\ live' \in {live, Nothing} /\ shown' \in {shown, Nothing} /\ Forgets(r)
    BY <1>11 DEF RefreshFails, screen
  <2>3. live' \in OverviewAnswers /\ shown' \in HealthAnswers
    BY <1>0, <2>2 DEF OverviewAnswers, HealthAnswers
  <2> QED BY <2>1, <2>2, <2>3, ForgottenTyped
<1>12. CASE Leave
  BY <1>0, <1>12 DEF Leave, environment, answers, screen, DashboardInv
<1> QED
  BY <1>1, <1>2, <1>3, <1>4, <1>5, <1>6, <1>7, <1>8, <1>9, <1>10, <1>11, <1>12
     DEF DashboardNext, Progress

(* The dashboard has its type: it never shows anything but an answer of    *)
(* the routes or nothing.                                                  *)
THEOREM DashboardTypes == DashboardSpec => []DashboardTypeOK
<1>1. DashboardInv /\ [DashboardNext]_dashboardVars => DashboardInv'
  BY DashboardStaysTyped
<1>2. DashboardInv => DashboardTypeOK
  <2> SUFFICES ASSUME DashboardInv PROVE DashboardTypeOK
    OBVIOUS
  <2>1. PollingTyped /\ MountedTyped /\ ProbedTyped /\ AnswersTyped
    BY DEF DashboardInv
  <2>2. \A r \in Refreshes : overview[r] \in OverviewAnswers /\ health[r] \in HealthAnswers
    BY <2>1 DEF AnswersTyped
  <2>3. /\ {overview[r] : r \in Refreshes} \cup {live} \subseteq OverviewAnswers
        /\ {health[r] : r \in Refreshes} \cup {shown} \subseteq HealthAnswers
    BY <2>1, <2>2 DEF AnswersTyped
  <2> QED BY <2>1, <2>3 DEF DashboardTypeOK, PollingTyped, MountedTyped, ProbedTyped,
                            OverviewAnswers, HealthAnswers
<1> QED BY DashboardStarts, <1>1, <1>2, PTL DEF DashboardSpec

-----------------------------------------------------------------------------
(* All of it                                                               *)

(* The sum that is explored contains only behaviours in which each of the  *)
(* five follows its own specification.                                     *)
LEMMA TheSumIsOfItsParts ==
  MCSpec => Spec /\ PageSpec /\ DashboardSpec /\ DisconnectSpec /\ OmadaSpec
<1>1. MCInit => Init /\ PageInit /\ DashboardInit /\ DisconnectInit /\ OmadaInit
  BY DEF MCInit
<1>2. [MCNext]_MCVars =>
        /\ [Next]_vars /\ [PageNext]_pageVars /\ [DashboardNext]_dashboardVars
        /\ [DisconnectNext]_disconnectVars /\ [OmadaNext]_omadaVars
  BY DEF MCNext, MCVars
<1> QED BY <1>1, <1>2, PTL DEF MCSpec, Spec, PageSpec, DashboardSpec, DisconnectSpec, OmadaSpec

(* Every variable of an operator's tools has its type, whatever steps the  *)
(* five take together.                                                     *)
THEOREM ConsoleTypes ==
  Spec /\ PageSpec /\ DashboardSpec /\ DisconnectSpec /\ OmadaSpec => []TypesOK
<1>1. TypeOK /\ PageTypeOK /\ DashboardTypeOK /\ DisconnectTypeOK /\ OmadaTypeOK => TypesOK
  BY DEF TypesOK
<1> QED
  BY <1>1, ConversationsTypes, PageTypes, DashboardTypes, DisconnectTypes, OmadaTypes, PTL

(* What the run explores has all of the safety properties proved here.     *)
THEOREM ConsoleIsSafe ==
  MCSpec => [](/\ TypesOK /\ SequencesAreContiguous /\ ListShowsLastMessage /\ ShownIsSelected
               /\ RetryUsesNewerToken /\ ListsAreComplete /\ VerifiedIsGone)
  BY TheSumIsOfItsParts, ConsoleTypes, NumbersHaveNoGap, ListIsOrderedByItsMessages, PageIsHonest,
     RetriesAreWorthIt, ReturnedListsAreComplete, DisconnectedIsGone, PTL
=============================================================================
