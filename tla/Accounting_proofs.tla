-------------------------- MODULE Accounting_proofs --------------------------
(***************************************************************************)
(* Theorems about Accounting for every number of sessions, events,         *)
(* handlers and failures, and whatever the network does to the datagrams;  *)
(* and about RadiusCodec for all datagrams, whatever lengths they declare. *)
(***************************************************************************)
EXTENDS Accounting, RadiusCodec, SequenceTheorems, FiniteSetTheorems, TLAPS

-----------------------------------------------------------------------------
(* The rows                                                                *)

Time == Nat \cup {Never}
Event == [session : Sessions, type : StatusTypes, octets : Nat, time : Nat]
SessionRow == [state : {"ABSENT", "ACTIVE", "TERMINATED"}, started : Time, last : Time,
               ended : Time, octets : Nat]

LEMMA EventsAreEvents == Events \subseteq Event
<1> SUFFICES ASSUME NEW k \in Sessions, NEW i \in DOMAIN Report[k] PROVE Report[k][i] \in Event
  BY DEF Events
<1>1. Report[k] \in Seq(Packets(k))
  BY ReportAssumption
<1>2. i \in 1..Len(Report[k])
  BY <1>1
<1>3. Report[k][i] \in Packets(k)
  BY <1>1, <1>2, ElementOfSeq
<1>4. QED
  BY <1>3 DEF Event, Packets

(* Merging an event into a session row gives a session row.                *)
LEMMA MergedIsRow ==
  ASSUME NEW s \in SessionRow, NEW e \in Event, NEW at \in Nat
  PROVE  Merged(s, e, at) \in SessionRow
  BY DEF SessionRow, Event, Merged, Coalesce, Greatest, Time

-----------------------------------------------------------------------------
(* Type correctness                                                        *)

(* A handler at work has a packet and the time it came.                    *)
Busy(h) == pc[h] # "idle" => packet[h] \in Events /\ receivedAt[h] \in Nat

AccountingTypes == TypeOK /\ \A h \in Handlers : Busy(h)

LEMMA AccountingTypesHold == Spec => []AccountingTypes
<1> USE ReportAssumption
<1>1. Init => AccountingTypes
  BY DEF Init, AccountingTypes, TypeOK, Busy, NoSession
<1>2. AccountingTypes /\ [Next]_vars => AccountingTypes'
  <2> SUFFICES ASSUME AccountingTypes, [Next]_vars PROVE AccountingTypes'
    OBVIOUS
  <2> USE DEF AccountingTypes, TypeOK, Busy
  <2>1. ASSUME NEW k \in Sessions, Send(k) PROVE AccountingTypes'
    <3>1. cursor[k] \in DOMAIN Report[k] /\ Current(k) \in Events
      <4>1. cursor[k] \in Nat \ {0} /\ cursor[k] <= Len(Report[k])
        BY <2>1 DEF Send, Reporting
      <4>2. cursor[k] \in DOMAIN Report[k]
        <5>1. Report[k] \in Seq(Packets(k))
          BY ReportAssumption
        <5>2. QED
          BY <4>1, <5>1
      <4>3. QED
        BY <4>2 DEF Events, Current
    <3>2. QED
      BY <3>1, <2>1 DEF Send, tables
  <2>2. ASSUME NEW k \in Sessions, Acknowledged(k) \/ GiveUp(k) PROVE AccountingTypes'
    <3>1. cursor' \in [Sessions -> Nat \ {0}]
      <4>1. cursor \in [Sessions -> Nat \ {0}] /\ cursor' = [cursor EXCEPT ![k] = @ + 1]
        BY <2>2 DEF Acknowledged, GiveUp, Advance
      <4>2. cursor[k] + 1 \in Nat \ {0}
        BY <4>1
      <4>3. QED
        BY <4>1, <4>2
    <3>2. QED
      BY <3>1, <2>2 DEF Acknowledged, GiveUp, Advance, tables
  <2>3. ASSUME NEW h \in Handlers, NEW e \in Events, Receive(h, e) PROVE AccountingTypes'
    BY <2>3 DEF Receive, nas, tables
  <2>4. ASSUME NEW h \in Handlers, InsertEvent(h) PROVE AccountingTypes'
    BY <2>4 DEF InsertEvent, Goto, nas, tables
  <2>5. ASSUME NEW h \in Handlers, Commit(h) PROVE AccountingTypes'
    <3>1. packet[h] \in Events /\ packet[h] \in Event /\ receivedAt[h] \in Nat
      BY <2>5, EventsAreEvents DEF Commit
    <3>2. packet[h].session \in Sessions
      BY <3>1 DEF Event
    <3>3. session' \in [Sessions -> SessionRow]
      BY <3>1, <3>2, <2>5, MergedIsRow DEF Commit, SessionRow, Time
    <3>4. received' \in [Events -> Time]
      BY <3>1, <2>5 DEF Commit, Time
    <3>5. QED
      BY <3>3, <3>4, <2>5 DEF Commit, Goto, nas, SessionRow, Time
  <2>6. ASSUME NEW h \in Handlers, Respond(h) PROVE AccountingTypes'
    BY <2>6 DEF Respond, Idle, nas, tables
  <2>7. ASSUME NEW h \in Handlers, Fail(h) PROVE AccountingTypes'
    BY <2>7 DEF Fail, Idle, nas, tables
  <2>8. CASE Tick
    BY <2>8 DEF Tick, nas, tables
  <2>9. CASE UNCHANGED vars
    BY <2>9 DEF vars
  <2>10. QED
    BY <2>1, <2>2, <2>3, <2>4, <2>5, <2>6, <2>7, <2>8, <2>9 DEF Next, Handle
<1>3. QED
  BY <1>1, <1>2, PTL DEF Spec

(* Every variable keeps its type in every reachable state.                 *)
THEOREM AccountingTypeCorrect == Spec => []TypeOK
  BY AccountingTypesHold, PTL DEF AccountingTypes

-----------------------------------------------------------------------------
(* Write, then answer                                                      *)

(* A handler answers only what is in the table, and rows are never removed.*)
AnswerInv ==
  /\ AnsweredIsPersisted
  /\ \A h \in Handlers : pc[h] = "respond" => received[packet[h]] # Never

(* "returns Accounting-Response only after the accounting write succeeds": *)
(* whatever is lost, duplicated, reordered or handled at the same time, an *)
(* answered event has been persisted.                                      *)
THEOREM WriteBeforeAnswer == Spec => []AnsweredIsPersisted
<1> USE ReportAssumption
<1>1. Init => AnswerInv
  BY DEF Init, AnswerInv, AnsweredIsPersisted
<1>2. AccountingTypes /\ AnswerInv /\ [Next]_vars => AnswerInv'
  <2> SUFFICES ASSUME AccountingTypes, AnswerInv, [Next]_vars PROVE AnswerInv'
    OBVIOUS
  <2> USE DEF AccountingTypes, TypeOK, Busy, AnswerInv, AnsweredIsPersisted
  <2>1. ASSUME NEW k \in Sessions, Send(k) \/ Acknowledged(k) \/ GiveUp(k) PROVE AnswerInv'
    BY <2>1 DEF Send, Acknowledged, GiveUp, Advance, tables
  <2>2. ASSUME NEW h \in Handlers, NEW e \in Events, Receive(h, e) PROVE AnswerInv'
    BY <2>2 DEF Receive, nas, tables
  <2>3. ASSUME NEW h \in Handlers, InsertEvent(h) PROVE AnswerInv'
    BY <2>3 DEF InsertEvent, Goto, nas, tables
  <2>4. ASSUME NEW h \in Handlers, Commit(h) PROVE AnswerInv'
    <3>1. packet[h] \in Events /\ receivedAt[h] # Never
      BY <2>4 DEF Commit
    <3>2. \A e \in Events : received[e] # Never => received'[e] # Never
      BY <3>1, <2>4 DEF Commit
    <3>3. received'[packet[h]] # Never
      BY <3>1, <2>4 DEF Commit
    <3>4. QED
      BY <3>2, <3>3, <2>4 DEF Commit, Goto, nas
  <2>5. ASSUME NEW h \in Handlers, Respond(h) PROVE AnswerInv'
    BY <2>5 DEF Respond, Idle, nas, tables
  <2>6. ASSUME NEW h \in Handlers, Fail(h) PROVE AnswerInv'
    BY <2>6 DEF Fail, Idle, nas, tables
  <2>7. CASE Tick
    BY <2>7 DEF Tick, nas, tables
  <2>8. CASE UNCHANGED vars
    BY <2>8 DEF vars
  <2>9. QED
    BY <2>1, <2>2, <2>3, <2>4, <2>5, <2>6, <2>7, <2>8 DEF Next, Handle
<1>3. AnswerInv => AnsweredIsPersisted
  BY DEF AnswerInv
<1>4. QED
  BY <1>1, <1>2, <1>3, AccountingTypesHold, PTL DEF Spec

-----------------------------------------------------------------------------
(* The session row is what its events say                                  *)

(* One transaction at a time inserts an event, and only one that has no    *)
(* row: its time of receipt is written once.                               *)
InsertInv ==
  \A h \in Handlers : pc[h] = "upsert" =>
    /\ received[packet[h]] = Never
    /\ \A g \in Handlers : pc[g] = "upsert" /\ packet[g] = packet[h] => g = h

(* What SessionReflectsItsEvents says of one session.                      *)
Reflects(s, p, r) ==
  /\ s.state = IF p = {} THEN "ABSENT"
               ELSE IF \E e \in p : e.type = "Stop" THEN "TERMINATED" ELSE "ACTIVE"
  /\ \A e \in p : s.octets >= e.octets /\ s.last >= r[e]
  /\ IF p = {} THEN s.last = Never ELSE \E e \in p : s.last = r[e]
  /\ s.octets > 0 => \E e \in p : s.octets = e.octets
  /\ s.started # Never <=> \E e \in p : e.type = "Start"
  /\ s.ended # Never <=> \E e \in p : e.type = "Stop"

(* Merging one more event into a row that reflects its events gives a row  *)
(* that reflects them and that event.                                      *)
LEMMA MergedReflects ==
  ASSUME NEW s \in SessionRow, NEW e \in Event, NEW at \in Nat, NEW p \in SUBSET Event,
         NEW r, NEW r2, e \notin p, r2[e] = at,
         \A x \in p : r[x] \in Nat /\ r2[x] = r[x], Reflects(s, p, r)
  PROVE  Reflects(Merged(s, e, at), p \cup {e}, r2)
<1> DEFINE m == Merged(s, e, at)
<1> USE ReportAssumption
<1>1. m.state = IF \E x \in p \cup {e} : x.type = "Stop" THEN "TERMINATED" ELSE "ACTIVE"
  BY DEF Reflects, Merged, StatusTypes, Event, SessionRow
<1>2. /\ m.started # Never <=> \E x \in p \cup {e} : x.type = "Start"
      /\ m.ended # Never <=> \E x \in p \cup {e} : x.type = "Stop"
  BY DEF Reflects, Merged, Coalesce
<1>3. /\ \A x \in p \cup {e} : m.octets >= x.octets
      /\ m.octets > 0 => \E x \in p \cup {e} : m.octets = x.octets
  BY DEF Reflects, Merged, SessionRow, Event
<1>4. /\ \A x \in p \cup {e} : m.last >= r2[x]
      /\ \E x \in p \cup {e} : m.last = r2[x]
  <2>1. m.last = Greatest(s.last, at)
    BY DEF Merged
  <2>2. CASE s.last = Never
    <3>1. p = {}
      BY <2>2 DEF Reflects
    <3>2. QED
      BY <2>1, <2>2, <3>1 DEF Greatest
  <2>3. CASE s.last \in Nat
    <3>1. p # {} /\ \A x \in p : s.last >= r2[x]
      BY <2>3 DEF Reflects
    <3>2. PICK x \in p : s.last = r2[x]
      BY <3>1 DEF Reflects
    <3>3. CASE at > s.last
      <4>1. m.last = at /\ \A y \in p : at >= r2[y]
        BY <2>1, <2>3, <3>1, <3>3 DEF Greatest
      <4>2. QED
        BY <4>1
    <3>4. CASE ~(at > s.last)
      <4>1. m.last = s.last /\ s.last >= at
        BY <2>1, <2>3, <3>4 DEF Greatest
      <4>2. QED
        BY <4>1, <3>1, <3>2
    <3>5. QED
      BY <3>3, <3>4
  <2>4. QED
    BY <2>2, <2>3 DEF SessionRow, Time
<1>5. p \cup {e} # {}
  OBVIOUS
<1>6. QED
  BY <1>1, <1>2, <1>3, <1>4, <1>5 DEF Reflects

ReflectInv == InsertInv /\ SessionReflectsItsEvents

(* Whatever the order, the number of copies, the overlap and the failures  *)
(* of its events, a session shows exactly what its persisted events say.   *)
THEOREM SessionsReflectTheirEvents == Spec => []SessionReflectsItsEvents
<1> USE ReportAssumption
<1>0. SessionReflectsItsEvents <=> \A k \in Sessions : Reflects(session[k], Persisted(k), received)
  BY DEF SessionReflectsItsEvents, Reflects
<1>1. Init => ReflectInv
  BY DEF Init, ReflectInv, InsertInv, SessionReflectsItsEvents, Persisted, NoSession
<1>2. AccountingTypes /\ ReflectInv /\ [Next]_vars => ReflectInv'
  <2> SUFFICES ASSUME AccountingTypes, ReflectInv, [Next]_vars PROVE ReflectInv'
    OBVIOUS
  <2>0. ASSUME UNCHANGED tables PROVE SessionReflectsItsEvents'
    BY <2>0 DEF ReflectInv, SessionReflectsItsEvents, Persisted, tables
  <2> USE DEF AccountingTypes, TypeOK, Busy, InsertInv
  <2>1. ASSUME NEW k \in Sessions, Send(k) \/ Acknowledged(k) \/ GiveUp(k) PROVE ReflectInv'
    BY <2>0, <2>1 DEF ReflectInv, Send, Acknowledged, GiveUp, Advance, tables
  <2>2. ASSUME NEW h \in Handlers, NEW e \in Events, Receive(h, e) PROVE ReflectInv'
    BY <2>0, <2>2 DEF ReflectInv, Receive, tables
  <2>3. ASSUME NEW h \in Handlers, InsertEvent(h) PROVE ReflectInv'
    BY <2>0, <2>3 DEF ReflectInv, InsertEvent, Goto, tables
  <2>4. ASSUME NEW h \in Handlers, Commit(h) PROVE ReflectInv'
    <3>0. PICK e \in Events, k \in Sessions, at \in Nat :
            e = packet[h] /\ k = e.session /\ at = receivedAt[h]
      BY <2>4, EventsAreEvents DEF Commit, Event
    <3>1. /\ e \in Event /\ received[e] = Never
          /\ received' = [received EXCEPT ![e] = at]
          /\ session' = [session EXCEPT ![k] = Merged(@, e, at)]
          /\ pc' = [pc EXCEPT ![h] = "respond"] /\ UNCHANGED packet
      BY <3>0, <2>4, EventsAreEvents DEF Commit, Goto, ReflectInv
    <3>3. InsertInv'
      <4> SUFFICES ASSUME NEW g \in Handlers, pc'[g] = "upsert"
                   PROVE  /\ received'[packet[g]] = Never
                          /\ \A f \in Handlers : pc'[f] = "upsert" /\ packet[f] = packet[g] => f = g
        BY <3>1
      <4>1. g # h /\ pc[g] = "upsert" /\ packet[g] \in Events
        BY <3>1
      <4>2. packet[g] # e /\ received[packet[g]] = Never
        BY <4>1, <3>0, <2>4 DEF ReflectInv, Commit
      <4>3. \A f \in Handlers : pc'[f] = "upsert" => pc[f] = "upsert"
        BY <3>1
      <4>4. QED
        BY <3>1, <4>1, <4>2, <4>3 DEF ReflectInv
    <3>4. Persisted(k)' = Persisted(k) \cup {e} /\ e \notin Persisted(k)
      BY <3>0, <3>1 DEF Persisted
    <3>5. ASSUME NEW j \in Sessions PROVE Reflects(session'[j], Persisted(j)', received')
      <4>1. CASE j = k
        <5>1. /\ session[k] \in SessionRow /\ Persisted(k) \in SUBSET Event
              /\ \A x \in Persisted(k) : received[x] \in Nat /\ received'[x] = received[x]
          BY <3>1, <3>4, EventsAreEvents DEF Persisted, SessionRow, Time
        <5>2. received'[e] = at /\ session'[k] = Merged(session[k], e, at)
          BY <3>1
        <5>3. Reflects(session[k], Persisted(k), received)
          BY <1>0 DEF ReflectInv
        <5>4. Reflects(Merged(session[k], e, at), Persisted(k) \cup {e}, received')
          BY ONLY <5>1, <5>2, <5>3, <3>1, <3>4, MergedReflects
        <5>5. QED
          BY <4>1, <5>2, <5>4, <3>4
      <4>2. CASE j # k
        <5>1. session'[j] = session[j] /\ Persisted(j)' = Persisted(j)
          BY <4>2, <3>0, <3>1 DEF Persisted
        <5>2. \A x \in Persisted(j) : received'[x] = received[x]
          BY <4>2, <3>0, <3>1 DEF Persisted
        <5>3. Reflects(session[j], Persisted(j), received)
          BY <1>0 DEF ReflectInv
        <5>4. QED
          BY ONLY <5>1, <5>2, <5>3 DEF Reflects
      <4>3. QED
        BY <4>1, <4>2
    <3>6. SessionReflectsItsEvents'
      BY <3>5 DEF SessionReflectsItsEvents, Reflects
    <3>7. QED
      BY <3>3, <3>6 DEF ReflectInv
  <2>5. ASSUME NEW h \in Handlers, Respond(h) PROVE ReflectInv'
    BY <2>0, <2>5 DEF ReflectInv, Respond, Idle, tables
  <2>6. ASSUME NEW h \in Handlers, Fail(h) PROVE ReflectInv'
    BY <2>0, <2>6 DEF ReflectInv, Fail, Idle, tables
  <2>7. CASE Tick
    BY <2>0, <2>7 DEF ReflectInv, Tick, tables
  <2>8. CASE UNCHANGED vars
    BY <2>0, <2>8 DEF ReflectInv, vars, tables
  <2>9. QED
    BY <2>1, <2>2, <2>3, <2>4, <2>5, <2>6, <2>7, <2>8 DEF Next, Handle
<1>3. ReflectInv => SessionReflectsItsEvents
  BY DEF ReflectInv
<1>4. QED
  BY <1>1, <1>2, <1>3, AccountingTypesHold, PTL DEF Spec

-----------------------------------------------------------------------------
(* What FlattenSeq computes                                                *)

(* A nonempty set of numbers has a least element.                          *)
LEMMA LeastNumber ==
  ASSUME NEW n \in Nat, NEW S \in SUBSET (1..n), S # {}
  PROVE  \E k \in S : \A j \in S : k <= j
<1> DEFINE R == StrictSubsetOrdering(1..n)
           F == FiniteSubsetsOf(1..n)
           B == {1..k : k \in S}
<1>1. IsFiniteSet(1..n)
  BY FS_Interval
<1>2. IsWellFoundedOn(R, F)
  BY <1>1, FS_StrictSubsetOrderingWellFounded
<1>3. F = SUBSET (1..n)
  BY <1>1, FS_FiniteSubsetsOfFinite
<1>4. B \subseteq F /\ B # {}
  <2>1. \A k \in S : 1..k \in SUBSET (1..n)
    OBVIOUS
  <2> HIDE DEF F
  <2> QED BY <1>3, <2>1
<1>5. PICK T \in B : \A U \in B : ~(<<U, T>> \in R)
  <2> HIDE DEF R, F, B
  <2> QED BY <1>2, <1>4, WFMin
<1>6. PICK k \in S : T = 1..k
  BY <1>5
<1>7. ASSUME NEW j \in S, j < k PROVE FALSE
  <2>1. 1..j \in SUBSET (1..n) /\ 1..k \in SUBSET (1..n) /\ 1..j \subseteq 1..k /\ 1..j # 1..k
    BY <1>7
  <2>2. <<1..j, 1..k>> \in R
    BY <2>1 DEF StrictSubsetOrdering
  <2> QED BY <1>5, <1>6, <2>2
<1> QED BY <1>7

(* f flattens the first n members of s, as FlattenSeq() does.              *)
Flattens(f, s, n) == f = [i \in 1..n |-> IF i = 1 THEN s[i] ELSE f[i - 1] \o s[i]]

LEMMA FlatIsUnique ==
  ASSUME NEW s, NEW t, NEW n \in Nat, NEW m \in Nat, n <= m, \A i \in 1..n : t[i] = s[i],
         NEW f, NEW g, Flattens(f, s, n), Flattens(g, t, m)
  PROVE  \A i \in 1..n : f[i] = g[i]
<1> SUFFICES ASSUME NEW i \in 1..n, f[i] # g[i] PROVE FALSE
  OBVIOUS
<1> DEFINE Bad == {j \in 1..n : f[j] # g[j]}
<1>1. PICK k \in Bad : \A j \in Bad : k <= j
  BY LeastNumber
<1>2. f[k] = IF k = 1 THEN s[k] ELSE f[k - 1] \o s[k]
  BY <1>1 DEF Flattens
<1>3. g[k] = IF k = 1 THEN t[k] ELSE g[k - 1] \o t[k]
  <2>1. k \in 1..m
    BY <1>1
  <2> QED BY <2>1 DEF Flattens
<1>4. k = 1 \/ f[k - 1] = g[k - 1]
  BY <1>1
<1>5. t[k] = s[k]
  OBVIOUS
<1> QED BY <1>1, <1>2, <1>3, <1>4, <1>5

(* The last member of a flattening.                                        *)
LEMMA FlatLast ==
  ASSUME NEW s, NEW n \in Nat \ {0}, NEW f, Flattens(f, s, n)
  PROVE  f[n] = IF n = 1 THEN s[n] ELSE f[n - 1] \o s[n]
<1>1. n \in 1..n
  OBVIOUS
<1> QED BY <1>1 DEF Flattens

LEMMA FlatGrows ==
  ASSUME NEW s, NEW n \in Nat, NEW f, Flattens(f, s, n)
  PROVE  \E g : Flattens(g, s, n + 1)
<1>1. PICK g : g = [i \in 1..n + 1 |-> IF i <= n THEN f[i]
                                       ELSE IF i = 1 THEN s[i] ELSE f[i - 1] \o s[i]]
  OBVIOUS
<1>2. ASSUME NEW i \in 1..n + 1
      PROVE  g[i] = IF i = 1 THEN s[i] ELSE g[i - 1] \o s[i]
  <2>1. CASE i <= n
    <3>1. f[i] = IF i = 1 THEN s[i] ELSE f[i - 1] \o s[i]
      <4>1. i \in 1..n
        BY <2>1
      <4> QED BY <4>1 DEF Flattens
    <3>2. g[i] = f[i] /\ (i = 1 \/ g[i - 1] = f[i - 1])
      BY <1>1, <2>1
    <3> QED BY <3>1, <3>2
  <2>2. CASE i = n + 1
    <3>1. i = 1 \/ g[i - 1] = f[i - 1]
      BY <1>1, <2>2
    <3> QED BY <1>1, <2>2, <3>1
  <2> QED BY <2>1, <2>2
<1>3. g = [i \in 1..n + 1 |-> g[i]]
  BY <1>1
<1>4. Flattens(g, s, n + 1)
  BY <1>2, <1>3 DEF Flattens
<1> QED BY <1>4

LEMMA FlatExists ==
  ASSUME NEW s, NEW n \in Nat
  PROVE  \E f : Flattens(f, s, n)
<1> SUFFICES ASSUME ~ \E f : Flattens(f, s, n) PROVE FALSE
  OBVIOUS
<1>0. Flattens(<<>>, s, 0)
  BY DEF Flattens
<1> DEFINE Bad == {j \in 1..n : ~ \E f : Flattens(f, s, j)}
<1>1. n \in Bad
  BY <1>0
<1>2. PICK k \in Bad : \A j \in Bad : k <= j
  BY <1>1, LeastNumber
<1>3. PICK f : Flattens(f, s, k - 1)
  BY <1>0, <1>2
<1>4. PICK g : Flattens(g, s, k - 1 + 1)
  <2>1. k - 1 \in Nat
    OBVIOUS
  <2> QED BY <1>3, <2>1, FlatGrows
<1> QED BY <1>2, <1>4

(* The function in FlattenSeq() is one that flattens.                      *)
Flat(u) == CHOOSE f : f = [i \in 1..Len(u) |-> IF i = 1 THEN u[i] ELSE f[i - 1] \o u[i]]

LEMMA FlatFlattens ==
  ASSUME NEW u, Len(u) \in Nat
  PROVE  Flattens(Flat(u), u, Len(u))
<1>1. \E f : Flattens(f, u, Len(u))
  BY FlatExists
<1>2. \E f : f = [i \in 1..Len(u) |-> IF i = 1 THEN u[i] ELSE f[i - 1] \o u[i]]
  BY <1>1 DEF Flattens
<1> QED BY <1>2 DEF Flattens, Flat

LEMMA FlattenIsFlat == \A u : FlattenSeq(u) = IF Len(u) = 0 THEN u ELSE Flat(u)[Len(u)]
  BY DEF FlattenSeq, Flat

(* FlattenSeq() of one member more.                                        *)
LEMMA FlattenOneMore ==
  ASSUME NEW T, NEW s \in Seq(T), NEW x \in T, \A y \in T : <<>> \o y = y
  PROVE  FlattenSeq(Append(s, x)) = FlattenSeq(s) \o x
<1>1. PICK t \in Seq(T) : t = Append(s, x)
  BY AppendProperties
<1>2. PICK n \in Nat : n = Len(s) /\ Len(t) = n + 1
  BY <1>1, AppendProperties
<1>3. t[n + 1] = x /\ \A i \in 1..n : t[i] = s[i]
  BY <1>1, <1>2, AppendProperties
<1>4. PICK f : f = Flat(s) /\ Flattens(f, s, n)
  BY <1>2, FlatFlattens
<1>5. PICK h : h = Flat(t) /\ Flattens(h, t, n + 1)
  <2>1. n + 1 \in Nat
    OBVIOUS
  <2> QED BY <1>2, <2>1, FlatFlattens
<1>6. \A i \in 1..n : f[i] = h[i]
  <2>1. n + 1 \in Nat /\ n <= n + 1
    OBVIOUS
  <2> QED BY <1>3, <1>4, <1>5, <2>1, FlatIsUnique
<1>7. h[n + 1] = IF n = 0 THEN x ELSE h[n] \o x
  <2>1. n + 1 \in Nat \ {0} /\ n + 1 - 1 = n /\ (n + 1 = 1 <=> n = 0)
    OBVIOUS
  <2>2. h[n + 1] = IF n + 1 = 1 THEN t[n + 1] ELSE h[n + 1 - 1] \o t[n + 1]
    BY <1>5, <2>1, FlatLast
  <2> QED BY <1>3, <2>1, <2>2
<1>8. FlattenSeq(t) = h[n + 1]
  BY <1>2, <1>5, FlattenIsFlat
<1>9. FlattenSeq(s) = IF n = 0 THEN s ELSE f[n]
  BY <1>2, <1>4, FlattenIsFlat
<1>10. CASE n = 0
  <2>1. s = <<>>
    BY <1>2, <1>10, EmptySeq
  <2>2. FlattenSeq(t) = x /\ FlattenSeq(s) = <<>>
    BY <1>7, <1>8, <1>9, <1>10, <2>1
  <2> QED BY <1>1, <2>2
<1>11. CASE n # 0
  <2>1. h[n] = f[n]
    BY <1>6, <1>11
  <2>2. FlattenSeq(t) = h[n] \o x /\ FlattenSeq(s) = f[n]
    BY <1>7, <1>8, <1>9, <1>11
  <2> QED BY <1>1, <2>1, <2>2
<1> QED BY <1>10, <1>11

-----------------------------------------------------------------------------
(* Attributes on the wire                                                  *)

Attribute == [type : Nat, value : Seq(Nat)]
Wire(a) == <<a.type, Len(a.value) + 2>> \o a.value

LEMMA WireIsBytes == \A a \in Attribute : Wire(a) \in Seq(Nat)
<1> SUFFICES ASSUME NEW a \in Attribute PROVE Wire(a) \in Seq(Nat)
  OBVIOUS
<1>1. a.type \in Nat /\ a.value \in Seq(Nat) /\ Len(a.value) + 2 \in Nat
  BY DEF Attribute
<1>2. <<a.type, Len(a.value) + 2>> \in Seq(Nat)
  BY <1>1
<1> QED BY <1>1, <1>2, ConcatProperties DEF Wire

(* One attribute more is its bytes more.                                   *)
LEMMA EncodedOneMore ==
  ASSUME NEW as \in Seq(Attribute), NEW a \in Attribute
  PROVE  Encoded(Append(as, a)) = Encoded(as) \o Wire(a)
<1>1. PICK bs \in Seq(Attribute) : bs = Append(as, a)
  BY AppendProperties
<1>2. PICK n \in Nat : n = Len(as) /\ DOMAIN as = 1..n
  BY LenProperties
<1>3. /\ Len(bs) = n + 1 /\ DOMAIN bs = 1..n + 1
      /\ bs[n + 1] = a /\ \A i \in 1..n : bs[i] = as[i]
  <2>1. /\ Len(bs) = Len(as) + 1 /\ bs[Len(as) + 1] = a
        /\ \A i \in 1..Len(as) : bs[i] = as[i]
    <3>1. Len(Append(as, a)) = Len(as) + 1 /\ Append(as, a)[Len(as) + 1] = a
      BY AppendProperties
    <3>2. \A i \in 1..Len(as) : Append(as, a)[i] = as[i]
      BY AppendProperties
    <3> QED BY <1>1, <3>1, <3>2
  <2>2. DOMAIN bs = 1..Len(bs)
    BY LenProperties
  <2> QED BY <1>2, <2>1, <2>2
<1>4. PICK s : s = [i \in 1..n |-> Wire(as[i])]
  OBVIOUS
<1>5. PICK t : t = [i \in 1..n + 1 |-> Wire(bs[i])]
  OBVIOUS
<1>6. Encoded(as) = FlattenSeq(s) /\ Encoded(bs) = FlattenSeq(t)
  BY <1>2, <1>3, <1>4, <1>5 DEF Encoded, Wire
<1>7. \A i \in 1..n : as[i] \in Attribute
  BY <1>2, ElementOfSeq
<1>8. s \in Seq(Seq(Nat)) /\ Len(s) = n
  <2>1. \A i \in 1..n : s[i] \in Seq(Nat)
    BY <1>4, <1>7, WireIsBytes
  <2>2. s \in [1..n -> Seq(Nat)]
    BY <1>4, <2>1
  <2> QED BY <2>2, LenProperties
<1>9. t = Append(s, Wire(a))
  <2>1. PICK u \in Seq(Seq(Nat)) : u = Append(s, Wire(a))
    BY <1>8, WireIsBytes, AppendProperties
  <2>2. Len(u) = n + 1 /\ u[n + 1] = Wire(a) /\ \A i \in 1..n : u[i] = s[i]
    BY <1>8, <2>1, WireIsBytes, AppendProperties
  <2>3. u = [i \in 1..n + 1 |-> u[i]]
    BY <2>1, <2>2, LenProperties
  <2>4. \A i \in 1..n + 1 : u[i] = t[i]
    <3> SUFFICES ASSUME NEW i \in 1..n + 1 PROVE u[i] = t[i]
      OBVIOUS
    <3>1. CASE i = n + 1
      BY <1>3, <1>5, <2>2, <3>1
    <3>2. CASE i \in 1..n
      BY <1>3, <1>4, <1>5, <2>2, <3>2
    <3> QED BY <3>1, <3>2
  <2> QED BY <1>5, <2>1, <2>3, <2>4
<1>10. \A y \in Seq(Nat) : <<>> \o y = y
  BY ConcatEmptySeq
<1>11. FlattenSeq(Append(s, Wire(a))) = FlattenSeq(s) \o Wire(a)
  BY <1>8, <1>10, WireIsBytes, FlattenOneMore
<1> QED BY <1>1, <1>6, <1>9, <1>11

LEMMA EncodedNone == Encoded(<<>>) = <<>>
  BY DEF Encoded, FlattenSeq

(* What ReadAttribute takes from the bytes is what it puts in the list.    *)
LEMMA ReadIsExact ==
  ASSUME NEW b \in Seq(Nat), NEW i \in Nat, Readable(b, i),
         NEW a, a = [type |-> b[i + 1], value |-> SubSeq(b, i + 3, i + b[i + 2])]
  PROVE  /\ a \in Attribute /\ i + b[i + 2] \in 0..Len(b)
         /\ SubSeq(b, 1, i) \o Wire(a) = SubSeq(b, 1, i + b[i + 2])
<1>1. PICK n \in Nat : n = b[i + 2]
  <2>1. i + 2 \in 1..Len(b)
    BY DEF Readable
  <2> QED BY <2>1, ElementOfSeq
<1>2. n >= 2 /\ i + n <= Len(b) /\ Len(b) \in Nat
  BY <1>1, LenProperties DEF Readable
<1>12. \A j \in 1..Len(b) : b[j] \in Nat
  BY ElementOfSeq
<1>3. PICK v : v = SubSeq(b, i + 3, i + n)
  OBVIOUS
<1>4. v \in Seq(Nat) /\ Len(v) = n - 2
  <2>1. \A j \in i + 3..i + n : b[j] \in Nat
    <3>1. ASSUME NEW j \in i + 3..i + n PROVE j \in 1..Len(b)
      BY <1>2
    <3> QED BY <1>12, <3>1
  <2>2. v \in Seq(Nat) /\ Len(v) = IF i + 3 <= i + n THEN i + n - (i + 3) + 1 ELSE 0
    BY <1>3, <2>1, SubSeqProperties
  <2> QED BY <1>2, <2>2
<1>5. b[i + 1] \in Nat
  BY <1>2, ElementOfSeq
<1>6. a \in Attribute
  BY <1>1, <1>3, <1>4, <1>5 DEF Attribute
<1>7. Wire(a) = <<b[i + 1], n>> \o v
  <2>1. a.type = b[i + 1] /\ a.value = v
    BY <1>1, <1>3
  <2>2. Len(v) + 2 = n
    BY <1>4
  <2> QED BY <2>1, <2>2 DEF Wire
<1>8. <<b[i + 1], n>> = SubSeq(b, i + 1, i + 2)
  <2>1. \A j \in i + 1..i + 2 : b[j] \in Nat
    <3>1. ASSUME NEW j \in i + 1..i + 2 PROVE j \in 1..Len(b)
      BY <1>2
    <3> QED BY <1>12, <3>1
  <2>2. PICK h : h = SubSeq(b, i + 1, i + 2)
    OBVIOUS
  <2>3. h \in Seq(Nat) /\ Len(h) = 2 /\ h[1] = b[i + 1] /\ h[2] = b[i + 2]
    <3>1. PICK m \in Int, p \in Int : m = i + 1 /\ p = i + 2
      OBVIOUS
    <3>2. /\ SubSeq(b, m, p) \in Seq(Nat)
          /\ Len(SubSeq(b, m, p)) = IF m <= p THEN p - m + 1 ELSE 0
          /\ \A j \in 1..p - m + 1 : SubSeq(b, m, p)[j] = b[m + j - 1]
      BY <2>1, <3>1, SubSeqProperties
    <3>3. h = SubSeq(b, m, p) /\ p - m + 1 = 2 /\ m <= p
      BY <2>2, <3>1
    <3>4. h[1] = b[m + 1 - 1] /\ h[2] = b[m + 2 - 1]
      BY <3>2, <3>3
    <3> QED BY <3>1, <3>2, <3>3, <3>4
  <2>4. PICK k \in Nat : k = b[i + 1]
    BY <1>5
  <2>5. h = [j \in 1..2 |-> h[j]]
    BY <2>3, LenProperties
  <2>6. <<k, n>> = [j \in 1..2 |-> <<k, n>>[j]]
    OBVIOUS
  <2>7. \A j \in 1..2 : <<k, n>>[j] = h[j]
    BY <1>1, <2>3, <2>4
  <2> QED BY <2>2, <2>4, <2>5, <2>6, <2>7
<1>9. SubSeq(b, i + 1, i + 2) \o v = SubSeq(b, i + 1, i + n)
  <2>1. i + 1 \in 1..Len(b) + 1 /\ i + 2 \in (i + 1) - 1..Len(b) /\ i + n \in i + 2..Len(b) /\ (i + 2) + 1 = i + 3
    BY <1>2
  <2> QED BY <1>3, <2>1, ConcatAdjacentSubSeq
<1>10. SubSeq(b, 1, i) \o SubSeq(b, i + 1, i + n) = SubSeq(b, 1, i + n)
  <2>1. 1 \in 1..Len(b) + 1 /\ i \in 1 - 1..Len(b) /\ i + n \in i..Len(b)
    BY <1>2
  <2> QED BY <2>1, ConcatAdjacentSubSeq
<1>11. i + n \in 0..Len(b)
  BY <1>2
<1> QED BY <1>1, <1>6, <1>7, <1>8, <1>9, <1>10, <1>11

(* The bytes after the header are bytes, and no more than there are.       *)
LEMMA RegionIsBytes ==
  ASSUME NEW d \in Datagrams, LengthOk(d)
  PROVE  Region(d) \in Seq(Nat)
<1>1. d.declared \in Nat /\ d.size \in Nat /\ d.body \in Seq(Nat)
  <2>1. d.declared \in Nat /\ d.size \in Nat /\ d.body \in Seq(0..ByteBase - 1)
    BY CodecAssumption
  <2>2. 0..ByteBase - 1 \subseteq Nat
    BY CodecAssumption
  <2> QED BY <2>1, <2>2, SeqMonotonic
<1>2. PICK x : x = d.declared - HeaderSize
  OBVIOUS
<1>3. PICK y : y = Len(d.body)
  OBVIOUS
<1>4. x \in Nat /\ y \in Nat
  BY <1>1, <1>2, <1>3, CodecAssumption, LenProperties DEF LengthOk
<1>5. PICK m \in {x, y} : m = Min({x, y}) /\ m <= x /\ m <= y
  <2>1. \E k \in {x, y} : \A l \in {x, y} : k <= l
    <3>1. CASE x <= y
      BY <1>4, <3>1
    <3>2. CASE y <= x
      BY <1>4, <3>2
    <3> QED BY <1>4, <3>1, <3>2
  <2> QED BY <2>1 DEF Min
<1>6. \A j \in 1..m : d.body[j] \in Nat
  BY <1>1, <1>3, <1>4, <1>5, ElementOfSeq
<1>7. SubSeq(d.body, 1, m) \in Seq(Nat)
  <2>1. m \in Int /\ 1 \in Int
    BY <1>4, <1>5
  <2> QED BY <1>6, <2>1, SubSeqProperties
<1> QED BY <1>2, <1>3, <1>5, <1>7 DEF Region

-----------------------------------------------------------------------------
(* Whether the bytes can be divided                                        *)

(* From i on the bytes are attributes, as Divisible() finds it.            *)
Turn(from, b, i) ==
  \/ i = Len(b)
  \/ i + 2 <= Len(b) /\ b[i + 2] >= 2 /\ i + b[i + 2] <= Len(b) /\ from[i + b[i + 2]]
From(b) == CHOOSE from : from = [i \in 0..Len(b) |-> Turn(from, b, i)]

LEMMA DivisibleIsFrom == \A b : Divisible(b) <=> From(b)[0]
  BY DEF Divisible, From, Turn

(* There is such a function: some set of offsets leads from i to the end.  *)
LEMMA FromTurns ==
  ASSUME NEW b \in Seq(Nat)
  PROVE  From(b) = [i \in 0..Len(b) |-> Turn(From(b), b, i)]
<1> DEFINE I == 0..Len(b)
           Ok(i) == i + 2 <= Len(b) /\ b[i + 2] >= 2 /\ i + b[i + 2] <= Len(b)
           Leads(P) == \A j \in P : j = Len(b) \/ (Ok(j) /\ j + b[j + 2] \in P)
           f == [i \in I |-> \E P \in SUBSET I : i \in P /\ Leads(P)]
<1>0. Len(b) \in Nat /\ Len(b) \in I
  OBVIOUS
<1>1. ASSUME NEW i \in I, Ok(i) PROVE i + b[i + 2] \in I
  <2>1. i + 2 \in 1..Len(b)
    BY <1>1
  <2>2. b[i + 2] \in Nat
    BY <2>1, ElementOfSeq
  <2> QED BY <1>0, <1>1, <2>2
<1>2. ASSUME NEW i \in I, f[i] PROVE Turn(f, b, i)
  <2>1. PICK P \in SUBSET I : i \in P /\ Leads(P)
    BY <1>2
  <2>2. CASE i = Len(b)
    BY <2>2 DEF Turn
  <2>3. CASE i # Len(b)
    <3>1. Ok(i) /\ i + b[i + 2] \in P
      BY <2>1, <2>3
    <3>2. i + b[i + 2] \in I
      BY <2>1, <3>1
    <3>3. f[i + b[i + 2]]
      BY <2>1, <3>1, <3>2
    <3> HIDE DEF f
    <3> QED BY <3>1, <3>3 DEF Turn
  <2> QED BY <2>2, <2>3
<1>3. ASSUME NEW i \in I, Turn(f, b, i) PROVE f[i]
  <2>1. CASE i = Len(b)
    <3>1. {i} \in SUBSET I /\ i \in {i} /\ Leads({i})
      BY <2>1
    <3> HIDE DEF Leads
    <3> QED BY <3>1
  <2>2. CASE i # Len(b)
    <3>1. Ok(i) /\ f[i + b[i + 2]]
      <4> HIDE DEF f
      <4> QED BY <1>3, <2>2 DEF Turn
    <3>2. i + b[i + 2] \in I
      BY <1>1, <3>1
    <3>3. PICK P \in SUBSET I : i + b[i + 2] \in P /\ Leads(P)
      BY <3>1, <3>2
    <3>4. PICK Q : Q = P \cup {i}
      OBVIOUS
    <3>5. Q \in SUBSET I /\ i \in Q
      BY <3>4
    <3>6. Leads(Q)
      <4> SUFFICES ASSUME NEW j \in Q PROVE j = Len(b) \/ (Ok(j) /\ j + b[j + 2] \in Q)
        OBVIOUS
      <4> HIDE DEF Ok
      <4> QED BY <3>1, <3>3, <3>4
    <3> HIDE DEF Leads
    <3> QED BY <3>5, <3>6
  <2> QED BY <2>1, <2>2
<1>4. \A i \in I : f[i] \in BOOLEAN /\ Turn(f, b, i) \in BOOLEAN
  BY DEF Turn
<1>5. f = [i \in I |-> Turn(f, b, i)]
  <2>1. \A i \in I : f[i] = Turn(f, b, i)
    <3> HIDE DEF f, I
    <3> QED BY <1>2, <1>3, <1>4
  <2>2. f = [i \in I |-> f[i]]
    OBVIOUS
  <2> HIDE DEF f, I
  <2> QED BY <2>1, <2>2
<1>6. \E from : from = [i \in I |-> Turn(from, b, i)]
  <2> HIDE DEF f
  <2> QED BY <1>5
<1> QED BY <1>6 DEF From

-----------------------------------------------------------------------------
(* The parser is exact                                                     *)

(* Where a datagram is parsed, the attributes read are the bytes up to     *)
(* offset; whether the rest can be divided is then as it was for all.      *)
PrefixInv ==
  step # "listening" =>
    /\ datagram \in Datagrams
    /\ step = "header" => attributes = <<>> /\ offset = 0
    /\ step # "header" /\ LengthOk(datagram) =>
         /\ attributes \in Seq(Attribute) /\ offset \in 0..Len(Region(datagram))
         /\ Encoded(attributes) = SubSeq(Region(datagram), 1, offset)
         /\ Divisible(Region(datagram)) => From(Region(datagram))[offset]

(* How far the handler has come says what it has found.                    *)
FoundInv ==
  /\ step = "listening" => attributes = <<>> /\ offset = 0
  /\ step \in {"attributes", "verify", "event", "accepted"} => LengthOk(datagram)
  /\ step \in {"verify", "event", "accepted"} => offset = Len(Region(datagram))
  /\ step = "rejected" /\ LengthOk(datagram) =>
       offset = Len(Region(datagram)) \/ ~Divisible(Region(datagram))

ParseInv == PrefixInv /\ FoundInv

LEMMA ParseStarts == CodecInit => ParseInv
  BY DEF CodecInit, ParseInv, PrefixInv, FoundInv

(* The steps that read no attribute.                                       *)
LEMMA NoneRead ==
  ASSUME ParseInv, UNCHANGED <<datagram, offset, attributes>>,
         step \notin {"listening", "header"}, step' \notin {"listening", "header"}
  PROVE  PrefixInv'
<1>1. datagram' = datagram /\ offset' = offset /\ attributes' = attributes
  OBVIOUS
<1>2. /\ datagram \in Datagrams
      /\ LengthOk(datagram) =>
           /\ attributes \in Seq(Attribute) /\ offset \in 0..Len(Region(datagram))
           /\ Encoded(attributes) = SubSeq(Region(datagram), 1, offset)
           /\ Divisible(Region(datagram)) => From(Region(datagram))[offset]
  BY DEF ParseInv, PrefixInv
<1>3. /\ LengthOk(datagram)' = LengthOk(datagram) /\ Region(datagram)' = Region(datagram)
      /\ Encoded(attributes)' = Encoded(attributes) /\ Divisible(Region(datagram))' = Divisible(Region(datagram))
      /\ From(Region(datagram))' = From(Region(datagram))
  BY <1>1 DEF LengthOk, Region, Encoded, Divisible, From, Turn
<1> QED BY <1>1, <1>2, <1>3 DEF PrefixInv

LEMMA HeaderParses == ParseInv /\ Header => ParseInv'
<1> SUFFICES ASSUME ParseInv, Header PROVE ParseInv'
  OBVIOUS
<1>1. /\ step = "header" /\ datagram' = datagram /\ attributes' = <<>> /\ offset' = 0
      /\ step' = IF LengthOk(datagram) THEN "attributes" ELSE "rejected"
      /\ datagram \in Datagrams
  BY DEF Header, Proceed, ParseInv, PrefixInv
<1>2. PICK b : b = Region(datagram)
  OBVIOUS
<1>3. LengthOk(datagram)' = LengthOk(datagram) /\ Region(datagram)' = b
  BY <1>1, <1>2 DEF LengthOk, Region
<1>4. ASSUME LengthOk(datagram)
      PROVE  /\ <<>> \in Seq(Attribute) /\ 0 \in 0..Len(b)
             /\ Encoded(<<>>) = SubSeq(b, 1, 0)
  <2>1. b \in Seq(Nat)
    BY <1>1, <1>2, <1>4, RegionIsBytes
  <2>2. Len(b) \in Nat
    BY <2>1, LenProperties
  <2>3. SubSeq(b, 1, 0) = <<>>
    BY SubSeqEmpty
  <2>4. <<>> \in Seq(Attribute)
    BY EmptySeq
  <2>5. 0 \in 0..Len(b)
    BY <2>2
  <2> QED BY <2>3, <2>4, <2>5, EncodedNone
<1>5. PrefixInv'
  <2>1. Encoded(attributes)' = Encoded(<<>>)
    BY <1>1
  <2>2. Divisible(Region(datagram))' = Divisible(b) /\ From(Region(datagram))' = From(b)
    BY <1>3
  <2> QED BY <1>1, <1>3, <1>4, <2>1, <2>2, DivisibleIsFrom DEF PrefixInv
<1>6. FoundInv'
  BY <1>1, <1>3 DEF FoundInv
<1> QED BY <1>5, <1>6 DEF ParseInv

LEMMA ReadParses == ParseInv /\ ReadAttribute => ParseInv'
<1> SUFFICES ASSUME ParseInv, ReadAttribute PROVE ParseInv'
  OBVIOUS
<1>1. PICK b : b = Region(datagram)
  OBVIOUS
<1>2. /\ step = "attributes" /\ LengthOk(datagram) /\ datagram \in Datagrams /\ datagram' = datagram
      /\ attributes \in Seq(Attribute) /\ offset \in 0..Len(b) /\ offset < Len(b)
      /\ Encoded(attributes) = SubSeq(b, 1, offset)
      /\ Divisible(b) => From(b)[offset]
  BY <1>1 DEF ReadAttribute, Proceed, ParseInv, PrefixInv, FoundInv
<1>3. b \in Seq(Nat) /\ Len(b) \in Nat
  <2>1. b \in Seq(Nat)
    BY <1>1, <1>2, RegionIsBytes
  <2> QED BY <2>1, LenProperties
<1>4. LengthOk(datagram)' /\ Region(datagram)' = b
  BY <1>1, <1>2 DEF LengthOk, Region
<1>5. From(b)[offset] => Readable(b, offset) /\ From(b)[offset + b[offset + 2]]
  <2>1. From(b)[offset] = Turn(From(b), b, offset)
    BY <1>2, <1>3, FromTurns
  <2>2. offset # Len(b)
    BY <1>2, <1>3
  <2> QED BY <2>1, <2>2, Zenon DEF Turn, Readable
<1>6. CASE Readable(b, offset)
  <2>1. PICK a : a = [type |-> b[offset + 1], value |-> SubSeq(b, offset + 3, offset + b[offset + 2])]
    OBVIOUS
  <2>2. PICK to : to = offset + b[offset + 2]
    OBVIOUS
  <2>3. attributes' = Append(attributes, a) /\ offset' = to /\ step' = "attributes"
    BY <1>1, <1>6, <2>1, <2>2 DEF ReadAttribute, Proceed
  <2>4. a \in Attribute /\ to \in 0..Len(b) /\ SubSeq(b, 1, offset) \o Wire(a) = SubSeq(b, 1, to)
    <3>1. offset \in Nat
      BY <1>2
    <3> QED BY <1>3, <1>6, <2>1, <2>2, <3>1, ReadIsExact
  <2>5. Encoded(attributes)' = Encoded(Append(attributes, a))
    BY <2>3
  <2>6. Encoded(attributes)' = SubSeq(b, 1, to)
    BY <1>2, <2>4, <2>5, EncodedOneMore
  <2>7. attributes' \in Seq(Attribute)
    BY <1>2, <2>3, <2>4, AppendProperties
  <2>8. Divisible(b) => From(b)[to]
    BY <1>2, <1>5, <2>2
  <2>9. Divisible(Region(datagram))' = Divisible(b) /\ From(Region(datagram))' = From(b)
    BY <1>4
  <2>10. PrefixInv'
    BY <1>2, <1>4, <2>3, <2>4, <2>6, <2>7, <2>8, <2>9 DEF PrefixInv
  <2> QED BY <1>4, <2>3, <2>10 DEF ParseInv, FoundInv
<1>7. CASE ~Readable(b, offset)
  <2>1. step' = "rejected" /\ UNCHANGED <<datagram, offset, attributes>>
    BY <1>1, <1>7 DEF ReadAttribute, Proceed
  <2>2. ~Divisible(b)
    BY <1>2, <1>5, <1>7
  <2>3. Divisible(Region(datagram))' = Divisible(b)
    BY <1>4
  <2>4. PrefixInv'
    BY <1>2, <2>1, NoneRead
  <2> QED BY <2>1, <2>2, <2>3, <2>4 DEF ParseInv, FoundInv
<1> QED BY <1>6, <1>7

LEMMA LaterStepsParse == ParseInv /\ (LastAttribute \/ Verify \/ GetEvent) => ParseInv'
<1> SUFFICES ASSUME ParseInv, LastAttribute \/ Verify \/ GetEvent PROVE ParseInv'
  OBVIOUS
<1>1. /\ step \in {"attributes", "verify", "event"} /\ UNCHANGED <<datagram, offset, attributes>>
      /\ step' \in {"verify", "event", "accepted", "rejected"}
      /\ offset >= Len(Region(datagram)) \/ step # "attributes"
  BY DEF LastAttribute, Verify, GetEvent, Proceed
<1>2. LengthOk(datagram) /\ datagram \in Datagrams /\ offset \in 0..Len(Region(datagram))
  BY <1>1 DEF ParseInv, PrefixInv, FoundInv
<1>3. Region(datagram) \in Seq(Nat) /\ Len(Region(datagram)) \in Nat
  <2>1. Region(datagram) \in Seq(Nat)
    BY <1>2, RegionIsBytes
  <2> QED BY <2>1, LenProperties
<1>4. offset = Len(Region(datagram))
  BY <1>1, <1>2, <1>3 DEF ParseInv, FoundInv
<1>5. LengthOk(datagram)' /\ Region(datagram)' = Region(datagram)
  BY <1>1, <1>2 DEF LengthOk, Region
<1>6. PrefixInv'
  BY <1>1, NoneRead
<1> QED BY <1>1, <1>4, <1>5, <1>6 DEF ParseInv, FoundInv

LEMMA ParseGoesOn == ParseInv /\ [CodecNext]_codecVars => ParseInv'
<1>1. ParseInv /\ Arrive => ParseInv'
  BY DEF Arrive, ParseInv, PrefixInv, FoundInv
<1>2. ParseInv /\ Handled => ParseInv'
  BY DEF Handled, ParseInv, PrefixInv, FoundInv
<1>3. ParseInv /\ UNCHANGED codecVars => ParseInv'
  <2> SUFFICES ASSUME ParseInv, UNCHANGED codecVars PROVE ParseInv'
    OBVIOUS
  <2>1. /\ step' = step /\ datagram' = datagram /\ offset' = offset /\ attributes' = attributes
    BY DEF codecVars
  <2> QED BY <2>1 DEF ParseInv, PrefixInv, FoundInv
<1> QED BY <1>1, <1>2, <1>3, HeaderParses, ReadParses, LaterStepsParse DEF CodecNext

(* Whatever arrives, and whatever lengths it declares: the attributes read *)
(* are exactly the bytes of the datagram, and a datagram is refused as     *)
(* malformed only if its bytes are no list of attributes.                  *)
THEOREM ParserReadsTheDatagram == CodecSpec => []ParserIsExact
<1>1. ParseInv => ParserIsExact
  <2> SUFFICES ASSUME ParseInv PROVE ParserIsExact
    OBVIOUS
  <2>1. ASSUME step \notin {"listening", "header"}, LengthOk(datagram), offset = Len(Region(datagram))
        PROVE  Encoded(attributes) = Region(datagram)
    <3>1. datagram \in Datagrams /\ Encoded(attributes) = SubSeq(Region(datagram), 1, offset)
      BY <2>1 DEF ParseInv, PrefixInv
    <3>2. Region(datagram) \in Seq(Nat)
      BY <2>1, <3>1, RegionIsBytes
    <3> QED BY <2>1, <3>1, <3>2, SubSeqFull
  <2>2. CASE step \in {"verify", "event", "accepted"}
    <3>1. LengthOk(datagram) /\ datagram \in Datagrams /\ offset = Len(Region(datagram))
      BY <2>2 DEF ParseInv, FoundInv, PrefixInv
    <3>2. datagram.declared \in Nat /\ datagram.size \in Nat
      BY <3>1, CodecAssumption
    <3>3. datagram.size >= datagram.declared
      BY <3>1, <3>2 DEF LengthOk
    <3> QED BY <2>1, <2>2, <3>1, <3>3 DEF ParserIsExact
  <2>3. CASE step = "rejected" /\ LengthOk(datagram)
    <3>1. offset = Len(Region(datagram)) \/ ~Divisible(Region(datagram))
      BY <2>3 DEF ParseInv, FoundInv
    <3> QED BY <2>1, <2>3, <3>1 DEF ParserIsExact
  <2>4. CASE step = "rejected" /\ ~LengthOk(datagram)
    <3>1. datagram \in Datagrams
      BY <2>4 DEF ParseInv, PrefixInv
    <3>2. datagram.declared \in Nat /\ datagram.size \in Nat /\ HeaderSize \in Nat /\ MaxLength \in Nat
      BY <3>1, CodecAssumption
    <3>3. datagram.declared \notin HeaderSize..datagram.size \/ datagram.declared > MaxLength
      BY <2>4, <3>2 DEF LengthOk
    <3> QED BY <2>4, <3>3 DEF ParserIsExact
  <2>5. CASE step \notin {"verify", "event", "accepted", "rejected"}
    BY <2>5 DEF ParserIsExact
  <2> QED BY <2>2, <2>3, <2>4, <2>5
<1> QED BY <1>1, ParseStarts, ParseGoesOn, PTL DEF CodecSpec
=============================================================================
