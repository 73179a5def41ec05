--------------------------- MODULE AgentRun_proofs ---------------------------
(***************************************************************************)
(* Theorems about AgentRun for every list of providers, every policy,      *)
(* every set of calls and answers, and every bound on the iterations.      *)
(***************************************************************************)
EXTENDS AgentRun, FiniteSetTheorems, TLAPS

-----------------------------------------------------------------------------
(* Folds over finite sets                                                  *)

(* A property of subsets, given as the set of those that have it, holds of *)
(* all finite ones if it holds of each whose proper subsets have it.       *)
LEMMA SubsetInduction ==
  ASSUME NEW S, IsFiniteSet(S), NEW Good,
         ASSUME NEW T \in SUBSET S, \A U \in SUBSET T : U # T => U \in Good
         PROVE  T \in Good
  PROVE  \A T \in SUBSET S : T \in Good
<1> SUFFICES ASSUME NEW V \in SUBSET S, V \notin Good PROVE FALSE
  OBVIOUS
<1>1. PICK Bad : Bad = {T \in SUBSET S : T \notin Good}
  OBVIOUS
<1>2. PICK R : R = StrictSubsetOrdering(S)
  OBVIOUS
<1>3. PICK F : F = FiniteSubsetsOf(S)
  OBVIOUS
<1>4. IsWellFoundedOn(R, F)
  BY <1>2, <1>3, FS_StrictSubsetOrderingWellFounded
<1>5. F = SUBSET S
  BY <1>3, FS_FiniteSubsetsOfFinite
<1>6. V \in Bad /\ Bad \subseteq F
  BY <1>1, <1>5
<1>7. \E T \in Bad : \A U \in Bad : ~(<<U, T>> \in R)
  BY <1>4, <1>6, WFMin
<1>8. PICK T \in Bad : \A U \in Bad : ~(<<U, T>> \in R)
  BY <1>7
<1>9. \A U \in SUBSET T : U # T => U \in Good
  BY <1>1, <1>2, <1>8 DEF StrictSubsetOrdering
<1> QED BY <1>1, <1>8, <1>9


(* g folds every subset of S, taking out the elements in the order of pick.*)
FoldStep(step, pick, base, g, s) ==
  IF s = {} THEN base ELSE step[<<pick[s], g[s \ {pick[s]}]>>]
IsFold(step, pick, base, g, S) == g = [s \in SUBSET S |-> FoldStep(step, pick, base, g, s)]

LEMMA FoldIsUnique ==
  ASSUME NEW S, IsFiniteSet(S), NEW T \in SUBSET S, NEW step, NEW base, NEW g, NEW h,
         NEW pick, \A s \in SUBSET S : s # {} => pick[s] \in s,
         IsFold(step, pick, base, g, S), IsFold(step, pick, base, h, T)
  PROVE  \A s \in SUBSET T : g[s] = h[s]
<1> DEFINE Good == {s \in SUBSET T : g[s] = h[s]}
<1>1. ASSUME NEW s \in SUBSET T, \A u \in SUBSET s : u # s => u \in Good
      PROVE  s \in Good
  <2>1. g[s] = FoldStep(step, pick, base, g, s) /\ h[s] = FoldStep(step, pick, base, h, s)
    BY DEF IsFold
  <2>2. CASE s = {}
    BY <2>1, <2>2 DEF FoldStep
  <2>3. CASE s # {}
    <3>1. s \ {pick[s]} \in SUBSET s /\ s \ {pick[s]} # s
      BY <2>3
    <3>2. g[s \ {pick[s]}] = h[s \ {pick[s]}]
      BY <1>1, <3>1
    <3> QED BY <2>1, <2>3, <3>2 DEF FoldStep
  <2> QED BY <2>2, <2>3
<1>2. IsFiniteSet(T)
  BY FS_Subset
<1> HIDE DEF Good
<1>3. \A s \in SUBSET T : s \in Good
  BY <1>1, <1>2, SubsetInduction
<1> QED BY <1>3 DEF Good

LEMMA FoldExists ==
  ASSUME NEW S, IsFiniteSet(S), NEW step, NEW base,
         NEW pick, \A s \in SUBSET S : s # {} => pick[s] \in s
  PROVE  \E g : IsFold(step, pick, base, g, S)
<1> DEFINE Good == {T \in SUBSET S : \E g : IsFold(step, pick, base, g, T)}
<1>1. ASSUME NEW T \in SUBSET S, \A U \in SUBSET T : U # T => U \in Good
      PROVE  T \in Good
  <2> DEFINE Of(U) == CHOOSE g : IsFold(step, pick, base, g, U)
             v == [U \in SUBSET T |-> Of(U)[U]]
             g == [s \in SUBSET T |-> FoldStep(step, pick, base, v, s)]
  <2>1. ASSUME NEW U \in SUBSET T, U # T
        PROVE  IsFold(step, pick, base, Of(U), U)
    BY <1>1, <2>1
  <2>2. ASSUME NEW s \in SUBSET T, s # T
        PROVE  v[s] = FoldStep(step, pick, base, v, s)
    <3>1. v[s] = FoldStep(step, pick, base, Of(s), s)
      <4>1. IsFold(step, pick, base, Of(s), s) /\ v[s] = Of(s)[s]
        BY <2>1, <2>2
      <4> HIDE DEF Of, v
      <4> QED BY <4>1 DEF IsFold
    <3>2. CASE s = {}
      BY <3>1, <3>2 DEF FoldStep
    <3>3. CASE s # {}
      <4> DEFINE u == s \ {pick[s]}
      <4>1. u \in SUBSET s /\ u # T /\ u \in SUBSET T
        BY <3>3
      <4>2. IsFiniteSet(s) /\ \A w \in SUBSET s : w # {} => pick[w] \in w
        BY FS_Subset
      <4>3. IsFold(step, pick, base, Of(s), s) /\ IsFold(step, pick, base, Of(u), u)
        BY <2>1, <2>2, <4>1
      <4> HIDE DEF Of, u
      <4>4. Of(s)[u] = Of(u)[u]
        BY <4>1, <4>2, <4>3, FoldIsUnique
      <4>5. v[u] = Of(u)[u]
        BY <4>1
      <4> QED BY <3>1, <3>3, <4>4, <4>5 DEF FoldStep, u
    <3> QED BY <3>2, <3>3
  <2>3. ASSUME NEW s \in SUBSET T
        PROVE  FoldStep(step, pick, base, v, s) = FoldStep(step, pick, base, g, s)
    <3>1. CASE s = {}
      BY <3>1 DEF FoldStep
    <3>2. CASE s # {}
      <4> DEFINE u == s \ {pick[s]}
      <4>1. u \in SUBSET T /\ u # T
        BY <3>2
      <4>2. v[u] = FoldStep(step, pick, base, v, u) /\ g[u] = FoldStep(step, pick, base, v, u)
        BY <2>2, <4>1
      <4>3. v[u] = g[u]
        BY <4>2
      <4> HIDE DEF v, g
      <4> QED BY <3>2, <4>3 DEF FoldStep, u
    <3> QED BY <3>1, <3>2
  <2>4. IsFold(step, pick, base, g, T)
    BY <2>3 DEF IsFold
  <2> QED BY <2>4
<1> HIDE DEF Good
<1>2. S \in Good
  BY <1>1, SubsetInduction
<1> QED BY <1>2 DEF Good

LEMMA MaxIsIn ==
  ASSUME NEW S \in SUBSET Nat, IsFiniteSet(S), S # {}
  PROVE  Max(S) \in S
<1> DEFINE Good == {T \in SUBSET S : T # {} => \E x \in T : \A y \in T : x >= y}
<1>1. ASSUME NEW T \in SUBSET S, \A U \in SUBSET T : U # T => U \in Good
      PROVE  T \in Good
  <2> SUFFICES ASSUME NEW z \in T PROVE \E x \in T : \A y \in T : x >= y
    OBVIOUS
  <2>1. PICK U : U = T \ {z}
    OBVIOUS
  <2>2. CASE U = {}
    <3>1. \A y \in T : y = z
      BY <2>1, <2>2
    <3> QED BY <3>1
  <2>3. CASE U # {}
    <3>1. PICK m \in U : \A y \in U : m >= y
      BY <1>1, <2>1, <2>3
    <3>2. m \in Nat /\ z \in Nat /\ m \in T /\ \A y \in T : y \in Nat /\ (y = z \/ y \in U)
      BY <2>1
    <3>3. CASE m >= z
      BY <3>1, <3>2, <3>3
    <3>4. CASE z >= m
      BY <3>1, <3>2, <3>4
    <3> QED BY <3>2, <3>3, <3>4
  <2> QED BY <2>2, <2>3
<1> HIDE DEF Good
<1>2. S \in Good
  BY <1>1, SubsetInduction
<1>3. \E x \in S : \A y \in S : x >= y
  BY <1>2 DEF Good
<1> QED BY <1>3 DEF Max

-----------------------------------------------------------------------------
(* The new calls of an answer                                              *)

(* Fresh, with what was seen before as a parameter.                        *)
FreshOf(old, calls) ==
  FoldLeft(LAMBDA fresh, c : IF c \in old \cup Range(fresh) THEN fresh ELSE Append(fresh, c),
           <<>>, calls)

Distinct(q) == \A i, j \in DOMAIN q : q[i] = q[j] => i = j

LEMMA AppendNew ==
  ASSUME NEW q \in Seq(Calls), Distinct(q), NEW c \in Calls, c \notin Range(q)
  PROVE  /\ Append(q, c) \in Seq(Calls) /\ Distinct(Append(q, c))
         /\ Range(Append(q, c)) = Range(q) \cup {c}
<1>1. \A i \in 1..Len(q) : q[i] # c /\ q[i] \in Range(q)
  BY DEF Range
<1>2. Distinct(Append(q, c))
  BY <1>1 DEF Distinct
<1>3. Range(Append(q, c)) = Range(q) \cup {c}
  <2>1. \A x \in Range(Append(q, c)) : x \in Range(q) \cup {c}
    BY DEF Range
  <2>2. c \in Range(Append(q, c))
    <3>1. Append(q, c)[Len(q) + 1] = c /\ Len(q) + 1 \in DOMAIN Append(q, c)
      OBVIOUS
    <3> QED BY <3>1 DEF Range
  <2>3. \A x \in Range(q) : x \in Range(Append(q, c))
    <3> SUFFICES ASSUME NEW i \in 1..Len(q) PROVE q[i] \in Range(Append(q, c))
      BY DEF Range
    <3>1. Append(q, c)[i] = q[i] /\ i \in DOMAIN Append(q, c)
      OBVIOUS
    <3> QED BY <3>1 DEF Range
  <2> QED BY <2>1, <2>2, <2>3
<1> QED BY <1>2, <1>3

(* What Fresh computes: the calls that were not seen before, once each.    *)
LEMMA FreshIsFresh ==
  ASSUME NEW old, NEW calls \in Seq(Calls)
  PROVE  /\ FreshOf(old, calls) \in Seq(Calls) /\ Distinct(FreshOf(old, calls))
         /\ Range(FreshOf(old, calls)) = Range(calls) \ old
<1> DEFINE D == DOMAIN calls
           Op(fresh, c) == IF c \in old \cup Range(fresh) THEN fresh ELSE Append(fresh, c)
           Iter(f) == [s \in SUBSET D |-> IF s = {} THEN <<>>
                                          ELSE LET x == Max(s) IN Op(f[s \ {x}], calls[x])]
           Known(s) == {calls[x] : x \in s} \ old
           Fine(q, s) == q \in Seq(Calls) /\ Distinct(q) /\ Range(q) = Known(s)
<1>1. FreshOf(old, calls) = (CHOOSE f : f = Iter(f))[D]
  BY DEF FreshOf, FoldLeft, MapThenFoldSet
<1>2. IsFiniteSet(D) /\ D \in SUBSET Nat /\ \A x \in D : calls[x] \in Calls
  <2>1. D = 1..Len(calls) /\ Len(calls) \in Nat
    OBVIOUS
  <2>2. IsFiniteSet(D)
    BY <2>1, FS_Interval
  <2> QED BY <2>1, <2>2
<1>3. ASSUME NEW s \in SUBSET D, s # {} PROVE Max(s) \in s
  BY <1>2, <1>3, MaxIsIn, FS_Subset
<1>4. Fine(<<>>, {})
  BY DEF Range, Distinct
<1>5. ASSUME NEW s \in SUBSET D, s # {}, NEW q, Fine(q, s \ {Max(s)})
      PROVE  Fine(Op(q, calls[Max(s)]), s)
  <2>1. PICK x \in D : x = Max(s)
    BY <1>3, <1>5
  <2>2. PICK c \in Calls : c = calls[x]
    BY <1>2
  <2>3. s = (s \ {x}) \cup {x}
    BY <1>3, <1>5, <2>1
  <2>4. Known(s) = Known(s \ {x}) \cup ({c} \ old)
    BY <2>2, <2>3
  <2>5. q \in Seq(Calls) /\ Distinct(q) /\ Range(q) = Known(s \ {x})
    BY <1>5, <2>1
  <2> HIDE DEF Known
  <2>6. CASE c \in old \cup Range(q)
    BY <2>1, <2>2, <2>4, <2>5, <2>6
  <2>7. CASE c \notin old \cup Range(q)
    <3>1. Append(q, c) \in Seq(Calls) /\ Distinct(Append(q, c)) /\ Range(Append(q, c)) = Range(q) \cup {c}
      BY <2>5, <2>7, AppendNew
    <3>2. Range(Append(q, c)) = Known(s)
      BY <2>4, <2>5, <2>7, <3>1
    <3>3. Op(q, calls[Max(s)]) = Append(q, c)
      BY <2>1, <2>2, <2>7
    <3> HIDE DEF Op
    <3> QED BY <3>1, <3>2, <3>3
  <2> QED BY <2>6, <2>7
<1>6. ASSUME NEW f, f = Iter(f)
      PROVE  \A s \in SUBSET D : Fine(f[s], s)
  <2> DEFINE Good == {s \in SUBSET D : Fine(f[s], s)}
  <2>1. ASSUME NEW s \in SUBSET D, \A u \in SUBSET s : u # s => u \in Good
        PROVE  s \in Good
    <3> HIDE DEF Fine, Op
    <3>1. f[s] = IF s = {} THEN <<>> ELSE Op(f[s \ {Max(s)}], calls[Max(s)])
      BY <1>6
    <3>2. CASE s = {}
      BY <1>4, <3>1, <3>2
    <3>3. CASE s # {}
      <4>1. s \ {Max(s)} \in Good
        BY <1>3, <2>1, <3>3
      <4> QED BY <1>5, <3>1, <3>3, <4>1
    <3> QED BY <3>2, <3>3
  <2> HIDE DEF Good
  <2>2. \A s \in SUBSET D : s \in Good
    <3> HIDE DEF D, Iter, Fine, Op
    <3> QED BY <1>2, <2>1, SubsetInduction
  <2> QED BY <2>2 DEF Good
<1>7. \E f : f = Iter(f)
  <2>1. PICK pick : pick = [s \in SUBSET D |-> Max(s)]
    OBVIOUS
  <2>2. PICK step : step = [p \in D \X Seq(Calls) |-> Op(p[2], calls[p[1]])]
    OBVIOUS
  <2>3. \A s \in SUBSET D : s # {} => pick[s] \in s
    BY <1>3, <2>1
  <2>4. PICK f : IsFold(step, pick, <<>>, f, D)
    BY <1>2, <2>3, FoldExists
  <2> DEFINE Good == {s \in SUBSET D : f[s] = Iter(f)[s] /\ Fine(f[s], s)}
  <2>5. ASSUME NEW s \in SUBSET D, \A u \in SUBSET s : u # s => u \in Good
        PROVE  s \in Good
    <3>1. f[s] = FoldStep(step, pick, <<>>, f, s)
      BY <2>4 DEF IsFold
    <3>2. Iter(f)[s] = IF s = {} THEN <<>> ELSE Op(f[s \ {Max(s)}], calls[Max(s)])
      OBVIOUS
    <3>3. CASE s = {}
      <4> HIDE DEF Fine, Op, Iter
      <4> QED BY <1>4, <3>1, <3>2, <3>3 DEF FoldStep
    <3>4. CASE s # {}
      <4>1. PICK x \in D : x = Max(s)
        BY <1>3, <3>4
      <4>2. PICK u : u = s \ {x}
        OBVIOUS
      <4>3. u \in Good
        BY <1>3, <2>5, <3>4, <4>1, <4>2
      <4>4. f[u] \in Seq(Calls) /\ Fine(f[u], u)
        BY <4>3
      <4>5. f[s] = step[<<x, f[u]>>]
        BY <2>1, <3>1, <3>4, <4>1, <4>2 DEF FoldStep
      <4> HIDE DEF Fine, Op, Iter, Good
      <4>6. step[<<x, f[u]>>] = Op(f[u], calls[x])
        BY <2>2, <4>4
      <4>7. f[s] = Iter(f)[s]
        BY <3>2, <3>4, <4>1, <4>2, <4>5, <4>6
      <4>8. Fine(f[s], s)
        BY <1>5, <3>4, <4>1, <4>2, <4>4, <4>5, <4>6
      <4> QED BY <4>7, <4>8 DEF Good
    <3> QED BY <3>3, <3>4
  <2> HIDE DEF Good
  <2>6. \A s \in SUBSET D : s \in Good
    <3> HIDE DEF D, Iter, Fine, Op
    <3> QED BY <1>2, <2>5, SubsetInduction
  <2>7. \A s \in SUBSET D : f[s] = Iter(f)[s]
    BY <2>6 DEF Good
  <2>8. f = [s \in SUBSET D |-> f[s]]
    BY <2>4 DEF IsFold
  <2>9. Iter(f) = [s \in SUBSET D |-> Iter(f)[s]]
    OBVIOUS
  <2> HIDE DEF Iter
  <2>10. f = Iter(f)
    BY <2>7, <2>8, <2>9
  <2> QED BY <2>10
<1>8. PICK h : h = (CHOOSE f : f = Iter(f))
  OBVIOUS
<1> HIDE DEF Iter
<1>9. h = Iter(h)
  BY <1>7, <1>8
<1>10. Fine(h[D], D)
  BY <1>6, <1>9
<1>11. {calls[x] : x \in D} = Range(calls)
  BY DEF Range
<1> QED BY <1>1, <1>8, <1>10, <1>11

-----------------------------------------------------------------------------
(* The work of a run                                                       *)

(* The types of what a tool call can touch.                                *)
WorkTypes ==
  /\ pc \in {"idle", "provider", "tools", "verify", "append", "caught", "done", "rejected"}
  /\ queue \in Seq(Calls) /\ seen \subseteq Calls
  /\ runs \in [Calls -> Nat] /\ outcome \in Counts
  /\ approvals \subseteq Calls
  /\ status \in {"completed", "failed", "blocked", "unverified"}

(* A call that waits was seen, waits once and has not run; what has run    *)
(* was seen and was allowed to. Between two answers none waits.            *)
QueueInv ==
  /\ Distinct(queue) /\ Range(queue) \subseteq seen
  /\ \A c \in Range(queue) : runs[c] = 0
  /\ \A c \in Calls : /\ runs[c] <= 1
                      /\ runs[c] > 0 => c \in seen /\ Tool[c] \in Tools \ (Denied \cup Protected)
  /\ \A c \in approvals : Tool[c] \in Protected \ Denied
  /\ pc \in {"idle", "provider", "verify", "append"} => queue = <<>>

Ran == {c \in Calls : runs[c] > 0}

(* Every call that was seen waits or is counted, and what completed ran.   *)
CountInv ==
  /\ IsFiniteSet(seen)
  /\ outcome.completed + outcome.failed + outcome.blocked + Cardinality(Range(queue)) =
       Cardinality(seen)
  /\ outcome.completed <= Cardinality(Ran)

(* The status before the history is written: "completed" until a call      *)
(* fails or is blocked, and at its writing only if verified.               *)
StatusInv ==
  /\ pc \in {"idle", "provider", "tools", "verify", "append"} =>
       /\ status = "completed" => outcome.failed = 0 /\ outcome.blocked = 0
       /\ status = "failed" => outcome.failed > 0
  /\ pc = "append" /\ status = "completed" => VerifyOutcome
  /\ pc = "caught" => status = "failed"
  /\ pc = "idle" => answer = None
  /\ record # None => pc = "done"

RunInv == WorkTypes /\ QueueInv /\ CountInv /\ StatusInv

LEMMA HeadAndTail ==
  ASSUME NEW q \in Seq(Calls), q # <<>>, Distinct(q)
  PROVE  /\ Tail(q) \in Seq(Calls) /\ Distinct(Tail(q)) /\ Head(q) \in Range(q)
         /\ Range(Tail(q)) = Range(q) \ {Head(q)}
<1>1. Len(q) \in Nat \ {0} /\ Head(q) = q[1] /\ 1 \in DOMAIN q
  OBVIOUS
<1>2. \A i \in 1..Len(q) - 1 : i \in DOMAIN Tail(q) /\ Tail(q)[i] = q[i + 1]
  BY <1>1
<1>3. DOMAIN Tail(q) = 1..Len(q) - 1 /\ DOMAIN q = 1..Len(q)
  BY <1>1
<1>4. Distinct(Tail(q))
  BY <1>1, <1>2, <1>3 DEF Distinct
<1>5. \A x \in Range(Tail(q)) : x \in Range(q) /\ x # Head(q)
  <2> SUFFICES ASSUME NEW i \in 1..Len(q) - 1 PROVE Tail(q)[i] \in Range(q) /\ Tail(q)[i] # Head(q)
    BY <1>3 DEF Range
  <2>1. i + 1 \in DOMAIN q /\ i + 1 # 1 /\ Tail(q)[i] = q[i + 1]
    BY <1>1, <1>2, <1>3
  <2> QED BY <1>1, <2>1 DEF Range, Distinct
<1>6. \A x \in Range(q) \ {Head(q)} : x \in Range(Tail(q))
  <2> SUFFICES ASSUME NEW i \in 1..Len(q), q[i] # Head(q) PROVE q[i] \in Range(Tail(q))
    BY <1>3 DEF Range
  <2>1. i - 1 \in 1..Len(q) - 1 /\ q[(i - 1) + 1] = q[i]
    BY <1>1
  <2>2. Tail(q)[i - 1] = q[i] /\ i - 1 \in DOMAIN Tail(q)
    BY <1>2, <2>1
  <2> QED BY <2>2 DEF Range
<1>7. Head(q) \in Range(q)
  BY <1>1 DEF Range
<1> QED BY <1>4, <1>5, <1>6, <1>7

(* A call is handled: it leaves the queue and one counter moves.           *)
Handled(c, kind) ==
  /\ pc = "tools" /\ pc' = "tools" /\ c \in Range(queue)
  /\ queue' \in Seq(Calls) /\ Distinct(queue') /\ Range(queue') = Range(queue) \ {c}
  /\ outcome' \in Counts
  /\ outcome'.completed = outcome.completed + (IF kind = "completed" THEN 1 ELSE 0)
  /\ outcome'.failed = outcome.failed + (IF kind = "failed" THEN 1 ELSE 0)
  /\ outcome'.blocked = outcome.blocked + (IF kind = "blocked" THEN 1 ELSE 0)
  /\ status' = IF kind = "completed" THEN status ELSE kind
  /\ UNCHANGED <<answer, seen, record>>

LEMMA ResultHandles ==
  ASSUME WorkTypes, QueueInv, NEW c, AtCall(c), NEW kind \in {"completed", "failed", "blocked"}, Result(kind)
  PROVE  Handled(c, kind)
<1>1. Tail(queue) \in Seq(Calls) /\ Distinct(Tail(queue)) /\ c \in Range(queue) /\ Range(Tail(queue)) = Range(queue) \ {c}
  BY HeadAndTail DEF AtCall, WorkTypes, QueueInv
<1>2. /\ outcome' \in Counts
      /\ outcome'.completed = outcome.completed + (IF kind = "completed" THEN 1 ELSE 0)
      /\ outcome'.failed = outcome.failed + (IF kind = "failed" THEN 1 ELSE 0)
      /\ outcome'.blocked = outcome.blocked + (IF kind = "blocked" THEN 1 ELSE 0)
  <2>1. CASE kind = "completed"
    BY <2>1 DEF Result, WorkTypes, Counts
  <2>2. CASE kind = "failed"
    BY <2>2 DEF Result, WorkTypes, Counts
  <2>3. CASE kind = "blocked"
    BY <2>3 DEF Result, WorkTypes, Counts
  <2> QED BY <2>1, <2>2, <2>3
<1> QED BY <1>1, <1>2 DEF Handled, Result, AtCall, WorkTypes, heard

(* A handled call keeps the counts, if it has run or is not completed.     *)
LEMMA HandlingCounts ==
  ASSUME RunInv, NEW c \in Calls, NEW kind \in {"completed", "failed", "blocked"}, Handled(c, kind),
         \/ runs' = runs /\ kind # "completed"
         \/ runs' = [runs EXCEPT ![c] = @ + 1] /\ runs[c] = 0
  PROVE  CountInv'
<1>1. /\ IsFiniteSet(seen) /\ Range(queue) \subseteq seen /\ Ran \subseteq seen
      /\ c \in Range(queue) /\ Range(queue') = Range(queue) \ {c} /\ seen' = seen
  BY DEF RunInv, QueueInv, CountInv, Handled, Ran
<1>2. IsFiniteSet(Range(queue)) /\ IsFiniteSet(Ran)
  BY <1>1, FS_Subset
<1>3. PICK n \in Nat : n = Cardinality(Range(queue))
  BY <1>2, FS_CardinalityType
<1>4. Cardinality(Range(queue')) = n - 1 /\ Cardinality(Range(queue'))  \in Nat
  BY <1>1, <1>2, <1>3, FS_RemoveElement, FS_CardinalityType
<1>5. PICK m \in Nat : m = Cardinality(seen)
  BY <1>1, FS_CardinalityType
<1>6. PICK r \in Nat : r = Cardinality(Ran)
  BY <1>2, FS_CardinalityType
<1>7. \/ Cardinality(Ran') = r /\ kind # "completed"
      \/ Cardinality(Ran') = r + 1
  <2>1. CASE runs' = runs /\ kind # "completed"
    BY <1>6, <2>1 DEF Ran
  <2>2. CASE runs' = [runs EXCEPT ![c] = @ + 1] /\ runs[c] = 0
    <3>1. Ran' = Ran \cup {c} /\ c \notin Ran
      BY <2>2 DEF Ran, RunInv, WorkTypes
    <3> QED BY <1>2, <1>6, <3>1, FS_AddElement
  <2> QED BY <2>1, <2>2
<1>8. outcome.completed \in Nat /\ outcome.failed \in Nat /\ outcome.blocked \in Nat
  BY DEF RunInv, WorkTypes, Counts
<1>9. outcome.completed + outcome.failed + outcome.blocked + n = m /\ outcome.completed <= r
  BY <1>3, <1>5, <1>6 DEF RunInv, CountInv
<1>10. outcome'.completed + outcome'.failed + outcome'.blocked = outcome.completed + outcome.failed + outcome.blocked + 1
  BY <1>8 DEF Handled
<1>11. outcome'.completed + outcome'.failed + outcome'.blocked + (n - 1) = m
  <2>1. PICK sum \in Nat : sum = outcome.completed + outcome.failed + outcome.blocked
    BY <1>8
  <2>2. sum + n = m /\ outcome'.completed + outcome'.failed + outcome'.blocked = sum + 1
    BY <1>9, <1>10, <2>1
  <2>3. (sum + 1) + (n - 1) = m
    BY <2>2
  <2> QED BY <2>2, <2>3
<1>12. outcome'.completed <= Cardinality(Ran')
  <2>1. outcome'.completed = outcome.completed + (IF kind = "completed" THEN 1 ELSE 0)
    BY DEF Handled
  <2> QED BY <1>7, <1>8, <1>9, <2>1
<1> QED BY <1>1, <1>4, <1>5, <1>11, <1>12 DEF CountInv

(* Init has not seen a call.                                               *)
LEMMA RunStarts == Init => RunInv
<1> SUFFICES ASSUME Init PROVE RunInv
  OBVIOUS
<1>1. WorkTypes
  BY DEF Init, WorkTypes, Counts
<1>2. QueueInv
  BY DEF Init, QueueInv, Distinct, Range
<1>3. CountInv
  <2>1. Range(queue) = {} /\ Ran = {} /\ seen = {}
    BY DEF Init, Range, Ran
  <2>2. IsFiniteSet({}) /\ Cardinality({}) = 0
    BY FS_EmptySet
  <2>3. outcome.completed = 0 /\ outcome.failed = 0 /\ outcome.blocked = 0
    BY DEF Init
  <2> QED BY <2>1, <2>2, <2>3 DEF CountInv
<1>4. StatusInv
  BY DEF Init, StatusInv
<1> QED BY <1>1, <1>2, <1>3, <1>4 DEF RunInv

(* A step that leaves the calls alone and moves on to where none waits.    *)
LEMMA NoCallsTouched ==
  ASSUME RunInv, UNCHANGED <<work, seen>>, StatusInv',
         pc' \in {"idle", "provider", "tools", "verify", "append", "caught", "done", "rejected"},
         status' \in {"completed", "failed", "blocked", "unverified"},
         pc' \in {"idle", "provider", "verify", "append"} => queue = <<>>
  PROVE  RunInv'
<1>1. /\ queue' = queue /\ runs' = runs /\ outcome' = outcome /\ approvals' = approvals /\ seen' = seen
  BY DEF work
<1>2. WorkTypes'
  BY <1>1 DEF RunInv, WorkTypes
<1>3. QueueInv'
  BY <1>1 DEF RunInv, QueueInv
<1>4. CountInv'
  BY <1>1 DEF RunInv, CountInv, Ran
<1> QED BY <1>2, <1>3, <1>4 DEF RunInv

(* The answer of a provider.                                               *)
LEMMA ReasonKeeps ==
  ASSUME RunInv, NEW a \in Answers, Reason(a)
  PROVE  RunInv'
<1>1. pc = "provider" /\ queue = <<>> /\ UNCHANGED <<runs, outcome, approvals, record>> /\ answer' = a
  BY DEF Reason, Searching, RunInv, QueueInv
<1>2. a.calls \in Seq(Calls)
  BY AgentAssumption
<1>3. CASE a.needsApproval /\ a.calls = <<>> /\ ~a.malformed
  <2>1. pc' = "verify" /\ status' = "blocked" /\ UNCHANGED <<queue, seen>>
    BY <1>3 DEF Reason, heard
  <2>2. StatusInv'
    BY <1>1, <2>1 DEF RunInv, StatusInv
  <2> QED BY <1>1, <2>1, <2>2, NoCallsTouched DEF work
<1>4. CASE ~(a.needsApproval /\ a.calls = <<>> /\ ~a.malformed)
  <2>1. PICK q : q = Fresh(a.calls)
    OBVIOUS
  <2>2. /\ pc' = (IF q = <<>> THEN "verify" ELSE "tools") /\ queue' = q
        /\ seen' = seen \cup Range(a.calls) /\ status' = status
    BY <1>4, <2>1 DEF Reason
  <2>3. q \in Seq(Calls) /\ Distinct(q) /\ Range(q) = Range(a.calls) \ seen
    <3>1. Fresh(a.calls) = FreshOf(seen, a.calls)
      BY DEF Fresh, FreshOf
    <3> QED BY <1>2, <2>1, <3>1, FreshIsFresh
  <2>4. Range(a.calls) \subseteq Calls /\ IsFiniteSet(Range(a.calls))
    <3>1. DOMAIN a.calls = 1..Len(a.calls) /\ Len(a.calls) \in Nat /\ \A i \in DOMAIN a.calls : a.calls[i] \in Calls
      BY <1>2
    <3>2. IsFiniteSet(DOMAIN a.calls)
      BY <3>1, FS_Interval
    <3>3. a.calls \in Surjection(DOMAIN a.calls, Range(a.calls))
      <4>1. a.calls = [i \in DOMAIN a.calls |-> a.calls[i]]
        BY <1>2
      <4>2. a.calls \in [DOMAIN a.calls -> Range(a.calls)]
        BY <4>1 DEF Range
      <4> QED BY <4>2 DEF Surjection, Range
    <3>4. IsFiniteSet(Range(a.calls))
      BY <3>2, <3>3, FS_Surjection
    <3> QED BY <3>1, <3>4 DEF Range
  <2>5. WorkTypes'
    BY <1>1, <2>2, <2>3, <2>4 DEF RunInv, WorkTypes
  <2>6. QueueInv'
    <3>1. \A c \in Range(q) : c \in Calls /\ c \notin seen
      BY <2>3, <2>4
    <3>2. \A c \in Range(q) : runs[c] = 0
      BY <3>1 DEF RunInv, QueueInv, WorkTypes
    <3> QED BY <1>1, <2>2, <2>3, <3>2 DEF RunInv, QueueInv
  <2>7. CountInv'
    <3>1. IsFiniteSet(Range(q)) /\ IsFiniteSet(seen) /\ seen' = seen \cup Range(q) /\ seen \cap Range(q) = {}
      BY <2>2, <2>3, <2>4, FS_Subset DEF RunInv, CountInv
    <3>2. IsFiniteSet(seen') /\ Cardinality(seen') = Cardinality(seen) + Cardinality(Range(q)) - Cardinality({})
      BY <3>1, FS_Union
    <3>3. Cardinality(Range(queue)) = 0 /\ Cardinality({}) = 0
      <4>1. Range(queue) = {}
        BY <1>1 DEF Range
      <4> QED BY <4>1, FS_EmptySet
    <3>4. Cardinality(seen) \in Nat /\ Cardinality(Range(q)) \in Nat
      BY <3>1, FS_CardinalityType
    <3>5. outcome.completed \in Nat /\ outcome.failed \in Nat /\ outcome.blocked \in Nat
      BY DEF RunInv, WorkTypes, Counts
    <3>6. outcome.completed + outcome.failed + outcome.blocked = Cardinality(seen)
      BY <3>3, <3>4, <3>5 DEF RunInv, CountInv
    <3>7. outcome.completed + outcome.failed + outcome.blocked + Cardinality(Range(q)) = Cardinality(seen')
      BY <3>2, <3>3, <3>4, <3>6
    <3> QED BY <1>1, <2>2, <3>2, <3>7 DEF RunInv, CountInv, Ran
  <2>8. StatusInv'
    BY <1>1, <2>2 DEF RunInv, StatusInv
  <2> QED BY <2>5, <2>6, <2>7, <2>8 DEF RunInv
<1> QED BY <1>3, <1>4

(* It runs, or waits for an approval, only as the policy has it.           *)
ByTheRules(c, kind) ==
  /\ Handled(c, kind)
  /\ \/ runs' = runs /\ kind # "completed"
     \/ runs' = [runs EXCEPT ![c] = @ + 1] /\ Tool[c] \in Tools \ (Denied \cup Protected)
  /\ approvals' \in {approvals, approvals \cup {c}}
  /\ approvals' # approvals => Tool[c] \in Protected \ Denied

(* A call is handled without being run, or is run.                         *)
LEMMA CallsKeep ==
  ASSUME RunInv, NEW c \in Calls,
         UnknownTool(c) \/ Deny(c) \/ RequestApproval(c) \/ (\E kind \in {"completed", "failed"} : Execute(c, kind))
  PROVE  RunInv'
<1>1. WorkTypes /\ QueueInv /\ StatusInv
  BY DEF RunInv
<1>2. \E kind \in {"completed", "failed", "blocked"} : ByTheRules(c, kind)
  <2>1. CASE UnknownTool(c)
    BY <1>1, <2>1, ResultHandles DEF ByTheRules, UnknownTool
  <2>2. CASE Deny(c)
    BY <1>1, <2>2, ResultHandles DEF ByTheRules, Deny
  <2>3. CASE RequestApproval(c)
    BY <1>1, <2>3, ResultHandles DEF ByTheRules, RequestApproval
  <2>4. ASSUME NEW kind \in {"completed", "failed"}, Execute(c, kind) PROVE ByTheRules(c, kind)
    <3>1. Handled(c, kind)
      BY <1>1, <2>4, ResultHandles DEF ByTheRules, Execute
    <3> QED BY <2>4, <3>1 DEF Execute, ByTheRules
  <2> QED BY <2>1, <2>2, <2>3, <2>4
<1>3. PICK kind \in {"completed", "failed", "blocked"} : ByTheRules(c, kind)
  BY <1>2
<1>4. /\ pc = "tools" /\ pc' = "tools" /\ c \in Range(queue) /\ Range(queue') = Range(queue) \ {c}
      /\ seen' = seen /\ runs[c] = 0 /\ c \in seen
  BY <1>1, <1>3 DEF Handled, QueueInv, ByTheRules
<1>5. WorkTypes'
  <2>1. runs' \in [Calls -> Nat]
    BY <1>1, <1>3 DEF WorkTypes, ByTheRules
  <2>2. approvals' \subseteq Calls
    BY <1>1, <1>3 DEF WorkTypes, ByTheRules
  <2>3. pc' = "tools" /\ queue' \in Seq(Calls) /\ seen' = seen /\ outcome' \in Counts
        /\ status' \in {status, "completed", "failed", "blocked"}
    BY <1>3 DEF Handled, ByTheRules
  <2> QED BY <1>1, <2>1, <2>2, <2>3 DEF WorkTypes
<1>6. QueueInv'
  <2>1. \A d \in Calls : d # c => runs'[d] = runs[d]
    BY <1>1, <1>3 DEF WorkTypes, ByTheRules
  <2>2. runs'[c] <= 1 /\ (runs'[c] > 0 => Tool[c] \in Tools \ (Denied \cup Protected))
    BY <1>1, <1>3, <1>4 DEF WorkTypes, ByTheRules
  <2>3. \A d \in Range(queue') : d # c /\ d \in Range(queue) /\ d \in Calls
    BY <1>1, <1>4 DEF QueueInv, WorkTypes
  <2>4. \A d \in Range(queue') : runs'[d] = 0
    BY <1>1, <2>1, <2>3 DEF QueueInv
  <2>5. \A d \in Calls : /\ runs'[d] <= 1
                         /\ runs'[d] > 0 => d \in seen' /\ Tool[d] \in Tools \ (Denied \cup Protected)
    BY <1>1, <1>4, <2>1, <2>2 DEF QueueInv
  <2>6. \A d \in approvals' : Tool[d] \in Protected \ Denied
    BY <1>1, <1>3 DEF QueueInv, ByTheRules
  <2>7. Distinct(queue') /\ Range(queue') \subseteq seen'
    BY <1>1, <1>3, <1>4 DEF Handled, QueueInv, ByTheRules
  <2> QED BY <1>4, <2>4, <2>5, <2>6, <2>7 DEF QueueInv
<1>7. CountInv'
  BY <1>3, <1>4, HandlingCounts DEF ByTheRules
<1>8. StatusInv'
  <2>1. outcome.failed \in Nat /\ outcome.blocked \in Nat
    BY <1>1 DEF WorkTypes, Counts
  <2> QED BY <1>1, <1>3, <1>4, <2>1 DEF StatusInv, Handled, ByTheRules
<1> QED BY <1>5, <1>6, <1>7, <1>8 DEF RunInv

(* The end of a run.                                                       *)
LEMMA EndsKeep ==
  ASSUME RunInv, NEW stored \in BOOLEAN,
         Remember(stored) \/ AppendRun(stored) \/ NextIteration \/ NoProviderLeft
           \/ (\E c \in Calls : RequestFails(c))
  PROVE  RunInv'
<1>1. CASE Remember(stored)
  <2>1. StatusInv'
    BY <1>1 DEF Remember, RunInv, StatusInv, WorkTypes, work, VerifyOutcome, heard
  <2> QED BY <1>1, <2>1, NoCallsTouched DEF Remember, RunInv, QueueInv, WorkTypes
<1>2. CASE AppendRun(stored)
  <2>1. StatusInv'
    BY <1>2 DEF AppendRun, RunInv, StatusInv
  <2> QED BY <1>2, <2>1, NoCallsTouched DEF AppendRun, RunInv, WorkTypes
<1>3. CASE NextIteration
  <2>1. StatusInv'
    BY <1>3 DEF NextIteration, RunInv, StatusInv, work
  <2> QED BY <1>3, <2>1, NoCallsTouched DEF NextIteration, RunInv, WorkTypes
<1>4. CASE NoProviderLeft
  <2>1. StatusInv'
    BY <1>4 DEF NoProviderLeft, RunInv, StatusInv
  <2> QED BY <1>4, <2>1, NoCallsTouched DEF NoProviderLeft
<1>5. ASSUME NEW c \in Calls, RequestFails(c) PROVE RunInv'
  <2>1. StatusInv'
    BY <1>5 DEF RequestFails, AtCall, RunInv, StatusInv
  <2> QED BY <1>5, <2>1, NoCallsTouched DEF RequestFails
<1> QED BY <1>1, <1>2, <1>3, <1>4, <1>5

(* Every step of the run keeps the invariant.                              *)
LEMMA RunHolds ==
  ASSUME RunInv, [Next]_vars
  PROVE  RunInv'
<1>1. ASSUME NEW p \in Providers \cup {NoProvider}, Start(p) PROVE RunInv'
  <2>1. StatusInv'
    BY <1>1 DEF Start, RunInv, StatusInv, work
  <2> QED BY <1>1, <2>1, NoCallsTouched DEF Start, RunInv, QueueInv, WorkTypes
<1>2. ASSUME NEW ok \in SUBSET Providers, NEW stored \in BOOLEAN, Fanout(ok, stored) PROVE RunInv'
  <2>1. StatusInv'
    BY <1>2 DEF Fanout, RunInv, StatusInv
  <2>2. status' \in {"completed", "failed"}
    BY <1>2 DEF Fanout, FanoutRun
  <2> QED BY <1>2, <2>1, <2>2, NoCallsTouched DEF Fanout
<1>3. ASSUME (\E up \in BOOLEAN : CheckHealth(up)) \/ SkipUnhealthy \/ ReasonFails \/ UNCHANGED vars
      PROVE  RunInv'
  <2>1. UNCHANGED <<pc, work, seen, status, record, answer, stepped>>
    BY <1>3 DEF CheckHealth, SkipUnhealthy, ReasonFails, vars, work, heard
  <2>2. StatusInv'
    BY <2>1 DEF RunInv, StatusInv, work, VerifyOutcome
  <2> QED BY <2>1, <2>2, NoCallsTouched DEF RunInv, WorkTypes, QueueInv
<1>4. ASSUME Step PROVE RunInv'
  BY <1>3, <1>4, ReasonKeeps, CallsKeep, EndsKeep DEF Step
<1> QED BY <1>1, <1>2, <1>3, <1>4 DEF Next

(* Whatever the providers answer, a tool runs at most once for the same    *)
(* input, and only if the policy lets it run without an approval.          *)
THEOREM SideEffectsAreOnceAndAllowed == Spec => []SideEffectsOnceAndAllowed
<1>1. RunInv => SideEffectsOnceAndAllowed
  <2> SUFFICES ASSUME RunInv, NEW c \in Calls
               PROVE  /\ runs[c] <= 1
                      /\ runs[c] > 0 => Tool[c] \in Tools \ (Denied \cup Protected)
                      /\ c \in approvals => runs[c] = 0 /\ Tool[c] \in Protected \ Denied
    BY DEF SideEffectsOnceAndAllowed
  <2>1. /\ runs[c] \in Nat /\ runs[c] <= 1
        /\ runs[c] > 0 => Tool[c] \in Tools \ (Denied \cup Protected)
        /\ c \in approvals => Tool[c] \in Protected \ Denied
    BY DEF RunInv, QueueInv, WorkTypes
  <2>2. c \in approvals => runs[c] = 0
    BY <2>1
  <2> QED BY <2>1, <2>2
<1> QED BY <1>1, RunStarts, RunHolds, PTL DEF Spec

-----------------------------------------------------------------------------
(* The history                                                             *)

(* The record is written once, at the end of a run that accounts for it.   *)
LEMMA HistoryIsWritten ==
  ASSUME RunInv, NEW stored \in BOOLEAN, AppendRun(stored)
  PROVE  HistoryTellsTheRun'
<1> SUFFICES ASSUME stored PROVE HistoryTellsTheRun'
  BY DEF AppendRun, HistoryTellsTheRun
<1>1. UNCHANGED <<answer, seen, status, queue, runs, outcome>> /\ pc \in {"append", "caught"}
  BY DEF AppendRun, work, heard
<1>2. /\ outcome.completed \in Nat /\ outcome.failed \in Nat /\ outcome.blocked \in Nat
      /\ outcome.completed <= Cardinality(Ran)
      /\ Ran = {c \in Calls : runs[c] > 0} /\ Ran' = Ran
  BY <1>1 DEF RunInv, WorkTypes, Counts, CountInv, Ran
<1>3. CASE pc = "append"
  <2>1. record' = Run(VerifyOutcome, outcome.failed)
    BY <1>3 DEF AppendRun
  <2>2. /\ record'.status = status /\ (record'.verified <=> VerifyOutcome) /\ record'.completed = outcome.completed
        /\ record'.failed = outcome.failed /\ record'.blocked = outcome.blocked
    BY <2>1 DEF Run
  <2>3. /\ status = "completed" => VerifyOutcome /\ outcome.blocked = 0
        /\ status = "failed" => outcome.failed > 0
        /\ VerifyOutcome => outcome.failed = 0
    BY <1>3 DEF RunInv, StatusInv, VerifyOutcome
  <2>4. outcome.completed + outcome.failed + outcome.blocked = Cardinality(seen)
    <3>1. Range(queue) = {}
      BY <1>3 DEF RunInv, QueueInv, Range
    <3>2. Cardinality(Range(queue)) = 0
      BY <3>1, FS_EmptySet
    <3> QED BY <1>2, <3>2 DEF RunInv, CountInv
  <2> QED BY <1>1, <1>2, <2>2, <2>3, <2>4 DEF HistoryTellsTheRun, Ran
<1>4. CASE pc = "caught"
  <2>1. record' = Run(FALSE, outcome.failed + 1) /\ status = "failed"
    BY <1>4 DEF AppendRun, RunInv, StatusInv
  <2>2. /\ record'.status = "failed" /\ ~record'.verified /\ record'.completed = outcome.completed
        /\ record'.failed = outcome.failed + 1
    BY <2>1 DEF Run
  <2>3. status' = "failed" /\ record'.failed > 0 /\ record'.completed <= Cardinality(Ran')
    <3>1. PICK n \in Nat : n = outcome.failed
      BY <1>2
    <3>2. record'.failed = n + 1
      BY <2>2, <3>1
    <3>3. record'.failed > 0
      BY <3>2
    <3>4. Cardinality(Ran') = Cardinality(Ran)
      BY <1>2
    <3> QED BY <1>1, <1>2, <2>1, <2>2, <3>3, <3>4
  <2> QED BY <2>2, <2>3 DEF HistoryTellsTheRun, Ran
<1> QED BY <1>1, <1>3, <1>4

LEMMA FanoutIsWritten ==
  ASSUME RunInv, NEW ok \in SUBSET Providers, NEW stored \in BOOLEAN, Fanout(ok, stored)
  PROVE  HistoryTellsTheRun'
<1>1. answer' = None /\ (record' # None => record' = FanoutRun(ok))
  BY DEF Fanout, RunInv, StatusInv, heard
<1>2. /\ FanoutRun(ok).status = "completed" => FanoutRun(ok).verified /\ FanoutRun(ok).blocked = 0
      /\ FanoutRun(ok).status = "failed" => ok = {}
      /\ FanoutRun(ok).failed = Cardinality(Providers \ ok)
  BY DEF FanoutRun
<1>3. Cardinality(Providers) > 0
  <2>1. Registered \in Seq(Providers) /\ Registered # <<>>
    BY AgentAssumption
  <2>2. DOMAIN Registered = 1..Len(Registered) /\ Len(Registered) \in Nat \ {0}
    BY <2>1
  <2>3. IsFiniteSet(DOMAIN Registered)
    BY <2>2, FS_Interval
  <2>4. Registered = [i \in DOMAIN Registered |-> Registered[i]]
    BY <2>1
  <2>5. Registered \in Surjection(DOMAIN Registered, Providers)
    BY <2>4 DEF Surjection, Providers, Range
  <2>6. IsFiniteSet(Providers)
    BY <2>3, <2>5, FS_Surjection
  <2>7. Providers # {}
    BY <2>1, <2>2
  <2> QED BY <2>6, <2>7, FS_EmptySet, FS_CardinalityType
<1>4. ok = {} => Cardinality(Providers \ ok) > 0
  <2>1. Providers \ {} = Providers
    OBVIOUS
  <2> QED BY <1>3, <2>1
<1> QED BY <1>1, <1>2, <1>4 DEF HistoryTellsTheRun

(* The history accounts for the run: every new call once, "completed" only *)
(* if verified with nothing failed or blocked.                             *)
THEOREM HistoryIsTrue == Spec => []HistoryTellsTheRun
<1>1. Init => HistoryTellsTheRun
  BY DEF Init, HistoryTellsTheRun
<1>2. RunInv /\ HistoryTellsTheRun /\ [Next]_vars => HistoryTellsTheRun'
  <2> SUFFICES ASSUME RunInv, HistoryTellsTheRun, [Next]_vars PROVE HistoryTellsTheRun'
    OBVIOUS
  <2>1. CASE UNCHANGED vars
    BY <2>1 DEF vars, HistoryTellsTheRun
  <2>2. CASE record' = None
    BY <2>2 DEF HistoryTellsTheRun
  <2>3. ASSUME NEW stored \in BOOLEAN, AppendRun(stored) PROVE HistoryTellsTheRun'
    BY <2>3, HistoryIsWritten
  <2>4. ASSUME NEW ok \in SUBSET Providers, NEW stored \in BOOLEAN, Fanout(ok, stored)
        PROVE  HistoryTellsTheRun'
    BY <2>4, FanoutIsWritten
  <2>5. ASSUME pc # "done", record' = record PROVE record' = None
    BY <2>5 DEF RunInv, StatusInv
  <2>6. ASSUME NEW p \in Providers \cup {NoProvider}, Start(p) PROVE record' = None
    BY <2>5, <2>6 DEF Start
  <2>7. ASSUME Step, \A stored \in BOOLEAN : ~AppendRun(stored) PROVE record' = None
    BY <2>5, <2>7 DEF Step, CheckHealth, SkipUnhealthy, ReasonFails, NoProviderLeft, Reason, UnknownTool, Deny,
      RequestApproval, RequestFails, Execute, Result, NextIteration, Remember, Searching, AtCall
  <2> QED BY <2>1, <2>2, <2>3, <2>4, <2>6, <2>7 DEF Next
<1> QED BY <1>1, <1>2, RunStarts, RunHolds, PTL DEF Spec
=============================================================================
