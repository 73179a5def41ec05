--------------------------- MODULE JasLang_proofs ---------------------------
(***************************************************************************)
(* Theorems about JasLang for every set of programs, well formed or not,   *)
(* and every limit on steps, items and depth.                              *)
(***************************************************************************)
EXTENDS JasLang, SequenceTheorems, FiniteSetTheorems, TLAPS

-----------------------------------------------------------------------------
(* Least and greatest numbers                                              *)

(* A nonempty set of numbers has a least element.                          *)
LEMMA LeastNumber ==
  ASSUME NEW n \in Nat, NEW S \in SUBSET (1..n), S # {}
  PROVE  \E k \in S : \A j \in S : k <= j
<1> DEFINE R == StrictSubsetOrdering(1..n)
           F == FiniteSubsetsOf(1..n)
           B == {1..k : k \in S}
<1>1. IsFiniteSet(1..n)
  BY FS_Interval
<1>2. IsWellFoundedOn(R, F)
  BY <1>1, FS_StrictSubsetOrderingWellFounded
<1>3. F = SUBSET (1..n)
  BY <1>1, FS_FiniteSubsetsOfFinite
<1>4. B \subseteq F /\ B # {}
  <2>1. \A k \in S : 1..k \in SUBSET (1..n)
    OBVIOUS
  <2> HIDE DEF F
  <2> QED BY <1>3, <2>1
<1>5. PICK T \in B : \A U \in B : ~(<<U, T>> \in R)
  <2> HIDE DEF R, F, B
  <2> QED BY <1>2, <1>4, WFMin
<1>6. PICK k \in S : T = 1..k
  BY <1>5
<1>7. ASSUME NEW j \in S, j < k PROVE FALSE
  <2>1. 1..j \in SUBSET (1..n) /\ 1..k \in SUBSET (1..n) /\ 1..j \subseteq 1..k /\ 1..j # 1..k
    BY <1>7
  <2>2. <<1..j, 1..k>> \in R
    BY <2>1 DEF StrictSubsetOrdering
  <2> QED BY <1>5, <1>6, <2>2
<1> QED BY <1>7

(* And a greatest one, if it is bounded.                                   *)
LEMMA GreatestNumber ==
  ASSUME NEW n \in Nat, NEW S \in SUBSET (1..n), S # {}
  PROVE  \E k \in S : \A j \in S : j <= k
<1> DEFINE R == {n + 1 - k : k \in S}
<1>1. R \in SUBSET (1..n) /\ R # {}
  <2>1. \A k \in S : n + 1 - k \in 1..n
    OBVIOUS
  <2>2. PICK k \in S : TRUE
    OBVIOUS
  <2>3. n + 1 - k \in R
    OBVIOUS
  <2> QED BY <2>1, <2>3
<1>2. PICK r \in R : \A q \in R : r <= q
  <2> HIDE DEF R
  <2> QED BY <1>1, LeastNumber
<1>3. PICK k \in S : r = n + 1 - k
  OBVIOUS
<1>4. \A j \in S : j <= k
  <2> SUFFICES ASSUME NEW j \in S PROVE j <= k
    OBVIOUS
  <2>1. n + 1 - j \in R /\ j \in 1..n /\ k \in 1..n
    OBVIOUS
  <2> QED BY <1>2, <1>3, <2>1
<1> QED BY <1>4

(* So Max and Min are what their names say.                                *)
LEMMA MaxIsGreatest ==
  ASSUME NEW n \in Nat, NEW S \in SUBSET (1..n), S # {}
  PROVE  Max(S) \in S /\ \A j \in S : j <= Max(S)
<1>1. PICK k \in S : \A j \in S : k >= j
  <2>1. PICK k \in S : \A j \in S : j <= k
    BY GreatestNumber
  <2> QED BY <2>1
<1> QED BY <1>1 DEF Max

LEMMA MinIsLeast ==
  ASSUME NEW n \in Nat, NEW S \in SUBSET (1..n), S # {}
  PROVE  Min(S) \in S /\ \A j \in S : Min(S) <= j
<1>1. PICK k \in S : \A j \in S : k <= j
  BY LeastNumber
<1> QED BY <1>1 DEF Min

-----------------------------------------------------------------------------
(* How deep a program is in its blocks                                     *)

(* How many of the lines a..b are of one of these kinds.                   *)
Count(p, kinds, a, b) == Cardinality({k \in a..b : p[k] \in kinds})

Depth(p, a, b) == Count(p, Openers, a, b) - Count(p, {"end"}, a, b)

(* What the interpreter counts in its program.                             *)
LEMMA OpenedIsDepth == \A a, b : Opened(a, b) = Depth(lines, a, b)
<1> SUFFICES ASSUME NEW a, NEW b PROVE Opened(a, b) = Depth(lines, a, b)
  OBVIOUS
<1>1. {k \in a..b : lines[k] = "end"} = {k \in a..b : lines[k] \in {"end"}}
  OBVIOUS
<1> QED BY <1>1 DEF Opened, Depth, Count

(* Counting up to a line and from it on is counting all.                   *)
LEMMA CountAdds ==
  ASSUME NEW p, NEW kinds, NEW a \in Nat, NEW b \in Int, NEW c \in Nat, a <= b + 1, b <= c
  PROVE  /\ Count(p, kinds, a, b) \in Nat /\ Count(p, kinds, b + 1, c) \in Nat
         /\ Count(p, kinds, a, c) = Count(p, kinds, a, b) + Count(p, kinds, b + 1, c)
<1> DEFINE Of(x, y) == {k \in x..y : p[k] \in kinds}
<1>1. \A x, y \in Int : IsFiniteSet(Of(x, y))
  <2> SUFFICES ASSUME NEW x \in Int, NEW y \in Int PROVE IsFiniteSet(Of(x, y))
    OBVIOUS
  <2>1. Of(x, y) \subseteq x..y
    OBVIOUS
  <2> QED BY <2>1, FS_Interval, FS_Subset
<1>2. Of(a, c) = Of(a, b) \cup Of(b + 1, c) /\ Of(a, b) \cap Of(b + 1, c) = {}
  OBVIOUS
<1>3. IsFiniteSet(Of(a, b)) /\ IsFiniteSet(Of(b + 1, c))
  BY <1>1
<1> HIDE DEF Of
<1>4. Cardinality(Of(a, b)) \in Nat /\ Cardinality(Of(b + 1, c)) \in Nat
  BY <1>3, FS_CardinalityType
<1>5. Cardinality(Of(a, b) \cap Of(b + 1, c)) = 0
  BY <1>2, FS_EmptySet
<1>6. Cardinality(Of(a, c)) = Cardinality(Of(a, b)) + Cardinality(Of(b + 1, c)) - 0
  BY <1>2, <1>3, <1>5, FS_Union
<1> QED BY <1>4, <1>6 DEF Count, Of

(* So depths add up, too.                                                  *)
LEMMA DepthAdds ==
  ASSUME NEW p, NEW a \in Nat, NEW b \in Int, NEW c \in Nat, a <= b + 1, b <= c
  PROVE  /\ Depth(p, a, b) \in Int /\ Depth(p, b + 1, c) \in Int
         /\ Depth(p, a, c) = Depth(p, a, b) + Depth(p, b + 1, c)
<1>1. /\ Count(p, Openers, a, b) \in Nat /\ Count(p, Openers, b + 1, c) \in Nat
      /\ Count(p, Openers, a, c) = Count(p, Openers, a, b) + Count(p, Openers, b + 1, c)
  BY CountAdds
<1>2. /\ Count(p, {"end"}, a, b) \in Nat /\ Count(p, {"end"}, b + 1, c) \in Nat
      /\ Count(p, {"end"}, a, c) = Count(p, {"end"}, a, b) + Count(p, {"end"}, b + 1, c)
  BY CountAdds
<1> QED BY <1>1, <1>2 DEF Depth

(* One line deepens the program by one, or raises it by one, or neither.   *)
LEMMA DepthOfLine ==
  ASSUME NEW p, NEW i \in Nat
  PROVE  Depth(p, i, i) = IF p[i] \in Openers THEN 1 ELSE IF p[i] = "end" THEN -1 ELSE 0
<1>1. \A kinds : Count(p, kinds, i, i) = IF p[i] \in kinds THEN 1 ELSE 0
  <2> SUFFICES ASSUME NEW kinds PROVE Count(p, kinds, i, i) = IF p[i] \in kinds THEN 1 ELSE 0
    OBVIOUS
  <2>1. {k \in i..i : p[k] \in kinds} = IF p[i] \in kinds THEN {i} ELSE {}
    OBVIOUS
  <2> QED BY <2>1, FS_EmptySet, FS_Singleton DEF Count
<1>2. "end" \notin Openers
  BY DEF Openers, Definitions
<1>3. Count(p, Openers, i, i) = IF p[i] \in Openers THEN 1 ELSE 0
  BY <1>1
<1>4. Count(p, {"end"}, i, i) = IF p[i] = "end" THEN 1 ELSE 0
  BY <1>1
<1> QED BY <1>2, <1>3, <1>4 DEF Depth

-----------------------------------------------------------------------------
(* Where what a line opens ends                                            *)

EndsAt(p, i, e) ==
  /\ i \in Nat /\ e \in Nat /\ i < e /\ i >= 1
  /\ p[e] = "end" /\ Depth(p, i, e) = 0
  /\ \A m \in i..e - 1 : Depth(p, i, m) >= 1

(* It ends at one line only.                                               *)
LEMMA EndIsUnique ==
  ASSUME NEW p, NEW i, NEW d, NEW e, EndsAt(p, i, d), EndsAt(p, i, e)
  PROVE  d = e
  BY DEF EndsAt

(* Where the lines from an opener on are not deep in it, it has ended.     *)
LEMMA EndExists ==
  ASSUME NEW p, NEW i \in Nat, NEW c \in Nat, 1 <= i, i <= c, p[i] \in Openers, Depth(p, i, c) <= 0
  PROVE  \E e \in i + 1..c : EndsAt(p, i, e)
<1> DEFINE Out == {m \in i..c : Depth(p, i, m) <= 0}
<1>1. Out \in SUBSET (1..c) /\ Out # {}
  OBVIOUS
<1>2. PICK e \in Out : \A m \in Out : e <= m
  <2> HIDE DEF Out
  <2> QED BY <1>1, LeastNumber
<1>3. e \in i..c /\ Depth(p, i, e) <= 0 /\ \A m \in i..e - 1 : ~(Depth(p, i, m) <= 0)
  BY <1>2
<1>4. \A m \in i..c : Depth(p, i, m) \in Int
  <2> SUFFICES ASSUME NEW m \in i..c PROVE Depth(p, i, m) \in Int
    OBVIOUS
  <2>1. m \in Nat /\ m \in Int /\ i <= m + 1 /\ m <= m
    OBVIOUS
  <2> QED BY <2>1, DepthAdds
<1>5. Depth(p, i, i) = 1
  BY DepthOfLine
<1>6. e # i
  BY <1>3, <1>5
<1>7. e - 1 \in i..e - 1 /\ e \in Nat /\ e - 1 \in i..c
  BY <1>3, <1>6
<1>8. Depth(p, i, e - 1) >= 1 /\ Depth(p, i, e - 1) \in Int
  BY <1>3, <1>4, <1>7
<1>9. Depth(p, i, e) = Depth(p, i, e - 1) + Depth(p, e, e)
  <2>1. PICK b \in Int : b = e - 1 /\ b + 1 = e /\ i <= b + 1 /\ b <= e
    BY <1>7
  <2>2. Depth(p, i, e) = Depth(p, i, b) + Depth(p, b + 1, e)
    BY <1>7, <2>1, DepthAdds
  <2> QED BY <2>1, <2>2
<1>10. Depth(p, e, e) = IF p[e] \in Openers THEN 1 ELSE IF p[e] = "end" THEN -1 ELSE 0
  BY <1>7, DepthOfLine
<1>11. p[e] = "end" /\ Depth(p, i, e) = 0
  BY <1>3, <1>8, <1>9, <1>10
<1>12. \A m \in i..e - 1 : Depth(p, i, m) >= 1
  <2> SUFFICES ASSUME NEW m \in i..e - 1 PROVE Depth(p, i, m) >= 1
    OBVIOUS
  <2>1. m \in i..c
    BY <1>3
  <2> QED BY <1>3, <1>4, <2>1
<1>13. EndsAt(p, i, e)
  BY <1>3, <1>6, <1>7, <1>11, <1>12 DEF EndsAt
<1> QED BY <1>3, <1>6, <1>7, <1>13

(* What is opened inside a block ends inside of it.                        *)
LEMMA InnerEndsFirst ==
  ASSUME NEW p, NEW d, NEW e, NEW i \in Nat, EndsAt(p, d, e), d < i, i < e, p[i] \in Openers
  PROVE  \E c \in i + 1..e - 1 : EndsAt(p, i, c)
<1>1. d \in Nat /\ e \in Nat /\ d >= 1 /\ i - 1 \in d..e - 1
  BY DEF EndsAt
<1>2. Depth(p, d, i - 1) >= 1 /\ Depth(p, d, e) = 0
  BY <1>1 DEF EndsAt
<1>3. /\ Depth(p, d, i - 1) \in Int /\ Depth(p, i, e) \in Int
      /\ Depth(p, d, e) = Depth(p, d, i - 1) + Depth(p, i, e)
  <2>1. i - 1 \in Int /\ d <= i - 1 + 1 /\ i - 1 <= e /\ i - 1 + 1 = i
    BY <1>1
  <2> QED BY <1>1, <2>1, DepthAdds
<1>4. Depth(p, i, e) < 0
  BY <1>2, <1>3
<1>5. PICK c \in i + 1..e : EndsAt(p, i, c)
  BY <1>1, <1>3, <1>4, EndExists
<1>6. Depth(p, i, c) = 0
  BY <1>5 DEF EndsAt
<1>7. c # e
  BY <1>4, <1>6
<1> QED BY <1>1, <1>5, <1>7

-----------------------------------------------------------------------------
(* find_end() finds it                                                     *)

(* Where find_end() finds a line, the block ends there.                    *)
LEMMA FindEndIs ==
  ASSUME lines \in Seq(Kinds), NEW i \in 1..Last, lines[i] \in Openers, NEW end \in 1..Last + 1,
         Closed(i, end)
  PROVE  FindEnd(i, end) \in i + 1..end - 1 /\ EndsAt(lines, i, FindEnd(i, end))
<1>1. Last \in Nat
  BY LenProperties DEF Last
<1>2. Ends(i, end) \in SUBSET (1..Last) /\ Ends(i, end) # {}
  BY <1>1 DEF Ends, Closed
<1>3. PICK e : e = FindEnd(i, end)
  OBVIOUS
<1>4. e \in Ends(i, end) /\ \A j \in Ends(i, end) : e <= j
  BY <1>1, <1>2, <1>3, MinIsLeast DEF FindEnd
<1>5. e \in i..end - 1 /\ lines[e] = "end" /\ Depth(lines, i, e) = 0
  BY <1>4, OpenedIsDepth DEF Ends
<1>6. PICK j \in i + 1..e : EndsAt(lines, i, j)
  BY <1>1, <1>5, EndExists
<1>7. j \in Ends(i, end)
  BY <1>5, <1>6, OpenedIsDepth DEF Ends, EndsAt
<1>8. j = e
  BY <1>4, <1>5, <1>6, <1>7
<1> QED BY <1>3, <1>5, <1>6, <1>8

(* Only an opener has an end.                                              *)
LEMMA OpensWhatEnds ==
  ASSUME NEW p, NEW i, NEW e, EndsAt(p, i, e)
  PROVE  p[i] \in Openers
<1>1. i \in Nat /\ i \in i..e - 1
  BY DEF EndsAt
<1>2. Depth(p, i, i) >= 1
  BY <1>1 DEF EndsAt
<1> QED BY <1>1, <1>2, DepthOfLine

(* Where a block ends, find_end() finds it, if it looks that far.          *)
LEMMA EndIsFound ==
  ASSUME lines \in Seq(Kinds), NEW i, NEW e, EndsAt(lines, i, e), NEW end \in 1..Last + 1, e < end
  PROVE  Closed(i, end) /\ FindEnd(i, end) = e
<1>1. Last \in Nat /\ i \in 1..Last /\ lines[i] \in Openers
  BY LenProperties, OpensWhatEnds DEF Last, EndsAt
<1>2. e \in Ends(i, end)
  BY <1>1, OpenedIsDepth DEF Ends, EndsAt
<1>3. Closed(i, end)
  BY <1>2 DEF Closed
<1> QED BY <1>1, <1>3, FindEndIs, EndIsUnique

(* find_branch(): an else inside the if, one level deep.                   *)
LEMMA ElseIs ==
  ASSUME lines \in Seq(Kinds), NEW i \in 1..Last, lines[i] = "if", NEW end \in 1..Last + 1,
         Closed(i, end), HasElse(i, end), NEW x, x = Max(Elses(i, end))
  PROVE  /\ x \in i + 1..FindEnd(i, end) - 1 /\ lines[x] = "else"
         /\ Depth(lines, i, x) = 1
<1>1. Last \in Nat /\ lines[i] \in Openers
  BY LenProperties DEF Last, Openers
<1>2. PICK e : e = FindEnd(i, end) /\ e \in i + 1..end - 1 /\ EndsAt(lines, i, e)
  BY <1>1, FindEndIs
<1>3. Elses(i, end) \in SUBSET (1..Last) /\ Elses(i, end) # {}
  BY <1>1, <1>2 DEF Elses, HasElse
<1>4. x \in Elses(i, end)
  BY <1>1, <1>3, MaxIsGreatest
<1>5. x \in i..e /\ lines[x] = "else" /\ Depth(lines, i, x) = 1
  BY <1>2, <1>4, OpenedIsDepth DEF Elses
<1>6. x # i /\ x # e
  BY <1>2, <1>5 DEF EndsAt
<1> QED BY <1>2, <1>5, <1>6

-----------------------------------------------------------------------------
(* Which definition a line is in                                           *)

Around(p, i) ==
  {d \in 1..Len(p) : p[d] \in Definitions /\ \E e \in 1..Len(p) : EndsAt(p, d, e) /\ d < i /\ i < e}

(* Line i is in definition s, or in none where s is 0.                     *)
Within(p, i, s) ==
  IF Around(p, i) = {} THEN s = 0 ELSE s \in Around(p, i) /\ \A d \in Around(p, i) : d <= s

(* Encloses, and Owner, in terms of ends.                                  *)
LEMMA EnclosesIs ==
  ASSUME lines \in Seq(Kinds), NEW d \in 1..Last, lines[d] \in Openers, NEW j \in Nat
  PROVE  Encloses(d, j) <=> \E e \in 1..Last : EndsAt(lines, d, e) /\ d < j /\ j < e
<1>1. Last \in Nat /\ Last + 1 \in 1..Last + 1
  BY LenProperties DEF Last
<1>2. ASSUME Encloses(d, j) PROVE \E e \in 1..Last : EndsAt(lines, d, e) /\ d < j /\ j < e
  <2>1. PICK e : e = FindEnd(d, Last + 1)
    OBVIOUS
  <2>2. e \in d + 1..Last + 1 - 1 /\ EndsAt(lines, d, e)
    BY <1>1, <1>2, <2>1, FindEndIs DEF Encloses
  <2>3. e \in 1..Last /\ d < j /\ j < e
    BY <1>1, <1>2, <2>1, <2>2 DEF Encloses
  <2> QED BY <2>2, <2>3
<1>3. ASSUME NEW e \in 1..Last, EndsAt(lines, d, e), d < j, j < e PROVE Encloses(d, j)
  <2>1. e < Last + 1
    BY <1>1
  <2>2. Closed(d, Last + 1) /\ FindEnd(d, Last + 1) = e
    BY <1>1, <1>3, <2>1, EndIsFound
  <2> QED BY <1>3, <2>2 DEF Encloses
<1> QED BY <1>2, <1>3

LEMMA OwnerIs ==
  ASSUME lines \in Seq(Kinds), NEW i \in Nat, NEW s, Within(lines, i, s)
  PROVE  Owner(i) = s
<1>1. Last \in Nat /\ Definitions \subseteq Openers /\ Last = Len(lines)
  BY LenProperties DEF Last, Openers
<1>2. {d \in Defs(Definitions) : Encloses(d, i)} = Around(lines, i)
  <2>1. \A d \in 1..Last : lines[d] \in Definitions =>
          (Encloses(d, i) <=> \E e \in 1..Last : EndsAt(lines, d, e) /\ d < i /\ i < e)
    BY <1>1, EnclosesIs
  <2> QED BY <1>1, <2>1 DEF Around, Defs
<1>3. CASE Around(lines, i) = {}
  BY <1>2, <1>3 DEF Owner, Within
<1>4. CASE Around(lines, i) # {}
  <2>1. Around(lines, i) \in SUBSET (1..Last)
    BY <1>1 DEF Around
  <2>2. PICK m : m = Max(Around(lines, i))
    OBVIOUS
  <2>3. m \in Around(lines, i) /\ \A d \in Around(lines, i) : d <= m
    BY <1>1, <1>4, <2>1, <2>2, MaxIsGreatest
  <2>4. s \in Around(lines, i) /\ \A d \in Around(lines, i) : d <= s
    BY <1>4 DEF Within
  <2>5. m = s
    BY <2>1, <2>3, <2>4
  <2> QED BY <1>2, <1>4, <2>2, <2>5 DEF Owner
<1> QED BY <1>3, <1>4

(* A block of s lies before the end of s.                                  *)
Bounded(p, s, end) == s = 0 \/ \E e : EndsAt(p, s, e) /\ end <= e

(* From i to j no definition is entered and not left, and none is left     *)
(* that was entered before.                                                *)
LEMMA SameScope ==
  ASSUME NEW p \in Seq(Kinds), NEW i \in Nat, NEW j \in Nat, i < j, NEW s, Within(p, i, s),
         NEW end \in Nat, j < end, Bounded(p, s, end),
         \A d \in i..j - 1, e \in Nat : p[d] \in Definitions /\ EndsAt(p, d, e) => e <= j,
         \A d \in 1..i - 1, e \in Nat : EndsAt(p, d, e) /\ i < e => j <= e
  PROVE  Within(p, j, s)
<1>1. Len(p) \in Nat
  BY LenProperties
<1>2. ASSUME NEW d \in Around(p, j) PROVE d \in Around(p, i)
  <2>1. PICK e \in 1..Len(p) : EndsAt(p, d, e) /\ d < j /\ j < e
    BY DEF Around
  <2>2. d \in 1..Len(p) /\ p[d] \in Definitions
    BY DEF Around
  <2>3. e \in Nat /\ ~(e <= j)
    BY <1>1, <2>1
  <2>4. d \notin i..j - 1
    BY <2>1, <2>2, <2>3
  <2>5. d < i /\ i < e
    BY <1>1, <2>1, <2>2, <2>4
  <2> QED BY <2>1, <2>2, <2>5 DEF Around
<1>3. ASSUME NEW d \in Around(p, i) PROVE d \in Around(p, j)
  <2>1. PICK e \in 1..Len(p) : EndsAt(p, d, e) /\ d < i /\ i < e
    BY DEF Around
  <2>2. d \in 1..Len(p) /\ p[d] \in Definitions
    BY DEF Around
  <2>3. s \in Around(p, i) /\ d <= s
    BY DEF Within
  <2>4. PICK u \in 1..Len(p) : EndsAt(p, s, u) /\ s < i /\ i < u
    BY <2>3 DEF Around
  <2>5. s \in 1..Len(p) /\ p[s] \in Definitions
    BY <2>3 DEF Around
  <2>6. j < u
    <3>1. s # 0
      BY <1>1, <2>5
    <3>2. PICK w : EndsAt(p, s, w) /\ end <= w
      BY <3>1 DEF Bounded
    <3>3. w = u
      BY <2>4, <3>2, EndIsUnique
    <3> QED BY <1>1, <3>2, <3>3
  <2>7. j < e
    <3>1. CASE d = s
      BY <2>1, <2>4, <2>6, <3>1, EndIsUnique
    <3>2. CASE d # s
      <4>1. d < s /\ s < e /\ s \in Nat /\ p[s] \in Openers
        BY <1>1, <2>1, <2>2, <2>3, <2>4, <2>5, <3>2 DEF Openers
      <4>2. PICK c \in s + 1..e - 1 : EndsAt(p, s, c)
        BY <2>1, <4>1, InnerEndsFirst
      <4>3. c = u
        BY <2>4, <4>2, EndIsUnique
      <4> QED BY <1>1, <2>6, <4>1, <4>2, <4>3
    <3> QED BY <3>1, <3>2
  <2>8. d < j
    BY <1>1, <2>1, <2>2
  <2> QED BY <2>1, <2>2, <2>7, <2>8 DEF Around
<1>4. Around(p, j) = Around(p, i)
  BY <1>2, <1>3
<1> QED BY <1>4 DEF Within

(* The next line, which may be the first one of a block.                   *)
LEMMA NextLine ==
  ASSUME NEW p \in Seq(Kinds), NEW i \in Nat, p[i] \notin Definitions, NEW s, Within(p, i, s),
         NEW end \in Nat, i + 1 < end, Bounded(p, s, end)
  PROVE  Within(p, i + 1, s)
<1>1. \A d \in i..i + 1 - 1, e \in Nat : p[d] \in Definitions /\ EndsAt(p, d, e) => e <= i + 1
  OBVIOUS
<1>2. \A d \in 1..i - 1, e \in Nat : EndsAt(p, d, e) /\ i < e => i + 1 <= e
  OBVIOUS
<1> QED BY <1>1, <1>2, SameScope

(* The line after a block.                                                 *)
LEMMA AfterBlock ==
  ASSUME NEW p \in Seq(Kinds), NEW i, NEW c, EndsAt(p, i, c), NEW s, Within(p, i, s),
         NEW end \in Nat, c + 1 < end, Bounded(p, s, end)
  PROVE  Within(p, c + 1, s)
<1>1. i \in Nat /\ c \in Nat /\ i < c /\ i >= 1 /\ p[c] = "end" /\ p[i] \in Openers
  BY OpensWhatEnds DEF EndsAt
<1>2. ASSUME NEW d \in i..c + 1 - 1, NEW e \in Nat, p[d] \in Definitions, EndsAt(p, d, e)
      PROVE  e <= c + 1
  <2>1. d \in i..c /\ d # c /\ p[d] \in Openers
    BY <1>1, <1>2 DEF Definitions, Openers
  <2>2. CASE d = i
    BY <1>1, <1>2, <2>2, EndIsUnique
  <2>3. CASE d # i
    <3>1. d \in Nat /\ i < d /\ d < c
      BY <1>1, <2>1, <2>3
    <3>2. PICK b \in d + 1..c - 1 : EndsAt(p, d, b)
      BY <2>1, <3>1, InnerEndsFirst
    <3>3. b = e
      BY <1>2, <3>2, EndIsUnique
    <3> QED BY <1>1, <3>1, <3>2, <3>3
  <2> QED BY <2>2, <2>3
<1>3. ASSUME NEW d \in 1..i - 1, NEW e \in Nat, EndsAt(p, d, e), i < e
      PROVE  c + 1 <= e
  <2>1. d < i /\ i < e
    BY <1>1, <1>3
  <2>2. PICK b \in i + 1..e - 1 : EndsAt(p, i, b)
    BY <1>1, <1>3, <2>1, InnerEndsFirst
  <2>3. b = c
    BY <2>2, EndIsUnique
  <2> QED BY <1>1, <2>2, <2>3
<1>4. PICK j \in Nat : j = c + 1 /\ i < j /\ j < end
  BY <1>1
<1> QED BY <1>1, <1>2, <1>3, <1>4, SameScope

(* The first line of an else branch.                                       *)
LEMMA IntoElse ==
  ASSUME NEW p \in Seq(Kinds), NEW i, NEW c, EndsAt(p, i, c), p[i] = "if", NEW s, Within(p, i, s),
         NEW x \in i + 1..c - 1, p[x] = "else", Depth(p, i, x) = 1,
         NEW end \in Nat, x + 1 < end, Bounded(p, s, end)
  PROVE  Within(p, x + 1, s)
<1>1. i \in Nat /\ c \in Nat /\ i < c /\ i >= 1 /\ p[i] \in Openers
  BY OpensWhatEnds DEF EndsAt
<1>2. ASSUME NEW d \in i..x + 1 - 1, NEW e \in Nat, p[d] \in Definitions, EndsAt(p, d, e), ~(e <= x + 1)
      PROVE  FALSE
  <2>1. d \in i + 1..x - 1 /\ d \in Nat /\ x \in Nat
    BY <1>1, <1>2 DEF Definitions
  <2>2. Depth(p, d, x) >= 1
    BY <1>2, <2>1 DEF EndsAt
  <2>3. Depth(p, i, d - 1) >= 1
    <3>1. d - 1 \in i..c - 1
      BY <1>1, <2>1
    <3> QED BY <3>1 DEF EndsAt
  <2>4. PICK b \in Int : b = d - 1 /\ b + 1 = d /\ i <= b + 1 /\ b <= x
    BY <1>1, <2>1
  <2>5. /\ Depth(p, i, b) \in Int /\ Depth(p, b + 1, x) \in Int
        /\ Depth(p, i, x) = Depth(p, i, b) + Depth(p, b + 1, x)
    <3>1. i <= b + 1 /\ b <= x
      BY <2>4
    <3> QED BY <1>1, <2>1, <3>1, DepthAdds
  <2> QED BY <2>2, <2>3, <2>4, <2>5
<1>3. ASSUME NEW d \in 1..i - 1, NEW e \in Nat, EndsAt(p, d, e), i < e
      PROVE  x + 1 <= e
  <2>1. d < i /\ i < e
    BY <1>1, <1>3
  <2>2. PICK b \in i + 1..e - 1 : EndsAt(p, i, b)
    BY <1>1, <1>3, <2>1, InnerEndsFirst
  <2>3. b = c
    BY <2>2, EndIsUnique
  <2> QED BY <1>1, <2>2, <2>3
<1>4. PICK j \in Nat : j = x + 1 /\ i < j /\ j < end
  BY <1>1
<1> QED BY <1>1, <1>2, <1>3, <1>4, SameScope

(* The first line of a function.                                           *)
LEMMA IntoFunction ==
  ASSUME NEW p \in Seq(Kinds), NEW f \in 1..Len(p), p[f] \in Definitions, NEW e \in 1..Len(p),
         EndsAt(p, f, e), f + 1 < e
  PROVE  Within(p, f + 1, f)
<1>1. Len(p) \in Nat
  BY LenProperties
<1>2. f < f + 1
  BY <1>1
<1>3. f \in Around(p, f + 1)
  BY <1>2 DEF Around
<1>4. \A d \in Around(p, f + 1) : d <= f
  BY <1>1 DEF Around
<1> QED BY <1>3, <1>4 DEF Within

-----------------------------------------------------------------------------
(* Activations and the stack of them                                       *)

Frame ==
  [at : Nat, end : Nat, call : Nat, loop : Nat, left : 0..MaxItems, asking : BOOLEAN]

(* An activation f in the body of function s, or of the program for 0.     *)
FrameOk(p, f, s) ==
  /\ f \in Frame /\ f.end <= Len(p) + 1 /\ f.at \in 1..f.end
  /\ Bounded(p, s, f.end)
  /\ f.at < f.end => Within(p, f.at, s)
  /\ f.loop # 0 => /\ f.loop = f.at /\ p[f.at] \in {"while", "for"}
                   /\ \E e : EndsAt(p, f.at, e) /\ e < f.end

(* Activation g may be on top of f.                                        *)
Follows(p, f, g) ==
  /\ g.end <= Len(p)
  /\ g.call = 0 => g.end < f.end
  /\ f.loop # 0 /\ g.call = 0 => f.loop < g.at /\ EndsAt(p, f.loop, g.end)

(* The function that runs in activation k of a stack.                      *)
RunningIn(t, k) ==
  LET called == {j \in 1..k : t[j].call # 0} IN
    IF called = {} THEN 0 ELSE t[Max(called)].call

StackOk(p, t) ==
  /\ t \in Seq(Frame) /\ Len(t) \in 1..MaxDepth /\ t[1].call = 0
  /\ \A k \in 1..Len(t) : FrameOk(p, t[k], RunningIn(t, k))
  /\ \A k \in 2..Len(t) : Follows(p, t[k - 1], t[k])

(* A stack whose activation k is f, with nothing on it.                    *)
MovedTo(t, k, f) == SubSeq(t, 1, k - 1) \o <<f>>

(* Which function runs depends on the calls below.                         *)
LEMMA RunningSame ==
  ASSUME NEW t, NEW u, NEW k \in Nat, \A j \in 1..k : u[j].call = t[j].call
  PROVE  RunningIn(u, k) = RunningIn(t, k)
<1>1. PICK called : called = {j \in 1..k : t[j].call # 0}
  OBVIOUS
<1>2. called = {j \in 1..k : u[j].call # 0}
  BY <1>1
<1>3. CASE called = {}
  BY <1>1, <1>2, <1>3 DEF RunningIn
<1>4. CASE called # {}
  <2>1. Max(called) \in 1..k
    BY <1>1, <1>4, MaxIsGreatest
  <2> QED BY <1>1, <1>2, <1>4, <2>1 DEF RunningIn
<1> QED BY <1>3, <1>4

LEMMA RunningOfCall ==
  ASSUME NEW t, NEW k \in Nat, k >= 1, t[k].call # 0
  PROVE  RunningIn(t, k) = t[k].call
<1>1. PICK called : called = {j \in 1..k : t[j].call # 0}
  OBVIOUS
<1>2. k \in called /\ called \in SUBSET (1..k)
  BY <1>1
<1>3. PICK m \in 1..k : m = Max(called) /\ \A j \in called : j <= m
  BY <1>2, MaxIsGreatest
<1>4. Max(called) = k
  BY <1>2, <1>3
<1> QED BY <1>1, <1>2, <1>4 DEF RunningIn

LEMMA RunningOfBlock ==
  ASSUME NEW t, NEW k \in Nat, k >= 1, t[k].call = 0
  PROVE  RunningIn(t, k) = RunningIn(t, k - 1)
<1>1. {j \in 1..k : t[j].call # 0} = {j \in 1..k - 1 : t[j].call # 0}
  OBVIOUS
<1> QED BY <1>1 DEF RunningIn

(* Leaving activations leaves a stack.                                     *)
LEMMA CutIsOk ==
  ASSUME NEW p, NEW t, StackOk(p, t), NEW k \in 1..Len(t), NEW u, u = SubSeq(t, 1, k)
  PROVE  StackOk(p, u) /\ Len(u) = k /\ \A j \in 1..k : u[j] = t[j]
<1>1. t \in Seq(Frame) /\ Len(t) \in 1..MaxDepth /\ Len(t) \in Nat /\ MaxDepth \in Nat
  BY LenProperties, JasLangAssumption DEF StackOk
<1>2. \A j \in 1..k : t[j] \in Frame
  <2>1. \A j \in 1..k : j \in 1..Len(t)
    BY <1>1
  <2> QED BY <1>1, <2>1, ElementOfSeq
<1>3. u \in Seq(Frame) /\ Len(u) = k /\ \A j \in 1..k : u[j] = t[j]
  <2>1. 1 \in Int /\ k \in Int /\ k - 1 + 1 = k /\ 1 <= k
    BY <1>1
  <2>2. u \in Seq(Frame)
    BY <1>2, <2>1, SubSeqProperties
  <2>3. Len(u) = IF 1 <= k THEN k - 1 + 1 ELSE 0
    BY <1>2, <2>1, SubSeqProperties
  <2>4. \A j \in 1..k - 1 + 1 : u[j] = t[1 + j - 1]
    BY <1>2, <2>1, SubSeqProperties
  <2>5. \A j \in 1..k : 1 + j - 1 = j
    BY <1>1
  <2> QED BY <2>1, <2>2, <2>3, <2>4, <2>5
<1>4. \A j \in 1..k : RunningIn(u, j) = RunningIn(t, j)
  <2> SUFFICES ASSUME NEW j \in 1..k PROVE RunningIn(u, j) = RunningIn(t, j)
    OBVIOUS
  <2>1. j \in Nat /\ \A i \in 1..j : u[i].call = t[i].call
    BY <1>1, <1>3
  <2> QED BY <2>1, RunningSame
<1>5. \A j \in 1..k : FrameOk(p, u[j], RunningIn(u, j))
  <2> SUFFICES ASSUME NEW j \in 1..k PROVE FrameOk(p, u[j], RunningIn(u, j))
    OBVIOUS
  <2>1. j \in 1..Len(t)
    BY <1>1
  <2>2. FrameOk(p, t[j], RunningIn(t, j))
    BY <2>1 DEF StackOk
  <2> QED BY <1>3, <1>4, <2>2
<1>6. \A j \in 2..k : Follows(p, u[j - 1], u[j])
  <2> SUFFICES ASSUME NEW j \in 2..k PROVE Follows(p, u[j - 1], u[j])
    OBVIOUS
  <2>1. j \in 2..Len(t) /\ j \in 1..k /\ j - 1 \in 1..k
    BY <1>1
  <2>2. Follows(p, t[j - 1], t[j])
    BY <2>1 DEF StackOk
  <2> QED BY <1>3, <2>1, <2>2
<1>7. k \in 1..MaxDepth /\ u[1].call = 0
  <2>1. t[1].call = 0 /\ 1 \in 1..k
    BY <1>1 DEF StackOk
  <2> QED BY <1>1, <1>3, <2>1
<1> QED BY <1>3, <1>5, <1>6, <1>7 DEF StackOk

(* A block or a function may be entered from the innermost activation.     *)
LEMMA PushIsOk ==
  ASSUME NEW p, NEW t, StackOk(p, t), Len(t) < MaxDepth, NEW g,
         FrameOk(p, g, IF g.call = 0 THEN RunningIn(t, Len(t)) ELSE g.call),
         Follows(p, t[Len(t)], g), NEW u, u = t \o <<g>>
  PROVE  StackOk(p, u)
<1>1. t \in Seq(Frame) /\ Len(t) \in 1..MaxDepth /\ Len(t) \in Nat /\ MaxDepth \in Nat
  BY LenProperties, JasLangAssumption DEF StackOk
<1>2. PICK n \in Nat : n = Len(t) /\ n >= 1 /\ n + 1 \in 1..MaxDepth
  BY <1>1
<1>3. g \in Frame
  BY DEF FrameOk
<1>4. u \in Seq(Frame) /\ Len(u) = n + 1 /\ u[n + 1] = g /\ \A j \in 1..n : u[j] = t[j]
  <2>1. u = Append(t, g)
    BY <1>1, <1>3, AppendIsConcat
  <2>2. Append(t, g) \in Seq(Frame) /\ Len(Append(t, g)) = Len(t) + 1
    BY <1>1, <1>3, AppendProperties
  <2>3. Append(t, g)[Len(t) + 1] = g
    BY <1>1, <1>3, AppendProperties
  <2>4. \A j \in 1..Len(t) : Append(t, g)[j] = t[j]
    BY <1>1, <1>3, AppendProperties
  <2> QED BY <1>2, <2>1, <2>2, <2>3, <2>4
<1>5. \A j \in 1..n : RunningIn(u, j) = RunningIn(t, j)
  <2> SUFFICES ASSUME NEW j \in 1..n PROVE RunningIn(u, j) = RunningIn(t, j)
    OBVIOUS
  <2>1. j \in Nat /\ \A i \in 1..j : u[i].call = t[i].call
    BY <1>2, <1>4
  <2> QED BY <2>1, RunningSame
<1>6. RunningIn(u, n + 1) = IF g.call = 0 THEN RunningIn(t, n) ELSE g.call
  <2>1. n + 1 \in Nat /\ n + 1 >= 1 /\ n + 1 - 1 = n /\ n \in 1..n
    BY <1>2
  <2>2. CASE g.call = 0
    <3>1. PICK m \in Nat : m = n + 1 /\ m >= 1 /\ m - 1 = n
      BY <2>1
    <3>2. RunningIn(u, m) = RunningIn(u, m - 1)
      BY <1>4, <2>2, <3>1, RunningOfBlock
    <3>3. RunningIn(u, n) = RunningIn(t, n)
      BY <1>5, <2>1
    <3> QED BY <2>2, <3>1, <3>2, <3>3
  <2>3. CASE g.call # 0
    BY <1>4, <2>1, <2>3, RunningOfCall
  <2> QED BY <2>2, <2>3
<1>7. \A j \in 1..n + 1 : FrameOk(p, u[j], RunningIn(u, j))
  <2> SUFFICES ASSUME NEW j \in 1..n + 1 PROVE FrameOk(p, u[j], RunningIn(u, j))
    OBVIOUS
  <2>1. CASE j = n + 1
    BY <1>2, <1>4, <1>6, <2>1
  <2>2. CASE j \in 1..n
    <3>1. FrameOk(p, t[j], RunningIn(t, j))
      BY <1>2, <2>2 DEF StackOk
    <3> QED BY <1>4, <1>5, <2>2, <3>1
  <2> QED BY <1>2, <2>1, <2>2
<1>8. \A j \in 2..n + 1 : Follows(p, u[j - 1], u[j])
  <2> SUFFICES ASSUME NEW j \in 2..n + 1 PROVE Follows(p, u[j - 1], u[j])
    OBVIOUS
  <2>1. CASE j = n + 1
    <3>1. j - 1 = n /\ n \in 1..n
      BY <1>2, <2>1
    <3> QED BY <1>2, <1>4, <2>1, <3>1
  <2>2. CASE j \in 2..n
    <3>1. j \in 1..n /\ j - 1 \in 1..n
      BY <1>2, <2>2
    <3>2. Follows(p, t[j - 1], t[j])
      BY <1>2, <2>2 DEF StackOk
    <3> QED BY <1>4, <3>1, <3>2
  <2> QED BY <1>2, <2>1, <2>2
<1>9. u[1].call = 0
  <2>1. t[1].call = 0 /\ 1 \in 1..n
    BY <1>2 DEF StackOk
  <2> QED BY <1>4, <2>1
<1> QED BY <1>2, <1>4, <1>7, <1>8, <1>9 DEF StackOk

(* An activation moves on within its block, and what is on it is left.     *)
LEMMA MoveIsOk ==
  ASSUME NEW p, NEW t, StackOk(p, t), NEW k \in 1..Len(t), NEW f,
         FrameOk(p, f, RunningIn(t, k)), f.call = t[k].call, f.end = t[k].end, t[k].at <= f.at,
         NEW u, u = MovedTo(t, k, f)
  PROVE  /\ StackOk(p, u) /\ Len(u) = k /\ u[k] = f /\ RunningIn(u, k) = RunningIn(t, k)
<1>1. t \in Seq(Frame) /\ Len(t) \in 1..MaxDepth /\ Len(t) \in Nat /\ MaxDepth \in Nat /\ k \in Nat
  BY LenProperties, JasLangAssumption DEF StackOk
<1>2. f \in Frame /\ t[k] \in Frame /\ t[k].at \in Nat /\ f.at \in Nat
  <2>1. f \in Frame /\ t[k] \in Frame
    BY <1>1, ElementOfSeq DEF FrameOk
  <2> QED BY <2>1 DEF Frame
<1>3. u \in Seq(Frame) /\ Len(u) = k /\ u[k] = f /\ \A j \in 1..k - 1 : u[j] = t[j]
  <2>1. PICK m \in Nat : m = k - 1 /\ m + 1 = k /\ m <= Len(t)
    BY <1>1
  <2>2. PICK v : v = SubSeq(t, 1, m)
    OBVIOUS
  <2>3. \A j \in 1..m : t[j] \in Frame
    <3>1. \A j \in 1..m : j \in 1..Len(t)
      BY <1>1, <2>1
    <3> QED BY <1>1, <3>1, ElementOfSeq
  <2>4. v \in Seq(Frame) /\ Len(v) = m /\ \A j \in 1..m : v[j] = t[j]
    <3>1. 1 \in Int /\ m \in Int
      OBVIOUS
    <3>2. v \in Seq(Frame)
      BY <2>2, <2>3, <3>1, SubSeqProperties
    <3>3. Len(v) = IF 1 <= m THEN m - 1 + 1 ELSE 0
      BY <2>2, <2>3, <3>1, SubSeqProperties
    <3>4. \A j \in 1..m - 1 + 1 : v[j] = t[1 + j - 1]
      BY <2>2, <2>3, <3>1, SubSeqProperties
    <3>5. \A j \in 1..m : 1 + j - 1 = j /\ j \in 1..m - 1 + 1
      OBVIOUS
    <3> QED BY <3>2, <3>3, <3>4, <3>5
  <2>5. u = Append(v, f)
    BY <1>2, <2>1, <2>2, <2>4, AppendIsConcat DEF MovedTo
  <2>6. Append(v, f) \in Seq(Frame) /\ Len(Append(v, f)) = Len(v) + 1
    BY <1>2, <2>4, AppendProperties
  <2>7. Append(v, f)[Len(v) + 1] = f
    BY <1>2, <2>4, AppendProperties
  <2>8. \A j \in 1..Len(v) : Append(v, f)[j] = v[j]
    BY <1>2, <2>4, AppendProperties
  <2> QED BY <2>1, <2>4, <2>5, <2>6, <2>7, <2>8
<1>4. \A j \in 1..k : RunningIn(u, j) = RunningIn(t, j)
  <2> SUFFICES ASSUME NEW j \in 1..k PROVE RunningIn(u, j) = RunningIn(t, j)
    OBVIOUS
  <2>1. \A i \in 1..k : u[i].call = t[i].call
    <3> SUFFICES ASSUME NEW i \in 1..k PROVE u[i].call = t[i].call
      OBVIOUS
    <3>1. i = k \/ i \in 1..k - 1
      BY <1>1
    <3> QED BY <1>3, <3>1
  <2>2. j \in Nat /\ \A i \in 1..j : u[i].call = t[i].call
    BY <1>1, <2>1
  <2> QED BY <2>2, RunningSame
<1>5. \A j \in 1..k : FrameOk(p, u[j], RunningIn(u, j))
  <2> SUFFICES ASSUME NEW j \in 1..k PROVE FrameOk(p, u[j], RunningIn(u, j))
    OBVIOUS
  <2>1. CASE j = k
    BY <1>3, <1>4, <2>1
  <2>2. CASE j \in 1..k - 1
    <3>1. j \in 1..Len(t)
      BY <1>1, <2>2
    <3>2. FrameOk(p, t[j], RunningIn(t, j))
      BY <3>1 DEF StackOk
    <3> QED BY <1>3, <1>4, <2>2, <3>2
  <2> QED BY <1>1, <2>1, <2>2
<1>6. \A j \in 2..k : Follows(p, u[j - 1], u[j])
  <2> SUFFICES ASSUME NEW j \in 2..k PROVE Follows(p, u[j - 1], u[j])
    OBVIOUS
  <2>1. j \in 2..Len(t) /\ j - 1 \in 1..k - 1
    BY <1>1
  <2>2. Follows(p, t[j - 1], t[j])
    BY <2>1 DEF StackOk
  <2>3. CASE j = k
    <3>1. u[j - 1] = t[j - 1] /\ u[j] = f
      BY <1>3, <2>1, <2>3
    <3>2. t[j - 1].loop \in Nat
      <4>1. j - 1 \in 1..Len(t)
        BY <1>1
      <4>2. t[j - 1] \in Frame
        BY <1>1, <4>1, ElementOfSeq
      <4> QED BY <4>2 DEF Frame
    <3> QED BY <1>2, <2>2, <2>3, <3>1, <3>2 DEF Follows
  <2>4. CASE j \in 1..k - 1
    BY <1>3, <2>1, <2>2, <2>4
  <2> QED BY <1>1, <2>3, <2>4
<1>7. k \in 1..MaxDepth /\ u[1].call = 0
  <2>1. t[1].call = 0 /\ (k = 1 \/ 1 \in 1..k - 1)
    BY <1>1 DEF StackOk
  <2> QED BY <1>1, <1>3, <2>1
<1>8. RunningIn(u, k) = RunningIn(t, k)
  BY <1>1, <1>4
<1> QED BY <1>3, <1>5, <1>6, <1>7, <1>8 DEF StackOk

-----------------------------------------------------------------------------
(* How an activation moves                                                 *)

(* An activation goes on at a line of its block.                           *)
LEMMA LineReached ==
  ASSUME NEW p, NEW f, NEW s, FrameOk(p, f, s), f.loop = 0, NEW j \in f.at..f.end,
         j < f.end => Within(p, j, s), NEW g, g = [f EXCEPT !.at = j]
  PROVE  /\ FrameOk(p, g, s) /\ g.call = f.call /\ g.end = f.end /\ f.at <= g.at
         /\ g.loop = 0 /\ g.at = j
<1>1. f \in Frame /\ f.at \in Nat /\ f.end \in Nat /\ f.at >= 1
  BY DEF FrameOk, Frame
<1>2. /\ g \in Frame /\ g.call = f.call /\ g.end = f.end /\ g.loop = 0 /\ g.at = j
      /\ f.at <= g.at /\ g.at \in 1..g.end
  BY <1>1 DEF Frame
<1> QED BY <1>2 DEF FrameOk

(* The activation f in the loop that it stands at, and out of it.          *)
InLoop(f, items) == [f EXCEPT !.loop = f.at, !.left = items]

(* It comes to a loop.                                                     *)
LEMMA LoopEntered ==
  ASSUME NEW p, NEW f, NEW s, FrameOk(p, f, s), f.loop = 0, f.at < f.end,
         p[f.at] \in {"while", "for"}, NEW e, EndsAt(p, f.at, e), e < f.end,
         NEW items \in 0..MaxItems, NEW g, g = InLoop(f, items)
  PROVE  FrameOk(p, g, s) /\ g.call = f.call /\ g.end = f.end /\ f.at <= g.at
<1>1. f \in Frame /\ f.at \in Nat
  BY DEF FrameOk, Frame
<1>2. g \in Frame /\ g.call = f.call /\ g.end = f.end /\ g.at = f.at /\ g.loop = f.at
  BY <1>1 DEF Frame, InLoop
<1>3. f.at <= g.at
  BY <1>1, <1>2
<1>4. \E c : EndsAt(p, g.at, c) /\ c < g.end
  BY <1>2
<1> QED BY <1>2, <1>3, <1>4 DEF FrameOk

OutOfLoop(f, e) == [f EXCEPT !.at = e + 1, !.loop = 0, !.left = 0, !.asking = FALSE]

(* It leaves the loop, by itself or by a break.                            *)
LEMMA LoopLeft ==
  ASSUME NEW p \in Seq(Kinds), NEW f, NEW s, FrameOk(p, f, s), f.loop # 0,
         NEW e, EndsAt(p, f.loop, e), e < f.end,
         NEW g, g = OutOfLoop(f, e)
  PROVE  FrameOk(p, g, s) /\ g.call = f.call /\ g.end = f.end /\ f.at <= g.at
<1>1. /\ f \in Frame /\ f.at \in Nat /\ f.end \in Nat /\ f.at >= 1 /\ f.loop = f.at
      /\ f.end <= Len(p) + 1 /\ Bounded(p, s, f.end)
  BY DEF FrameOk, Frame
<1>2. e \in Nat /\ f.at < e
  BY <1>1 DEF EndsAt
<1>3. Within(p, f.at, s)
  BY <1>1, <1>2 DEF FrameOk
<1>4. e + 1 < f.end => Within(p, e + 1, s)
  BY <1>1, <1>3, AfterBlock
<1>5. 0 \in 0..MaxItems
  BY JasLangAssumption
<1>6. g \in Frame /\ g.call = f.call /\ g.end = f.end /\ g.at = e + 1 /\ g.loop = 0
  <2>1. PICK j \in Nat : j = e + 1
    BY <1>2
  <2>2. g = [f EXCEPT !.at = j, !.loop = 0, !.left = 0, !.asking = FALSE]
    BY <2>1 DEF OutOfLoop
  <2>3. g = [at |-> j, end |-> f.end, call |-> f.call, loop |-> 0, left |-> 0, asking |-> FALSE]
    BY <1>1, <2>2 DEF Frame
  <2>4. f.end \in Nat /\ f.call \in Nat
    BY <1>1 DEF Frame
  <2> QED BY <1>5, <2>1, <2>3, <2>4 DEF Frame
<1>7. f.at <= g.at /\ g.at \in 1..g.end
  BY <1>1, <1>2, <1>6
<1> QED BY <1>1, <1>4, <1>6, <1>7 DEF FrameOk

(* A block that is entered from f, between the lines i and c that open and *)
(* close what it belongs to.                                               *)
LEMMA BlockIsOk ==
  ASSUME NEW p \in Seq(Kinds), NEW f, NEW s, FrameOk(p, f, s), NEW i, NEW c, EndsAt(p, i, c),
         c < f.end, NEW first \in Nat, NEW last \in Nat, i < first, first <= last, last <= c,
         first < last => Within(p, first, s), NEW g, g = Block(first, last, 0)
  PROVE  /\ FrameOk(p, g, s) /\ g.call = 0 /\ g.at = first /\ g.end = last
         /\ g.end <= Len(p) /\ g.end < f.end
<1>1. f.end \in Nat /\ f.end <= Len(p) + 1 /\ Bounded(p, s, f.end) /\ Len(p) \in Nat
  BY LenProperties DEF FrameOk, Frame
<1>2. i \in Nat /\ i >= 1 /\ c \in Nat
  BY DEF EndsAt
<1>3. 0 \in 0..MaxItems
  BY JasLangAssumption
<1>4. g \in Frame /\ g.call = 0 /\ g.at = first /\ g.end = last /\ g.loop = 0
  BY <1>3 DEF Block, Frame
<1>5. g.end <= Len(p) /\ g.end < f.end /\ g.at \in 1..g.end
  BY <1>1, <1>2, <1>4
<1>6. Bounded(p, s, g.end)
  <2>1. CASE s = 0
    BY <2>1 DEF Bounded
  <2>2. CASE s # 0
    <3>1. PICK e : EndsAt(p, s, e) /\ f.end <= e
      BY <1>1, <2>2 DEF Bounded
    <3>2. e \in Nat
      BY <3>1 DEF EndsAt
    <3>3. g.end <= e
      BY <1>1, <1>4, <1>5, <3>1, <3>2
    <3> QED BY <3>1, <3>3 DEF Bounded
  <2> QED BY <2>1, <2>2
<1> QED BY <1>1, <1>4, <1>5, <1>6 DEF FrameOk

(* The activation of a function that is called.                            *)
LEMMA FunctionIsOk ==
  ASSUME NEW p \in Seq(Kinds), NEW d \in 1..Len(p), p[d] \in Definitions,
         NEW e \in 1..Len(p), EndsAt(p, d, e), NEW g, g = Block(d + 1, e, d)
  PROVE  FrameOk(p, g, d) /\ g.call = d /\ g.call # 0 /\ g.end <= Len(p)
<1>1. Len(p) \in Nat /\ d < e
  BY LenProperties DEF EndsAt
<1>2. 0 \in 0..MaxItems
  BY JasLangAssumption
<1>3. g \in Frame /\ g.call = d /\ g.at = d + 1 /\ g.end = e /\ g.loop = 0
  BY <1>1, <1>2 DEF Block, Frame
<1>4. g.at < g.end => Within(p, g.at, d)
  BY <1>3, IntoFunction
<1>5. Bounded(p, d, g.end)
  <2>1. g.end <= e
    BY <1>1, <1>3
  <2> QED BY <2>1 DEF Bounded
<1>6. d # 0 /\ g.end <= Len(p) /\ g.end <= Len(p) + 1 /\ g.at \in 1..g.end
  BY <1>1, <1>3
<1> QED BY <1>3, <1>4, <1>5, <1>6 DEF FrameOk

-----------------------------------------------------------------------------
(* The inductive invariant                                                 *)

ProgramInv == lines \in Programs /\ (state = "running" => ~Unclosed)

StackInv == StackOk(lines, stack)

StepsInv ==
  steps \in 0..MaxSteps + 1 /\ (steps > MaxSteps => state = "Execution step limit exceeded")

JasInv == ProgramInv /\ StackInv /\ StepsInv

(* The function that the innermost activation runs.                        *)
Scope == RunningIn(stack, Len(stack))

(* What is known of the innermost activation.                              *)
LEMMA TopIs ==
  ASSUME ProgramInv, StackInv
  PROVE  /\ lines \in Seq(Kinds) /\ Last = Len(lines) /\ Last \in Nat
         /\ Len(stack) \in 1..Len(stack) /\ Top = stack[Len(stack)]
         /\ FrameOk(lines, Top, Scope) /\ Top.end \in 1..Last + 1 /\ Top.at \in 1..Top.end
         /\ Bounded(lines, Scope, Top.end) /\ Top.at \in Nat /\ Top.end \in Nat
<1>1. lines \in Seq(Kinds) /\ Last = Len(lines) /\ Last \in Nat
  BY JasLangAssumption, LenProperties DEF ProgramInv, Last
<1>2. Len(stack) \in 1..Len(stack) /\ Top = stack[Len(stack)]
  BY DEF StackInv, StackOk, Top
<1>3. FrameOk(lines, Top, Scope)
  BY <1>2 DEF StackInv, StackOk, Scope
<1>4. /\ Top.end <= Last + 1 /\ Top.at \in 1..Top.end /\ Bounded(lines, Scope, Top.end)
      /\ Top.at \in Nat /\ Top.end \in Nat
  BY <1>1, <1>3 DEF FrameOk, Frame
<1>5. Top.end \in 1..Last + 1
  BY <1>1, <1>4
<1> QED BY <1>1, <1>2, <1>3, <1>4, <1>5

(* The innermost activation moves on.                                      *)
LEMMA TopMoves ==
  ASSUME ProgramInv, StackInv, NEW f, FrameOk(lines, f, Scope),
         f.call = Top.call, f.end = Top.end, Top.at <= f.at,
         stack' = Set(Len(stack), f), lines' = lines
  PROVE  StackInv'
<1>1. Len(stack) \in 1..Len(stack) /\ Top = stack[Len(stack)]
  BY TopIs
<1>2. PICK u : u = MovedTo(stack, Len(stack), f)
  OBVIOUS
<1>3. PICK n \in 1..Len(stack) : n = Len(stack)
  BY <1>1
<1>4. /\ StackOk(lines, stack) /\ FrameOk(lines, f, RunningIn(stack, n))
      /\ f.call = stack[n].call /\ f.end = stack[n].end /\ stack[n].at <= f.at
      /\ u = MovedTo(stack, n, f)
  BY <1>1, <1>2, <1>3 DEF StackInv, Scope
<1>5. StackOk(lines, u)
  BY <1>3, <1>4, MoveIsOk
<1>6. stack' = u
  BY <1>2 DEF Set, MovedTo
<1> QED BY <1>5, <1>6 DEF StackInv

(* The innermost activation moves on and another one is entered from it.   *)
LEMMA TopEnters ==
  ASSUME ProgramInv, StackInv, NEW f, FrameOk(lines, f, Scope),
         f.call = Top.call, f.end = Top.end, Top.at <= f.at,
         NEW g, FrameOk(lines, g, IF g.call = 0 THEN Scope ELSE g.call), Follows(lines, f, g),
         Enter(f, g)
  PROVE  StackInv' /\ lines' = lines /\ (state' = "running" => state = "running")
<1>1. Len(stack) \in 1..Len(stack) /\ Top = stack[Len(stack)]
  BY TopIs
<1>2. CASE Len(stack) < MaxDepth
  <2>1. PICK u : u = MovedTo(stack, Len(stack), f)
    OBVIOUS
  <2>2. PICK n \in 1..Len(stack) : n = Len(stack)
    BY <1>1
  <2>3. /\ StackOk(lines, stack) /\ FrameOk(lines, f, RunningIn(stack, n)) /\ RunningIn(stack, n) = Scope
        /\ f.call = stack[n].call /\ f.end = stack[n].end /\ stack[n].at <= f.at
        /\ u = MovedTo(stack, n, f)
    BY <1>1, <2>1, <2>2 DEF StackInv, Scope
  <2>4. StackOk(lines, u) /\ Len(u) = n /\ u[n] = f /\ RunningIn(u, n) = Scope
    BY <2>2, <2>3, MoveIsOk
  <2>5. Len(u) < MaxDepth
    BY <1>2, <2>2, <2>4
  <2>6. FrameOk(lines, g, IF g.call = 0 THEN RunningIn(u, Len(u)) ELSE g.call)
    BY <2>4
  <2>7. StackOk(lines, u \o <<g>>)
    BY <2>4, <2>5, <2>6, PushIsOk
  <2>8. stack' = u \o <<g>> /\ lines' = lines /\ state' = state
    BY <1>2, <2>1 DEF Enter, Set, MovedTo
  <2> QED BY <2>7, <2>8 DEF StackInv
<1>3. CASE ~(Len(stack) < MaxDepth)
  <2>1. stack' = stack /\ lines' = lines /\ state' = "RecursionError"
    BY <1>3 DEF Enter, Raise
  <2> QED BY <2>1 DEF StackInv
<1> QED BY <1>2, <1>3

(* An exception leaves the stack to be looked at.                          *)
LEMMA Raised ==
  ASSUME StackInv, NEW exception, exception # "running", Raise(exception)
  PROVE  StackInv' /\ lines' = lines /\ (state' = "running" => state = "running")
<1>1. stack' = stack /\ lines' = lines /\ state' = exception
  BY DEF Raise
<1> QED BY <1>1 DEF StackInv

(* The innermost activation goes on at a line of its block.                *)
LEMMA WentOn ==
  ASSUME ProgramInv, StackInv, Top.loop = 0, NEW j \in Top.at..Top.end,
         j < Top.end => Within(lines, j, Scope), GoOn(j)
  PROVE  StackInv' /\ lines' = lines /\ (state' = "running" => state = "running")
<1>1. FrameOk(lines, Top, Scope)
  BY TopIs
<1>2. PICK f : f = [Top EXCEPT !.at = j]
  OBVIOUS
<1>3. FrameOk(lines, f, Scope) /\ f.call = Top.call /\ f.end = Top.end /\ Top.at <= f.at
  BY <1>1, <1>2, LineReached
<1>4. stack' = Set(Len(stack), f) /\ lines' = lines /\ state' = state
  BY <1>2 DEF GoOn
<1> QED BY <1>3, <1>4, TopMoves

-----------------------------------------------------------------------------
(* Every step keeps the stack                                              *)

Kept == StackInv' /\ lines' = lines /\ (state' = "running" => state = "running")

(* Where it stands at a line, the line is of its function.                 *)
LEMMA AtLine ==
  ASSUME ProgramInv, StackInv, Top.at < Top.end
  PROVE  Within(lines, Top.at, Scope) /\ Top.at \in 1..Last /\ Top.at + 1 \in Top.at..Top.end
<1>1. /\ FrameOk(lines, Top, Scope) /\ Top.end \in 1..Last + 1 /\ Top.at \in 1..Top.end
      /\ Top.at \in Nat /\ Top.end \in Nat /\ Last \in Nat
  BY TopIs
<1> QED BY <1>1 DEF FrameOk

(* One lemma per statement from here on.                                   *)
LEMMA PlainKeeps == ProgramInv /\ StackInv /\ Plain => Kept
<1> SUFFICES ASSUME ProgramInv, StackInv, Plain PROVE Kept
  OBVIOUS
<1>1. Top.loop = 0 /\ Top.at < Top.end /\ lines[Top.at] = "say" /\ GoOn(Top.at + 1)
  BY DEF Plain, AtStatement
<1>2. Within(lines, Top.at, Scope) /\ Top.at \in 1..Last /\ Top.at + 1 \in Top.at..Top.end
  BY <1>1, AtLine
<1>3. lines \in Seq(Kinds) /\ Top.at \in Nat /\ Top.end \in Nat /\ Bounded(lines, Scope, Top.end)
  BY TopIs
<1>4. lines[Top.at] \notin Definitions
  BY <1>1 DEF Definitions
<1>5. Top.at + 1 < Top.end => Within(lines, Top.at + 1, Scope)
  BY <1>2, <1>3, <1>4, NextLine
<1> QED BY <1>1, <1>2, <1>5, WentOn DEF Kept

(* The line after what the line at the top opens.                          *)
LEMMA AfterIt ==
  ASSUME ProgramInv, StackInv, Top.at < Top.end, lines[Top.at] \in Openers, Closed(Top.at, Top.end),
         NEW c, c = FindEnd(Top.at, Top.end)
  PROVE  /\ EndsAt(lines, Top.at, c) /\ c < Top.end /\ c + 1 \in Top.at..Top.end /\ c \in Nat
         /\ c + 1 < Top.end => Within(lines, c + 1, Scope)
<1>1. Within(lines, Top.at, Scope) /\ Top.at \in 1..Last
  BY AtLine
<1>2. /\ lines \in Seq(Kinds) /\ Top.at \in Nat /\ Top.end \in Nat /\ Bounded(lines, Scope, Top.end)
      /\ Top.end \in 1..Last + 1
  BY TopIs
<1>3. c \in Top.at + 1..Top.end - 1 /\ EndsAt(lines, Top.at, c)
  BY <1>1, <1>2, FindEndIs
<1>4. c < Top.end /\ c + 1 \in Top.at..Top.end /\ c \in Nat
  BY <1>2, <1>3
<1>5. c + 1 < Top.end => Within(lines, c + 1, Scope)
  BY <1>1, <1>2, <1>3, AfterBlock
<1> QED BY <1>3, <1>4, <1>5

LEMMA SkipDefinitionKeeps == ProgramInv /\ StackInv /\ SkipDefinition => Kept
<1> SUFFICES ASSUME ProgramInv, StackInv, SkipDefinition PROVE Kept
  OBVIOUS
<1>1. Top.loop = 0 /\ Top.at < Top.end /\ lines[Top.at] \in Openers
  BY DEF SkipDefinition, AtStatement, Openers
<1>2. CASE Closed(Top.at, Top.end)
  <2>1. PICK c : c = FindEnd(Top.at, Top.end)
    OBVIOUS
  <2>2. GoOn(c + 1)
    BY <1>2, <2>1 DEF SkipDefinition
  <2>3. c + 1 \in Top.at..Top.end /\ (c + 1 < Top.end => Within(lines, c + 1, Scope))
    BY <1>1, <1>2, <2>1, AfterIt
  <2> QED BY <1>1, <2>2, <2>3, WentOn DEF Kept
<1>3. CASE ~Closed(Top.at, Top.end)
  <2>1. Raise("Missing end")
    BY <1>3 DEF SkipDefinition
  <2> QED BY <2>1, Raised DEF Kept
<1> QED BY <1>2, <1>3

LEMMA StrayEndKeeps == ProgramInv /\ StackInv /\ StrayEnd => Kept
<1> SUFFICES ASSUME ProgramInv, StackInv, StrayEnd PROVE Kept
  OBVIOUS
<1>1. Top.loop = 0 /\ GoOn(Top.end)
  BY DEF StrayEnd, AtStatement
<1>2. Top.at \in 1..Top.end /\ Top.end \in Nat
  BY TopIs
<1>3. Top.end \in Top.at..Top.end /\ ~(Top.end < Top.end)
  BY <1>2
<1> QED BY <1>1, <1>3, WentOn DEF Kept

(* A branch of an if, which the activation is left behind.                 *)
LEMMA BranchKeeps ==
  ASSUME ProgramInv, StackInv, Top.loop = 0, Top.at < Top.end, lines[Top.at] = "if",
         Closed(Top.at, Top.end), NEW c, c = FindEnd(Top.at, Top.end),
         NEW first \in Nat, NEW last \in Nat, Top.at < first, first <= last, last <= c,
         first < last => Within(lines, first, Scope),
         Enter([Top EXCEPT !.at = c + 1], Block(first, last, 0))
  PROVE  Kept
<1>1. lines[Top.at] \in Openers
  BY DEF Openers
<1>2. /\ EndsAt(lines, Top.at, c) /\ c < Top.end /\ c + 1 \in Top.at..Top.end
      /\ c + 1 < Top.end => Within(lines, c + 1, Scope)
  BY <1>1, AfterIt
<1>3. FrameOk(lines, Top, Scope) /\ lines \in Seq(Kinds) /\ Last = Len(lines)
  BY TopIs
<1>4. PICK f : f = [Top EXCEPT !.at = c + 1]
  OBVIOUS
<1>5. PICK g : g = Block(first, last, 0)
  OBVIOUS
<1>6. /\ FrameOk(lines, f, Scope) /\ f.call = Top.call /\ f.end = Top.end /\ Top.at <= f.at
      /\ f.loop = 0
  BY <1>2, <1>3, <1>4, LineReached
<1>7. FrameOk(lines, g, Scope) /\ g.call = 0 /\ g.end <= Len(lines) /\ g.end < Top.end
  BY <1>2, <1>3, <1>5, BlockIsOk
<1>8. Follows(lines, f, g)
  BY <1>6, <1>7 DEF Follows
<1>9. FrameOk(lines, g, IF g.call = 0 THEN Scope ELSE g.call)
  BY <1>7
<1>10. Enter(f, g)
  BY <1>4, <1>5
<1> QED BY <1>6, <1>8, <1>9, <1>10, TopEnters DEF Kept

LEMMA IfKeeps ==
  ASSUME NEW condition \in BOOLEAN, ProgramInv, StackInv, If(condition)
  PROVE  Kept
<1>1. Top.loop = 0 /\ Top.at < Top.end /\ lines[Top.at] = "if" /\ lines[Top.at] \in Openers
  BY DEF If, AtStatement, Openers
<1>2. CASE ~Closed(Top.at, Top.end)
  <2>1. Raise("Missing end")
    BY <1>2 DEF If
  <2> QED BY <2>1, Raised DEF Kept
<1>3. CASE Closed(Top.at, Top.end)
  <2>1. PICK c : c = FindEnd(Top.at, Top.end)
    OBVIOUS
  <2>2. /\ EndsAt(lines, Top.at, c) /\ c < Top.end /\ c + 1 \in Top.at..Top.end /\ c \in Nat
        /\ c + 1 < Top.end => Within(lines, c + 1, Scope)
    BY <1>1, <1>3, <2>1, AfterIt
  <2>3. PICK x : x = Max(Elses(Top.at, Top.end))
    OBVIOUS
  <2>4. IF condition
        THEN Enter([Top EXCEPT !.at = c + 1], Block(Top.at + 1, IF HasElse(Top.at, Top.end) THEN x ELSE c, 0))
        ELSE IF HasElse(Top.at, Top.end) THEN Enter([Top EXCEPT !.at = c + 1], Block(x + 1, c, 0))
        ELSE GoOn(c + 1)
    BY <1>3, <2>1, <2>3 DEF If
  <2>5. /\ Within(lines, Top.at, Scope) /\ Top.at \in 1..Last /\ Top.at \in Nat /\ Top.end \in Nat
        /\ lines \in Seq(Kinds) /\ Top.end \in 1..Last + 1 /\ Bounded(lines, Scope, Top.end)
    BY <1>1, AtLine, TopIs
  <2>6. Top.at < c
    BY <2>2 DEF EndsAt
  <2>7. HasElse(Top.at, Top.end) =>
          x \in Top.at + 1..c - 1 /\ lines[x] = "else" /\ Depth(lines, Top.at, x) = 1
    BY <1>1, <1>3, <2>1, <2>3, <2>5, ElseIs
  <2>8. lines[Top.at] \notin Definitions
    BY <1>1 DEF Definitions
  <2>9. CASE condition
    <3>1. PICK last \in Nat : /\ last = IF HasElse(Top.at, Top.end) THEN x ELSE c
                              /\ Top.at + 1 <= last /\ last <= c
      BY <2>2, <2>5, <2>6, <2>7
    <3>2. Top.at + 1 < last => Within(lines, Top.at + 1, Scope)
      <4>1. ASSUME Top.at + 1 < last PROVE Top.at + 1 < Top.end
        BY <2>2, <2>5, <3>1, <4>1
      <4> QED BY <2>5, <2>8, <4>1, NextLine
    <3>3. PICK first \in Nat : first = Top.at + 1 /\ Top.at < first
      BY <2>5
    <3>4. Enter([Top EXCEPT !.at = c + 1], Block(first, last, 0))
      BY <2>4, <2>9, <3>1, <3>3
    <3> QED BY <1>1, <1>3, <2>1, <3>1, <3>2, <3>3, <3>4, BranchKeeps
  <2>10. CASE ~condition /\ HasElse(Top.at, Top.end)
    <3>1. PICK first \in Nat : first = x + 1 /\ Top.at < first /\ first <= c
      BY <2>2, <2>5, <2>7, <2>10
    <3>2. first < c => Within(lines, first, Scope)
      <4>1. ASSUME first < c PROVE x + 1 < Top.end
        BY <2>2, <2>5, <3>1, <4>1
      <4> QED BY <1>1, <2>2, <2>5, <2>7, <2>10, <3>1, <4>1, IntoElse
    <3>3. Enter([Top EXCEPT !.at = c + 1], Block(first, c, 0))
      BY <2>4, <2>10, <3>1
    <3>4. c <= c
      BY <2>2
    <3> QED BY <1>1, <1>3, <2>1, <2>2, <3>1, <3>2, <3>3, <3>4, BranchKeeps
  <2>11. CASE ~condition /\ ~HasElse(Top.at, Top.end)
    BY <1>1, <2>2, <2>4, <2>11, WentOn DEF Kept
  <2> QED BY <2>9, <2>10, <2>11
<1> QED BY <1>2, <1>3

LEMMA LoopKeeps ==
  ASSUME NEW items \in 0..MaxItems, ProgramInv, StackInv, Loop(items)
  PROVE  Kept
<1>1. /\ Top.loop = 0 /\ Top.at < Top.end /\ lines[Top.at] \in {"while", "for"}
      /\ lines[Top.at] \in Openers
  BY DEF Loop, AtStatement, Openers
<1>2. CASE ~Closed(Top.at, Top.end)
  <2>1. Raise("Missing end")
    BY <1>2 DEF Loop
  <2> QED BY <2>1, Raised DEF Kept
<1>3. CASE Closed(Top.at, Top.end)
  <2>1. PICK c : c = FindEnd(Top.at, Top.end)
    OBVIOUS
  <2>2. EndsAt(lines, Top.at, c) /\ c < Top.end
    BY <1>1, <1>3, <2>1, AfterIt
  <2>3. PICK f : f = InLoop(Top, items)
    OBVIOUS
  <2>4. FrameOk(lines, Top, Scope)
    BY TopIs
  <2>5. FrameOk(lines, f, Scope) /\ f.call = Top.call /\ f.end = Top.end /\ Top.at <= f.at
    BY <1>1, <2>2, <2>3, <2>4, LoopEntered
  <2>6. stack' = Set(Len(stack), f) /\ lines' = lines /\ state' = state
    BY <1>3, <2>3 DEF Loop, InLoop
  <2>7. StackInv'
    BY <2>5, <2>6, TopMoves
  <2> QED BY <2>6, <2>7 DEF Kept
<1> QED BY <1>2, <1>3

(* An activation in a loop: the loop ends where find_end() says.           *)
LEMMA LoopIs ==
  ASSUME lines \in Seq(Kinds), NEW f, NEW s, FrameOk(lines, f, s), f.loop # 0
  PROVE  /\ f.loop = f.at /\ EndsAt(lines, f.loop, FindEnd(f.loop, f.end))
         /\ FindEnd(f.loop, f.end) < f.end /\ f.at < f.end
         /\ lines[f.loop] \in {"while", "for"}
<1>1. Last \in Nat /\ Last = Len(lines)
  BY LenProperties DEF Last
<1>2. /\ f.loop = f.at /\ f.end \in Nat /\ f.end <= Last + 1 /\ f.at \in 1..f.end
      /\ lines[f.loop] \in {"while", "for"}
  BY <1>1 DEF FrameOk, Frame
<1>3. PICK e : EndsAt(lines, f.loop, e) /\ e < f.end
  BY <1>2 DEF FrameOk
<1>4. e \in Nat /\ f.at < e
  BY <1>2, <1>3 DEF EndsAt
<1>5. f.end \in 1..Last + 1 /\ f.at < f.end
  BY <1>1, <1>2, <1>3, <1>4
<1>6. FindEnd(f.loop, f.end) = e
  BY <1>3, <1>5, EndIsFound
<1> QED BY <1>2, <1>3, <1>5, <1>6

(* The activation f whose loop takes another turn, with one item less.     *)
Turned(f) == [f EXCEPT !.left = IF @ > 0 THEN @ - 1 ELSE 0, !.asking = FALSE]

(* Taking a turn changes no line.                                          *)
LEMMA TurnedIsOk ==
  ASSUME NEW p, NEW f, NEW s, FrameOk(p, f, s), NEW g, g = Turned(f)
  PROVE  /\ FrameOk(p, g, s) /\ g.call = f.call /\ g.end = f.end /\ g.at = f.at /\ f.at <= g.at
         /\ g.loop = f.loop
<1>1. f \in Frame /\ f.at \in Nat
  BY DEF FrameOk, Frame
<1>2. PICK n \in 0..MaxItems : n = IF f.left > 0 THEN f.left - 1 ELSE 0
  <2>1. f.left \in 0..MaxItems /\ MaxItems \in Nat
    BY <1>1, JasLangAssumption DEF Frame
  <2> QED BY <2>1
<1>3. g = [f EXCEPT !.left = n, !.asking = FALSE]
  BY <1>1, <1>2 DEF Turned
<1>4. /\ g \in Frame /\ g.call = f.call /\ g.end = f.end /\ g.at = f.at
      /\ g.loop = f.loop
  BY <1>1, <1>2, <1>3 DEF Frame
<1>5. f.at <= g.at
  BY <1>1, <1>4
<1>6. f.loop # 0 => /\ f.loop = f.at /\ p[f.at] \in {"while", "for"}
                    /\ \E e : EndsAt(p, f.at, e) /\ e < f.end
  BY DEF FrameOk
<1> QED BY <1>4, <1>5, <1>6 DEF FrameOk

LEMMA IterateKeeps ==
  ASSUME NEW again \in BOOLEAN, ProgramInv, StackInv, Iterate(again)
  PROVE  Kept
<1>1. Top.loop # 0
  BY DEF Iterate
<1>2. /\ FrameOk(lines, Top, Scope) /\ lines \in Seq(Kinds) /\ Bounded(lines, Scope, Top.end)
      /\ Top.at \in Nat /\ Top.end \in Nat
  BY TopIs
<1>3. PICK c : c = FindEnd(Top.loop, Top.end)
  OBVIOUS
<1>4. /\ Top.loop = Top.at /\ EndsAt(lines, Top.loop, c) /\ c < Top.end /\ Top.at < Top.end
      /\ lines[Top.loop] \in {"while", "for"}
  BY <1>1, <1>2, <1>3, LoopIs
<1>5. CASE again
  <2>1. PICK f : f = Turned(Top)
    OBVIOUS
  <2>2. /\ FrameOk(lines, f, Scope) /\ f.call = Top.call /\ f.end = Top.end /\ Top.at <= f.at
        /\ f.loop = Top.loop
    BY <1>2, <2>1, TurnedIsOk
  <2>3. c \in Nat /\ Top.at < c
    BY <1>4 DEF EndsAt
  <2>4. PICK first \in Nat : /\ first = Top.loop + 1 /\ first = Top.at + 1
                             /\ Top.loop < first /\ first <= c /\ c <= c
    BY <1>2, <1>4, <2>3
  <2>5. first < c => Within(lines, first, Scope)
    <3>1. Within(lines, Top.at, Scope)
      BY <1>4, AtLine
    <3>2. lines[Top.at] \notin Definitions
      BY <1>4 DEF Definitions
    <3>3. first < c => Top.at + 1 < Top.end
      BY <1>2, <1>4, <2>3, <2>4
    <3> QED BY <1>2, <2>4, <3>1, <3>2, <3>3, NextLine
  <2>6. PICK g : g = Block(first, c, 0)
    OBVIOUS
  <2>7. /\ FrameOk(lines, g, Scope) /\ g.call = 0 /\ g.at = first /\ g.end = c
        /\ g.end <= Len(lines) /\ g.end < Top.end
    BY <1>2, <1>4, <2>3, <2>4, <2>5, <2>6, BlockIsOk
  <2>8. Follows(lines, f, g)
    BY <1>4, <2>2, <2>4, <2>7 DEF Follows
  <2>9. FrameOk(lines, g, IF g.call = 0 THEN Scope ELSE g.call)
    BY <2>7
  <2>10. Enter(f, g)
    BY <1>3, <1>5, <2>1, <2>4, <2>6 DEF Iterate, LoopBody, Turned
  <2> QED BY <2>2, <2>8, <2>9, <2>10, TopEnters DEF Kept
<1>6. CASE ~again
  <2>1. PICK f : f = OutOfLoop(Top, c)
    OBVIOUS
  <2>2. FrameOk(lines, f, Scope) /\ f.call = Top.call /\ f.end = Top.end /\ Top.at <= f.at
    BY <1>1, <1>2, <1>4, <2>1, LoopLeft
  <2>3. stack' = Set(Len(stack), f) /\ lines' = lines /\ state' = state
    BY <1>3, <1>6, <2>1 DEF Iterate, AfterLoop, OutOfLoop
  <2>4. StackInv'
    BY <2>2, <2>3, TopMoves
  <2> QED BY <2>3, <2>4 DEF Kept
<1> QED BY <1>5, <1>6

(* What break and continue reach is an activation in a loop.               *)
LEMMA LoopsIs ==
  ASSUME ProgramInv, StackInv, Loops # {}, NEW k, k = Max(Loops)
  PROVE  k \in 1..Len(stack) /\ stack[k].loop # 0 /\ FrameOk(lines, stack[k], RunningIn(stack, k))
<1>1. Len(stack) \in Nat
  BY LenProperties DEF StackInv, StackOk
<1>2. k \in Loops
  BY <1>1, MaxIsGreatest DEF Loops
<1> QED BY <1>2 DEF Loops, StackInv, StackOk

LEMMA BreakKeeps == ProgramInv /\ StackInv /\ Break => Kept
<1> SUFFICES ASSUME ProgramInv, StackInv, Break PROVE Kept
  OBVIOUS
<1>1. CASE Loops = {}
  <2>1. Raise("BreakSignal")
    BY <1>1 DEF Break
  <2> QED BY <2>1, Raised DEF Kept
<1>2. CASE Loops # {}
  <2>1. PICK k : k = Max(Loops)
    OBVIOUS
  <2>2. k \in 1..Len(stack) /\ stack[k].loop # 0 /\ FrameOk(lines, stack[k], RunningIn(stack, k))
    BY <1>2, <2>1, LoopsIs
  <2>3. lines \in Seq(Kinds)
    BY TopIs
  <2>4. PICK c : c = FindEnd(stack[k].loop, stack[k].end)
    OBVIOUS
  <2>5. EndsAt(lines, stack[k].loop, c) /\ c < stack[k].end
    BY <2>2, <2>3, <2>4, LoopIs
  <2>6. PICK f : f = OutOfLoop(stack[k], c)
    OBVIOUS
  <2>7. /\ FrameOk(lines, f, RunningIn(stack, k)) /\ f.call = stack[k].call /\ f.end = stack[k].end
        /\ stack[k].at <= f.at
    BY <2>2, <2>3, <2>5, <2>6, LoopLeft
  <2>8. PICK u : u = MovedTo(stack, k, f)
    OBVIOUS
  <2>9. StackOk(lines, stack)
    BY DEF StackInv
  <2>10. StackOk(lines, u)
    BY <2>2, <2>7, <2>8, <2>9, MoveIsOk
  <2>11. stack' = u /\ lines' = lines /\ state' = state
    BY <1>2, <2>1, <2>4, <2>6, <2>8 DEF Break, Set, AfterLoop, OutOfLoop, MovedTo
  <2> QED BY <2>10, <2>11 DEF Kept, StackInv
<1> QED BY <1>1, <1>2

(* Activations are left, from the innermost one on.                        *)
LEMMA CutKeeps ==
  ASSUME StackInv, NEW k \in 1..Len(stack), stack' = SubSeq(stack, 1, k), lines' = lines
  PROVE  StackInv'
<1>1. StackOk(lines, stack) /\ StackOk(lines, stack')
  <2>1. PICK u : u = SubSeq(stack, 1, k)
    OBVIOUS
  <2>2. StackOk(lines, u)
    BY <2>1, CutIsOk DEF StackInv
  <2> QED BY <2>1, <2>2 DEF StackInv
<1> QED BY <1>1 DEF StackInv

LEMMA ContinueKeeps == ProgramInv /\ StackInv /\ Continue => Kept
<1> SUFFICES ASSUME ProgramInv, StackInv, Continue PROVE Kept
  OBVIOUS
<1>1. CASE Loops = {}
  <2>1. Raise("ContinueSignal")
    BY <1>1 DEF Continue
  <2> QED BY <2>1, Raised DEF Kept
<1>2. CASE Loops # {}
  <2>1. PICK k : k = Max(Loops)
    OBVIOUS
  <2>2. k \in 1..Len(stack)
    BY <1>2, <2>1, LoopsIs
  <2>3. stack' = SubSeq(stack, 1, k) /\ lines' = lines /\ state' = state
    BY <1>2, <2>1 DEF Continue
  <2> QED BY <2>2, <2>3, CutKeeps DEF Kept
<1> QED BY <1>1, <1>2

LEMMA ReturnKeeps == ProgramInv /\ StackInv /\ Return => Kept
<1> SUFFICES ASSUME ProgramInv, StackInv, Return PROVE Kept
  OBVIOUS
<1>1. PICK called : called = {k \in 1..Len(stack) : stack[k].call # 0}
  OBVIOUS
<1>2. CASE called = {}
  <2>1. Raise("ReturnSignal")
    BY <1>1, <1>2 DEF Return
  <2> QED BY <2>1, Raised DEF Kept
<1>3. CASE called # {}
  <2>1. Len(stack) \in Nat /\ stack[1].call = 0
    BY LenProperties DEF StackInv, StackOk
  <2>2. PICK m \in called : m = Max(called)
    BY <1>1, <1>3, <2>1, MaxIsGreatest
  <2>3. PICK k \in 1..Len(stack) : k = m - 1
    <3>1. m \in 1..Len(stack) /\ m # 1
      BY <1>1, <2>1, <2>2
    <3> QED BY <2>1, <3>1
  <2>4. stack' = SubSeq(stack, 1, k) /\ lines' = lines /\ state' = state
    BY <1>1, <1>3, <2>2, <2>3 DEF Return
  <2> QED BY <2>4, CutKeeps DEF Kept
<1> QED BY <1>2, <1>3

LEMMA BlockDoneKeeps == ProgramInv /\ StackInv /\ BlockDone => Kept
<1> SUFFICES ASSUME ProgramInv, StackInv, BlockDone PROVE Kept
  OBVIOUS
<1>1. CASE Len(stack) = 1
  <2>1. stack' = stack /\ lines' = lines /\ state' = "finished"
    BY <1>1 DEF BlockDone
  <2> QED BY <2>1 DEF Kept, StackInv
<1>2. CASE Len(stack) # 1
  <2>1. Len(stack) \in Nat /\ Len(stack) >= 1
    BY JasLangAssumption DEF StackInv, StackOk
  <2>2. PICK k \in 1..Len(stack) : k = Len(stack) - 1
    <3>1. PICK n \in Nat : n = Len(stack) /\ n >= 1 /\ n # 1
      BY <1>2, <2>1
    <3>2. n - 1 \in 1..n
      BY <3>1
    <3> QED BY <3>1, <3>2
  <2>3. stack' = SubSeq(stack, 1, k) /\ lines' = lines /\ state' = state
    BY <1>2, <2>2 DEF BlockDone
  <2> QED BY <2>3, CutKeeps DEF Kept
<1> QED BY <1>1, <1>2

(* Where a program runs, its definitions have an end.                      *)
LEMMA DefinitionsEnd ==
  ASSUME lines \in Seq(Kinds), ~Unclosed, NEW d \in 1..Last, lines[d] \in Definitions
  PROVE  /\ FindEnd(d, Last + 1) \in 1..Last /\ EndsAt(lines, d, FindEnd(d, Last + 1))
<1>1. Last \in Nat /\ Last + 1 \in 1..Last + 1 /\ lines[d] \in Openers /\ d \in Nat
  BY LenProperties DEF Last, Openers
<1>2. Closed(d, Last + 1)
  <2> SUFFICES ASSUME ~Closed(d, Last + 1) PROVE FALSE
    OBVIOUS
  <2>1. d \in Defs(Definitions)
    BY DEF Defs
  <2>2. PICK e \in Defs(Definitions) : Encloses(e, d)
    BY <2>1 DEF Unclosed
  <2>3. e \in 1..Last /\ lines[e] \in Openers
    BY <2>2 DEF Defs, Openers
  <2>4. PICK c \in 1..Last : EndsAt(lines, e, c) /\ e < d /\ d < c
    BY <1>1, <2>2, <2>3, EnclosesIs
  <2>5. PICK b \in d + 1..c - 1 : EndsAt(lines, d, b)
    BY <1>1, <2>4, InnerEndsFirst
  <2>6. b < Last + 1
    BY <1>1, <2>4, <2>5
  <2> QED BY <1>1, <2>5, <2>6, EndIsFound
<1>3. FindEnd(d, Last + 1) \in d + 1..Last + 1 - 1 /\ EndsAt(lines, d, FindEnd(d, Last + 1))
  BY <1>1, <1>2, FindEndIs
<1> QED BY <1>1, <1>3

(* A function is called, and the activation f goes on after it.            *)
LEMMA InvokeKeeps ==
  ASSUME ProgramInv, StackInv, state = "running", NEW f, FrameOk(lines, f, Scope),
         f.call = Top.call, f.end = Top.end, Top.at <= f.at, Invoke(f)
  PROVE  Kept
<1>1. PICK d \in Callable : Enter(f, Block(d + 1, FindEnd(d, Last + 1), d))
  BY DEF Invoke
<1>2. d \in 1..Last /\ lines[d] \in Definitions
  BY DEF Callable, Defs, Definitions
<1>3. lines \in Seq(Kinds) /\ Last = Len(lines)
  BY TopIs
<1>4. PICK e \in 1..Last : e = FindEnd(d, Last + 1) /\ EndsAt(lines, d, e)
  BY <1>2, <1>3, DefinitionsEnd DEF ProgramInv
<1>5. PICK g : g = Block(d + 1, e, d)
  OBVIOUS
<1>6. FrameOk(lines, g, d) /\ g.call = d /\ g.call # 0 /\ g.end <= Len(lines)
  BY <1>2, <1>3, <1>4, <1>5, FunctionIsOk
<1>7. Follows(lines, f, g)
  BY <1>6 DEF Follows
<1>8. FrameOk(lines, g, IF g.call = 0 THEN Scope ELSE g.call)
  BY <1>6
<1>9. Enter(f, g)
  BY <1>1, <1>4, <1>5
<1> QED BY <1>7, <1>8, <1>9, TopEnters DEF Kept

LEMMA CallKeeps == ProgramInv /\ StackInv /\ Call => Kept
<1> SUFFICES ASSUME ProgramInv, StackInv, Call PROVE Kept
  OBVIOUS
<1>1. /\ state = "running" /\ Top.loop = 0 /\ Top.at < Top.end /\ lines[Top.at] = "call"
  BY DEF Call, AtStatement
<1>2. CASE Callable = {}
  <2>1. Raise("Unknown function")
    BY <1>2 DEF Call
  <2> QED BY <2>1, Raised DEF Kept
<1>3. CASE Callable # {}
  <2>1. /\ FrameOk(lines, Top, Scope) /\ lines \in Seq(Kinds) /\ Bounded(lines, Scope, Top.end)
        /\ Top.at \in Nat /\ Top.end \in Nat
    BY TopIs
  <2>2. PICK f : f = [Top EXCEPT !.at = Top.at + 1]
    OBVIOUS
  <2>3. Within(lines, Top.at, Scope) /\ Top.at + 1 \in Top.at..Top.end
    BY <1>1, AtLine
  <2>4. Top.at + 1 < Top.end => Within(lines, Top.at + 1, Scope)
    <3>1. lines[Top.at] \notin Definitions
      BY <1>1 DEF Definitions
    <3> QED BY <2>1, <2>3, <3>1, NextLine
  <2>5. FrameOk(lines, f, Scope) /\ f.call = Top.call /\ f.end = Top.end /\ Top.at <= f.at
    BY <1>1, <2>1, <2>2, <2>3, <2>4, LineReached
  <2>6. Invoke(f)
    BY <1>3, <2>2 DEF Call
  <2> QED BY <1>1, <2>5, <2>6, InvokeKeeps
<1> QED BY <1>2, <1>3

LEMMA CallInConditionKeeps == ProgramInv /\ StackInv /\ CallInCondition => Kept
<1> SUFFICES ASSUME ProgramInv, StackInv, CallInCondition PROVE Kept
  OBVIOUS
<1>1. FrameOk(lines, Top, Scope) /\ Top \in Frame
  BY TopIs DEF FrameOk
<1>2. PICK f : f = [Top EXCEPT !.asking = TRUE]
  OBVIOUS
<1>3. /\ f \in Frame /\ f.at = Top.at /\ f.end = Top.end /\ f.call = Top.call
      /\ f.loop = Top.loop
  BY <1>1, <1>2 DEF Frame
<1>4. FrameOk(lines, f, Scope)
  BY <1>1, <1>3 DEF FrameOk
<1>5. state = "running" /\ Invoke(f) /\ Top.at <= f.at
  BY <1>1, <1>2, <1>3 DEF CallInCondition, Frame
<1> QED BY <1>3, <1>4, <1>5, InvokeKeeps

LEMMA EvaluationFailsKeeps == StackInv /\ EvaluationFails => Kept
  BY Raised DEF EvaluationFails, Kept

LEMMA StepLimitKeeps == StackInv /\ StepLimit => Kept
  BY Raised DEF StepLimit, Kept

-----------------------------------------------------------------------------
(* Steps, and all together                                                 *)

LEMMA JasStarts == Init => JasInv
<1> SUFFICES ASSUME Init PROVE JasInv
  OBVIOUS
<1>1. lines \in Seq(Kinds) /\ Last = Len(lines) /\ Last \in Nat /\ lines \in Programs
  BY JasLangAssumption, LenProperties DEF Init, Last
<1>2. PICK f : f = Block(1, Last + 1, 0)
  OBVIOUS
<1>3. PICK t : t = <<f>>
  OBVIOUS
<1>4. f \in Frame /\ f.at = 1 /\ f.end = Last + 1 /\ f.call = 0 /\ f.loop = 0
  BY <1>1, <1>2, JasLangAssumption DEF Block, Frame
<1>5. t \in Seq(Frame) /\ Len(t) = 1 /\ t[1] = f
  BY <1>3, <1>4
<1>6. RunningIn(t, 1) = 0
  <2>1. {j \in 1..1 : t[j].call # 0} = {}
    BY <1>4, <1>5
  <2> QED BY <2>1 DEF RunningIn
<1>7. FrameOk(lines, f, 0)
  <2>1. Around(lines, 1) = {}
    BY <1>1 DEF Around
  <2>2. Within(lines, 1, 0)
    BY <2>1 DEF Within
  <2>3. f.end <= Len(lines) + 1 /\ f.at \in 1..f.end
    BY <1>1, <1>4
  <2> QED BY <1>4, <2>2, <2>3 DEF FrameOk, Bounded
<1>8. StackOk(lines, t)
  <2>1. \A k \in 1..Len(t) : FrameOk(lines, t[k], RunningIn(t, k))
    <3> SUFFICES ASSUME NEW k \in 1..Len(t) PROVE FrameOk(lines, t[k], RunningIn(t, k))
      OBVIOUS
    <3>1. k = 1
      BY <1>5
    <3> QED BY <1>5, <1>6, <1>7, <3>1
  <2>2. \A k \in 2..Len(t) : Follows(lines, t[k - 1], t[k])
    BY <1>5
  <2>3. Len(t) \in 1..MaxDepth
    BY <1>5, JasLangAssumption
  <2> QED BY <1>4, <1>5, <2>1, <2>2, <2>3 DEF StackOk
<1>9. StackInv
  <2>1. stack = t
    BY <1>2, <1>3 DEF Init
  <2> QED BY <1>8, <2>1 DEF StackInv
<1>10. ProgramInv
  BY <1>1 DEF Init, ProgramInv
<1>11. StepsInv
  <2>1. steps = 0 /\ MaxSteps \in Nat
    BY JasLangAssumption DEF Init
  <2>2. steps \in 0..MaxSteps + 1 /\ ~(steps > MaxSteps)
    BY <2>1
  <2> QED BY <2>2 DEF StepsInv
<1> QED BY <1>9, <1>10, <1>11 DEF JasInv

(* Each tick compares before the statement runs.                           *)
LEMMA StepsAreCounted ==
  ASSUME StepsInv, Next
  PROVE  StepsInv'
<1>1. steps \in Nat /\ steps \in 0..MaxSteps + 1 /\ MaxSteps \in Nat
  <2>1. MaxSteps \in Nat /\ steps \in 0..MaxSteps + 1
    BY JasLangAssumption DEF StepsInv
  <2> QED BY <2>1
<1>12. state = "running" => ~(steps > MaxSteps)
  BY DEF StepsInv
<1>2. ASSUME NEW kinds, AtStatement(kinds) PROVE StepsInv'
  <2>1. steps < MaxSteps /\ steps' = steps + 1
    BY <1>2 DEF AtStatement
  <2>2. steps' \in 0..MaxSteps + 1 /\ ~(steps' > MaxSteps)
    BY <1>1, <2>1
  <2> QED BY <2>2 DEF StepsInv
<1>3. ASSUME state = "running", UNCHANGED steps PROVE StepsInv'
  BY <1>1, <1>3 DEF StepsInv
<1>4. CASE StepLimit
  <2>1. state = "running" /\ steps' = steps + 1 /\ state' = "Execution step limit exceeded"
    BY <1>4 DEF StepLimit, Raise
  <2>2. ~(steps > MaxSteps)
    BY <1>12, <2>1
  <2>3. steps' \in 0..MaxSteps + 1
    <3>1. steps' = steps + 1
      BY <2>1
    <3> QED BY <1>1, <2>2, <3>1
  <2> QED BY <2>1, <2>3 DEF StepsInv
<1>5. CASE EvaluationFails
  BY <1>2, <1>3, <1>5 DEF EvaluationFails
<1>6. CASE BlockDone
  BY <1>3, <1>6 DEF BlockDone
<1>7. ASSUME NEW condition \in BOOLEAN, Iterate(condition) PROVE StepsInv'
  BY <1>3, <1>7 DEF Iterate
<1>8. ASSUME NEW condition \in BOOLEAN, If(condition) PROVE StepsInv'
  BY <1>2, <1>8 DEF If
<1>9. ASSUME NEW items \in 0..MaxItems, Loop(items) PROVE StepsInv'
  BY <1>2, <1>9 DEF Loop
<1>10. CASE Plain \/ SkipDefinition \/ StrayEnd
  BY <1>2, <1>10 DEF Plain, SkipDefinition, StrayEnd
<1>11. CASE Break \/ Continue \/ Call \/ Return
  BY <1>2, <1>11 DEF Break, Continue, Call, Return
<1>13. CASE CallInCondition
  BY <1>3, <1>13 DEF CallInCondition
<1> QED BY <1>4, <1>5, <1>6, <1>7, <1>8, <1>9, <1>10, <1>11, <1>13 DEF Next

LEMMA StackIsKept == ASSUME ProgramInv, StackInv, Next PROVE Kept
<1>1. ASSUME NEW condition \in BOOLEAN, If(condition) \/ Iterate(condition) PROVE Kept
  BY <1>1, IfKeeps, IterateKeeps
<1>2. ASSUME NEW items \in 0..MaxItems, Loop(items) PROVE Kept
  BY <1>2, LoopKeeps
<1> QED BY <1>1, <1>2, PlainKeeps, SkipDefinitionKeeps, StrayEndKeeps, BreakKeeps, ContinueKeeps,
           CallKeeps, CallInConditionKeeps, ReturnKeeps, BlockDoneKeeps, StepLimitKeeps, EvaluationFailsKeeps DEF Next

LEMMA JasGoesOn == JasInv /\ [Next]_vars => JasInv'
<1>1. ASSUME JasInv, Next PROVE JasInv'
  <2>1. Kept
    BY <1>1, StackIsKept DEF JasInv
  <2>2. StepsInv'
    BY <1>1, StepsAreCounted DEF JasInv
  <2>3. lines' = lines /\ (state' = "running" => state = "running")
    BY <2>1 DEF Kept
  <2>4. Unclosed' = Unclosed
    BY <2>3 DEF Unclosed, Defs, Encloses, Closed, FindEnd, Ends, Opened, Last
  <2>5. ProgramInv'
    BY <1>1, <2>3, <2>4 DEF JasInv, ProgramInv
  <2> QED BY <2>1, <2>2, <2>5 DEF JasInv, Kept
<1>2. ASSUME JasInv, UNCHANGED vars PROVE JasInv'
  <2>1. lines' = lines /\ stack' = stack /\ steps' = steps /\ state' = state
    BY <1>2 DEF vars
  <2>2. Unclosed' = Unclosed
    BY <2>1 DEF Unclosed, Defs, Encloses, Closed, FindEnd, Ends, Opened, Last
  <2>3. ProgramInv'
    BY <1>2, <2>1, <2>2 DEF JasInv, ProgramInv
  <2>4. StackInv'
    BY <1>2, <2>1 DEF JasInv, StackInv
  <2>5. StepsInv'
    BY <1>2, <2>1 DEF JasInv, StepsInv
  <2> QED BY <2>3, <2>4, <2>5 DEF JasInv
<1> QED BY <1>1, <1>2

(* JasInv holds throughout.                                                *)
LEMMA JasHolds == Spec => []JasInv
  BY JasStarts, JasGoesOn, PTL DEF Spec

(* The interpreter keeps its types, stays within its recursion limit, and  *)
(* passes the step limit by no more than the step that reports it.         *)
THEOREM InterpreterTypes == Spec => []TypeOK
<1>1. JasInv => TypeOK
  <2> SUFFICES ASSUME JasInv PROVE TypeOK
    OBVIOUS
  <2>1. stack \in Seq(Frame) /\ Len(stack) \in 1..MaxDepth
    BY DEF JasInv, StackInv, StackOk
  <2>2. stack \in Seq([at : Nat, end : Nat, call : Nat, loop : Nat, left : 0..MaxItems,
                       asking : BOOLEAN])
    BY <2>1 DEF Frame
  <2> QED BY <2>1, <2>2 DEF JasInv, ProgramInv, StepsInv, TypeOK
<1> QED BY <1>1, JasHolds, PTL

(* Whatever the program, well formed or not, and wherever it breaks out:   *)
(* a line runs in the function that it is written in, and a block on the   *)
(* stack lies in the block that it was entered from.                       *)
THEOREM BlocksAreNested == Spec => []BlocksNest
<1>1. JasInv => BlocksNest
  <2> SUFFICES ASSUME JasInv PROVE BlocksNest
    OBVIOUS
  <2>1. lines \in Seq(Kinds) /\ Last = Len(lines) /\ Last \in Nat
    BY TopIs DEF JasInv
  <2>2. stack \in Seq(Frame) /\ Len(stack) \in Nat
    BY LenProperties DEF JasInv, StackInv, StackOk
  <2>3. ASSUME NEW k \in 1..Len(stack), stack[k].at < stack[k].end
        PROVE  Owner(stack[k].at) = Running(k)
    <3>1. FrameOk(lines, stack[k], RunningIn(stack, k))
      BY DEF JasInv, StackInv, StackOk
    <3>2. Within(lines, stack[k].at, RunningIn(stack, k)) /\ stack[k].at \in Nat
      BY <2>3, <3>1 DEF FrameOk, Frame
    <3>3. Owner(stack[k].at) = RunningIn(stack, k)
      BY <2>1, <3>2, OwnerIs
    <3>4. Running(k) = RunningIn(stack, k)
      BY DEF Running, RunningIn
    <3> QED BY <3>3, <3>4
  <2>4. ASSUME NEW k \in 2..Len(stack)
        PROVE  /\ stack[k].end <= Last
               /\ stack[k].call = 0 => stack[k].end < stack[k - 1].end
               /\ stack[k - 1].loop # 0 /\ stack[k].call = 0 =>
                    stack[k - 1].loop < stack[k].at
                      /\ stack[k].end = FindEnd(stack[k - 1].loop, stack[k - 1].end)
    <3>1. Follows(lines, stack[k - 1], stack[k])
      BY DEF JasInv, StackInv, StackOk
    <3>2. k - 1 \in 1..Len(stack)
      BY <2>2
    <3>3. FrameOk(lines, stack[k - 1], RunningIn(stack, k - 1))
      BY <3>2 DEF JasInv, StackInv, StackOk
    <3>4. stack[k - 1].end \in 1..Last + 1
      <4>1. /\ stack[k - 1].end \in Nat /\ stack[k - 1].end <= Last + 1
            /\ stack[k - 1].at \in 1..stack[k - 1].end
        BY <2>1, <3>3 DEF FrameOk, Frame
      <4> QED BY <2>1, <4>1
    <3>5. ASSUME stack[k - 1].loop # 0, stack[k].call = 0
          PROVE  stack[k].end = FindEnd(stack[k - 1].loop, stack[k - 1].end)
      <4>1. EndsAt(lines, stack[k - 1].loop, stack[k].end) /\ stack[k].end < stack[k - 1].end
        BY <3>1, <3>5 DEF Follows
      <4> QED BY <2>1, <3>4, <4>1, EndIsFound
    <3> QED BY <2>1, <3>1, <3>5 DEF Follows
  <2> QED BY <2>3, <2>4 DEF BlocksNest
<1> QED BY <1>1, JasHolds, PTL
=============================================================================
