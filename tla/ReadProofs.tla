----------------------------- MODULE ReadProofs ------------------------------
(***************************************************************************)
(* Theorems about IntentReads: the window of the search limiter, what the   *)
(* forecast and the hygiene job may answer while deals are edited, and that *)
(* a call whose look nobody disturbed answers for the whole portal.         *)
(***************************************************************************)
EXTENDS IntentReads, FiniteSetTheorems, SequenceTheorems, WellFoundedInduction, TLAPS

-----------------------------------------------------------------------------
(* Sequences and numbers *)

LEMMA FunctionIsSeq ==
  ASSUME NEW S, NEW n \in Nat, NEW q \in [1..n -> S]
  PROVE  q \in Seq(S) /\ Len(q) = n
  BY SeqDef, LenProperties

\* A set of naturals that is not empty has a least member.
LEMMA Least ==
  ASSUME NEW T \in SUBSET Nat, T # {}
  PROVE  \E n \in T : \A m \in T : n <= m
  <1> DEFINE R == {ss \in Nat \X Nat : ss[1] < ss[2]}
  <1>1. IsWellFoundedOn(R, Nat)
    BY NatLessThanWellFounded DEF OpToRel
  <1>2. \E n \in T : \A m \in T : ~ (<<m, n>> \in R)
    <2> HIDE DEF R
    <2> QED BY <1>1, WFMin
  <1>3. ASSUME NEW n \in T, NEW m \in T, ~ (<<m, n>> \in R)
        PROVE  n <= m
    BY <1>3
  <1> QED BY <1>2, <1>3

-----------------------------------------------------------------------------
(* The members of a finite set, in a total order *)

\* The order is total and strict on S.
Orders(R, S) ==
  /\ \A x, y \in S : x = y \/ <<x, y>> \in R \/ <<y, x>> \in R
  /\ \A x \in S : <<x, x>> \notin R
  /\ \A x, y, z \in S : <<x, y>> \in R /\ <<y, z>> \in R => <<x, z>> \in R

\* In a finite set each place is taken by one member, and the places go up
\* with the order.
LEMMA InOrderIs ==
  ASSUME NEW S, IsFiniteSet(S), NEW R, Orders(R, S)
  PROVE  LET n == Cardinality(S) q == InOrder(S, R)
         IN /\ n \in Nat /\ q \in [1..n -> S]
            /\ \A i, j \in 1..n : i < j => <<q[i], q[j]>> \in R
            /\ \A x \in S : \E i \in 1..n : q[i] = x
  <1> DEFINE n == Cardinality(S)
             q == InOrder(S, R)
             Below(x) == {y \in S : <<y, x>> \in R}
             rank == [x \in S |-> Cardinality(Below(x))]
  <1>1. n \in Nat
    BY FS_CardinalityType
  <1>2. ASSUME NEW x \in S
        PROVE  IsFiniteSet(Below(x)) /\ Cardinality(Below(x)) \in 0..(n - 1)
    <2>1. Below(x) \in SUBSET S /\ x \notin Below(x)
      BY DEF Orders
    <2>2. IsFiniteSet(Below(x)) /\ Cardinality(Below(x)) \in Nat
      BY <2>1, FS_Subset, FS_CardinalityType
    <2>3. Cardinality(Below(x)) <= n /\ Cardinality(Below(x)) # n
      BY <2>1, FS_Subset
    <2> QED BY <1>1, <2>2, <2>3
  <1>3. ASSUME NEW x \in S, NEW y \in S, <<x, y>> \in R
        PROVE  Cardinality(Below(x)) < Cardinality(Below(y))
    <2>1. Below(x) \in SUBSET Below(y) /\ x \in Below(y) /\ x \notin Below(x)
      BY <1>3 DEF Orders
    <2>2. Cardinality(Below(x)) <= Cardinality(Below(y)) /\ Cardinality(Below(x)) # Cardinality(Below(y))
      BY <1>2, <2>1, FS_Subset
    <2> HIDE DEF Below
    <2> QED BY <1>1, <1>2, <2>2
  <1>4. ASSUME NEW x \in S, NEW y \in S, Cardinality(Below(x)) = Cardinality(Below(y))
        PROVE  x = y
    <2> HIDE DEF Below
    <2>1. <<x, y>> \notin R /\ <<y, x>> \notin R
      BY <1>1, <1>2, <1>3, <1>4
    <2> QED BY <2>1 DEF Orders
  <1>5. rank \in [S -> 0..(n - 1)] /\ \A x \in S : rank[x] = Cardinality(Below(x))
    BY <1>2
  <1>6. rank \in Injection(S, 0..(n - 1))
    <2>1. \A x, y \in S : rank[x] = rank[y] => x = y
      BY <1>4, <1>5
    <2>2. DOMAIN rank = S
      OBVIOUS
    <2> HIDE DEF rank
    <2> QED BY <1>5, <2>1, <2>2 DEF Injection, IsInjective
  <1>7. IsFiniteSet(0..(n - 1)) /\ Cardinality(0..(n - 1)) = n
    BY <1>1, FS_Interval
  <1>8. \A i \in 0..(n - 1) : \E x \in S : rank[x] = i
    <2>1. rank \in Surjection(S, 0..(n - 1))
      <3> HIDE DEF rank
      <3> QED BY <1>6, <1>7, FS_Injection
    <2> QED BY <2>1 DEF Surjection
  <1>9. ASSUME NEW i \in 1..n
        PROVE  q[i] \in S /\ Cardinality(Below(q[i])) = i - 1
    <2>1. i - 1 \in 0..(n - 1)
      BY <1>1
    <2>2. \E x \in S : Cardinality(Below(x)) = i - 1
      BY <1>5, <1>8, <2>1
    <2>3. q[i] = CHOOSE x \in S : Cardinality(Below(x)) = i - 1
      BY DEF InOrder
    <2> HIDE DEF q, Below
    <2> QED BY <2>2, <2>3
  <1>10. q \in [1..n -> S]
    BY <1>9 DEF InOrder
  <1>11. ASSUME NEW i \in 1..n, NEW j \in 1..n, i < j
         PROVE  <<q[i], q[j]>> \in R
    <2>1. q[i] \in S /\ q[j] \in S /\ Cardinality(Below(q[i])) = i - 1 /\ Cardinality(Below(q[j])) = j - 1
      BY <1>9
    <2> HIDE DEF q, Below
    <2>2. q[i] # q[j]
      BY <1>1, <1>11, <2>1
    <2>3. <<q[j], q[i]>> \notin R
      <3>1. <<q[j], q[i]>> \in R => Cardinality(Below(q[j])) < Cardinality(Below(q[i]))
        BY <1>3, <2>1
      <3> QED BY <1>1, <1>11, <2>1, <3>1
    <2> QED BY <2>1, <2>2, <2>3 DEF Orders
  <1>12. ASSUME NEW x \in S
         PROVE  \E i \in 1..n : q[i] = x
    <2> DEFINE i == Cardinality(Below(x)) + 1
    <2>1. i \in 1..n /\ Cardinality(Below(x)) = i - 1
      <3> HIDE DEF Below
      <3> QED BY <1>1, <1>2
    <2>2. q[i] \in S /\ Cardinality(Below(q[i])) = i - 1
      BY <1>9, <2>1
    <2> HIDE DEF i, q, Below
    <2> QED BY <1>4, <2>1, <2>2
  <1> QED BY <1>1, <1>10, <1>11, <1>12

-----------------------------------------------------------------------------
(* The window of the limiter *)

\* The stamps are the youngest of the places taken, oldest first; every place
\* that has no stamp is a window old.
LimiterOK(ages, last) ==
  /\ ages \in Seq(0..Window) /\ Len(ages) <= MaxPerWindow
  /\ last \in [1..(MaxPerWindow + 1) -> 0..Window]
  /\ \A i, j \in 1..(MaxPerWindow + 1) : i <= j => last[i] <= last[j]
  /\ \A i \in 1..Len(ages) : ages[i] = last[Len(ages) + 1 - i]
  /\ \A i \in 1..(MaxPerWindow + 1) : i > Len(ages) => last[i] = Window
LimiterInv == LimiterOK(stamps, recent)

LEMMA ExpiredIs ==
  ASSUME NEW ages \in Seq(0..Window)
  PROVE  /\ Expired(ages) \in 0..Len(ages)
         /\ \A i \in 1..Expired(ages) : ages[i] >= Window
         /\ Expired(ages) < Len(ages) => ages[Expired(ages) + 1] < Window
  <1> DEFINE T == {n \in 0..Len(ages) : n = Len(ages) \/ ages[n + 1] < Window}
  <1>1. Len(ages) \in Nat /\ Window \in Nat /\ \A i \in 1..Len(ages) : ages[i] \in 0..Window
    BY LenProperties, ReadsAssumption
  <1>2. T \in SUBSET Nat /\ Len(ages) \in T
    BY <1>1
  <1>3. PICK n \in T : \A m \in T : n <= m
    <2> HIDE DEF T
    <2> QED BY <1>2, Least
  <1>4. ASSUME NEW i \in 1..n
        PROVE  ages[i] >= Window
    <2>1. i - 1 \in 0..Len(ages) /\ i - 1 < n /\ i \in 1..Len(ages) /\ n \in Nat
      BY <1>1
    <2>2. i - 1 \notin T
      <3> HIDE DEF T
      <3> QED BY <1>1, <1>3, <2>1
    <2> QED BY <1>1, <2>1, <2>2
  <1>5. n \in 0..Len(ages) /\ (n < Len(ages) => ages[n + 1] < Window)
    BY <1>1
  <1> HIDE DEF T
  <1> QED BY <1>4, <1>5 DEF Expired

LEMMA YoungKeeps ==
  ASSUME NEW ages, NEW last, LimiterOK(ages, last)
  PROVE  LimiterOK(Young(ages), last)
  <1> DEFINE e == Expired(ages)
             kept == Young(ages)
  <1>1. /\ ages \in Seq(0..Window) /\ Len(ages) \in Nat
        /\ \A i \in 1..Len(ages) : ages[i] \in 0..Window
    BY LenProperties DEF LimiterOK
  <1>2. e \in 0..Len(ages) /\ \A i \in 1..e : ages[i] >= Window
    BY <1>1, ExpiredIs
  <1>3. /\ kept \in Seq(0..Window) /\ Len(kept) = Len(ages) - e
        /\ \A i \in 1..(Len(ages) - e) : kept[i] = ages[e + i]
    <2>1. /\ e + 1 \in 1..(Len(ages) + 1) /\ Len(ages) \in (e + 1) - 1 .. Len(ages)
          /\ Len(ages) - (e + 1) + 1 = Len(ages) - e
          /\ \A i \in 1..(Len(ages) - e) : (e + 1) + i - 1 = e + i
      BY <1>1, <1>2
    <2> HIDE DEF e
    <2> QED BY <1>1, <2>1, SubSeqProperties DEF Young, e
  <1>4. MaxPerWindow \in Nat /\ Window \in Nat
    BY ReadsAssumption
  <1> HIDE DEF e, kept
  <1>5. Len(kept) <= MaxPerWindow
    BY <1>1, <1>2, <1>3, <1>4 DEF LimiterOK
  <1>6. ASSUME NEW i \in 1..Len(kept)
        PROVE  kept[i] = last[Len(kept) + 1 - i]
    <2>1. e + i \in 1..Len(ages) /\ Len(ages) + 1 - (e + i) = Len(kept) + 1 - i
      BY <1>1, <1>2, <1>3
    <2>2. ages[e + i] = last[Len(ages) + 1 - (e + i)]
      BY <2>1 DEF LimiterOK
    <2> QED BY <1>3, <2>1, <2>2
  <1>7. ASSUME NEW i \in 1..(MaxPerWindow + 1), i > Len(kept)
        PROVE  last[i] = Window
    <2>1. CASE i > Len(ages)
      BY <2>1 DEF LimiterOK
    <2>2. CASE i <= Len(ages)
      <3>1. Len(ages) + 1 - i \in 1..e /\ Len(ages) + 1 - i \in 1..Len(ages) /\ Len(ages) + 1 - (Len(ages) + 1 - i) = i
        BY <1>1, <1>2, <1>3, <1>4, <1>7, <2>2
      <3>2. ages[Len(ages) + 1 - i] = last[i] /\ ages[Len(ages) + 1 - i] >= Window
        BY <1>2, <3>1 DEF LimiterOK
      <3> QED BY <1>1, <1>4, <3>1, <3>2
    <2> QED BY <1>1, <1>4, <2>1, <2>2
  <1> QED BY <1>3, <1>5, <1>6, <1>7 DEF LimiterOK, kept

\* A place is taken only when fewer than MaxPerWindow are younger than a window.
LEMMA TakenKeeps ==
  ASSUME NEW ages, NEW last, NEW new, LimiterOK(ages, last), HasRoom(ages),
         new = [i \in DOMAIN last |-> IF i = 1 THEN 0 ELSE last[i - 1]]
  PROVE  LimiterOK(Append(ages, 0), new)
  <1> DEFINE n == Len(ages)
             more == Append(ages, 0)
  <1>1. ages \in Seq(0..Window) /\ n \in Nat /\ MaxPerWindow \in Nat /\ Window \in Nat /\ n < MaxPerWindow
    BY LenProperties, ReadsAssumption DEF LimiterOK, HasRoom
  <1>2. /\ more \in Seq(0..Window) /\ Len(more) = n + 1 /\ more[n + 1] = 0
        /\ \A i \in 1..n : more[i] = ages[i]
    BY <1>1, AppendProperties
  <1>3. /\ DOMAIN last = 1..(MaxPerWindow + 1)
        /\ \A i \in 1..(MaxPerWindow + 1) : last[i] \in 0..Window
    BY DEF LimiterOK
  <1>4. new \in [1..(MaxPerWindow + 1) -> 0..Window] /\ new[1] = 0
        /\ \A i \in 2..(MaxPerWindow + 1) : new[i] = last[i - 1] /\ i - 1 \in 1..(MaxPerWindow + 1)
    BY <1>1, <1>3
  <1> HIDE DEF n, more
  <1>5. ASSUME NEW i \in 1..(MaxPerWindow + 1), NEW j \in 1..(MaxPerWindow + 1), i <= j
        PROVE  new[i] <= new[j]
    <2>1. CASE i = 1
      BY <1>1, <1>4, <2>1
    <2>2. CASE i # 1
      BY <1>1, <1>4, <1>5, <2>2 DEF LimiterOK
    <2> QED BY <2>1, <2>2
  <1>6. ASSUME NEW i \in 1..Len(more)
        PROVE  more[i] = new[Len(more) + 1 - i]
    <2>1. CASE i = n + 1
      BY <1>1, <1>2, <1>4, <2>1
    <2>2. CASE i # n + 1
      <3>1. i \in 1..n /\ Len(more) + 1 - i \in 2..(MaxPerWindow + 1) /\ Len(more) + 1 - i - 1 = n + 1 - i
        BY <1>1, <1>2, <2>2
      <3> QED BY <1>2, <1>4, <3>1 DEF LimiterOK, n
    <2> QED BY <2>1, <2>2
  <1>7. ASSUME NEW i \in 1..(MaxPerWindow + 1), i > Len(more)
        PROVE  new[i] = Window
    <2>1. i \in 2..(MaxPerWindow + 1) /\ i - 1 \in 1..(MaxPerWindow + 1) /\ i - 1 > n
      BY <1>1, <1>2, <1>7
    <2> QED BY <1>4, <2>1 DEF LimiterOK, n
  <1>8. more \in Seq(0..Window) /\ Len(more) <= MaxPerWindow /\ new \in [1..(MaxPerWindow + 1) -> 0..Window]
    BY <1>1, <1>2, <1>4
  <1>9. LimiterOK(more, new)
    BY <1>5, <1>6, <1>7, <1>8 DEF LimiterOK
  <1> QED BY <1>9 DEF more

LEMMA OlderKeeps ==
  ASSUME NEW ages, NEW last, LimiterOK(ages, last)
  PROVE  LimiterOK([i \in DOMAIN ages |-> Older(ages[i])], [i \in DOMAIN last |-> Older(last[i])])
  <1> DEFINE more == [i \in DOMAIN ages |-> Older(ages[i])]
             new == [i \in DOMAIN last |-> Older(last[i])]
  <1>1. MaxPerWindow \in Nat /\ Window \in Nat /\ Len(ages) \in Nat /\ DOMAIN ages = 1..Len(ages)
        /\ \A i \in 1..Len(ages) : ages[i] \in 0..Window
    BY LenProperties, ReadsAssumption DEF LimiterOK
  <1>2. \A a \in 0..Window : Older(a) \in 0..Window
    BY <1>1 DEF Older, MinOf
  <1>3. \A a, b \in 0..Window : a <= b => Older(a) <= Older(b)
    BY <1>1 DEF Older, MinOf
  <1>4. Older(Window) = Window
    BY <1>1 DEF Older, MinOf
  <1>5. more \in Seq(0..Window) /\ Len(more) = Len(ages)
    <2>1. more \in [1..Len(ages) -> 0..Window]
      BY <1>1, <1>2
    <2> QED BY <1>1, <2>1, FunctionIsSeq
  <1>6. new \in [1..(MaxPerWindow + 1) -> 0..Window]
        /\ \A i \in 1..(MaxPerWindow + 1) : new[i] = Older(last[i]) /\ last[i] \in 0..Window
    BY <1>2 DEF LimiterOK
  <1>7. \A i \in 1..Len(ages) : more[i] = Older(ages[i])
    BY <1>1
  <1> HIDE DEF more, new
  <1>8. \A i, j \in 1..(MaxPerWindow + 1) : i <= j => new[i] <= new[j]
    BY <1>3, <1>6 DEF LimiterOK
  <1>9. ASSUME NEW i \in 1..Len(more)
        PROVE  more[i] = new[Len(more) + 1 - i]
    <2>1. Len(ages) + 1 - i \in 1..(MaxPerWindow + 1) /\ i \in 1..Len(ages)
      BY <1>1, <1>5 DEF LimiterOK
    <2> QED BY <1>5, <1>6, <1>7, <2>1 DEF LimiterOK
  <1>10. \A i \in 1..(MaxPerWindow + 1) : i > Len(more) => new[i] = Window
    BY <1>4, <1>5, <1>6 DEF LimiterOK
  <1> QED BY <1>5, <1>6, <1>8, <1>9, <1>10 DEF LimiterOK, more, new

LEMMA LimiterInit == Init => LimiterInv
  <1> SUFFICES ASSUME Init PROVE LimiterInv
    OBVIOUS
  <1>1. MaxPerWindow \in Nat /\ Window \in Nat
    BY ReadsAssumption
  <1>2. stamps = <<>> /\ recent = [i \in 1..(MaxPerWindow + 1) |-> Window]
    BY DEF Init
  <1>3. stamps \in Seq(0..Window) /\ Len(stamps) = 0
    BY <1>2, EmptySeq
  <1> QED BY <1>1, <1>2, <1>3 DEF LimiterInv, LimiterOK

LEMMA LimiterStep == LimiterInv /\ [Next]_vars => LimiterInv'
  <1> SUFFICES ASSUME LimiterInv, [Next]_vars
               PROVE  LimiterInv'
    OBVIOUS
  <1> USE DEF LimiterInv
  <1>1. ASSUME NEW c \in Calls, Step(c)
        PROVE  LimiterInv'
    <2>1. CASE Acquire(c)
      BY <2>1, YoungKeeps, TakenKeeps DEF Acquire
    <2>2. CASE Limit(c)
      BY <2>2, YoungKeeps DEF Limit
    <2>3. CASE ~ (Acquire(c) \/ Limit(c))
      <3>1. UNCHANGED <<stamps, recent>>
        BY <1>1, <2>3 DEF Step, Start, ResolveOwner, OwnersFail, Ask, Wake, ReadPage, Refused, SearchFails,
              Compute, LookupFails
      <3> QED BY <3>1
    <2> QED BY <2>1, <2>2, <2>3
  <1>2. CASE Tick
    BY <1>2, OlderKeeps DEF Tick
  <1>3. CASE CacheExpires \/ Edit \/ UNCHANGED vars
    BY <1>3 DEF CacheExpires, Edit, vars
  <1> QED BY <1>1, <1>2, <1>3 DEF Next

\* Of MaxPerWindow + 1 searches in a row the first is a window old when the last is sent, however
\* many calls wait for a place, retry or sleep (common.py:184).
THEOREM SearchesKeepTheWindow == Spec => []WindowKept
  <1>1. LimiterInv => WindowKept
    <2> SUFFICES ASSUME LimiterInv PROVE WindowKept
      OBVIOUS
    <2>1. Len(stamps) \in Nat /\ MaxPerWindow \in Nat /\ Window \in Nat
      BY LenProperties, ReadsAssumption DEF LimiterInv, LimiterOK
    <2>2. MaxPerWindow + 1 \in 1..(MaxPerWindow + 1) /\ MaxPerWindow + 1 > Len(stamps)
      BY <2>1 DEF LimiterInv, LimiterOK
    <2> QED BY <2>1, <2>2 DEF LimiterInv, LimiterOK, WindowKept
  <1> QED BY <1>1, LimiterInit, LimiterStep, PTL DEF Spec

-----------------------------------------------------------------------------
(* What a search sends *)

Records == [id : Ids, p : Props]

\* Deals with ids of their own come in one order.
LEMMA ByIdOrders ==
  ASSUME NEW S, \A d \in S : d.id \in Int, \A d, e \in S : d.id = e.id => d = e
  PROVE  Orders(ById(S), S)
  <1>1. \A d, e \in S : <<d, e>> \in ById(S) <=> d.id < e.id
    BY DEF ById
  <1> QED BY <1>1 DEF Orders

LEMMA HitsAre ==
  ASSUME NEW J \in SUBSET Ids, NEW D \in [Ids -> Props], NEW S, S = {[id |-> i, p |-> D[i]] : i \in J}
  PROVE  InOrder(S, ById(S)) \in Seq(Records)
  <1> DEFINE f == [i \in J |-> [id |-> i, p |-> D[i]]]
  <1>1. f \in Surjection(J, S)
    BY DEF Surjection
  <1>2. IsFiniteSet(S)
    <2>1. IsFiniteSet(J)
      BY ReadsAssumption, FS_Subset
    <2> HIDE DEF f
    <2> QED BY <1>1, <2>1, FS_Surjection
  <1>3. S \in SUBSET Records /\ \A d \in S : d.id \in Int
    BY ReadsAssumption DEF Records
  <1>4. \A d, e \in S : d.id = e.id => d = e
    OBVIOUS
  <1>5. Orders(ById(S), S)
    BY <1>3, <1>4, ByIdOrders
  <1>6. Cardinality(S) \in Nat /\ InOrder(S, ById(S)) \in [1..Cardinality(S) -> S]
    BY <1>2, <1>5, InOrderIs
  <1>7. InOrder(S, ById(S)) \in [1..Cardinality(S) -> Records]
    BY <1>3, <1>6
  <1> QED BY <1>6, <1>7, FunctionIsSeq

LEMMA PageIs ==
  ASSUME NEW S, NEW hits \in Seq(S), NEW after \in Nat, NEW limit \in Nat
  PROVE  Page(hits, after, limit) \in Seq(S)
  <1>1. Len(hits) \in Nat
    BY LenProperties
  <1> DEFINE m == after + 1
             n == MinOf(after + limit, Len(hits))
  <1>2. m \in Nat /\ n \in Nat /\ n <= Len(hits) /\ m >= 1
    BY <1>1 DEF MinOf
  <1>3. CASE n < m
    <2>1. SubSeq(hits, m, n) = <<>>
      <3> HIDE DEF m, n
      <3> QED BY <1>2, <1>3, SubSeqEmpty
    <2> QED BY <2>1, EmptySeq DEF Page
  <1>4. CASE m <= n
    <2>1. m \in 1..(Len(hits) + 1) /\ n \in (m - 1)..Len(hits)
      BY <1>1, <1>2, <1>4
    <2>2. SubSeq(hits, m, n) \in Seq(S)
      <3> HIDE DEF m, n
      <3> QED BY <2>1, SubSeqProperties
    <2> QED BY <2>2 DEF Page
  <1> QED BY <1>2, <1>3, <1>4

LEMMA LimitIs ==
  ASSUME NEW k, k.got \in Seq(Records)
  PROVE  PageLimit(k) \in Nat \ {0}
  <1> DEFINE x == MinOf(PageSize, ResultCap - Len(k.got))
  <1>1. x \in Int
    BY ReadsAssumption, LenProperties DEF MinOf
  <1>2. Max({1, x}) \in Int /\ Max({1, x}) >= 1
    <2> HIDE DEF x
    <2>1. \E y \in {1, x} : \A z \in {1, x} : y >= z
      <3>1. CASE x >= 1
        <4> WITNESS x \in {1, x}
        <4> QED BY <1>1, <3>1
      <3>2. CASE x < 1
        <4> WITNESS 1 \in {1, x}
        <4> QED BY <1>1, <3>2
      <3> QED BY <1>1, <3>1, <3>2
    <2>2. Max({1, x}) \in {1, x} /\ \A z \in {1, x} : Max({1, x}) >= z
      <3> DEFINE T == {1, x}
      <3>1. \E y \in T : \A z \in T : y >= z
        BY <2>1
      <3> HIDE DEF T
      <3>2. Max(T) \in T /\ \A z \in T : Max(T) >= z
        BY <3>1 DEF Max
      <3> QED BY <3>2 DEF T
    <2> QED BY <1>1, <2>2
  <1> QED BY <1>2 DEF PageLimit

-----------------------------------------------------------------------------
(* Where a call is *)

Fields == {"pc", "job", "rules", "owner", "search", "after", "got", "found", "cut", "seen", "attempt", "wait",
           "dirty", "answer"}
\* What a call that did not fail checked when it started.
Sane(k) ==
  /\ k.job \in Jobs /\ k.rules \in RuleFiles \ {None}
  /\ k.job.kind = "hygiene" => NewDate(k.job.newDate, Given(k.rules.asOf, Today)) # None
\* What a call has read are deals, and what it answered it computed from them.
CallOK(k) ==
  /\ DOMAIN k = Fields
  /\ k.got \in Seq(Records) /\ k.found \in Seq(Records) /\ k.after \in Nat
  /\ k.pc # "idle" => Sane(k) \/ (k.pc = "done" /\ k.answer = Failed)
  /\ k.pc = "done" => k.answer \in {Failed, Answer(k)}
CallsInv ==
  /\ deals \in [Ids -> Props]
  /\ DOMAIN calls = Calls /\ \A c \in Calls : CallOK(calls[c])

\* An answer is made of the job, the rules and what was found.
LEMMA AnswerOf ==
  ASSUME NEW k, NEW k2, k2.job = k.job, k2.rules = k.rules, k2.found = k.found, k2.cut = k.cut
  PROVE  Answer(k2) = Answer(k)
  BY DEF Answer, AsOf, Bounds

LEMMA SaneOf ==
  ASSUME NEW k, NEW k2, k2.job = k.job, k2.rules = k.rules, Sane(k)
  PROVE  Sane(k2)
  BY DEF Sane

LEMMA Continues ==
  ASSUME NEW k, CallOK(k), k.pc \notin {"idle", "done"},
         NEW k2, DOMAIN k2 = Fields, k2.job = k.job, k2.rules = k.rules, k2.pc \notin {"idle", "done"},
         k2.got \in Seq(Records), k2.found \in Seq(Records), k2.after \in Nat
  PROVE  CallOK(k2)
  BY SaneOf DEF CallOK

LEMMA Finishes ==
  ASSUME NEW k, CallOK(k), k.pc \notin {"idle", "done"}, NEW answer \in {Failed, Answer(k)}
  PROVE  CallOK([k EXCEPT !.pc = "done", !.answer = answer])
  <1> DEFINE k2 == [k EXCEPT !.pc = "done", !.answer = answer]
  <1>1. /\ DOMAIN k2 = Fields /\ k2.job = k.job /\ k2.rules = k.rules /\ k2.found = k.found /\ k2.cut = k.cut
        /\ k2.got = k.got /\ k2.after = k.after /\ k2.pc = "done" /\ k2.answer = answer
    BY DEF CallOK, Fields
  <1>2. Sane(k)
    BY DEF CallOK
  <1> HIDE DEF k2
  <1>3. Answer(k2) = Answer(k) /\ Sane(k2)
    BY <1>1, <1>2, AnswerOf, SaneOf
  <1>4. CallOK(k2)
    BY <1>1, <1>3 DEF CallOK
  <1> QED BY <1>4 DEF k2

\* Time that passes and edits leave what a call has read and answered.
LEMMA Stays ==
  ASSUME NEW k, CallOK(k), NEW k2, DOMAIN k2 = Fields, \A f \in Fields \ {"wait", "dirty"} : k2[f] = k[f]
  PROVE  CallOK(k2)
  <1>1. /\ k2.job = k.job /\ k2.rules = k.rules /\ k2.found = k.found /\ k2.cut = k.cut
        /\ k2.got = k.got /\ k2.after = k.after /\ k2.pc = k.pc /\ k2.answer = k.answer
    BY DEF Fields
  <1>2. Answer(k2) = Answer(k) /\ (Sane(k) => Sane(k2))
    BY <1>1, AnswerOf, SaneOf
  <1> QED BY <1>1, <1>2 DEF CallOK

\* One call moves, the others stay where they are.
LEMMA OneMoves ==
  ASSUME CallsInv, NEW c \in Calls, NEW k2, CallOK(k2), calls' = [calls EXCEPT ![c] = k2], UNCHANGED deals
  PROVE  CallsInv'
  BY DEF CallsInv

LEMMA TakesPage ==
  ASSUME NEW k, CallOK(k), k.pc = "send", NEW results \in Seq(Records), NEW next \in Nat \cup {None}
  PROVE  CallOK(TakePage(k, results, next))
  <1>1. DOMAIN k = Fields /\ k.got \in Seq(Records) /\ k.found \in Seq(Records)
    BY DEF CallOK
  <1>2. k.found \o results \in Seq(Records) /\ <<>> \in Seq(Records)
    BY <1>1, ConcatProperties, EmptySeq
  <1>3. ASSUME NEW cut
        PROVE  CallOK(NextSearch(k, results, cut))
    <2> DEFINE k2 == NextSearch(k, results, cut)
    <2>1. /\ DOMAIN k2 = Fields /\ k2.job = k.job /\ k2.rules = k.rules /\ k2.pc \in {"context", "ask"}
          /\ k2.got = <<>> /\ k2.found = k.found \o results /\ k2.after = 0
      BY <1>1 DEF NextSearch, Fields
    <2>2. k2.got \in Seq(Records) /\ k2.found \in Seq(Records) /\ k2.after \in Nat /\ k2.pc \notin {"idle", "done"}
      BY <1>2, <2>1
    <2> HIDE DEF k2
    <2>3. CallOK(k2)
      BY <2>1, <2>2, Continues
    <2> QED BY <2>3 DEF k2
  <1>4. ASSUME next \in Nat
        PROVE  CallOK(NextPage(k, results, next))
    <2> DEFINE k2 == NextPage(k, results, next)
    <2>1. /\ DOMAIN k2 = Fields /\ k2.job = k.job /\ k2.rules = k.rules /\ k2.pc = "ask"
          /\ k2.got = results /\ k2.found = k.found /\ k2.after = next
      BY <1>1 DEF NextPage, Fields
    <2> HIDE DEF k2
    <2>2. CallOK(k2)
      BY <1>1, <1>4, <2>1, Continues
    <2> QED BY <2>2 DEF k2
  <1>5. CallOK([k EXCEPT !.pc = "done", !.answer = Failed])
    BY Finishes
  <1> QED BY <1>3, <1>4, <1>5 DEF TakePage

LEMMA ReadAll ==
  ASSUME CallsInv, NEW c \in Calls, ReadPage(c)
  PROVE  CallsInv'
  <1> DEFINE k == calls[c]
             f == Searches(k)[k.search]
             J == {j \in Ids : Matches(deals[j], f)}
             S == {[id |-> i, p |-> deals[i]] : i \in J}
             sent == InOrder(S, ById(S))
             results == k.got \o Page(sent, k.after, PageLimit(k))
             proper == Cursor(sent, k.after, PageLimit(k))
  <1>1. CallOK(k) /\ k.pc = "send" /\ deals \in [Ids -> Props]
    BY DEF CallsInv, ReadPage, At
  <1>2. sent \in Seq(Records)
    <2>1. J \in SUBSET Ids /\ S = {[id |-> i, p |-> deals[i]] : i \in J}
      OBVIOUS
    <2> HIDE DEF J, S
    <2> QED BY <1>1, <2>1, HitsAre
  <1>3. Hits(f) = sent
    BY DEF Hits
  <1> HIDE DEF sent, f
  <1>4. k.got \in Seq(Records) /\ k.after \in Nat /\ PageLimit(k) \in Nat
    BY <1>1, LimitIs DEF CallOK
  <1>5. results \in Seq(Records) /\ proper \in Nat \cup {None}
    <2>1. Page(sent, k.after, PageLimit(k)) \in Seq(Records)
      BY <1>2, <1>4, PageIs
    <2>2. Len(sent) \in Nat
      BY <1>2, LenProperties
    <2> QED BY <1>4, <2>1, <2>2, ConcatProperties DEF Cursor
  <1>6. \/ calls' = [calls EXCEPT ![c] = TakePage(k, results, proper)]
        \/ calls' = [calls EXCEPT ![c] = TakePage(k, results, k.after)]
    BY <1>3 DEF ReadPage, f
  <1>7. CallOK(TakePage(k, results, proper)) /\ CallOK(TakePage(k, results, k.after))
    <2> HIDE DEF results, proper
    <2> QED BY <1>1, <1>4, <1>5, TakesPage
  <1> HIDE DEF results, proper
  <1> QED BY <1>6, <1>7, OneMoves DEF ReadPage

LEMMA StartChecks ==
  ASSUME CallsInv, NEW c \in Calls, Start(c)
  PROVE  CallsInv'
  <1> DEFINE k == calls[c]
  <1>1. CallOK(k) /\ DOMAIN k = Fields /\ k.got \in Seq(Records) /\ k.found \in Seq(Records) /\ k.after \in Nat
    BY DEF CallsInv, CallOK
  <1>2. PICK job \in Jobs, rules \in RuleFiles :
          IF \/ rules = None
             \/ job.kind = "hygiene" /\ NewDate(job.newDate, Given(rules.asOf, Today)) = None
             \/ job.owner \in SelfWords /\ rules.defaultOwner = None
          THEN calls' = [calls EXCEPT ![c].pc = "done", ![c].job = job, ![c].rules = rules, ![c].answer = Failed]
          ELSE calls' = [calls EXCEPT ![c].job = job, ![c].rules = rules,
                                      ![c].pc = IF Wanted(job, rules) = None THEN "ask" ELSE "owner"]
    BY Zenon DEF Start
  <1> DEFINE failed == [k EXCEPT !.pc = "done", !.job = job, !.rules = rules, !.answer = Failed]
             started == [k EXCEPT !.job = job, !.rules = rules,
                                  !.pc = IF Wanted(job, rules) = None THEN "ask" ELSE "owner"]
  <1>3. CallOK(failed)
    <2>1. /\ DOMAIN failed = Fields /\ failed.pc = "done" /\ failed.answer = Failed
          /\ failed.got = k.got /\ failed.found = k.found /\ failed.after = k.after
      BY <1>1 DEF Fields
    <2> HIDE DEF failed
    <2> QED BY <1>1, <2>1 DEF CallOK
  <1>4. ASSUME rules # None,
               job.kind = "hygiene" => NewDate(job.newDate, Given(rules.asOf, Today)) # None
        PROVE  CallOK(started)
    <2>1. /\ DOMAIN started = Fields /\ started.pc \in {"ask", "owner"} /\ started.job = job
          /\ started.rules = rules /\ started.got = k.got /\ started.found = k.found /\ started.after = k.after
      BY <1>1 DEF Fields
    <2> HIDE DEF started
    <2>2. Sane(started)
      BY <1>4, <2>1 DEF Sane
    <2> QED BY <1>1, <2>1, <2>2 DEF CallOK
  <1>5. \/ calls' = [calls EXCEPT ![c] = failed]
        \/ /\ rules # None /\ (job.kind = "hygiene" => NewDate(job.newDate, Given(rules.asOf, Today)) # None)
           /\ calls' = [calls EXCEPT ![c] = started]
    BY <1>2
  <1>6. UNCHANGED deals
    BY DEF Start
  <1> HIDE DEF failed, started
  <1> QED BY <1>3, <1>4, <1>5, <1>6, OneMoves

LEMMA CallsInit == Init => CallsInv
  <1> SUFFICES ASSUME Init PROVE CallsInv
    OBVIOUS
  <1>1. deals \in [Ids -> Props]
    BY ReadsAssumption DEF Init, Props
  <1>2. CallOK(Idle)
    <2>1. DOMAIN Idle = Fields
      BY DEF Idle, Fields
    <2>2. Idle.pc = "idle" /\ Idle.got = <<>> /\ Idle.found = <<>> /\ Idle.after = 0
      BY DEF Idle
    <2>3. <<>> \in Seq(Records)
      BY EmptySeq
    <2> QED BY <2>1, <2>2, <2>3 DEF CallOK
  <1> QED BY <1>1, <1>2 DEF Init, CallsInv

\* The other steps of a call: it goes on with what it has, or it fails.
LEMMA OthersKeep ==
  ASSUME CallsInv, NEW c \in Calls, Step(c), ~Start(c), ~ReadPage(c)
  PROVE  CallsInv'
  <1> DEFINE k == calls[c]
  <1>1. CallOK(k) /\ DOMAIN k = Fields /\ k.got \in Seq(Records) /\ k.found \in Seq(Records) /\ k.after \in Nat
    BY DEF CallsInv, CallOK
  <1>2. UNCHANGED deals
    BY DEF Step, ResolveOwner, OwnersFail, Ask, Acquire, Limit, Wake, Refused, SearchFails, Compute, LookupFails
  <1>3. ASSUME k.pc \notin {"idle", "done"}, NEW answer \in {Failed, Answer(k)}, Ends(c, answer)
        PROVE  CallsInv'
    <2>1. calls' = [calls EXCEPT ![c] = [k EXCEPT !.pc = "done", !.answer = answer]]
      BY <1>3 DEF Ends
    <2>2. CallOK([k EXCEPT !.pc = "done", !.answer = answer])
      BY <1>1, <1>3, Finishes
    <2> QED BY <1>2, <2>1, <2>2, OneMoves
  <1>4. ASSUME k.pc \notin {"idle", "done"}, NEW pc, pc \notin {"idle", "done"}, Goes(c, pc)
        PROVE  CallsInv'
    <2> DEFINE k2 == [k EXCEPT !.pc = pc]
    <2>1. calls' = [calls EXCEPT ![c] = k2]
      BY <1>4 DEF Goes
    <2>2. /\ DOMAIN k2 = Fields /\ k2.pc = pc /\ k2.job = k.job /\ k2.rules = k.rules
          /\ k2.got = k.got /\ k2.found = k.found /\ k2.after = k.after
      BY <1>1 DEF Fields
    <2> HIDE DEF k2
    <2>3. CallOK(k2)
      BY <1>1, <1>4, <2>2, Continues
    <2> QED BY <1>2, <2>1, <2>3, OneMoves
  <1>5. CASE ResolveOwner(c)
    <2>1. k.pc = "owner" /\ Resolve(c)
      BY <1>5 DEF ResolveOwner, At
    <2> DEFINE k2 == [k EXCEPT !.pc = "ask", !.owner = CHOOSE o \in FindOwner(Wanted(k.job, k.rules)) : TRUE]
    <2>2. calls' = [calls EXCEPT ![c] = k2] \/ Ends(c, Failed)
      BY <2>1 DEF Resolve
    <2>3. /\ DOMAIN k2 = Fields /\ k2.pc = "ask" /\ k2.job = k.job /\ k2.rules = k.rules
          /\ k2.got = k.got /\ k2.found = k.found /\ k2.after = k.after
      BY <1>1 DEF Fields
    <2> HIDE DEF k2
    <2>4. CallOK(k2)
      BY <1>1, <2>1, <2>3, Continues
    <2> QED BY <1>2, <1>3, <2>1, <2>2, <2>4, OneMoves
  <1>6. CASE OwnersFail(c) \/ SearchFails(c) \/ LookupFails(c)
    BY <1>3, <1>6 DEF OwnersFail, SearchFails, LookupFails, At
  <1>7. CASE Compute(c)
    BY <1>3, <1>7 DEF Compute, At
  <1>8. CASE Ask(c) \/ Acquire(c) \/ Wake(c)
    BY <1>4, <1>8 DEF Ask, Acquire, Wake, Woken, At
  <1>9. CASE Limit(c)
    <2> DEFINE k2 == [k EXCEPT !.pc = "limited", !.wait = Window - Head(stamps')]
    <2>1. calls' = [calls EXCEPT ![c] = k2] /\ k.pc = "queued"
      BY <1>9 DEF Limit, At
    <2>2. /\ DOMAIN k2 = Fields /\ k2.pc = "limited" /\ k2.job = k.job /\ k2.rules = k.rules
          /\ k2.got = k.got /\ k2.found = k.found /\ k2.after = k.after
      BY <1>1 DEF Fields
    <2> HIDE DEF k2
    <2>3. CallOK(k2)
      BY <1>1, <2>1, <2>2, Continues
    <2> QED BY <1>2, <2>1, <2>3, OneMoves
  <1>10. CASE Refused(c)
    <2>1. k.pc = "send"
      BY <1>10 DEF Refused, At
    <2>2. CASE Ends(c, Failed)
      BY <1>3, <2>1, <2>2
    <2>3. CASE \E r \in RetryAfters : calls' = [calls EXCEPT ![c].pc = "backoff", ![c].attempt = @ + 1,
                                                             ![c].wait = RetryWait(r, calls[c].attempt)]
      <3>1. PICK r \in RetryAfters : calls' = [calls EXCEPT ![c].pc = "backoff", ![c].attempt = @ + 1,
                                                             ![c].wait = RetryWait(r, calls[c].attempt)]
        BY <2>3
      <3> DEFINE k2 == [k EXCEPT !.pc = "backoff", !.attempt = @ + 1, !.wait = RetryWait(r, k.attempt)]
      <3>2. calls' = [calls EXCEPT ![c] = k2]
        BY <3>1
      <3>3. /\ DOMAIN k2 = Fields /\ k2.pc = "backoff" /\ k2.job = k.job /\ k2.rules = k.rules
            /\ k2.got = k.got /\ k2.found = k.found /\ k2.after = k.after
        BY <1>1 DEF Fields
      <3> HIDE DEF k2
      <3>4. CallOK(k2)
        BY <1>1, <2>1, <3>3, Continues
      <3> QED BY <1>2, <3>2, <3>4, OneMoves
    <2> QED BY <1>10, <2>2, <2>3 DEF Refused
  <1> QED BY <1>5, <1>6, <1>7, <1>8, <1>9, <1>10 DEF Step

LEMMA CallsStep == CallsInv /\ [Next]_vars => CallsInv'
  <1> SUFFICES ASSUME CallsInv, [Next]_vars
               PROVE  CallsInv'
    OBVIOUS
  <1>1. ASSUME NEW c \in Calls, Step(c)
        PROVE  CallsInv'
    BY <1>1, StartChecks, ReadAll, OthersKeep
  <1>2. ASSUME Tick \/ Edit
        PROVE  CallsInv'
    <2>1. DOMAIN calls' = Calls /\ \A c \in Calls : calls'[c] \in {[calls[c] EXCEPT !.wait = Max({@ - 1, 0})],
              [calls[c] EXCEPT !.dirty = @ \/ calls[c].pc \notin {"idle", "done"}]}
      BY <1>2 DEF Tick, Edit
    <2>2. ASSUME NEW c \in Calls
          PROVE  CallOK(calls'[c])
      <3>1. CallOK(calls[c]) /\ DOMAIN calls[c] = Fields
        BY DEF CallsInv, CallOK
      <3>2. DOMAIN calls'[c] = Fields /\ \A f \in Fields \ {"wait", "dirty"} : calls'[c][f] = calls[c][f]
        <4>1. ASSUME NEW v, calls'[c] = [calls[c] EXCEPT !.wait = v]
              PROVE  DOMAIN calls'[c] = Fields /\ \A f \in Fields \ {"wait", "dirty"} : calls'[c][f] = calls[c][f]
          BY <3>1, <4>1
        <4>2. ASSUME NEW v, calls'[c] = [calls[c] EXCEPT !.dirty = v]
              PROVE  DOMAIN calls'[c] = Fields /\ \A f \in Fields \ {"wait", "dirty"} : calls'[c][f] = calls[c][f]
          BY <3>1, <4>2
        <4> QED BY <2>1, <4>1, <4>2
      <3> QED BY <3>1, <3>2, Stays
    <2>3. deals' \in [Ids -> Props]
      BY <1>2 DEF Tick, Edit, CallsInv, Props
    <2> QED BY <2>1, <2>2, <2>3 DEF CallsInv
  <1>3. CASE CacheExpires \/ UNCHANGED vars
    BY <1>3 DEF CacheExpires, vars, CallsInv
  <1> QED BY <1>1, <1>2, <1>3 DEF Next

-----------------------------------------------------------------------------
(* The forecast *)

LEMMA WithKeeps ==
  ASSUME NEW new, NEW old, NEW f \in DOMAIN old, f \notin DOMAIN new
  PROVE  With(new, old)[f] = old[f]
  BY DEF With

\* One record per deal, whatever the searches sent.
LEMMA UniqueIs ==
  ASSUME NEW q \in Seq(Records)
  PROVE  /\ Unique(q) \in SUBSET Records
         /\ \A d, e \in Unique(q) : d.id = e.id => d = e
  <1>1. DOMAIN q = 1..Len(q) /\ Len(q) \in Nat /\ \A i \in 1..Len(q) : q[i] \in Records
    BY LenProperties
  <1>2. \A d \in Unique(q) : \E i \in 1..Len(q) : d = q[i] /\ \A j \in 1..(i - 1) : q[j].id # q[i].id
    BY <1>1 DEF Unique
  <1>3. ASSUME NEW d \in Unique(q), NEW e \in Unique(q), d.id = e.id
        PROVE  d = e
    <2>1. PICK i \in 1..Len(q) : d = q[i] /\ \A j \in 1..(i - 1) : q[j].id # q[i].id
      BY <1>2
    <2>2. PICK j \in 1..Len(q) : e = q[j] /\ \A m \in 1..(j - 1) : q[m].id # q[j].id
      BY <1>2
    <2>3. ~ (i < j) /\ ~ (j < i)
      BY <1>1, <1>3, <2>1, <2>2
    <2> QED BY <1>1, <2>1, <2>2, <2>3
  <1> QED BY <1>1, <1>2, <1>3

OpenOf(q) == {d \in Unique(q) : ~ClosedDeal(d.p, StageOf(Pipelines, d.p))}
WonOf(q, bounds) ==
  {d \in Unique(q) \ OpenOf(q) : WonDeal(d.p, StageOf(Pipelines, d.p)) /\ InPeriod(d.p, bounds)}
InsideOf(q, bounds) == {d \in OpenOf(q) : InPeriod(d.p, bounds)}
RowAt(d, rules, asOf) == Row(d, StageOf(Pipelines, d.p), rules, rules.home, asOf)

ForecastOf(a, q, cut, rules, bounds, asOf) ==
  /\ a.won = IdsOf(WonOf(q, bounds)) /\ a.open = IdsOf(InsideOf(q, bounds))
  /\ a.outside = IdsOf(OpenOf(q) \ InsideOf(q, bounds)) /\ a.truncated = cut
  /\ rules.home # None => a.figures = Figures({RowAt(d, rules, asOf) : d \in WonOf(q, bounds)},
                                              {RowAt(d, rules, asOf) : d \in InsideOf(q, bounds)})

LEMMA ForecastParts ==
  ASSUME NEW q, NEW cut, NEW rules, NEW bounds, NEW asOf,
         NEW a, a = ComputeForecast(q, cut, rules, bounds, Pipelines, asOf)
  PROVE  ForecastOf(a, q, cut, rules, bounds, asOf)
  <1> DEFINE all == Unique(q)
             open == {d \in all : ~ClosedDeal(d.p, StageOf(Pipelines, d.p))}
             won == {d \in all \ open : WonDeal(d.p, StageOf(Pipelines, d.p)) /\ InPeriod(d.p, bounds)}
             inside == {d \in open : InPeriod(d.p, bounds)}
             base == [kind |-> "forecast", available |-> TRUE, won |-> IdsOf(won), open |-> IdsOf(inside),
                      outside |-> IdsOf(open \ inside), truncated |-> cut]
             home == HomeCurrency(rules, won \cup inside)
             RowsOf(S) == {Row(d, StageOf(Pipelines, d.p), rules, home, asOf) : d \in S}
             figures == Figures(RowsOf(won), RowsOf(inside))
             slipped == {d.id : d \in {e \in open \ inside : e.p.close # None /\ e.p.close < bounds.start}}
             excluded == {r.id : r \in {x \in RowsOf(won) \cup Counted(RowsOf(inside)) : x.home = None}}
             movers == [i \in DOMAIN Movers(RowsOf(inside)) |-> Movers(RowsOf(inside))[i].id]
             new == [figures |-> figures, slipped |-> slipped, excluded |-> excluded, movers |-> movers]
             mixed == MixedCurrencies(rules, won \cup inside)
  <1>1. a = IF mixed THEN [base EXCEPT !.available = FALSE] ELSE With(new, base)
    BY Zenon DEF ComputeForecast
  <1>2. /\ DOMAIN new = {"figures", "slipped", "excluded", "movers"} /\ new.figures = figures
    <2> HIDE DEF figures, slipped, excluded, movers
    <2> QED OBVIOUS
  <1>3. DOMAIN base = {"kind", "available", "won", "open", "outside", "truncated"}
        /\ base.won = IdsOf(won) /\ base.open = IdsOf(inside) /\ base.outside = IdsOf(open \ inside)
        /\ base.truncated = cut
    <2> HIDE DEF won, inside, open
    <2> QED OBVIOUS
  <1>4. rules.home # None => ~mixed /\ home = rules.home
    <2> HIDE DEF won, inside
    <2> QED BY DEF MixedCurrencies, HomeCurrency
  <1>5. open = OpenOf(q) /\ won = WonOf(q, bounds) /\ inside = InsideOf(q, bounds)
    BY DEF OpenOf, WonOf, InsideOf
  <1>6. rules.home # None => RowsOf(won) = {RowAt(d, rules, asOf) : d \in won}
                             /\ RowsOf(inside) = {RowAt(d, rules, asOf) : d \in inside}
    <2> HIDE DEF won, inside, home
    <2> QED BY <1>4 DEF RowAt
  <1> HIDE DEF won, inside, open, base, new, mixed, home, RowsOf
  <1>7. a.won = base.won /\ a.open = base.open /\ a.outside = base.outside
        /\ a.truncated = base.truncated
    <2>1. \A f \in {"won", "open", "outside", "truncated"} : With(new, base)[f] = base[f]
      BY <1>2, <1>3, WithKeeps
    <2>2. CASE mixed
      BY <1>1, <1>3, <2>2
    <2>3. CASE ~mixed
      BY <1>1, <2>1, <2>3
    <2> QED BY <2>2, <2>3
  <1>8. rules.home # None => a.figures = figures
    <2>1. With(new, base)["figures"] = new["figures"]
      BY <1>2 DEF With
    <2> QED BY <1>1, <1>2, <1>4, <2>1
  <1>9. rules.home # None => a.figures = Figures({RowAt(d, rules, asOf) : d \in won},
                                                 {RowAt(d, rules, asOf) : d \in inside})
    BY <1>6, <1>8
  <1> QED BY <1>3, <1>5, <1>7, <1>9 DEF ForecastOf

\* The deals of a forecast are those found, each in one of three places.
OnePlaceEach(a, deal) ==
  \E won, inside, rest \in SUBSET deal :
    /\ a.won = IdsOf(won) /\ a.open = IdsOf(inside) /\ a.outside = IdsOf(rest)
    /\ won \cap (inside \cup rest) = {} /\ inside \cap rest = {}

LEMMA ForecastSets ==
  ASSUME NEW q, NEW cut, NEW rules, NEW bounds, NEW asOf,
         NEW a, a = ComputeForecast(q, cut, rules, bounds, Pipelines, asOf)
  PROVE  OnePlaceEach(a, Unique(q))
  <1> DEFINE won == WonOf(q, bounds)
             inside == InsideOf(q, bounds)
             rest == OpenOf(q) \ InsideOf(q, bounds)
  <1>1. ForecastOf(a, q, cut, rules, bounds, asOf)
    BY ForecastParts
  <1>2. a.won = IdsOf(won) /\ a.open = IdsOf(inside) /\ a.outside = IdsOf(rest)
    BY <1>1, Zenon DEF ForecastOf
  <1>3. /\ won \in SUBSET Unique(q) /\ inside \in SUBSET Unique(q) /\ rest \in SUBSET Unique(q)
        /\ won \cap (inside \cup rest) = {} /\ inside \cap rest = {}
    BY DEF WonOf, InsideOf, OpenOf
  <1> HIDE DEF won, inside, rest
  <1> QED BY <1>2, <1>3 DEF OnePlaceEach

LEMMA CountedOnceHolds == CallsInv => CountedOnce
  <1> SUFFICES ASSUME CallsInv, NEW c \in Calls, Answered(c), calls[c].job.kind = "forecast"
               PROVE  LET a == calls[c].answer IN
                      /\ a.won \cap (a.open \cup a.outside) = {} /\ a.open \cap a.outside = {}
                      /\ Cardinality(a.won \cup a.open \cup a.outside) <= Cardinality(Ids)
    BY Zenon DEF CountedOnce
  <1> DEFINE k == calls[c]
             a == k.answer
  <1>1. CallOK(k) /\ k.pc = "done" /\ a # Failed
    BY DEF CallsInv, Answered, At
  <1>2. a = ComputeForecast(k.found, k.cut, k.rules, Bounds(k), Pipelines, AsOf(k)) /\ k.found \in Seq(Records)
    BY <1>1 DEF CallOK, Answer
  <1>3. PICK won, inside, rest \in SUBSET Unique(k.found) :
              /\ a.won = IdsOf(won) /\ a.open = IdsOf(inside) /\ a.outside = IdsOf(rest)
              /\ won \cap (inside \cup rest) = {} /\ inside \cap rest = {}
    <2>1. OnePlaceEach(a, Unique(k.found))
      <3> HIDE DEF a, k
      <3> QED BY <1>2, ForecastSets
    <2> QED BY <2>1 DEF OnePlaceEach
  <1> HIDE DEF a
  <1>4. \A d, e \in Unique(k.found) : d.id = e.id => d = e
    BY <1>2, UniqueIs
  <1>5. Unique(k.found) \in SUBSET Records
    BY <1>2, UniqueIs
  <1>6. a.won \cap (a.open \cup a.outside) = {} /\ a.open \cap a.outside = {}
    BY <1>3, <1>4 DEF IdsOf
  <1>7. a.won \cup a.open \cup a.outside \in SUBSET Ids
    BY <1>3, <1>5 DEF IdsOf, Records
  <1>8. Cardinality(a.won \cup a.open \cup a.outside) <= Cardinality(Ids)
    BY <1>7, ReadsAssumption, FS_Subset
  <1> QED BY <1>6, <1>8 DEF a

\* A forecast counts each deal in one place, whatever is won, reopened or moved between its two
\* searches and however their pages overlap (forecast.py:322).
THEOREM ForecastCountsOnce == Spec => []CountedOnce
  BY CallsInit, CallsStep, CountedOnceHolds, PTL DEF Spec

-----------------------------------------------------------------------------
(* The hygiene job *)

\* The last day of the next month is after the day.
LEMMA NextMonthIsLater ==
  ASSUME NEW day, Dated(day)
  PROVE  day \in Int /\ LastDayOfNextMonth(day) \in Int /\ LastDayOfNextMonth(day) > day
  <1> DEFINE M == DOMAIN MonthEnd
             In(m) == MonthEnd[m - 1] < day /\ day <= MonthEnd[m]
  <1>1. PICK K \in Nat : M = 0..(K - 1)
    BY DealRulesAssumption, FS_CardinalityType
  <1>2. day \in Int /\ \A m \in M : MonthEnd[m] \in Nat
    BY DealRulesAssumption DEF Dated
  <1>3. PICK m \in M \ {0} : m + 1 \in M /\ In(m)
    BY DEF Dated
  <1>4. ASSUME NEW n \in M \ {0}, In(n)
        PROVE  n = m
    <2>1. m \in Int /\ n \in Int /\ m - 1 \in M /\ n - 1 \in M
      BY <1>1
    <2>2. \A i, j \in M : i <= j => MonthEnd[i] <= MonthEnd[j]
      <3>1. \A i, j \in M : i < j => MonthEnd[i] < MonthEnd[j]
        BY DealRulesAssumption
      <3> QED BY <1>1, <1>2, <3>1
    <2>3. ~ (m < n)
      <3>1. m < n => MonthEnd[m] <= MonthEnd[n - 1]
        BY <2>1, <2>2
      <3> QED BY <1>2, <1>3, <1>4, <2>1, <3>1
    <2>4. ~ (n < m)
      <3>1. n < m => MonthEnd[n] <= MonthEnd[m - 1]
        BY <2>1, <2>2
      <3> QED BY <1>2, <1>3, <1>4, <2>1, <3>1
    <2> QED BY <2>1, <2>3, <2>4
  <1>5. MonthOf(day) = m
    <2>1. MonthOf(day) = CHOOSE n \in M \ {0} : In(n)
      BY DEF MonthOf
    <2> HIDE DEF M, In
    <2> QED BY <1>3, <1>4, <2>1
  <1>6. MonthEnd[m] < MonthEnd[m + 1]
    BY <1>1, <1>3, DealRulesAssumption
  <1> QED BY <1>2, <1>3, <1>5, <1>6 DEF LastDayOfNextMonth

\* A hygiene call has a day, and a target that is not before it.
LEMMA TargetIs ==
  ASSUME NEW k, Sane(k), k.job.kind = "hygiene"
  PROVE  /\ AsOf(k) \in Int /\ NewDate(k.job.newDate, AsOf(k)) \in Int
         /\ NewDate(k.job.newDate, AsOf(k)) >= AsOf(k)
  <1>1. k.job.asOf = None /\ k.job.newDate \in Int \cup {None} /\ Today # None
    BY DatesAssumption DEF Sane
  <1>2. AsOf(k) = Given(k.rules.asOf, Today)
    BY <1>1 DEF AsOf, Given
  <1>3. Dated(AsOf(k))
    <2>1. Given(k.rules.asOf, Today) \in ({Today} \cup {r.asOf : r \in RuleFiles \ {None}}) \ {None}
      BY <1>1 DEF Given, Sane
    <2> QED BY <1>2, <2>1, DatesAssumption
  <1>4. AsOf(k) \in Int /\ LastDayOfNextMonth(AsOf(k)) \in Int /\ LastDayOfNextMonth(AsOf(k)) > AsOf(k)
    BY <1>3, NextMonthIsLater
  <1>5. NewDate(k.job.newDate, AsOf(k)) # None
    BY <1>2 DEF Sane
  <1> QED BY <1>1, <1>4, <1>5 DEF NewDate

\* Every member of S once, in the order.
Placed(q, S, R) ==
  /\ Cardinality(S) \in Nat /\ q \in [1..Cardinality(S) -> S]
  /\ \A i, j \in 1..Cardinality(S) : i < j => <<q[i], q[j]>> \in R
  /\ \A x \in S : \E i \in 1..Cardinality(S) : q[i] = x

LEMMA InOrderPlaces ==
  ASSUME NEW S, IsFiniteSet(S), NEW R, Orders(R, S)
  PROVE  Placed(InOrder(S, R), S, R)
  BY InOrderIs DEF Placed

\* Items that no order separates are alike to it.
Weak(items, at, before) ==
  /\ \A i \in at : <<items[i], items[i]>> \notin before
  /\ \A i, j, m \in at : <<items[i], items[j]>> \in before /\ <<items[j], items[m]>> \in before
       => <<items[i], items[m]>> \in before
  /\ \A i, j, m \in at : <<items[i], items[j]>> \notin before /\ <<items[j], items[m]>> \notin before
       => <<items[i], items[m]>> \notin before
\* r is the items at those places, each place once, and none after one it belongs before.
Sorted(r, order, items, at, before) ==
  LET n == Cardinality(at) IN
  /\ n \in Nat /\ order \in [1..n -> at] /\ \A x \in at : \E i \in 1..n : order[i] = x
  /\ \A i, j \in 1..n : order[i] = order[j] => i = j
  /\ r = [i \in 1..n |-> items[order[i]]]
  /\ \A i, j \in 1..n : i < j => <<r[j], r[i]>> \notin before

\* The same of an order of the places.
WeakOn(R, at) ==
  /\ \A i \in at : <<i, i>> \notin R
  /\ \A i, j, m \in at : <<i, j>> \in R /\ <<j, m>> \in R => <<i, m>> \in R
  /\ \A i, j, m \in at : <<i, j>> \notin R /\ <<j, m>> \notin R => <<i, m>> \notin R

\* Such an order with ties broken by the places is total.
LEMMA TiesOrder ==
  ASSUME NEW at \in SUBSET Int, NEW R, NEW E, WeakOn(R, at),
         \A i, j \in at : <<i, j>> \in E <=> <<i, j>> \in R \/ (i < j /\ <<j, i>> \notin R)
  PROVE  Orders(E, at)
  <1>1. ASSUME NEW i \in at, NEW j \in at
        PROVE  i = j \/ <<i, j>> \in E \/ <<j, i>> \in E
    <2>1. i \in Int /\ j \in Int
      OBVIOUS
    <2>2. i < j \/ j < i \/ i = j
      BY <2>1
    <2> QED BY <2>2
  <1>2. ASSUME NEW i \in at
        PROVE  <<i, i>> \notin E
    <2>1. ~ (i < i) /\ <<i, i>> \notin R
      BY DEF WeakOn
    <2> QED BY <2>1
  <1>3. ASSUME NEW i \in at, NEW j \in at, NEW m \in at, <<i, j>> \in E, <<j, m>> \in E
        PROVE  <<i, m>> \in E
    <2>1. <<i, j>> \in R \/ (i < j /\ <<j, i>> \notin R)
      BY <1>3
    <2>2. <<j, m>> \in R \/ (j < m /\ <<m, j>> \notin R)
      BY <1>3
    <2>3. i < j /\ j < m => i < m
      <3>1. i \in Int /\ j \in Int /\ m \in Int
        OBVIOUS
      <3> QED BY <3>1
    <2>4. <<i, m>> \in R \/ (i < m /\ <<m, i>> \notin R)
      BY <2>1, <2>2, <2>3, Zenon DEF WeakOn
    <2> QED BY <2>4
  <1> QED BY <1>1, <1>2, <1>3, Zenon DEF Orders

LEMMA SortedPlaces ==
  ASSUME NEW items, NEW at \in SUBSET Int, IsFiniteSet(at), NEW before, Weak(items, at, before)
  PROVE  \E order : Sorted(SortedAt(items, at, before), order, items, at, before)
  <1> DEFINE earlier == {r \in at \X at : \/ <<items[r[1]], items[r[2]]>> \in before
                                          \/ r[1] < r[2] /\ <<items[r[2]], items[r[1]]>> \notin before}
             order == InOrder(at, earlier)
             n == Cardinality(at)
  <1>1. ASSUME NEW i \in at, NEW j \in at
        PROVE  <<i, j>> \in earlier <=> \/ <<items[i], items[j]>> \in before
                                        \/ i < j /\ <<items[j], items[i]>> \notin before
    OBVIOUS
  <1>2. Orders(earlier, at)
    <2> DEFINE R == {r \in at \X at : <<items[r[1]], items[r[2]]>> \in before}
    <2>1. \A i, j \in at : <<i, j>> \in R <=> <<items[i], items[j]>> \in before
      OBVIOUS
    <2>2. WeakOn(R, at)
      <3> HIDE DEF R, earlier
      <3> QED BY <2>1 DEF Weak, WeakOn
    <2>3. \A i, j \in at : <<i, j>> \in earlier <=> <<i, j>> \in R \/ (i < j /\ <<j, i>> \notin R)
      <3> HIDE DEF R, earlier
      <3> QED BY <1>1, <2>1
    <2> HIDE DEF R, earlier
    <2> QED BY <2>2, <2>3, TiesOrder
  <1>3. Placed(order, at, earlier)
    <2> HIDE DEF earlier
    <2> QED BY <1>2, InOrderPlaces
  <1>4. SortedAt(items, at, before) = [i \in DOMAIN order |-> items[order[i]]]
    BY Zenon DEF SortedAt
  <1> HIDE DEF order, earlier
  <1>5. n \in Nat /\ order \in [1..n -> at] /\ DOMAIN order = 1..n /\ \A x \in at : \E i \in 1..n : order[i] = x
    BY <1>3 DEF Placed
  <1>6. \A i, j \in 1..n : i < j => <<order[i], order[j]>> \in earlier
    BY <1>3 DEF Placed
  <1> HIDE DEF n
  <1>7. ASSUME NEW i \in 1..n, NEW j \in 1..n, order[i] = order[j]
        PROVE  i = j
    <2>1. order[i] \in at /\ <<order[i], order[i]>> \notin earlier
      BY <1>2, <1>5 DEF Orders
    <2> QED BY <1>5, <1>6, <1>7, <2>1
  <1>8. ASSUME NEW i \in 1..n, NEW j \in 1..n, i < j
        PROVE  <<items[order[j]], items[order[i]]>> \notin before
    <2>1. order[i] \in at /\ order[j] \in at /\ <<order[i], order[j]>> \in earlier
      BY <1>5, <1>6, <1>8
    <2>2. \/ <<items[order[i]], items[order[j]]>> \in before
          \/ <<items[order[j]], items[order[i]]>> \notin before
      BY <1>1, <2>1
    <2> QED BY <2>1, <2>2 DEF Weak
  <1> DEFINE r == [i \in 1..n |-> items[order[i]]]
  <1>9. \A i, j \in 1..n : i < j => <<r[j], r[i]>> \notin before
    BY <1>8
  <1>10. SortedAt(items, at, before) = r
    BY <1>4, <1>5
  <1> HIDE DEF r
  <1>11. Sorted(r, order, items, at, before)
    BY <1>5, <1>7, <1>9 DEF Sorted, n, r
  <1> QED BY <1>10, <1>11

LEMMA ByIdIsWeak ==
  ASSUME NEW q, NEW at \in SUBSET DOMAIN q, \A i \in at : q[i].id \in Int
  PROVE  /\ Weak(q, at, ById(ToSet(q)))
         /\ \A i, j \in at : <<q[i], q[j]>> \in ById(ToSet(q)) <=> q[i].id < q[j].id
  <1> DEFINE B == ById(ToSet(q))
             d == [i \in at |-> q[i].id]
  <1>1. \A i, j \in at : <<q[i], q[j]>> \in B <=> q[i].id < q[j].id
    <2>1. \A i \in at : q[i] \in ToSet(q)
      BY DEF ToSet
    <2> QED BY <2>1 DEF ById
  <1>2. \A i, j \in at : <<q[i], q[j]>> \in B <=> d[i] < d[j]
    BY <1>1
  <1>3. \A i \in at : d[i] \in Int
    OBVIOUS
  <1> HIDE DEF B, d
  <1>4. \A i \in at : <<q[i], q[i]>> \notin B
    BY <1>2, <1>3
  <1>5. \A i, j, m \in at : <<q[i], q[j]>> \in B /\ <<q[j], q[m]>> \in B => <<q[i], q[m]>> \in B
    BY <1>2, <1>3
  <1>6. \A i, j, m \in at : <<q[i], q[j]>> \notin B /\ <<q[j], q[m]>> \notin B => <<q[i], q[m]>> \notin B
    BY <1>2, <1>3
  <1>7. Weak(q, at, B)
    BY <1>4, <1>5, <1>6, Zenon DEF Weak
  <1> QED BY <1>1, <1>7 DEF B

\* Sorting picks the items at the places, each place once.
LEMMA SortedIs ==
  ASSUME NEW q \in Seq(Records), NEW at \in SUBSET (1..Len(q))
  PROVE  LET r == SortedAt(q, at, ById(ToSet(q)))
         IN r \in Seq(Records) /\ \A n \in 1..Len(r) : \E i \in at : r[n] = q[i]
  <1> DEFINE B == ById(ToSet(q))
             r == SortedAt(q, at, B)
             n == Cardinality(at)
  <1>1. Len(q) \in Nat /\ DOMAIN q = 1..Len(q) /\ \A i \in 1..Len(q) : q[i] \in Records
    BY LenProperties
  <1>2. at \in SUBSET Int /\ at \in SUBSET DOMAIN q /\ \A i \in at : q[i].id \in Int
    BY <1>1, ReadsAssumption DEF Records
  <1>3. IsFiniteSet(at)
    <2>1. IsFiniteSet(1..Len(q))
      BY <1>1, FS_Interval
    <2> QED BY <2>1, FS_Subset
  <1>4. Weak(q, at, B)
    BY <1>2, ByIdIsWeak
  <1> HIDE DEF r, B, n
  <1>5. PICK order : Sorted(r, order, q, at, B)
    BY <1>2, <1>3, <1>4, SortedPlaces DEF r
  <1>6. n \in Nat /\ order \in [1..n -> at] /\ r = [i \in 1..n |-> q[order[i]]]
    BY <1>5 DEF Sorted, n
  <1>7. r \in [1..n -> Records] /\ \A i \in 1..n : order[i] \in at /\ r[i] = q[order[i]]
    BY <1>1, <1>6
  <1>8. r \in Seq(Records) /\ Len(r) = n
    BY <1>6, <1>7, FunctionIsSeq
  <1>9. \A i \in 1..Len(r) : \E j \in at : r[i] = q[j]
    BY <1>7, <1>8
  <1> QED BY <1>8, <1>9 DEF r, B

LEMMA PastDueIs ==
  ASSUME NEW q \in Seq(Records), NEW asOf
  PROVE  LET r == PastDue(q, asOf)
         IN r \in Seq(Records) /\ \A n \in 1..Len(r) : Overdue(r[n].p, asOf)
  <1> DEFINE at == {i \in DOMAIN q : q[i].p.closed # TRUE /\ Overdue(q[i].p, asOf)}
  <1>1. at \in SUBSET (1..Len(q)) /\ \A i \in at : Overdue(q[i].p, asOf)
    BY LenProperties
  <1>2. PastDue(q, asOf) = SortedAt(q, at, ById(ToSet(q)))
    BY DEF PastDue
  <1> DEFINE r == SortedAt(q, at, ById(ToSet(q)))
  <1> HIDE DEF at
  <1>3. r \in Seq(Records) /\ \A n \in 1..Len(r) : \E i \in at : r[n] = q[i]
    BY <1>1, SortedIs
  <1> HIDE DEF r
  <1> QED BY <1>1, <1>2, <1>3 DEF r

\* The updates come first, in the order of the deals, and the tasks in the same order.
OpsOf(ops, kept, addTask, L) ==
  /\ DOMAIN ops = 1..Len(ops) /\ Len(ops) = (IF addTask THEN 2 * L ELSE L)
  /\ \A n \in 1..L : ops[n] = [op |-> "update", deal |-> kept[n].id, dependsOn |-> 0]
  /\ \A n \in (L + 1)..Len(ops) : ops[n] = [op |-> "task", deal |-> kept[n - L].id, dependsOn |-> n - L]

LEMMA OpsAre ==
  ASSUME NEW kept \in Seq(Records), NEW addTask, NEW L, L = Len(kept), NEW ops, ops = BuildOps(kept, addTask)
  PROVE  OpsOf(ops, kept, addTask, L)
  <1> DEFINE Op == [op : {"update", "task"}, deal : Ids, dependsOn : Nat]
             U == [i \in DOMAIN kept |-> [op |-> "update", deal |-> kept[i].id, dependsOn |-> 0]]
             T == [i \in DOMAIN kept |-> [op |-> "task", deal |-> kept[i].id, dependsOn |-> i]]
             R == IF addTask THEN T ELSE <<>>
  <1>1. L \in Nat /\ DOMAIN kept = 1..L /\ \A i \in 1..L : kept[i].id \in Ids
    <2>1. L \in Nat /\ DOMAIN kept = 1..L /\ \A i \in 1..L : kept[i] \in Records
      BY LenProperties
    <2> QED BY <2>1 DEF Records
  <1>2. U \in Seq(Op) /\ Len(U) = L
    <2>1. U \in [1..L -> Op]
      BY <1>1
    <2> HIDE DEF U, Op
    <2> QED BY <1>1, <2>1, FunctionIsSeq
  <1>3. T \in Seq(Op) /\ Len(T) = L
    <2>1. T \in [1..L -> Op]
      BY <1>1
    <2> HIDE DEF T, Op
    <2> QED BY <1>1, <2>1, FunctionIsSeq
  <1>4. R \in Seq(Op) /\ Len(R) = (IF addTask THEN L ELSE 0)
    <2> HIDE DEF T, Op
    <2> QED BY <1>3, EmptySeq
  <1>5. ops = U \o R
    BY DEF BuildOps
  <1>6. /\ U \o R \in Seq(Op) /\ Len(U \o R) = Len(U) + Len(R)
        /\ \A i \in 1..(Len(U) + Len(R)) : (U \o R)[i] = IF i <= Len(U) THEN U[i] ELSE R[i - Len(U)]
    <2> HIDE DEF U, R, Op
    <2> QED BY <1>2, <1>4, ConcatProperties
  <1>7. \A n \in 1..L : U[n] = [op |-> "update", deal |-> kept[n].id, dependsOn |-> 0]
    BY <1>1
  <1>8. \A n \in 1..Len(R) : R[n] = [op |-> "task", deal |-> kept[n].id, dependsOn |-> n]
    BY <1>1, <1>4
  <1>9. Len(ops) = L + Len(R) /\ DOMAIN ops = 1..Len(ops) /\ Len(R) \in Nat
    <2> HIDE DEF U, R, Op
    <2> QED BY <1>2, <1>4, <1>5, <1>6, LenProperties
  <1> HIDE DEF U, R, Op
  <1>10. \A n \in 1..L : ops[n] = [op |-> "update", deal |-> kept[n].id, dependsOn |-> 0]
    BY <1>1, <1>2, <1>5, <1>6, <1>7, <1>9
  <1>11. ASSUME NEW n \in (L + 1)..Len(ops)
         PROVE  ops[n] = [op |-> "task", deal |-> kept[n - L].id, dependsOn |-> n - L]
    <2>1. n - L \in 1..Len(R) /\ n \in 1..(Len(U) + Len(R)) /\ ~ (n <= Len(U))
      BY <1>1, <1>2, <1>9
    <2> QED BY <1>2, <1>5, <1>6, <1>8, <2>1
  <1>12. Len(ops) = (IF addTask THEN 2 * L ELSE L)
    BY <1>1, <1>4, <1>9
  <1> QED BY <1>9, <1>10, <1>11, <1>12 DEF OpsOf

Updates(ops, d) == {n \in DOMAIN ops : ops[n].op = "update" /\ ops[n].deal = d}
\* What FixPastDue promises of the changeset it previews.
SoundMoves(a, asOf) ==
  /\ Len(a.ops) <= MaxOps /\ a.target >= asOf /\ a.taskDue <= a.target
  /\ \A n \in DOMAIN a.ops :
       /\ Cardinality(Updates(a.ops, a.ops[n].deal)) = 1
       /\ a.ops[n].deal \in DOMAIN a.originals /\ a.originals[a.ops[n].deal] < asOf
       /\ a.ops[n].op = "task" => a.ops[n].dependsOn \in Updates(a.ops, a.ops[n].deal) /\ a.ops[n].dependsOn < n

LEMMA FixIsSound ==
  ASSUME NEW q \in Seq(Records), NEW cut, NEW asOf \in Int, NEW target \in Int, target >= asOf, NEW addTask,
         NEW a, a = FixPastDue(q, cut, asOf, target, addTask), a # Failed
  PROVE  SoundMoves(a, asOf)
  <1> DEFINE found == PastDue(q, asOf)
             cap == MaxOps \div (IF addTask THEN 2 ELSE 1)
             kept == SubSeq(found, 1, MinOf(cap, Len(found)))
             L == Len(kept)
             ops == BuildOps(kept, addTask)
             close == [id \in IdsOf(ToSet(kept)) |-> (CHOOSE d \in ToSet(kept) : d.id = id).p.close]
  <1>1. found \in Seq(Records) /\ Len(found) \in Nat /\ \A n \in 1..Len(found) : Overdue(found[n].p, asOf)
    BY PastDueIs, LenProperties
  <1>2. cap \in Nat /\ (addTask => 2 * cap <= MaxOps) /\ cap <= MaxOps
    BY DealRulesAssumption
  <1>3. /\ ~UpdatedTwice(ops) /\ a.ops = ops /\ a.originals = close /\ a.target = target
        /\ a.taskDue = MinOf(asOf + TaskDueDays, target)
    <2> DEFINE status == IF found = <<>> THEN "nothing_to_change" ELSE "preview"
               good == [kind |-> "hygiene", status |-> status, ops |-> ops, originals |-> close, target |-> target,
                        taskDue |-> MinOf(asOf + TaskDueDays, target), remaining |-> Len(found) - L,
                        truncated |-> cut]
    <2>1. a = IF UpdatedTwice(ops) THEN Failed ELSE good
      BY Zenon DEF FixPastDue
    <2>2. ~UpdatedTwice(ops) /\ a = good
      <3> HIDE DEF ops, good
      <3> QED BY <2>1
    <2> HIDE DEF ops, close, found, status, L
    <2> QED BY <2>2
  <1>4. /\ kept \in Seq(Records) /\ L \in Nat /\ L <= cap
        /\ \A n \in 1..L : kept[n] = found[n] /\ n \in 1..Len(found)
    <2> DEFINE m == MinOf(cap, Len(found))
    <2>1. m \in Nat /\ m <= cap /\ m <= Len(found) /\ m \in 0..Len(found) /\ 1 \in 1..(Len(found) + 1) /\ 1 - 1 = 0
          /\ m - 1 + 1 = m /\ \A n \in 1..m : 1 + n - 1 = n
      <3> HIDE DEF cap, found
      <3> QED BY <1>1, <1>2 DEF MinOf
    <2> HIDE DEF m, found, cap
    <2> QED BY <1>1, <2>1, SubSeqProperties DEF m
  <1>5. DOMAIN kept = 1..L /\ ToSet(kept) = {kept[n] : n \in 1..L}
    BY <1>4, LenProperties DEF ToSet
  <1> HIDE DEF found, cap, kept, L
  <1>6. /\ DOMAIN ops = 1..Len(ops) /\ Len(ops) = (IF addTask THEN 2 * L ELSE L)
        /\ \A n \in 1..L : ops[n] = [op |-> "update", deal |-> kept[n].id, dependsOn |-> 0]
        /\ \A n \in (L + 1)..Len(ops) : ops[n] = [op |-> "task", deal |-> kept[n - L].id, dependsOn |-> n - L]
    <2>1. L = Len(kept) /\ ops = BuildOps(kept, addTask)
      BY DEF L
    <2> HIDE DEF ops
    <2>2. kept \in Seq(Records)
      BY <1>4
    <2>3. OpsOf(ops, kept, addTask, L)
      BY <2>1, <2>2, OpsAre
    <2> QED BY <2>3 DEF OpsOf
  <1> HIDE DEF ops, close
  <1>7. Len(ops) <= MaxOps
    <2>1. CASE addTask
      BY <1>2, <1>4, <1>6, <2>1, DealRulesAssumption
    <2>2. CASE ~addTask
      BY <1>2, <1>4, <1>6, <2>2, DealRulesAssumption
    <2> QED BY <2>1, <2>2
  <1>8. a.taskDue <= a.target
    BY <1>3 DEF MinOf, TaskDueDays
  \* The deal of the operation at n has its update at Place(n), and only there.
  <1> DEFINE Place(n) == IF n <= L THEN n ELSE n - L
  <1>9. ASSUME NEW n \in 1..Len(ops)
        PROVE  /\ Place(n) \in 1..L /\ Place(n) \in DOMAIN ops /\ ops[n].deal = kept[Place(n)].id
               /\ Updates(ops, ops[n].deal) = {Place(n)}
               /\ ops[n].op = "task" => ops[n].dependsOn = Place(n) /\ Place(n) < n
    <2>1. Len(ops) \in Nat /\ L <= Len(ops) /\ Len(ops) <= 2 * L
      BY <1>4, <1>6
    <2>2. Place(n) \in 1..L /\ Place(n) \in DOMAIN ops
      BY <1>4, <1>6, <2>1
    <2>3. ops[n].deal = kept[Place(n)].id /\ (ops[n].op = "task" => ops[n].dependsOn = Place(n) /\ Place(n) < n)
      <3>1. CASE n <= L
        <4>1. n \in 1..L /\ Place(n) = n
          BY <1>4, <3>1
        <4>2. ops[n] = [op |-> "update", deal |-> kept[n].id, dependsOn |-> 0]
          BY <1>6, <4>1
        <4> HIDE DEF Place
        <4> QED BY <4>1, <4>2
      <3>2. CASE ~ (n <= L)
        <4>1. n \in (L + 1)..Len(ops) /\ Place(n) = n - L /\ n - L < n
          <5>1. L + 1 <= n /\ n - L < n
            BY <1>4, <2>1, <2>2, <3>2
          <5> QED BY <1>4, <2>1, <3>2, <5>1
        <4>2. ops[n] = [op |-> "task", deal |-> kept[n - L].id, dependsOn |-> n - L]
          BY <1>6, <4>1
        <4> HIDE DEF Place
        <4> QED BY <4>1, <4>2
      <3> QED BY <3>1, <3>2
    <2>4. ops[Place(n)].op = "update" /\ ops[Place(n)].deal = ops[n].deal
      <3> HIDE DEF Place
      <3>1. ops[Place(n)] = [op |-> "update", deal |-> kept[Place(n)].id, dependsOn |-> 0]
        BY <1>6, <2>2
      <3> QED BY <2>3, <3>1
    <2>5. ASSUME NEW m \in Updates(ops, ops[n].deal)
          PROVE  m = Place(n)
      <3>1. m \in DOMAIN ops /\ ops[m].op = "update" /\ ops[m].deal = ops[n].deal
        BY <2>5 DEF Updates
      <3>2. ~ (m < Place(n)) /\ ~ (Place(n) < m)
        BY <1>3, <2>2, <2>4, <3>1 DEF UpdatedTwice
      <3> QED BY <1>6, <2>1, <2>2, <3>1, <3>2
    <2>6. Place(n) \in Updates(ops, ops[n].deal)
      BY <2>2, <2>4 DEF Updates
    <2> HIDE DEF Place
    <2> QED BY <2>2, <2>3, <2>5, <2>6
  <1>10. ASSUME NEW n \in 1..Len(ops)
         PROVE  ops[n].deal \in DOMAIN close /\ close[ops[n].deal] < asOf
    <2> DEFINE id == ops[n].deal
    <2>1. id \in IdsOf(ToSet(kept)) /\ \E d \in ToSet(kept) : d.id = id
      BY <1>5, <1>9 DEF IdsOf
    <2> HIDE DEF id
    <2>2. PICK d \in ToSet(kept) : d = CHOOSE e \in ToSet(kept) : e.id = id
      BY <2>1
    <2>3. close[id] = d.p.close /\ id \in DOMAIN close
      BY <2>1, <2>2 DEF close
    <2>4. Overdue(d.p, asOf)
      BY <1>1, <1>4, <1>5, <2>2
    <2> QED BY <2>3, <2>4 DEF Overdue, id
  <1>11. ASSUME NEW n \in DOMAIN ops
         PROVE  /\ Cardinality(Updates(ops, ops[n].deal)) = 1
                /\ ops[n].deal \in DOMAIN close /\ close[ops[n].deal] < asOf
                /\ ops[n].op = "task" => ops[n].dependsOn \in Updates(ops, ops[n].deal) /\ ops[n].dependsOn < n
    <2>1. n \in 1..Len(ops)
      BY <1>6
    <2>2. Cardinality({Place(n)}) = 1
      BY FS_Singleton
    <2> HIDE DEF Place
    <2> QED BY <1>9, <1>10, <2>1, <2>2
  <1> QED BY <1>3, <1>7, <1>8, <1>11 DEF SoundMoves

LEMMA MovesAreSoundHolds == CallsInv => MovesAreSound
  <1> SUFFICES ASSUME CallsInv, NEW c \in Calls, Answered(c), calls[c].job.kind = "hygiene"
               PROVE  SoundMoves(calls[c].answer, AsOf(calls[c]))
    BY Zenon DEF MovesAreSound, SoundMoves, Updates
  <1> DEFINE k == calls[c]
  <1>1. CallOK(k) /\ k.pc = "done" /\ k.answer # Failed /\ k.job.kind = "hygiene"
    BY DEF CallsInv, Answered, At
  <1> HIDE DEF k
  <1>2. /\ k.answer = FixPastDue(k.found, k.cut, AsOf(k), NewDate(k.job.newDate, AsOf(k)), k.job.addTask)
        /\ k.found \in Seq(Records) /\ Sane(k)
    BY <1>1 DEF CallOK, Answer
  <1>3. /\ AsOf(k) \in Int /\ NewDate(k.job.newDate, AsOf(k)) \in Int
        /\ NewDate(k.job.newDate, AsOf(k)) >= AsOf(k)
    BY <1>1, <1>2, TargetIs
  <1>4. SoundMoves(k.answer, AsOf(k))
    BY <1>1, <1>2, <1>3, FixIsSound
  <1> QED BY <1>4 DEF k

\* Each task depends on the one move of its own deal, each move goes to a day that is not past due,
\* and the changeset fits, whatever changed while the deals were read (bulk_hygiene.py:108).
THEOREM HygieneMovesSoundly == Spec => []MovesAreSound
  BY CallsInit, CallsStep, MovesAreSoundHolds, PTL DEF Spec

-----------------------------------------------------------------------------
(* Sums *)

\* Of some subsets of a finite set one has none of them below it.
LEMMA SmallestSubset ==
  ASSUME NEW A, IsFiniteSet(A), NEW Bad \in SUBSET (SUBSET A), Bad # {}
  PROVE  \E s \in Bad : \A x \in s : s \ {x} \notin Bad
  <1> DEFINE T == {Cardinality(s) : s \in Bad}
  <1>1. \A s \in SUBSET A : IsFiniteSet(s) /\ Cardinality(s) \in Nat
    BY FS_Subset, FS_CardinalityType
  <1>2. T \in SUBSET Nat /\ T # {}
    BY <1>1
  <1>3. PICK n \in T : \A m \in T : n <= m
    <2> HIDE DEF T
    <2> QED BY <1>2, Least
  <1>4. PICK s \in Bad : Cardinality(s) = n
    OBVIOUS
  <1>5. ASSUME NEW x \in s, s \ {x} \in Bad
        PROVE  FALSE
    <2>1. Cardinality(s \ {x}) = Cardinality(s) - 1
      BY <1>1, FS_RemoveElement
    <2>2. n <= Cardinality(s \ {x})
      BY <1>3, <1>5
    <2> QED BY <1>1, <1>4, <2>1, <2>2
  <1> QED BY <1>5

Pick(s) == CHOOSE x \in s : TRUE
\* What a sum of v adds up, subset by subset.
Sums(v, g) == g = [s \in SUBSET DOMAIN v |-> IF s = {} THEN 0 ELSE v[Pick(s)] + g[s \ {Pick(s)}]]

LEMMA SumIs ==
  ASSUME NEW v
  PROVE  SumFunction(v) = (CHOOSE g : Sums(v, g))[DOMAIN v]
  BY DEF SumFunction, SumFunctionOnSet, FoldFunctionOnSet, MapThenFoldSet, Sums, Pick

LEMMA Picked ==
  ASSUME NEW s, s # {}
  PROVE  Pick(s) \in s
  BY DEF Pick

LEMMA SumsExist ==
  ASSUME NEW v, IsFiniteSet(DOMAIN v)
  PROVE  \E g : Sums(v, g)
  <1> DEFINE A == DOMAIN v
             Small(n) == {s \in SUBSET A : Cardinality(s) <= n}
             Upto(n, g) == g = [s \in Small(n) |-> IF s = {} THEN 0 ELSE v[Pick(s)] + g[s \ {Pick(s)}]]
             T == {n \in Nat : ~ \E g : Upto(n, g)}
  <1>1. \A s \in SUBSET A : IsFiniteSet(s) /\ Cardinality(s) \in Nat /\ Cardinality(s) <= Cardinality(A)
    BY FS_Subset, FS_CardinalityType
  <1>2. ASSUME NEW n \in T, \A m \in T : n <= m
        PROVE  FALSE
    <2>1. CASE n = 0
      <3> DEFINE g == [s \in Small(0) |-> 0]
      <3>1. \A s \in Small(0) : s = {}
        <4>1. ASSUME NEW s \in Small(0)
              PROVE  s = {}
          <5>1. IsFiniteSet(s) /\ Cardinality(s) = 0
            BY <1>1
          <5> QED BY <5>1, FS_EmptySet
        <4> QED BY <4>1
      <3>2. Upto(0, g)
        <4> HIDE DEF Small
        <4> QED BY <3>1
      <3> HIDE DEF Upto
      <3> QED BY <2>1, <3>2
    <2>2. CASE n # 0
      <3>1. n \in Nat /\ n - 1 \in Nat /\ n - 1 \notin T
        <4> HIDE DEF Upto
        <4> QED BY <1>2, <2>2
      <3>2. PICK g : Upto(n - 1, g)
        <4> HIDE DEF Upto
        <4> QED BY <3>1
      <3> DEFINE h == [s \in Small(n) |->
                         IF Cardinality(s) <= n - 1 THEN g[s] ELSE v[Pick(s)] + g[s \ {Pick(s)}]]
      <3>3. ASSUME NEW s \in Small(n), s # {}
            PROVE  s \ {Pick(s)} \in Small(n - 1)
        <4>1. Pick(s) \in s /\ IsFiniteSet(s) /\ Cardinality(s) \in Nat
          BY <1>1, <3>3, Picked
        <4>2. Cardinality(s \ {Pick(s)}) = Cardinality(s) - 1
          BY <4>1, FS_RemoveElement
        <4> QED BY <3>1, <4>1, <4>2
      <3>4. Small(n - 1) \in SUBSET Small(n)
        BY <1>1, <3>1
      <3>5. \A s \in Small(n - 1) : h[s] = g[s]
        BY <3>4
      <3>6. \A s \in Small(n - 1) : g[s] = IF s = {} THEN 0 ELSE v[Pick(s)] + g[s \ {Pick(s)}]
        <4> HIDE DEF Small
        <4> QED BY <3>2
      <3>7. \A s \in Small(n) : h[s] = IF s = {} THEN 0 ELSE v[Pick(s)] + h[s \ {Pick(s)}]
        <4>1. ASSUME NEW s \in Small(n)
              PROVE  h[s] = IF s = {} THEN 0 ELSE v[Pick(s)] + h[s \ {Pick(s)}]
          <5>1. CASE s \in Small(n - 1)
            <6>1. h[s] = g[s]
              BY <3>5, <5>1
            <6>2. s # {} => h[s \ {Pick(s)}] = g[s \ {Pick(s)}]
              <7> HIDE DEF h, Small
              <7> QED BY <3>3, <3>5, <4>1
            <6> HIDE DEF h, Small
            <6> QED BY <3>6, <5>1, <6>1, <6>2
          <5>2. CASE s \notin Small(n - 1)
            <6>1. ~ (Cardinality(s) <= n - 1) /\ s # {}
              <7>1. s \in SUBSET A /\ ~ (Cardinality(s) <= n - 1)
                BY <5>2
              <7>2. Cardinality({}) = 0 /\ 0 <= n - 1
                BY <3>1, FS_EmptySet
              <7> HIDE DEF Small
              <7> QED BY <7>1, <7>2
            <6>2. h[s] = v[Pick(s)] + g[s \ {Pick(s)}]
              <7> HIDE DEF Small
              <7> QED BY <6>1
            <6>3. h[s \ {Pick(s)}] = g[s \ {Pick(s)}]
              <7> HIDE DEF h, Small
              <7> QED BY <3>3, <3>5, <6>1
            <6> HIDE DEF h, Small
            <6> QED BY <6>1, <6>2, <6>3
          <5> QED BY <5>1, <5>2
        <4> QED BY <4>1
      <3>8. h = [s \in Small(n) |-> h[s]]
        <4> HIDE DEF Small
        <4> QED OBVIOUS
      <3> HIDE DEF h, Small
      <3>9. Upto(n, h)
        BY <3>7, <3>8
      <3> HIDE DEF Upto
      <3> QED BY <3>9
    <2> QED BY <2>1, <2>2
  <1>3. T = {}
    <2>1. T \in SUBSET Nat
      OBVIOUS
    <2> HIDE DEF T
    <2> QED BY <1>2, <2>1, Least
  <1>4. Cardinality(A) \in Nat /\ Small(Cardinality(A)) = SUBSET A
    BY <1>1, FS_CardinalityType
  <1>5. PICK g : Upto(Cardinality(A), g)
    <2> HIDE DEF Upto, Small
    <2> QED BY <1>3, <1>4
  <1>6. Sums(v, g)
    <2> HIDE DEF Small
    <2> QED BY <1>4, <1>5 DEF Sums
  <1> QED BY <1>6

\* A sum is a number, and any summand may be taken off first.
Adds(v, A, g) ==
  /\ g[{}] = 0
  /\ \A s \in SUBSET A : g[s] \in Int
  /\ \A s \in SUBSET A : \A x \in s : g[s] = v[x] + g[s \ {x}]

LEMMA SumsAdd ==
  ASSUME NEW v, NEW A, IsFiniteSet(A), v \in [A -> Int], NEW g, Sums(v, g)
  PROVE  Adds(v, A, g)
  <1>1. g[{}] = 0 /\ \A s \in SUBSET A : s # {} => g[s] = v[Pick(s)] + g[s \ {Pick(s)}]
    BY DEF Sums
  <1>2. \A s \in SUBSET A : g[s] \in Int
    <2> DEFINE Bad == {s \in SUBSET A : g[s] \notin Int}
    <2>1. ASSUME NEW s \in Bad, \A x \in s : s \ {x} \notin Bad
          PROVE  FALSE
      <3>0. s \in SUBSET A /\ g[s] \notin Int /\ \A x \in s : g[s \ {x}] \in Int
        BY <2>1
      <3>1. s # {}
        <4>1. g[{}] \in Int
          BY <1>1
        <4> QED BY <3>0, <4>1, Zenon
      <3>2. Pick(s) \in s /\ g[s \ {Pick(s)}] \in Int /\ v[Pick(s)] \in Int
        BY <3>0, <3>1, Picked
      <3>3. g[s] = v[Pick(s)] + g[s \ {Pick(s)}]
        BY <1>1, <3>0, <3>1
      <3> HIDE DEF Bad
      <3> QED BY <3>0, <3>2, <3>3
    <2>2. Bad \in SUBSET (SUBSET A)
      OBVIOUS
    <2>3. Bad = {}
      <3> HIDE DEF Bad
      <3> QED BY <2>1, <2>2, SmallestSubset
    <2> QED BY <2>3
  <1>3. \A s \in SUBSET A : \A x \in s : g[s] = v[x] + g[s \ {x}]
    <2> DEFINE Bad == {s \in SUBSET A : \E x \in s : g[s] # v[x] + g[s \ {x}]}
    <2>1. ASSUME NEW s \in Bad, \A x \in s : s \ {x} \notin Bad
          PROVE  FALSE
      <3>1. PICK x \in s : g[s] # v[x] + g[s \ {x}]
        OBVIOUS
      <3> DEFINE y == Pick(s)
      <3>2. y \in s /\ g[s] = v[y] + g[s \ {y}]
        BY <1>1, Picked
      <3> HIDE DEF y
      <3>3. y # x
        BY <3>1, <3>2
      <3>4. g[s \ {y}] = v[x] + g[(s \ {y}) \ {x}]
        BY <2>1, <3>2, <3>3
      <3>5. g[s \ {x}] = v[y] + g[(s \ {x}) \ {y}]
        BY <2>1, <3>2, <3>3
      <3>6. (s \ {y}) \ {x} = (s \ {x}) \ {y}
        OBVIOUS
      <3>7. v[x] \in Int /\ v[y] \in Int /\ g[(s \ {x}) \ {y}] \in Int
        BY <1>2, <3>2
      <3> DEFINE rest == g[(s \ {x}) \ {y}]
      <3>8. g[s] = v[y] + (v[x] + rest) /\ g[s \ {x}] = v[y] + rest
        BY <3>2, <3>4, <3>5, <3>6
      <3>9. rest \in Int
        BY <3>7
      <3> HIDE DEF rest, Bad
      <3>10. v[y] + (v[x] + rest) = v[x] + (v[y] + rest)
        BY <3>7, <3>9
      <3> QED BY <3>1, <3>8, <3>10
    <2>2. Bad \in SUBSET (SUBSET A)
      OBVIOUS
    <2>3. Bad = {}
      <3> HIDE DEF Bad
      <3> QED BY <2>1, <2>2, SmallestSubset
    <2> QED BY <2>3
  <1> QED BY <1>1, <1>2, <1>3 DEF Adds

LEMMA SumOf ==
  ASSUME NEW v, NEW A, IsFiniteSet(A), v \in [A -> Int]
  PROVE  \E g : Adds(v, A, g) /\ SumFunction(v) = g[A]
  <1>1. DOMAIN v = A
    OBVIOUS
  <1>2. \E g : Sums(v, g)
    BY <1>1, SumsExist
  <1> DEFINE g == CHOOSE h : Sums(v, h)
  <1>3. Sums(v, g)
    BY <1>2
  <1>4. SumFunction(v) = g[A]
    BY <1>1, SumIs
  <1> HIDE DEF g
  <1> QED BY <1>3, <1>4, SumsAdd

LEMMA SumIsInt ==
  ASSUME NEW v, NEW A, IsFiniteSet(A), v \in [A -> Int]
  PROVE  SumFunction(v) \in Int
  <1>1. PICK g : Adds(v, A, g) /\ SumFunction(v) = g[A]
    BY SumOf
  <1>2. A \in SUBSET A
    OBVIOUS
  <1> QED BY <1>1, <1>2 DEF Adds

\* What is matched one to one adds up to the same.
LEMMA SumsMatch ==
  ASSUME NEW A, IsFiniteSet(A), NEW v, v \in [A -> Int],
         NEW B, IsFiniteSet(B), NEW w, w \in [B -> Int],
         NEW b \in [A -> B], \A x \in A : w[b[x]] = v[x],
         \A x, y \in A : b[x] = b[y] => x = y, \A y \in B : \E x \in A : b[x] = y
  PROVE  SumFunction(v) = SumFunction(w)
  <1>1. PICK g : Adds(v, A, g) /\ SumFunction(v) = g[A]
    BY SumOf
  <1>2. PICK h : Adds(w, B, h) /\ SumFunction(w) = h[B]
    BY SumOf
  <1> DEFINE Image(s) == {b[x] : x \in s}
             Bad == {s \in SUBSET A : g[s] # h[Image(s)]}
  <1>3. /\ g[{}] = 0 /\ \A s \in SUBSET A : \A x \in s : g[s] = v[x] + g[s \ {x}]
        /\ h[{}] = 0 /\ \A s \in SUBSET B : \A x \in s : h[s] = w[x] + h[s \ {x}]
    BY <1>1, <1>2 DEF Adds
  <1>4. ASSUME NEW s \in Bad, \A x \in s : s \ {x} \notin Bad
        PROVE  FALSE
    <2>1. s # {}
      BY <1>3
    <2>2. PICK x \in s : TRUE
      BY <2>1
    <2>3. Image(s) \in SUBSET B /\ b[x] \in Image(s) /\ Image(s) \ {b[x]} = Image(s \ {x})
      OBVIOUS
    <2>4. g[s \ {x}] = h[Image(s \ {x})]
      BY <1>4, <2>2
    <2>5. g[s] = v[x] + g[s \ {x}] /\ h[Image(s)] = w[b[x]] + h[Image(s) \ {b[x]}] /\ w[b[x]] = v[x]
      <3> HIDE DEF Image
      <3> QED BY <1>3, <2>3
    <2>6. g[s] # h[Image(s)]
      BY <1>4
    <2> HIDE DEF Image
    <2> QED BY <2>3, <2>4, <2>5, <2>6
  <1>5. Bad = {}
    <2>1. Bad \in SUBSET (SUBSET A)
      OBVIOUS
    <2> HIDE DEF Bad
    <2> QED BY <1>4, <2>1, SmallestSubset
  <1>6. Image(A) = B
    OBVIOUS
  <1> QED BY <1>1, <1>2, <1>5, <1>6

-----------------------------------------------------------------------------
(* What a call that nobody disturbs has read *)

HitsIn(D, f) ==
  LET hits == {[id |-> i, p |-> D[i]] : i \in {j \in Ids : Matches(D[j], f)}}
  IN InOrder(hits, ById(hits))
\* What the searches before the one in hand send of a portal.
Before(D, k) ==
  IF k.search = 1 THEN <<>> ELSE IF k.search = 2 THEN HitsIn(D, Searches(k)[1])
  ELSE HitsIn(D, Searches(k)[1]) \o HitsIn(D, Searches(k)[2])
Untried(k) == k.search = 1 /\ k.got = <<>> /\ k.found = <<>> /\ k.after = 0 /\ k.seen = {} /\ ~k.cut
\* The search in hand has sent the hits before the offset, the searches before it all theirs.
Reading(D, k) ==
  /\ IF k.pc = "context" THEN k.search = Len(Searches(k)) + 1 ELSE k.search \in 1..Len(Searches(k))
  /\ k.seen # {} => k.after \in k.seen
  /\ ~k.dirty /\ ~k.cut => k.found = Before(D, k)
  /\ ~k.dirty /\ k.pc # "context" =>
       \E hits : /\ hits = HitsIn(D, Searches(k)[k.search])
                 /\ k.after <= Len(hits) /\ k.got = SubSeq(hits, 1, k.after)
PagesOK(D, k) ==
  /\ k.cut \in BOOLEAN /\ k.dirty \in BOOLEAN
  /\ k.pc \in {"idle", "owner"} => Untried(k)
  /\ k.pc = "idle" => ~k.dirty
  /\ k.pc \notin {"idle", "done"} => Reading(D, k)
PagesInv == CallsInv /\ \A c \in Calls : PagesOK(deals, calls[c])

\* A list of all the deals of J, once each, by id.
Lists(q, D, J) ==
  /\ q \in Seq(Records) /\ Len(q) = Cardinality(J) /\ IsFiniteSet(J)
  /\ \A n \in 1..Len(q) : q[n].id \in J /\ q[n].p = D[q[n].id]
  /\ \A m, n \in 1..Len(q) : m < n => q[m].id < q[n].id
  /\ \A j \in J : \E n \in 1..Len(q) : q[n].id = j

LEMMA InOrderLists ==
  ASSUME NEW J \in SUBSET Ids, NEW D \in [Ids -> Props], NEW S, S = {[id |-> i, p |-> D[i]] : i \in J}
  PROVE  Lists(InOrder(S, ById(S)), D, J)
  <1> DEFINE f == [i \in J |-> [id |-> i, p |-> D[i]]]
             q == InOrder(S, ById(S))
  <1>1. IsFiniteSet(J)
    BY ReadsAssumption, FS_Subset
  <1>2. f \in Surjection(J, S) /\ f \in Injection(J, S)
    <2>1. f \in [J -> S] /\ \A s \in S : \E i \in J : f[i] = s
      OBVIOUS
    <2>2. \A i, j \in J : f[i] = f[j] => i = j
      OBVIOUS
    <2> HIDE DEF f
    <2> QED BY <2>1, <2>2 DEF Surjection, Injection, IsInjective
  <1>3. IsFiniteSet(S) /\ Cardinality(S) = Cardinality(J)
    <2> HIDE DEF f
    <2> QED BY <1>1, <1>2, FS_Surjection
  <1>4. /\ S \in SUBSET Records
        /\ \A d \in S : d.id \in Int /\ d.id \in J /\ d.p = D[d.id]
    BY ReadsAssumption DEF Records
  <1>41. \A d, e \in S : d.id = e.id => d = e
    OBVIOUS
  <1>42. \A j \in J : \E d \in S : d.id = j
    <2>1. ASSUME NEW j \in J
          PROVE  \E d \in S : d.id = j
      <3>1. [id |-> j, p |-> D[j]] \in S
        OBVIOUS
      <3> QED BY <3>1
    <2> QED BY <2>1
  <1> HIDE DEF f
  <1>5. Orders(ById(S), S)
    BY <1>4, <1>41, ByIdOrders
  <1>6. /\ Cardinality(S) \in Nat /\ q \in [1..Cardinality(S) -> S]
        /\ \A i, j \in 1..Cardinality(S) : i < j => <<q[i], q[j]>> \in ById(S)
        /\ \A x \in S : \E i \in 1..Cardinality(S) : q[i] = x
    <2>1. Placed(q, S, ById(S))
      BY <1>3, <1>5, InOrderPlaces
    <2> HIDE DEF q
    <2> QED BY <2>1 DEF Placed
  <1> HIDE DEF q
  <1>7. q \in Seq(Records) /\ Len(q) = Cardinality(J)
    <2>1. q \in [1..Cardinality(S) -> Records]
      BY <1>4, <1>6
    <2> QED BY <1>3, <1>6, <2>1, FunctionIsSeq
  <1>8. \A n \in 1..Len(q) : q[n] \in S
    BY <1>3, <1>6, <1>7
  <1>9. \A m, n \in 1..Len(q) : m < n => q[m].id < q[n].id
    BY <1>3, <1>6, <1>7 DEF ById
  <1>10. \A j \in J : \E n \in 1..Len(q) : q[n].id = j
    BY <1>3, <1>42, <1>6, <1>7
  <1>11. Lists(q, D, J)
    BY <1>1, <1>4, <1>7, <1>8, <1>9, <1>10 DEF Lists
  <1> QED BY <1>11 DEF q

LEMMA HitsList ==
  ASSUME NEW D \in [Ids -> Props], NEW f
  PROVE  Lists(HitsIn(D, f), D, {j \in Ids : Matches(D[j], f)})
  <1> DEFINE J == {j \in Ids : Matches(D[j], f)}
             S == {[id |-> i, p |-> D[i]] : i \in J}
  <1>1. J \in SUBSET Ids
    OBVIOUS
  <1>2. HitsIn(D, f) = InOrder(S, ById(S))
    BY DEF HitsIn
  <1> HIDE DEF J
  <1>3. Lists(InOrder(S, ById(S)), D, J)
    BY <1>1, InOrderLists
  <1>4. Lists(HitsIn(D, f), D, J)
    BY <1>2, <1>3
  <1> QED BY <1>4 DEF J

LEMMA HitsNow ==
  ASSUME NEW f
  PROVE  Hits(f) = HitsIn(deals, f)
  BY DEF Hits, HitsIn

\* A page after what was read: the hits up to the next offset.
LEMMA PageJoins ==
  ASSUME NEW S, NEW h \in Seq(S), NEW a \in 0..Len(h), NEW limit \in Nat
  PROVE  SubSeq(h, 1, a) \o Page(h, a, limit) = SubSeq(h, 1, MinOf(a + limit, Len(h)))
  <1> DEFINE b == MinOf(a + limit, Len(h))
             left == SubSeq(h, 1, a)
             page == SubSeq(h, a + 1, b)
             both == SubSeq(h, 1, b)
  <1>1. Len(h) \in Nat
    BY LenProperties
  <1>2. b \in Nat /\ a <= b /\ b <= Len(h) /\ a \in Nat
    BY <1>1 DEF MinOf
  <1> HIDE DEF b
  <1>3. left \in Seq(S) /\ Len(left) = a /\ \A i \in 1..a : left[i] = h[i]
    <2>1. 1 \in 1..(Len(h) + 1) /\ a \in (1 - 1)..Len(h) /\ a - 1 + 1 = a /\ \A i \in 1..a : 1 + i - 1 = i
      BY <1>1, <1>2
    <2> QED BY <2>1, SubSeqProperties
  <1>4. both \in Seq(S) /\ Len(both) = b /\ \A i \in 1..b : both[i] = h[i]
    <2>1. 1 \in 1..(Len(h) + 1) /\ b \in (1 - 1)..Len(h) /\ b - 1 + 1 = b /\ \A i \in 1..b : 1 + i - 1 = i
      BY <1>1, <1>2
    <2> QED BY <2>1, SubSeqProperties
  <1>5. page \in Seq(S) /\ Len(page) = b - a /\ \A i \in 1..(b - a) : page[i] = h[a + i]
    <2>1. a + 1 \in 1..(Len(h) + 1) /\ b \in ((a + 1) - 1)..Len(h) /\ b - (a + 1) + 1 = b - a
          /\ \A i \in 1..(b - a) : (a + 1) + i - 1 = a + i
      BY <1>1, <1>2
    <2> QED BY <2>1, SubSeqProperties
  <1> HIDE DEF left, page, both
  <1>6. /\ left \o page \in Seq(S) /\ Len(left \o page) = b
        /\ \A i \in 1..b : (left \o page)[i] = both[i]
    <2>1. /\ left \o page \in Seq(S) /\ Len(left \o page) = Len(left) + Len(page)
          /\ \A i \in 1..(Len(left) + Len(page)) :
               (left \o page)[i] = IF i <= Len(left) THEN left[i] ELSE page[i - Len(left)]
      BY <1>3, <1>5, ConcatProperties
    <2>2. Len(left) + Len(page) = b
      BY <1>2, <1>3, <1>5
    <2>3. ASSUME NEW i \in 1..b
          PROVE  (left \o page)[i] = both[i]
      <3>1. CASE i <= a
        BY <1>2, <1>3, <1>4, <2>1, <2>2, <3>1
      <3>2. CASE ~ (i <= a)
        <4>1. i - a \in 1..(b - a) /\ a + (i - a) = i
          BY <1>2, <3>2
        <4> QED BY <1>3, <1>4, <1>5, <2>1, <2>2, <3>2, <4>1
      <3> QED BY <3>1, <3>2
    <2> QED BY <2>1, <2>2, <2>3
  <1>7. left \o page = both
    <2>1. DOMAIN (left \o page) = 1..b /\ DOMAIN both = 1..b
      BY <1>4, <1>6, LenProperties
    <2> QED BY <1>4, <1>6, <2>1, SeqEqual
  <1> QED BY <1>7 DEF left, page, both, Page, b

\* Where a call has searches to send.
Searching == {"ask", "queued", "limited", "send", "backoff"}

LEMMA SearchesAre ==
  ASSUME NEW k, Sane(k)
  PROVE  Len(Searches(k)) \in 1..2
  <1>1. k.job.kind \in {"triage", "forecast", "hygiene"}
    BY DatesAssumption DEF Sane
  <1> QED BY <1>1 DEF Searches

\* The searches depend on what is asked, of whom and under which rules.
LEMMA SearchesOf ==
  ASSUME NEW k, NEW k2, k2.job = k.job, k2.rules = k.rules, k2.owner = k.owner
  PROVE  Searches(k2) = Searches(k)
  BY DEF Searches, AsOf, Bounds

LEMMA HitsSent ==
  ASSUME NEW D \in [Ids -> Props], NEW f
  PROVE  HitsIn(D, f) \in Seq(Records) /\ Len(HitsIn(D, f)) \in Nat
  BY HitsList, LenProperties DEF Lists

\* Nothing is read before the first page.
LEMMA Begins ==
  ASSUME NEW D \in [Ids -> Props], NEW k, Sane(k), Untried(k), k.pc \in Searching \cup {"owner"}, k.dirty \in BOOLEAN
  PROVE  PagesOK(D, k)
  <1> DEFINE hits == HitsIn(D, Searches(k)[k.search])
  <1>1. hits \in Seq(Records) /\ Len(hits) \in Nat
    BY HitsSent
  <1>2. k.after <= Len(hits) /\ k.got = SubSeq(hits, 1, k.after)
    <2>1. SubSeq(hits, 1, 0) = <<>>
      <3> HIDE DEF hits
      <3> QED BY <1>1, SubSeqEmpty
    <2> HIDE DEF hits
    <2> QED BY <1>1, <2>1 DEF Untried
  <1>3. Len(Searches(k)) \in 1..2
    BY SearchesAre
  <1>4. \E h : h = HitsIn(D, Searches(k)[k.search]) /\ k.after <= Len(h) /\ k.got = SubSeq(h, 1, k.after)
    BY <1>2
  <1>5. k.search = 1 /\ k.found = <<>> /\ k.seen = {} /\ k.cut = FALSE
    BY DEF Untried
  <1>6. Reading(D, k)
    <2>1. k.found = Before(D, k)
      BY <1>5 DEF Before
    <2>2. k.pc # "context" /\ k.search \in 1..Len(Searches(k))
      <3> DEFINE n == Len(Searches(k))
      <3>1. n \in 1..2
        BY <1>3
      <3> HIDE DEF n
      <3>2. k.search \in 1..n
        BY <1>5, <3>1
      <3> QED BY <3>2 DEF Searching, n
    <2> HIDE DEF hits
    <2> QED BY <1>4, <1>5, <2>1, <2>2 DEF Reading
  <1> QED BY <1>5, <1>6 DEF PagesOK, Searching

\* A call that waits or is refused has read what it had read.
LEMMA WaitsRead ==
  ASSUME NEW D, NEW k, PagesOK(D, k), NEW k2, k.pc \in Searching, k2.pc \in Searching,
         k2.job = k.job, k2.rules = k.rules, k2.owner = k.owner, k2.search = k.search, k2.after = k.after,
         k2.got = k.got, k2.found = k.found, k2.cut = k.cut, k2.seen = k.seen, k2.dirty = k.dirty
  PROVE  PagesOK(D, k2)
  <1>1. Searches(k2) = Searches(k)
    BY SearchesOf
  <1>2. Reading(D, k) /\ k.pc # "context" /\ k2.pc # "context"
    BY DEF PagesOK, Searching
  <1>3. Before(D, k2) = Before(D, k)
    BY <1>1 DEF Before
  <1>4. Reading(D, k2)
    BY <1>1, <1>2, <1>3 DEF Reading
  <1> QED BY <1>4 DEF PagesOK, Searching

\* An answer is given, or the call failed: nothing more is read.
LEMMA EndsRead ==
  ASSUME NEW D, NEW k2, k2.pc = "done", k2.cut \in BOOLEAN, k2.dirty \in BOOLEAN
  PROVE  PagesOK(D, k2)
  BY DEF PagesOK

LEMMA NextSearchReads ==
  ASSUME NEW D \in [Ids -> Props], NEW k, CallOK(k), PagesOK(D, k), k.pc = "send", NEW results, NEW cut \in BOOLEAN,
         ~k.dirty /\ ~k.cut /\ ~cut => results = HitsIn(D, Searches(k)[k.search])
  PROVE  PagesOK(D, NextSearch(k, results, cut))
  <1> DEFINE k2 == NextSearch(k, results, cut)
             last == k.search = Len(Searches(k))
  <1>1. DOMAIN k = Fields /\ Sane(k) /\ Len(Searches(k)) \in 1..2
    BY SearchesAre DEF CallOK
  <1>2. /\ k.cut \in BOOLEAN /\ k.dirty \in BOOLEAN /\ k.search \in 1..Len(Searches(k))
        /\ ~k.dirty /\ ~k.cut => k.found = Before(D, k)
    BY DEF PagesOK, Reading
  <1>3. /\ k2.job = k.job /\ k2.rules = k.rules /\ k2.owner = k.owner /\ k2.search = k.search + 1 /\ k2.after = 0
        /\ k2.got = <<>> /\ k2.found = k.found \o results /\ k2.cut = (k.cut \/ cut) /\ k2.seen = {}
        /\ k2.dirty = k.dirty /\ k2.pc = IF last THEN "context" ELSE "ask"
    BY <1>1 DEF NextSearch, LastSearch, Fields
  <1> HIDE DEF k2
  <1>4. Searches(k2) = Searches(k)
    BY <1>3, SearchesOf
  <1>5. k2.cut \in BOOLEAN /\ k2.dirty \in BOOLEAN /\ k2.pc \in {"context", "ask"}
    BY <1>2, <1>3
  <1>6. IF k2.pc = "context" THEN k2.search = Len(Searches(k2)) + 1 ELSE k2.search \in 1..Len(Searches(k2))
    BY <1>1, <1>2, <1>3, <1>4
  <1>7. ASSUME ~k2.dirty, ~k2.cut
        PROVE  k2.found = Before(D, k2)
    <2>1. k.found = Before(D, k) /\ results = HitsIn(D, Searches(k)[k.search])
      BY <1>2, <1>3, <1>7
    <2>2. CASE k.search = 1
      <3>1. k.found = <<>> /\ k2.search = 2
        BY <1>3, <2>1, <2>2 DEF Before
      <3>2. results \in Seq(Records)
        BY <2>1, HitsSent
      <3>3. k.found \o results = results
        BY <3>1, <3>2, ConcatEmptySeq
      <3> QED BY <1>3, <1>4, <2>1, <2>2, <3>1, <3>3 DEF Before
    <2>3. CASE k.search = 2
      <3>1. k2.search = 3
        BY <1>3, <2>3
      <3>2. k.found = HitsIn(D, Searches(k)[1])
        BY <2>1, <2>3 DEF Before
      <3>3. Before(D, k2) = HitsIn(D, Searches(k2)[1]) \o HitsIn(D, Searches(k2)[2])
        BY <3>1 DEF Before
      <3> QED BY <1>3, <1>4, <2>1, <2>3, <3>2, <3>3
    <2>4. k.search \in 1..2
      <3> DEFINE n == Len(Searches(k))
      <3>1. n \in 1..2 /\ k.search \in 1..n
        BY <1>1, <1>2
      <3> HIDE DEF n
      <3> QED BY <3>1
    <2> QED BY <2>2, <2>3, <2>4
  <1>8. \E h : h = HitsIn(D, Searches(k2)[k2.search]) /\ k2.after <= Len(h) /\ k2.got = SubSeq(h, 1, k2.after)
    <2> DEFINE h == HitsIn(D, Searches(k2)[k2.search])
    <2>1. h \in Seq(Records) /\ Len(h) \in Nat
      BY HitsSent
    <2>2. SubSeq(h, 1, 0) = <<>>
      <3> HIDE DEF h
      <3> QED BY <2>1, SubSeqEmpty
    <2> HIDE DEF h
    <2>3. 0 <= Len(h) /\ <<>> = SubSeq(h, 1, 0)
      BY <2>1, <2>2
    <2> QED BY <1>3, <2>3 DEF h
  <1>9. Reading(D, k2)
    BY <1>3, <1>6, <1>7, <1>8 DEF Reading
  <1>10. PagesOK(D, k2)
    BY <1>5, <1>9 DEF PagesOK
  <1> QED BY <1>10 DEF k2

LEMMA NextPageReads ==
  ASSUME NEW D \in [Ids -> Props], NEW k, CallOK(k), PagesOK(D, k), k.pc = "send", NEW results, NEW next \in Nat,
         ~k.dirty => \E h : /\ h = HitsIn(D, Searches(k)[k.search]) /\ next <= Len(h)
                            /\ results = SubSeq(h, 1, next)
  PROVE  PagesOK(D, NextPage(k, results, next))
  <1> DEFINE k2 == NextPage(k, results, next)
  <1>1. DOMAIN k = Fields
    BY DEF CallOK
  <1>2. /\ k.cut \in BOOLEAN /\ k.dirty \in BOOLEAN /\ k.search \in 1..Len(Searches(k))
        /\ ~k.dirty /\ ~k.cut => k.found = Before(D, k)
    BY DEF PagesOK, Reading
  <1>3. /\ k2.job = k.job /\ k2.rules = k.rules /\ k2.owner = k.owner /\ k2.search = k.search /\ k2.after = next
        /\ k2.got = results /\ k2.found = k.found /\ k2.cut = k.cut /\ k2.seen = k.seen \cup {next}
        /\ k2.dirty = k.dirty /\ k2.pc = "ask"
    BY <1>1 DEF NextPage, Fields
  <1> HIDE DEF k2
  <1>4. Searches(k2) = Searches(k)
    BY <1>3, SearchesOf
  <1>5. Before(D, k2) = Before(D, k)
    BY <1>3, <1>4 DEF Before
  <1>6. Reading(D, k2)
    BY <1>2, <1>3, <1>4, <1>5 DEF Reading
  <1>7. PagesOK(D, k2)
    BY <1>2, <1>3, <1>6 DEF PagesOK
  <1> QED BY <1>7 DEF k2

\* The page a search sends: its cursor is where the next one starts, or it has no more.
LEMMA PageTaken ==
  ASSUME NEW D \in [Ids -> Props], NEW k, CallOK(k), PagesOK(D, k), k.pc = "send",
         NEW hits, hits = HitsIn(D, Searches(k)[k.search]),
         NEW limit, limit = PageLimit(k),
         NEW results, results = k.got \o Page(hits, k.after, limit),
         NEW next, next = Cursor(hits, k.after, limit) \/ (next = k.after /\ k.seen # {})
  PROVE  PagesOK(D, TakePage(k, results, next))
  <1>1. /\ DOMAIN k = Fields /\ k.got \in Seq(Records) /\ k.after \in Nat /\ limit \in Nat
        /\ hits \in Seq(Records) /\ Len(hits) \in Nat
    BY LimitIs, HitsSent DEF CallOK
  <1>2. /\ k.cut \in BOOLEAN /\ k.dirty \in BOOLEAN /\ (k.seen # {} => k.after \in k.seen)
        /\ ~k.dirty => k.after <= Len(hits) /\ k.got = SubSeq(hits, 1, k.after)
    BY DEF PagesOK, Reading
  <1>3. ~k.dirty => results = SubSeq(hits, 1, MinOf(k.after + limit, Len(hits)))
    <2>1. ~k.dirty => k.after \in 0..Len(hits)
      BY <1>1, <1>2
    <2> QED BY <1>1, <1>2, <2>1, PageJoins
  <1>4. None \notin Int
    BY DealRulesAssumption
  <1>5. PagesOK(D, NextSearch(k, results, TRUE))
    BY NextSearchReads
  <1>6. ASSUME next = None
        PROVE  PagesOK(D, NextSearch(k, results, FALSE))
    <2>1. ~ (k.after + limit < Len(hits))
      BY <1>1, <1>4, <1>6 DEF Cursor
    <2>2. MinOf(k.after + limit, Len(hits)) = Len(hits)
      BY <1>1, <2>1 DEF MinOf
    <2>3. SubSeq(hits, 1, Len(hits)) = hits
      BY <1>1, SubSeqFull
    <2>4. ~k.dirty => results = hits
      BY <1>3, <2>2, <2>3
    <2> QED BY <2>4, NextSearchReads
  <1>7. ASSUME next # None, next \notin k.seen
        PROVE  PagesOK(D, NextPage(k, results, next))
    <2>1. next = k.after + limit /\ k.after + limit < Len(hits)
      BY <1>2, <1>7 DEF Cursor
    <2>2. next \in Nat /\ MinOf(k.after + limit, Len(hits)) = next /\ next <= Len(hits)
      BY <1>1, <2>1 DEF MinOf
    <2>3. ~k.dirty => \E h : /\ h = HitsIn(D, Searches(k)[k.search]) /\ next <= Len(h)
                             /\ results = SubSeq(h, 1, next)
      BY <1>3, <2>2
    <2> QED BY <2>2, <2>3, NextPageReads
  <1>8. PagesOK(D, [k EXCEPT !.pc = "done", !.answer = Failed])
    <2> DEFINE k2 == [k EXCEPT !.pc = "done", !.answer = Failed]
    <2>1. k2.pc = "done" /\ k2.cut = k.cut /\ k2.dirty = k.dirty
      BY <1>1 DEF Fields
    <2> HIDE DEF k2
    <2>2. PagesOK(D, k2)
      BY <1>2, <2>1, EndsRead
    <2> QED BY <2>2 DEF k2
  <1> QED BY <1>5, <1>6, <1>7, <1>8 DEF TakePage

\* One call moves, the others stay where they are.
LEMMA OneReads ==
  ASSUME PagesInv, CallsInv', NEW c \in Calls, NEW k2, PagesOK(deals, k2), calls' = [calls EXCEPT ![c] = k2],
         UNCHANGED deals
  PROVE  PagesInv'
  BY DEF PagesInv, CallsInv

LEMMA ReadsPage ==
  ASSUME PagesInv, CallsInv', NEW c \in Calls, ReadPage(c)
  PROVE  PagesInv'
  <1> DEFINE k == calls[c]
             hits == HitsIn(deals, Searches(k)[k.search])
             limit == PageLimit(k)
             results == k.got \o Page(hits, k.after, limit)
             proper == Cursor(hits, k.after, limit)
  <1>1. CallOK(k) /\ PagesOK(deals, k) /\ k.pc = "send" /\ deals \in [Ids -> Props]
    BY DEF PagesInv, CallsInv, ReadPage, At
  <1>2. hits = Hits(Searches(k)[k.search])
    BY HitsNow
  <1>3. UNCHANGED deals
    BY DEF ReadPage
  <1>4. \/ calls' = [calls EXCEPT ![c] = TakePage(k, results, proper)]
        \/ k.seen # {} /\ calls' = [calls EXCEPT ![c] = TakePage(k, results, k.after)]
    <2> HIDE DEF hits
    <2> QED BY <1>2, Zenon DEF ReadPage
  <1>5. PagesOK(deals, TakePage(k, results, proper))
    <2> HIDE DEF k, hits, limit, results, proper
    <2> QED BY <1>1, PageTaken DEF hits, limit, results, proper
  <1>6. k.seen # {} => PagesOK(deals, TakePage(k, results, k.after))
    <2> HIDE DEF k, hits, limit, results, proper
    <2> QED BY <1>1, PageTaken DEF hits, limit, results
  <1> HIDE DEF results, proper
  <1> QED BY <1>3, <1>4, <1>5, <1>6, OneReads

LEMMA StartReads ==
  ASSUME PagesInv, CallsInv', NEW c \in Calls, Start(c)
  PROVE  PagesInv'
  <1> DEFINE k == calls[c]
  <1>1. /\ CallOK(k) /\ DOMAIN k = Fields /\ k.pc = "idle" /\ Untried(k) /\ k.cut \in BOOLEAN /\ k.dirty \in BOOLEAN
        /\ ~k.dirty /\ PagesOK(deals, k) /\ deals \in [Ids -> Props]
    BY DEF PagesInv, PagesOK, CallsInv, CallOK, Start, At
  <1>2. PICK job \in Jobs, rules \in RuleFiles :
          IF \/ rules = None
             \/ job.kind = "hygiene" /\ NewDate(job.newDate, Given(rules.asOf, Today)) = None
             \/ job.owner \in SelfWords /\ rules.defaultOwner = None
          THEN calls' = [calls EXCEPT ![c].pc = "done", ![c].job = job, ![c].rules = rules, ![c].answer = Failed]
          ELSE calls' = [calls EXCEPT ![c].job = job, ![c].rules = rules,
                                      ![c].pc = IF Wanted(job, rules) = None THEN "ask" ELSE "owner"]
    BY Zenon DEF Start
  <1> DEFINE failed == [k EXCEPT !.pc = "done", !.job = job, !.rules = rules, !.answer = Failed]
             started == [k EXCEPT !.job = job, !.rules = rules,
                                  !.pc = IF Wanted(job, rules) = None THEN "ask" ELSE "owner"]
  <1>3. PagesOK(deals, failed)
    <2>1. failed.pc = "done" /\ failed.cut = k.cut /\ failed.dirty = k.dirty
      BY <1>1 DEF Fields
    <2> HIDE DEF failed
    <2> QED BY <1>1, <2>1, EndsRead
  <1>4. ASSUME rules # None,
               job.kind = "hygiene" => NewDate(job.newDate, Given(rules.asOf, Today)) # None
        PROVE  PagesOK(deals, started)
    <2>1. /\ started.pc \in {"ask", "owner"} /\ started.job = job /\ started.rules = rules
          /\ started.search = k.search /\ started.got = k.got /\ started.found = k.found /\ started.after = k.after
          /\ started.seen = k.seen /\ started.cut = k.cut /\ started.dirty = k.dirty
      BY <1>1 DEF Fields
    <2> HIDE DEF started
    <2>2. Sane(started)
      BY <1>4, <2>1 DEF Sane
    <2>3. Untried(started) /\ started.cut \in BOOLEAN /\ started.dirty \in BOOLEAN
      BY <1>1, <2>1 DEF Untried
    <2> QED BY <1>1, <2>1, <2>2, <2>3, Begins DEF Searching
  <1>5. \/ calls' = [calls EXCEPT ![c] = failed]
        \/ /\ rules # None /\ (job.kind = "hygiene" => NewDate(job.newDate, Given(rules.asOf, Today)) # None)
           /\ calls' = [calls EXCEPT ![c] = started]
    BY <1>2
  <1>6. UNCHANGED deals
    BY DEF Start
  <1> HIDE DEF failed, started
  <1> QED BY <1>3, <1>4, <1>5, <1>6, OneReads

\* The other steps of a call read nothing.
LEMMA OthersRead ==
  ASSUME PagesInv, CallsInv', NEW c \in Calls, Step(c), ~Start(c), ~ReadPage(c)
  PROVE  PagesInv'
  <1> DEFINE k == calls[c]
  <1>1. /\ CallOK(k) /\ DOMAIN k = Fields /\ PagesOK(deals, k) /\ deals \in [Ids -> Props]
        /\ k.cut \in BOOLEAN /\ k.dirty \in BOOLEAN
    BY DEF PagesInv, PagesOK, CallsInv, CallOK
  <1>2. UNCHANGED deals
    BY DEF Step, ResolveOwner, OwnersFail, Ask, Acquire, Limit, Wake, Refused, SearchFails, Compute, LookupFails
  <1>3. ASSUME NEW answer, Ends(c, answer)
        PROVE  PagesInv'
    <2> DEFINE k2 == [k EXCEPT !.pc = "done", !.answer = answer]
    <2>1. calls' = [calls EXCEPT ![c] = k2]
      BY <1>3 DEF Ends
    <2>2. k2.pc = "done" /\ k2.cut = k.cut /\ k2.dirty = k.dirty
      BY <1>1 DEF Fields
    <2> HIDE DEF k2
    <2>3. PagesOK(deals, k2)
      BY <1>1, <2>2, EndsRead
    <2> QED BY <1>2, <2>1, <2>3, OneReads
  <1>4. ASSUME k.pc \in Searching, NEW k2, k2.pc \in Searching, calls' = [calls EXCEPT ![c] = k2],
               \A f \in Fields \ {"pc", "attempt", "wait"} : k2[f] = k[f]
        PROVE  PagesInv'
    <2>1. /\ k2.job = k.job /\ k2.rules = k.rules /\ k2.owner = k.owner /\ k2.search = k.search
          /\ k2.after = k.after /\ k2.got = k.got /\ k2.found = k.found /\ k2.cut = k.cut /\ k2.seen = k.seen
          /\ k2.dirty = k.dirty
      BY <1>4 DEF Fields
    <2>2. PagesOK(deals, k2)
      BY <1>1, <1>4, <2>1, WaitsRead
    <2> QED BY <1>2, <1>4, <2>2, OneReads
  <1>5. ASSUME k.pc \in Searching, NEW pc \in Searching, Goes(c, pc)
        PROVE  PagesInv'
    <2> DEFINE k2 == [k EXCEPT !.pc = pc]
    <2>1. calls' = [calls EXCEPT ![c] = k2]
      BY <1>5 DEF Goes
    <2>2. k2.pc = pc /\ \A f \in Fields \ {"pc", "attempt", "wait"} : k2[f] = k[f]
      BY <1>1 DEF Fields
    <2> HIDE DEF k2
    <2> QED BY <1>4, <1>5, <2>1, <2>2
  <1>6. CASE ResolveOwner(c)
    <2>1. k.pc = "owner" /\ Resolve(c)
      BY <1>6 DEF ResolveOwner, At
    <2> DEFINE k2 == [k EXCEPT !.pc = "ask", !.owner = CHOOSE o \in FindOwner(Wanted(k.job, k.rules)) : TRUE]
    <2>2. calls' = [calls EXCEPT ![c] = k2] \/ Ends(c, Failed)
      BY <2>1 DEF Resolve
    <2>3. /\ k2.pc = "ask" /\ k2.job = k.job /\ k2.rules = k.rules
          /\ k2.search = k.search /\ k2.got = k.got /\ k2.found = k.found /\ k2.after = k.after
          /\ k2.seen = k.seen /\ k2.cut = k.cut /\ k2.dirty = k.dirty
      BY <1>1 DEF Fields
    <2>4. Sane(k) /\ Untried(k)
      BY <1>1, <2>1 DEF CallOK, PagesOK
    <2> HIDE DEF k2
    <2>5. Sane(k2) /\ Untried(k2)
      BY <2>3, <2>4, SaneOf DEF Untried
    <2>6. PagesOK(deals, k2)
      BY <1>1, <2>3, <2>5, Begins DEF Searching
    <2> QED BY <1>2, <1>3, <2>2, <2>6, OneReads
  <1>7. CASE OwnersFail(c) \/ SearchFails(c) \/ LookupFails(c) \/ Compute(c)
    BY <1>3, <1>7 DEF OwnersFail, SearchFails, LookupFails, Compute
  <1>8. CASE Ask(c) \/ Acquire(c) \/ Wake(c)
    BY <1>5, <1>8 DEF Ask, Acquire, Wake, Woken, At, Searching
  <1>9. CASE Limit(c)
    <2> DEFINE k2 == [k EXCEPT !.pc = "limited", !.wait = Window - Head(stamps')]
    <2>1. calls' = [calls EXCEPT ![c] = k2] /\ k.pc = "queued"
      BY <1>9 DEF Limit, At
    <2>2. k2.pc = "limited" /\ \A f \in Fields \ {"pc", "attempt", "wait"} : k2[f] = k[f]
      BY <1>1 DEF Fields
    <2> HIDE DEF k2
    <2>3. k.pc \in Searching /\ k2.pc \in Searching
      BY <2>1, <2>2 DEF Searching
    <2> QED BY <1>4, <2>1, <2>2, <2>3
  <1>10. CASE Refused(c)
    <2>1. k.pc = "send"
      BY <1>10 DEF Refused, At
    <2>2. CASE Ends(c, Failed)
      BY <1>3, <2>2
    <2>3. CASE \E r \in RetryAfters : calls' = [calls EXCEPT ![c].pc = "backoff", ![c].attempt = @ + 1,
                                                             ![c].wait = RetryWait(r, calls[c].attempt)]
      <3>1. PICK r \in RetryAfters : calls' = [calls EXCEPT ![c].pc = "backoff", ![c].attempt = @ + 1,
                                                             ![c].wait = RetryWait(r, calls[c].attempt)]
        BY <2>3
      <3> DEFINE k2 == [k EXCEPT !.pc = "backoff", !.attempt = @ + 1, !.wait = RetryWait(r, k.attempt)]
      <3>2. calls' = [calls EXCEPT ![c] = k2]
        BY <3>1
      <3>3. k2.pc = "backoff" /\ \A f \in Fields \ {"pc", "attempt", "wait"} : k2[f] = k[f]
        BY <1>1 DEF Fields
      <3> HIDE DEF k2
      <3>4. k.pc \in Searching /\ k2.pc \in Searching
        BY <2>1, <3>3 DEF Searching
      <3> QED BY <1>4, <3>2, <3>3, <3>4
    <2> QED BY <1>10, <2>2, <2>3 DEF Refused
  <1> QED BY <1>6, <1>7, <1>8, <1>9, <1>10 DEF Step

\* An edit shows in every call that reads.
LEMMA DirtyReads ==
  ASSUME NEW D, NEW D2, NEW k, CallOK(k), PagesOK(D, k), NEW k2, k2 = [k EXCEPT !.dirty = @ \/ k.pc \notin {"idle", "done"}]
  PROVE  PagesOK(D2, k2)
  <1>1. DOMAIN k = Fields /\ k.dirty \in BOOLEAN /\ k.cut \in BOOLEAN
    BY DEF CallOK, PagesOK
  <1>2. /\ k2.pc = k.pc /\ k2.job = k.job /\ k2.rules = k.rules /\ k2.owner = k.owner /\ k2.search = k.search
        /\ k2.after = k.after /\ k2.got = k.got /\ k2.found = k.found /\ k2.cut = k.cut /\ k2.seen = k.seen
        /\ k2.dirty = (k.dirty \/ k.pc \notin {"idle", "done"})
    BY <1>1 DEF Fields
  <1> HIDE DEF PagesOK
  <1>3. Searches(k2) = Searches(k)
    BY <1>2, SearchesOf
  <1>4. Untried(k) => Untried(k2)
    BY <1>2 DEF Untried
  <1>5. k.pc \notin {"idle", "done"} => Reading(D2, k2)
    BY <1>2, <1>3 DEF PagesOK, Reading
  <1> QED BY <1>1, <1>2, <1>4, <1>5 DEF PagesOK

\* Time leaves what is read.
LEMMA TimeReads ==
  ASSUME NEW D, NEW k, CallOK(k), PagesOK(D, k), NEW w
  PROVE  PagesOK(D, [k EXCEPT !.wait = w])
  <1> DEFINE k2 == [k EXCEPT !.wait = w]
  <1>1. /\ k2.pc = k.pc /\ k2.job = k.job /\ k2.rules = k.rules /\ k2.owner = k.owner /\ k2.search = k.search
        /\ k2.after = k.after /\ k2.got = k.got /\ k2.found = k.found /\ k2.cut = k.cut /\ k2.seen = k.seen
        /\ k2.dirty = k.dirty
    BY DEF CallOK, Fields
  <1> HIDE DEF k2
  <1>2. Searches(k2) = Searches(k)
    BY <1>1, SearchesOf
  <1>3. Before(D, k2) = Before(D, k) /\ (Untried(k) => Untried(k2))
    BY <1>1, <1>2 DEF Before, Untried
  <1>4. Reading(D, k) => Reading(D, k2)
    BY <1>1, <1>2, <1>3 DEF Reading
  <1>5. PagesOK(D, k2)
    BY <1>1, <1>3, <1>4 DEF PagesOK
  <1> QED BY <1>5 DEF k2

LEMMA PagesInit == Init => PagesInv
  <1> SUFFICES ASSUME Init PROVE PagesInv
    OBVIOUS
  <1>1. PagesOK(deals, Idle)
    BY DEF PagesOK, Untried, Idle
  <1> QED BY <1>1, CallsInit DEF Init, PagesInv

LEMMA PagesStep == PagesInv /\ [Next]_vars => PagesInv'
  <1> SUFFICES ASSUME PagesInv, [Next]_vars
               PROVE  PagesInv'
    OBVIOUS
  <1>0. CallsInv /\ CallsInv' /\ \A c \in Calls : CallOK(calls[c]) /\ PagesOK(deals, calls[c])
    BY CallsStep DEF PagesInv, CallsInv
  <1>1. ASSUME NEW c \in Calls, Step(c)
        PROVE  PagesInv'
    BY <1>0, <1>1, StartReads, ReadsPage, OthersRead
  <1>2. CASE Tick
    <2>1. UNCHANGED deals /\ \A c \in Calls : calls'[c] = [calls[c] EXCEPT !.wait = Max({@ - 1, 0})]
      BY <1>2 DEF Tick
    <2>2. ASSUME NEW c \in Calls
          PROVE  PagesOK(deals, calls'[c])
      <3> DEFINE w == Max({calls[c].wait - 1, 0})
      <3>1. calls'[c] = [calls[c] EXCEPT !.wait = w]
        BY <2>1
      <3> HIDE DEF w
      <3> QED BY <1>0, <3>1, TimeReads
    <2> QED BY <1>0, <2>1, <2>2 DEF PagesInv
  <1>3. CASE Edit
    <2>1. \A c \in Calls : calls'[c] = [calls[c] EXCEPT !.dirty = @ \/ calls[c].pc \notin {"idle", "done"}]
      BY <1>3 DEF Edit
    <2>2. \A c \in Calls : PagesOK(deals', calls'[c])
      BY <1>0, <2>1, DirtyReads
    <2> QED BY <1>0, <2>2 DEF PagesInv
  <1>4. CASE CacheExpires \/ UNCHANGED vars
    BY <1>0, <1>4 DEF CacheExpires, vars, PagesInv
  <1> QED BY <1>1, <1>2, <1>3, <1>4 DEF Next

\* What a call that answers a whole, undisturbed look has read.
LEMMA QuietFinds ==
  ASSUME PagesInv, NEW c \in Calls, [Next]_vars, ~Answered(c), Answered(c)', ~calls[c].dirty
  PROVE  LET k == calls[c]
             a == calls'[c].answer
         IN /\ CallOK(k) /\ Sane(k) /\ deals \in [Ids -> Props] /\ a = Answer(k) /\ a # Failed
            /\ ~k.cut => k.search = Len(Searches(k)) + 1 /\ k.found = Before(deals, k)
  <1> DEFINE k == calls[c]
             a == calls'[c].answer
  <1>1. CallOK(k) /\ DOMAIN k = Fields /\ PagesOK(deals, k) /\ deals \in [Ids -> Props] /\ DOMAIN calls = Calls
    BY DEF PagesInv, CallsInv, CallOK
  <1>2. calls'[c].pc = "done" /\ a # Failed /\ (k.pc # "done" \/ k.answer = Failed)
    BY DEF Answered, At
  <1>3. CASE Compute(c)
    <2>1. k.pc = "context" /\ calls' = [calls EXCEPT ![c].pc = "done", ![c].answer = Answer(k)]
      BY <1>3 DEF Compute, At, Ends
    <2>2. a = Answer(k)
      BY <1>1, <2>1 DEF Fields
    <2>3. Sane(k) /\ Reading(deals, k)
      BY <1>1, <2>1 DEF CallOK, PagesOK
    <2> QED BY <1>1, <1>2, <2>1, <2>2, <2>3 DEF Reading
  <1>4. CASE ~Compute(c)
    <2>1. ASSUME Step(c)
          PROVE  calls'[c].pc # "done" \/ a = Failed
      <3>1. ASSUME NEW answer, Ends(c, answer)
            PROVE  a = answer
        BY <1>1, <3>1 DEF Ends, Fields
      <3>2. ASSUME NEW pc, pc # "done", Goes(c, pc)
            PROVE  calls'[c].pc # "done"
        BY <1>1, <3>2 DEF Goes, Fields
      <3>3. CASE Start(c)
        BY <1>1, <3>3 DEF Start, Fields
      <3>4. CASE ResolveOwner(c)
        BY <1>1, <3>1, <3>4 DEF ResolveOwner, Resolve, Fields
      <3>5. CASE OwnersFail(c) \/ SearchFails(c) \/ LookupFails(c)
        BY <3>1, <3>5 DEF OwnersFail, SearchFails, LookupFails
      <3>6. CASE Ask(c) \/ Acquire(c) \/ Wake(c)
        BY <3>2, <3>6 DEF Ask, Acquire, Wake, Woken
      <3>7. CASE Limit(c)
        BY <1>1, <3>7 DEF Limit, Fields
      <3>8. CASE Refused(c)
        BY <1>1, <3>1, <3>8 DEF Refused, Fields
      <3>9. CASE ReadPage(c)
        <4>1. \E results, next : calls' = [calls EXCEPT ![c] = TakePage(k, results, next)]
          BY <3>9 DEF ReadPage
        <4>2. ASSUME NEW results, NEW next
              PROVE  TakePage(k, results, next).pc # "done" \/ TakePage(k, results, next).answer = Failed
          <5>1. \A cut : NextSearch(k, results, cut).pc # "done"
            BY <1>1 DEF NextSearch, Fields
          <5>2. NextPage(k, results, next).pc # "done"
            BY <1>1 DEF NextPage, Fields
          <5>3. [k EXCEPT !.pc = "done", !.answer = Failed].answer = Failed
            BY <1>1 DEF Fields
          <5> QED BY <5>1, <5>2, <5>3 DEF TakePage
        <4> HIDE DEF k
        <4> QED BY <1>1, <4>1, <4>2
      <3> QED BY <1>4, <2>1, <3>3, <3>4, <3>5, <3>6, <3>7, <3>8, <3>9 DEF Step
    <2>2. ASSUME NEW d \in Calls, d # c, Step(d)
          PROVE  calls'[c] = calls[c]
      BY <1>1, <2>2 DEF Step, Start, ResolveOwner, Resolve, OwnersFail, Ask, Acquire, Limit, Wake, ReadPage, Refused,
            SearchFails, Compute, LookupFails, Ends, Goes
    <2>3. ASSUME Tick \/ Edit
          PROVE  calls'[c].pc = k.pc /\ a = k.answer
      <3>1. \E v : calls'[c] = [k EXCEPT !.wait = v] \/ calls'[c] = [k EXCEPT !.dirty = v]
        BY <2>3 DEF Tick, Edit
      <3> HIDE DEF k
      <3> QED BY <1>1, <3>1 DEF Fields
    <2>4. ASSUME CacheExpires \/ UNCHANGED vars
          PROVE  calls'[c] = calls[c]
      BY <2>4 DEF CacheExpires, vars
    <2> QED BY <1>2, <2>1, <2>2, <2>3, <2>4 DEF Next
  <1> QED BY <1>3, <1>4

LEMMA SameSize ==
  ASSUME NEW A, NEW B, IsFiniteSet(A), NEW f \in [A -> B], \A x, y \in A : f[x] = f[y] => x = y,
         \A y \in B : \E x \in A : f[x] = y
  PROVE  IsFiniteSet(B) /\ Cardinality(B) = Cardinality(A)
  <1>1. f \in Surjection(A, B) /\ f \in Injection(A, B)
    BY DEF Surjection, Injection, IsInjective
  <1> QED BY <1>1, FS_Surjection

\* The first items of a list.
LEMMA FirstOf ==
  ASSUME NEW S, NEW r \in Seq(S), NEW m \in Nat
  PROVE  LET kept == SubSeq(r, 1, MinOf(m, Len(r)))
         IN /\ kept \in Seq(S) /\ Len(kept) = MinOf(m, Len(r)) /\ Len(kept) \in 0..Len(r)
            /\ \A i \in 1..Len(kept) : kept[i] = r[i] /\ i \in 1..Len(r)
  <1> DEFINE n == MinOf(m, Len(r))
             kept == SubSeq(r, 1, n)
  <1>1. Len(r) \in Nat
    BY LenProperties
  <1>2. n \in 0..Len(r)
    BY <1>1 DEF MinOf
  <1> HIDE DEF n
  <1>3. 1 \in 1..(Len(r) + 1) /\ n \in (1 - 1)..Len(r) /\ n - 1 + 1 = n /\ \A i \in 1..n : 1 + i - 1 = i
    BY <1>1, <1>2
  <1>4. kept \in Seq(S) /\ Len(kept) = n /\ \A i \in 1..n : kept[i] = r[i]
    BY <1>3, SubSeqProperties
  <1> HIDE DEF kept
  <1>5. \A i \in 1..n : i \in 1..Len(r)
    BY <1>1, <1>2
  <1> QED BY <1>2, <1>4, <1>5 DEF kept, n

-----------------------------------------------------------------------------
(* The triage of deals that were all read *)

CodesIn(D, i, rules, asOf) == EvaluateDeal(D[i], LabelOf(StageOf(Pipelines, D[i])), rules, asOf)
TriageExact(D, J, rules, asOf, a) ==
  LET urgent == {i \in J : CodesIn(D, i, rules, asOf) # {}}
  IN /\ a.checked = Cardinality(J) /\ a.flagged = Cardinality(urgent)
     /\ \A i \in DOMAIN a.deals :
          a.deals[i].id \in urgent /\ a.deals[i].reasons = CodesIn(D, a.deals[i].id, rules, asOf)
     /\ \A i, j \in DOMAIN a.deals : i < j => a.deals[i].score >= a.deals[j].score
     /\ \A i \in DOMAIN a.deals, j \in urgent \ {a.deals[n].id : n \in DOMAIN a.deals} :
          a.deals[i].score >= UrgencyScore(CodesIn(D, j, rules, asOf), D[j], rules)

LEMMA HomeIsInt ==
  ASSUME NEW p \in Props, NEW home
  PROVE  AmountHome(p, home) \in Int \cup {None} /\ Given(AmountHome(p, home), 0) \in Int
  <1>1. p.home \in Int \cup {None} /\ p.amount \in Int \cup {None}
    BY DealsAssumption
  <1>2. AmountHome(p, home) \in Int \cup {None}
    BY <1>1 DEF AmountHome
  <1> QED BY <1>2 DEF Given

LEMMA UrgencyIsInt ==
  ASSUME NEW p \in Props, NEW label, NEW rules \in RuleFiles \ {None}, NEW asOf
  PROVE  UrgencyScore(EvaluateDeal(p, label, rules, asOf), p, rules) \in Int
  <1> DEFINE A == EvaluateDeal(p, label, rules, asOf)
             v == [c \in A |-> rules.weights[c]]
  <1>1. A \in SUBSET rules.codes /\ A \in SUBSET {"OVERDUE", "SILENT", "NO_NEXT", "STALLED"}
    BY DEF EvaluateDeal
  <1>2. IsFiniteSet(A)
    <2> DEFINE one == {"OVERDUE"} two == one \cup {"SILENT"} three == two \cup {"NO_NEXT"}
    <2>1. IsFiniteSet(one)
      BY FS_Singleton
    <2>2. IsFiniteSet(three \cup {"STALLED"})
      BY <2>1, FS_AddElement
    <2>3. A \in SUBSET (three \cup {"STALLED"})
      BY <1>1
    <2> HIDE DEF A
    <2> QED BY <2>2, <2>3, FS_Subset
  <1> HIDE DEF A
  <1>3. v \in [A -> Int]
    BY <1>1, DealsAssumption
  <1> HIDE DEF v
  <1>4. SumFunction(v) \in Int
    BY <1>2, <1>3, SumIsInt
  <1>5. Given(AmountHome(p, rules.home), 0) \in Int
    BY HomeIsInt
  <1> DEFINE sum == SumFunction(v)
             worth == Given(AmountHome(p, rules.home), 0)
  <1>6. UrgencyScore(A, p, rules) = sum * worth
    BY DEF UrgencyScore, v
  <1>7. sum * worth \in Int
    <2> HIDE DEF sum, worth
    <2>1. \A x, y \in Int : x * y \in Int
      OBVIOUS
    <2> QED BY <1>4, <1>5, <2>1 DEF sum, worth
  <1> HIDE DEF sum, worth
  <1> QED BY <1>6, <1>7 DEF A

\* The flagged deals by score.
LEMMA ByScoreIsWeak ==
  ASSUME NEW at, NEW entries, \A i \in at : entries[i].score \in Int /\ entries[i].id \in Int
  PROVE  /\ Weak(entries, at, ByScore({entries[i] : i \in at}))
         /\ \A i, j \in at : <<entries[i], entries[j]>> \in ByScore({entries[m] : m \in at})
              <=> \/ entries[i].score > entries[j].score
                  \/ entries[i].score = entries[j].score /\ entries[i].id < entries[j].id
  <1> DEFINE B == ByScore({entries[m] : m \in at})
             s == [i \in at |-> entries[i].score]
             d == [i \in at |-> entries[i].id]
  <1>1. \A i, j \in at : <<entries[i], entries[j]>> \in B
              <=> \/ entries[i].score > entries[j].score
                  \/ entries[i].score = entries[j].score /\ entries[i].id < entries[j].id
    BY DEF ByScore
  <1>2. \A i, j \in at : <<entries[i], entries[j]>> \in B <=> s[i] > s[j] \/ (s[i] = s[j] /\ d[i] < d[j])
    BY <1>1
  <1>3. \A i \in at : s[i] \in Int /\ d[i] \in Int
    OBVIOUS
  <1> HIDE DEF B, s, d
  <1>4. Weak(entries, at, B)
    <2>1. \A i \in at : <<entries[i], entries[i]>> \notin B
      BY <1>2, <1>3
    <2>2. ASSUME NEW i \in at, NEW j \in at, NEW m \in at, <<entries[i], entries[j]>> \in B, <<entries[j], entries[m]>> \in B
          PROVE  <<entries[i], entries[m]>> \in B
      <3>1. s[i] > s[j] \/ (s[i] = s[j] /\ d[i] < d[j])
        BY <1>2, <2>2
      <3>2. s[j] > s[m] \/ (s[j] = s[m] /\ d[j] < d[m])
        BY <1>2, <2>2
      <3>3. s[i] > s[m] \/ (s[i] = s[m] /\ d[i] < d[m])
        BY <1>3, <3>1, <3>2
      <3> QED BY <1>2, <3>3
    <2>3. ASSUME NEW i \in at, NEW j \in at, NEW m \in at, <<entries[i], entries[j]>> \notin B,
                 <<entries[j], entries[m]>> \notin B
          PROVE  <<entries[i], entries[m]>> \notin B
      <3>1. ~ (s[i] > s[j] \/ (s[i] = s[j] /\ d[i] < d[j]))
        BY <1>2, <2>3
      <3>2. ~ (s[j] > s[m] \/ (s[j] = s[m] /\ d[j] < d[m]))
        BY <1>2, <2>3
      <3>3. ~ (s[i] > s[m] \/ (s[i] = s[m] /\ d[i] < d[m]))
        BY <1>3, <3>1, <3>2
      <3> QED BY <1>2, <3>3
    <2> QED BY <2>1, <2>2, <2>3, Zenon DEF Weak
  <1> QED BY <1>1, <1>4 DEF B

\* What follows of a list of deals.
Listed(q, D, J) ==
  /\ Len(q) \in Nat /\ DOMAIN q = 1..Len(q) /\ q \in Seq(Records)
  /\ IsFiniteSet(1..Len(q))
  /\ \A i \in 1..Len(q) : q[i] \in Records /\ q[i].id \in J /\ q[i].p = D[q[i].id] /\ D[q[i].id] \in Props
  /\ \A i, j \in 1..Len(q) : q[i].id = q[j].id => i = j
  /\ \A j \in J : \E i \in 1..Len(q) : q[i].id = j

LEMMA ListIs ==
  ASSUME NEW D \in [Ids -> Props], NEW J \in SUBSET Ids, NEW q, Lists(q, D, J)
  PROVE  Listed(q, D, J)
  <1>1. Len(q) \in Nat /\ DOMAIN q = 1..Len(q) /\ q \in Seq(Records) /\ \A i \in 1..Len(q) : q[i] \in Records
    BY LenProperties DEF Lists
  <1>2. \A j \in J : j \in Int
    BY ReadsAssumption
  <1>3. \A i \in 1..Len(q) : q[i].id \in J /\ q[i].p = D[q[i].id] /\ D[q[i].id] \in Props
    BY DEF Lists
  <1>4. ASSUME NEW i \in 1..Len(q), NEW j \in 1..Len(q), q[i].id = q[j].id
        PROVE  i = j
    <2>1. \A m, n \in 1..Len(q) : m < n => q[m].id < q[n].id
      BY DEF Lists
    <2>2. q[i].id \in Int /\ ~ (q[i].id < q[j].id) /\ ~ (q[j].id < q[i].id)
      BY <1>2, <1>3, <1>4
    <2> QED BY <1>1, <2>1, <2>2
  <1>5. IsFiniteSet(1..Len(q))
    BY <1>1, FS_Interval
  <1> QED BY <1>1, <1>3, <1>4, <1>5 DEF Lists, Listed

\* What the entries of a triage are: every urgent deal, the most urgent first.
TriageList(r, D, J, rules, asOf) ==
  LET urgent == {i \in J : CodesIn(D, i, rules, asOf) # {}}
  IN /\ \E S : r \in Seq(S)
     /\ Len(r) = Cardinality(urgent)
     /\ \A n \in 1..Len(r) : /\ r[n].id \in urgent /\ r[n].reasons = CodesIn(D, r[n].id, rules, asOf)
                             /\ r[n].score = UrgencyScore(CodesIn(D, r[n].id, rules, asOf), D[r[n].id], rules)
                             /\ r[n].score \in Int
     /\ \A m, n \in 1..Len(r) : m < n => r[m].score >= r[n].score
     /\ \A j \in urgent : \E n \in 1..Len(r) : r[n].id = j

LEMMA TriageLists ==
  ASSUME NEW D \in [Ids -> Props], NEW J \in SUBSET Ids, \A j \in J : ~D[j].closed, NEW q, Lists(q, D, J),
         NEW rules \in RuleFiles \ {None}, NEW asOf
  PROVE  TriageList(TriageDeals(q, rules, Pipelines, asOf), D, J, rules, asOf)
  <1>1. /\ Len(q) \in Nat /\ DOMAIN q = 1..Len(q) /\ IsFiniteSet(1..Len(q))
        /\ \A i \in 1..Len(q) : q[i].id \in J /\ q[i].p = D[q[i].id] /\ D[q[i].id] \in Props
        /\ \A i, j \in 1..Len(q) : q[i].id = q[j].id => i = j
        /\ \A j \in J : \E i \in 1..Len(q) : q[i].id = j
    <2>1. Listed(q, D, J)
      BY ListIs
    <2> QED BY <2>1 DEF Listed
  <1> DEFINE Codes(j) == CodesIn(D, j, rules, asOf)
             urgent == {j \in J : Codes(j) # {}}
             Reasons(d) == EvaluateDeal(d.p, LabelOf(StageOf(Pipelines, d.p)), rules, asOf)
             Closed(d) == StageOf(Pipelines, d.p) # None /\ StageOf(Pipelines, d.p).closed
             Entry(d) == [id |-> d.id, reasons |-> Reasons(d), score |-> UrgencyScore(Reasons(d), d.p, rules)]
             flagged == {i \in DOMAIN q : ~Closed(q[i]) /\ Reasons(q[i]) # {}}
             entries == [i \in flagged |-> Entry(q[i])]
             B == ByScore({entries[i] : i \in flagged})
             r == SortedAt(entries, flagged, B)
             n == Cardinality(flagged)
  <1>2. ASSUME NEW i \in 1..Len(q)
        PROVE  Reasons(q[i]) = Codes(q[i].id) /\ ~Closed(q[i])
    <2>1. q[i].p = D[q[i].id] /\ D[q[i].id] \in Props /\ ~D[q[i].id].closed
      BY <1>1
    <2>2. ~Closed(q[i])
      BY <2>1, DealsAssumption DEF StageOf
    <2> QED BY <2>1, <2>2 DEF CodesIn
  <1>3. flagged = {i \in 1..Len(q) : Codes(q[i].id) # {}}
    BY <1>1, <1>2
  <1>4. \A i \in flagged : /\ q[i].id \in urgent /\ entries[i].id = q[i].id /\ entries[i].reasons = Codes(q[i].id)
                           /\ entries[i].score = UrgencyScore(Codes(q[i].id), D[q[i].id], rules)
                           /\ entries[i].score \in Int /\ entries[i].id \in Int
    <2>1. ASSUME NEW i \in flagged
          PROVE  /\ q[i].id \in urgent /\ entries[i].id = q[i].id /\ entries[i].reasons = Codes(q[i].id)
                 /\ entries[i].score = UrgencyScore(Codes(q[i].id), D[q[i].id], rules)
                 /\ entries[i].score \in Int /\ entries[i].id \in Int
      <3>1. i \in 1..Len(q) /\ Codes(q[i].id) # {}
        BY <1>3
      <3>2. entries[i] = Entry(q[i])
        OBVIOUS
      <3>3. q[i].p = D[q[i].id] /\ D[q[i].id] \in Props /\ Reasons(q[i]) = Codes(q[i].id) /\ q[i].id \in J
        BY <1>1, <1>2, <3>1
      <3>4. UrgencyScore(Codes(q[i].id), D[q[i].id], rules) \in Int
        BY <3>3, UrgencyIsInt DEF CodesIn
      <3>5. q[i].id \in Int
        BY <3>3, ReadsAssumption
      <3> HIDE DEF entries, flagged, Reasons, Closed, Codes
      <3> QED BY <3>1, <3>2, <3>3, <3>4, <3>5
    <2> QED BY <2>1
  <1>5. TriageDeals(q, rules, Pipelines, asOf) = r
    BY Zenon DEF TriageDeals
  <1>6. flagged \in SUBSET Int /\ IsFiniteSet(flagged) /\ flagged \in SUBSET (1..Len(q))
    <2>1. flagged \in SUBSET (1..Len(q))
      BY <1>3
    <2> HIDE DEF flagged
    <2>2. flagged \in SUBSET Int
      BY <1>1, <2>1
    <2> QED BY <1>1, <2>1, <2>2, FS_Subset
  <1> HIDE DEF entries, flagged, Reasons, Closed, Codes, Entry, urgent
  <1>7. Weak(entries, flagged, B)
    BY <1>4, ByScoreIsWeak
  <1>8. \A i, j \in flagged : <<entries[i], entries[j]>> \in B
              <=> \/ entries[i].score > entries[j].score
                  \/ entries[i].score = entries[j].score /\ entries[i].id < entries[j].id
    BY <1>4, ByScoreIsWeak
  <1> HIDE DEF B
  <1>9. PICK order : Sorted(r, order, entries, flagged, B)
    BY <1>6, <1>7, SortedPlaces
  <1> HIDE DEF r
  <1>10. /\ n \in Nat /\ order \in [1..n -> flagged] /\ \A x \in flagged : \E i \in 1..n : order[i] = x
         /\ r = [i \in 1..n |-> entries[order[i]]]
         /\ \A i, j \in 1..n : i < j => <<r[j], r[i]>> \notin B
    BY <1>9 DEF Sorted
  <1>11. n = Cardinality(urgent)
    <2> DEFINE f == [i \in flagged |-> q[i].id]
    <2>1. f \in [flagged -> urgent] /\ \A i, j \in flagged : f[i] = f[j] => i = j
      BY <1>1, <1>4, <1>6
    <2>2. \A j \in urgent : \E i \in flagged : f[i] = j
      BY <1>1, <1>3 DEF urgent
    <2> HIDE DEF f
    <2> QED BY <1>6, <2>1, <2>2, SameSize
  <1> HIDE DEF n
  <1>12. \E S : r \in Seq(S)
    <2> DEFINE S == {entries[i] : i \in flagged}
    <2>1. r \in [1..n -> S]
      BY <1>10
    <2> HIDE DEF S
    <2>2. r \in Seq(S)
      BY <1>10, <2>1, FunctionIsSeq
    <2> QED BY <2>2
  <1>13. Len(r) = n
    <2>1. PICK S : r \in Seq(S)
      BY <1>12
    <2>2. DOMAIN r = 1..Len(r) /\ Len(r) \in Nat /\ DOMAIN r = 1..n
      BY <1>10, <2>1, LenProperties
    <2> QED BY <1>10, <2>2
  <1>14. \A i \in 1..n : r[i] = entries[order[i]] /\ order[i] \in flagged
    BY <1>10
  <1>15. \A i \in 1..n : /\ r[i].id \in urgent /\ r[i].reasons = Codes(r[i].id)
                         /\ r[i].score = UrgencyScore(Codes(r[i].id), D[r[i].id], rules) /\ r[i].score \in Int
    BY <1>4, <1>14
  <1>16. ASSUME NEW i \in 1..n, NEW j \in 1..n, i < j
         PROVE  r[i].score >= r[j].score
    <2>1. <<r[j], r[i]>> \notin B
      BY <1>10, <1>16
    <2>2. ~ (r[j].score > r[i].score)
      BY <1>8, <1>14, <2>1
    <2> QED BY <1>15, <2>2
  <1>17. ASSUME NEW j \in urgent
         PROVE  \E i \in 1..n : r[i].id = j
    <2>1. PICK m \in 1..Len(q) : q[m].id = j
      BY <1>1 DEF urgent
    <2>2. m \in flagged
      BY <1>3, <2>1 DEF urgent
    <2>3. PICK i \in 1..n : order[i] = m
      BY <1>10, <2>2
    <2> QED BY <1>4, <1>14, <2>1, <2>2, <2>3
  <1>18. TriageList(r, D, J, rules, asOf)
    BY <1>11, <1>12, <1>13, <1>15, <1>16, <1>17 DEF TriageList, Codes, urgent
  <1> QED BY <1>5, <1>18

LEMMA TriageIsExact ==
  ASSUME NEW D \in [Ids -> Props], NEW J \in SUBSET Ids, \A j \in J : ~D[j].closed, NEW q, Lists(q, D, J),
         NEW rules \in RuleFiles \ {None}, NEW asOf, NEW cut, NEW limit \in Nat,
         NEW a, a = TriageAnswer(q, cut, rules, Pipelines, asOf, limit)
  PROVE  TriageExact(D, J, rules, asOf, a)
  <1> DEFINE Codes(j) == CodesIn(D, j, rules, asOf)
             urgent == {j \in J : Codes(j) # {}}
             r == TriageDeals(q, rules, Pipelines, asOf)
             kept == SubSeq(r, 1, MinOf(limit, Len(r)))
  <1>1. a.checked = Len(q) /\ a.flagged = Len(r) /\ a.deals = kept
    <2> DEFINE by == [c \in rules.codes |-> Cardinality({i \in DOMAIN r : c \in r[i].reasons})]
    <2>1. a = [kind |-> "triage", checked |-> Len(q), flagged |-> Len(r), deals |-> kept, byCode |-> by,
               truncated |-> cut]
      BY Zenon DEF TriageAnswer
    <2> HIDE DEF by, kept, r
    <2> QED BY <2>1
  <1>2. TriageList(r, D, J, rules, asOf)
    BY TriageLists
  <1> HIDE DEF r, Codes
  <1>3. /\ Len(r) = Cardinality(urgent)
        /\ \A n \in 1..Len(r) : /\ r[n].id \in urgent /\ r[n].reasons = Codes(r[n].id)
                                /\ r[n].score = UrgencyScore(Codes(r[n].id), D[r[n].id], rules)
                                /\ r[n].score \in Int
        /\ \A m, n \in 1..Len(r) : m < n => r[m].score >= r[n].score
        /\ \A j \in urgent : \E n \in 1..Len(r) : r[n].id = j
    BY <1>2 DEF TriageList, Codes
  <1>4. PICK S : r \in Seq(S)
    BY <1>2 DEF TriageList
  <1>5. /\ kept \in Seq(S) /\ Len(kept) \in 0..Len(r) /\ Len(r) \in Nat
        /\ \A i \in 1..Len(kept) : kept[i] = r[i] /\ i \in 1..Len(r)
    BY <1>4, FirstOf, LenProperties
  <1>6. DOMAIN kept = 1..Len(kept)
    BY <1>5, LenProperties
  <1> HIDE DEF kept, urgent
  <1>7. ASSUME NEW i \in DOMAIN kept, NEW j \in urgent \ {kept[n].id : n \in DOMAIN kept}
        PROVE  kept[i].score >= UrgencyScore(Codes(j), D[j], rules)
    <2>1. PICK n \in 1..Len(r) : r[n].id = j
      BY <1>3, <1>7
    <2>2. n \notin 1..Len(kept)
      BY <1>5, <1>6, <1>7, <2>1
    <2>3. i < n /\ i \in 1..Len(r)
      BY <1>5, <1>6, <2>2
    <2> QED BY <1>3, <1>5, <1>6, <2>1, <2>3
  <1>8. \A i \in DOMAIN kept : kept[i].id \in urgent /\ kept[i].reasons = Codes(kept[i].id)
    BY <1>3, <1>5, <1>6
  <1>9. \A i, j \in DOMAIN kept : i < j => kept[i].score >= kept[j].score
    BY <1>3, <1>5, <1>6
  <1>10. Len(q) = Cardinality(J)
    BY DEF Lists
  <1>11. a.checked = Cardinality(J) /\ a.flagged = Cardinality(urgent)
    BY <1>1, <1>3, <1>10
  <1>12. \A i \in DOMAIN a.deals : a.deals[i].id \in urgent /\ a.deals[i].reasons = Codes(a.deals[i].id)
    BY <1>1, <1>8
  <1>13. \A i, j \in DOMAIN a.deals : i < j => a.deals[i].score >= a.deals[j].score
    BY <1>1, <1>9
  <1>14. \A i \in DOMAIN a.deals, j \in urgent \ {a.deals[n].id : n \in DOMAIN a.deals} :
           a.deals[i].score >= UrgencyScore(Codes(j), D[j], rules)
    BY <1>1, <1>7
  <1> QED BY <1>11, <1>12, <1>13, <1>14, Zenon DEF TriageExact, Codes, urgent

-----------------------------------------------------------------------------
(* The past-due deals that were all read *)

HygieneExact(due, a) ==
  LET moved == {a.ops[n].deal : n \in DOMAIN a.ops}
  IN /\ moved \subseteq due /\ Cardinality(due) = Cardinality(moved) + a.remaining
     /\ \A i \in moved, j \in due \ moved : i < j

\* The past-due deals, each once, by id.
DueList(found, due) ==
  /\ found \in Seq(Records) /\ Len(found) \in Nat /\ Len(found) = Cardinality(due)
  /\ \A i \in 1..Len(found) : found[i].id \in due /\ found[i].id \in Int
  /\ \A i, j \in 1..Len(found) : i < j => found[i].id < found[j].id
  /\ \A j \in due : \E i \in 1..Len(found) : found[i].id = j

LEMMA PastDueLists ==
  ASSUME NEW D \in [Ids -> Props], NEW due \in SUBSET Ids, NEW asOf, NEW q, Lists(q, D, due),
         \A j \in due : ~D[j].closed /\ Overdue(D[j], asOf)
  PROVE  DueList(PastDue(q, asOf), due)
  <1>1. Listed(q, D, due)
    BY ListIs
  <1> DEFINE at == {i \in DOMAIN q : q[i].p.closed # TRUE /\ Overdue(q[i].p, asOf)}
             B == ById(ToSet(q))
             found == PastDue(q, asOf)
             n == Len(q)
  <1>2. /\ n \in Nat /\ DOMAIN q = 1..n /\ IsFiniteSet(1..n)
        /\ \A i \in 1..n : q[i] \in Records /\ q[i].id \in due /\ q[i].p = D[q[i].id]
        /\ \A i, j \in 1..n : q[i].id = q[j].id => i = j
        /\ \A j \in due : \E i \in 1..n : q[i].id = j
    BY <1>1 DEF Listed
  <1>3. at = 1..n
    <2>1. \A i \in 1..n : q[i].p.closed # TRUE /\ Overdue(q[i].p, asOf)
      BY <1>2
    <2> QED BY <1>2, <2>1
  <1>4. found = SortedAt(q, at, B)
    BY DEF PastDue
  <1>5. \A i \in 1..n : q[i].id \in Int
    BY <1>2, ReadsAssumption
  <1> HIDE DEF at, B, found
  <1>6. Weak(q, at, B) /\ \A i, j \in at : <<q[i], q[j]>> \in B <=> q[i].id < q[j].id
    BY <1>2, <1>3, <1>5, ByIdIsWeak DEF B
  <1>7. Cardinality(at) = n /\ at \in SUBSET Int /\ IsFiniteSet(at)
    BY <1>2, <1>3, FS_Interval
  <1>8. PICK order : Sorted(found, order, q, at, B)
    BY <1>4, <1>6, <1>7, SortedPlaces
  <1> HIDE DEF n
  <1>9. /\ order \in [1..n -> 1..n] /\ \A x \in 1..n : \E i \in 1..n : order[i] = x
        /\ \A i, j \in 1..n : order[i] = order[j] => i = j
        /\ found = [i \in 1..n |-> q[order[i]]]
        /\ \A i, j \in 1..n : i < j => <<found[j], found[i]>> \notin B
    BY <1>3, <1>7, <1>8 DEF Sorted
  <1>10. found \in Seq(Records) /\ Len(found) = n
    <2>1. found \in [1..n -> Records]
      BY <1>2, <1>9
    <2> QED BY <1>2, <2>1, FunctionIsSeq
  <1>11. \A i \in 1..n : found[i] = q[order[i]] /\ order[i] \in 1..n
    BY <1>9
  <1>12. ASSUME NEW i \in 1..n, NEW j \in 1..n, i < j
         PROVE  found[i].id < found[j].id
    <2>1. <<found[j], found[i]>> \notin B
      BY <1>9, <1>12
    <2>2. ~ (found[j].id < found[i].id)
      BY <1>3, <1>6, <1>11, <2>1
    <2>3. found[i].id # found[j].id
      <3>1. i # j
        BY <1>2, <1>12
      <3>2. order[i] # order[j]
        BY <1>9, <3>1
      <3> QED BY <1>2, <1>11, <3>2
    <2> QED BY <1>5, <1>11, <2>2, <2>3
  <1>13. ASSUME NEW j \in due
         PROVE  \E i \in 1..n : found[i].id = j
    <2>1. PICK m \in 1..n : q[m].id = j
      BY <1>2
    <2>2. PICK i \in 1..n : order[i] = m
      BY <1>9
    <2> QED BY <1>11, <2>1, <2>2
  <1>14. n = Cardinality(due)
    BY DEF Lists, n
  <1>15. \A i \in 1..n : found[i].id \in due /\ found[i].id \in Int
    BY <1>2, <1>5, <1>11
  <1>16. DueList(found, due)
    BY <1>2, <1>10, <1>12, <1>13, <1>14, <1>15 DEF DueList
  <1> QED BY <1>16 DEF found

LEMMA HygieneIsExact ==
  ASSUME NEW D \in [Ids -> Props], NEW due \in SUBSET Ids, NEW asOf, NEW q, Lists(q, D, due),
         \A j \in due : ~D[j].closed /\ Overdue(D[j], asOf),
         NEW cut, NEW target, NEW addTask, NEW a, a = FixPastDue(q, cut, asOf, target, addTask), a # Failed
  PROVE  HygieneExact(due, a)
  <1> DEFINE found == PastDue(q, asOf)
             cap == MaxOps \div (IF addTask THEN 2 ELSE 1)
             kept == SubSeq(found, 1, MinOf(cap, Len(found)))
             L == Len(kept)
             ops == BuildOps(kept, addTask)
             close == [id \in IdsOf(ToSet(kept)) |-> (CHOOSE d \in ToSet(kept) : d.id = id).p.close]
  <1>1. a.ops = ops /\ a.remaining = Len(found) - L
    <2> DEFINE status == IF found = <<>> THEN "nothing_to_change" ELSE "preview"
               good == [kind |-> "hygiene", status |-> status, ops |-> ops, originals |-> close, target |-> target,
                        taskDue |-> MinOf(asOf + TaskDueDays, target), remaining |-> Len(found) - L,
                        truncated |-> cut]
    <2>1. a = IF UpdatedTwice(ops) THEN Failed ELSE good
      BY Zenon DEF FixPastDue
    <2>2. a = good
      <3> HIDE DEF ops, good
      <3> QED BY <2>1
    <2> HIDE DEF ops, close, found, status, L
    <2> QED BY <2>2
  <1>2. DueList(found, due)
    BY PastDueLists
  <1>3. cap \in Nat
    BY DealRulesAssumption
  <1> HIDE DEF found, cap
  <1>4. /\ found \in Seq(Records) /\ Len(found) \in Nat /\ Len(found) = Cardinality(due)
        /\ \A i \in 1..Len(found) : found[i].id \in due /\ found[i].id \in Int
        /\ \A i, j \in 1..Len(found) : i < j => found[i].id < found[j].id
        /\ \A j \in due : \E i \in 1..Len(found) : found[i].id = j
    BY <1>2 DEF DueList
  <1>5. /\ kept \in Seq(Records) /\ L \in 0..Len(found)
        /\ \A i \in 1..L : kept[i] = found[i] /\ i \in 1..Len(found)
    BY <1>3, <1>4, FirstOf
  <1> HIDE DEF kept, L
  <1>6. OpsOf(ops, kept, addTask, L)
    <2>1. L = Len(kept)
      BY DEF L
    <2> HIDE DEF ops
    <2> QED BY <1>5, <2>1, OpsAre DEF ops
  <1> HIDE DEF ops
  <1> DEFINE moved == {ops[n].deal : n \in DOMAIN ops}
  <1>7. moved = {found[i].id : i \in 1..L}
    <2> HIDE DEF moved, close
    <2>0. /\ DOMAIN ops = 1..Len(ops) /\ Len(ops) = (IF addTask THEN 2 * L ELSE L) /\ L \in Nat
          /\ \A n \in 1..L : ops[n] = [op |-> "update", deal |-> kept[n].id, dependsOn |-> 0]
          /\ \A n \in (L + 1)..Len(ops) : ops[n] = [op |-> "task", deal |-> kept[n - L].id, dependsOn |-> n - L]
      BY <1>4, <1>5, <1>6 DEF OpsOf
    <2>1. Len(ops) \in Nat /\ Len(ops) <= 2 * L /\ L <= Len(ops)
      <3>1. Len(ops) = 2 * L \/ Len(ops) = L
        BY <2>0
      <3>2. L \in Nat /\ 2 * L \in Nat /\ L <= 2 * L
        BY <2>0
      <3> QED BY <3>1, <3>2
    <2>11. ASSUME NEW n \in 1..L
           PROVE  ops[n].deal = kept[n].id
      <3>1. ops[n] = [op |-> "update", deal |-> kept[n].id, dependsOn |-> 0]
        BY <2>0
      <3> QED BY <3>1
    <2>12. ASSUME NEW n \in (L + 1)..Len(ops)
           PROVE  ops[n].deal = kept[n - L].id
      <3>1. ops[n] = [op |-> "task", deal |-> kept[n - L].id, dependsOn |-> n - L]
        BY <2>0
      <3> QED BY <3>1
    <2>2. ASSUME NEW i \in 1..L
          PROVE  found[i].id \in moved
      <3>1. i \in DOMAIN ops /\ ops[i].deal = kept[i].id
        BY <2>0, <2>1, <2>11
      <3> QED BY <1>5, <3>1 DEF moved
    <2>3. ASSUME NEW n \in DOMAIN ops
          PROVE  ops[n].deal \in {found[i].id : i \in 1..L}
      <3>1. CASE n \in 1..L
        BY <1>5, <2>11, <3>1
      <3>2. CASE n \notin 1..L
        <4>1. n \in (L + 1)..Len(ops) /\ n - L \in 1..L
          BY <2>0, <2>1, <3>2
        <4>2. ops[n].deal = kept[n - L].id
          BY <2>12, <4>1
        <4> QED BY <1>5, <4>1, <4>2
      <3> QED BY <3>1, <3>2
    <2> QED BY <2>2, <2>3 DEF moved
  <1> HIDE DEF moved
  <1>8. Cardinality(moved) = L
    <2> DEFINE f == [i \in 1..L |-> found[i].id]
    <2>1. f \in [1..L -> moved] /\ \A y \in moved : \E i \in 1..L : f[i] = y
      BY <1>7
    <2>2. ASSUME NEW i \in 1..L, NEW j \in 1..L, f[i] = f[j]
          PROVE  i = j
      <3>1. i \in 1..Len(found) /\ j \in 1..Len(found) /\ found[i].id = found[j].id
        BY <1>5, <2>2
      <3>2. found[i].id \in Int /\ ~ (i < j) /\ ~ (j < i)
        BY <1>4, <3>1
      <3> QED BY <3>1, <3>2
    <2>3. IsFiniteSet(1..L) /\ Cardinality(1..L) = L
      <3>1. L \in Nat /\ 1 \in Int
        BY <1>4, <1>5
      <3> QED BY <3>1, FS_Interval
    <2> HIDE DEF f
    <2> QED BY <2>1, <2>2, <2>3, SameSize
  <1>9. moved \subseteq due
    BY <1>4, <1>5, <1>7
  <1>10. Cardinality(due) = Cardinality(moved) + a.remaining
    BY <1>1, <1>4, <1>5, <1>8 DEF L
  <1>11. ASSUME NEW i \in moved, NEW j \in due \ moved
         PROVE  i < j
    <2>1. PICK m \in 1..L : found[m].id = i
      BY <1>7
    <2>2. PICK n \in 1..Len(found) : found[n].id = j
      BY <1>4
    <2>3. m < n /\ m \in 1..Len(found)
      BY <1>4, <1>5, <1>7, <2>2
    <2> QED BY <1>4, <2>1, <2>2, <2>3
  <1>12. moved = {a.ops[n].deal : n \in DOMAIN a.ops}
    BY <1>1 DEF moved
  <1> QED BY <1>9, <1>10, <1>11, <1>12 DEF HygieneExact

-----------------------------------------------------------------------------
(* The forecast of deals that were all read *)

Rec(D, i) == [id |-> i, p |-> D[i]]
RecsOf(D, X) == {Rec(D, i) : i \in X}

\* Two lists hold each of their deals once, after the second sends again what the first sent.
LEMMA UniqueOfTwo ==
  ASSUME NEW D \in [Ids -> Props], NEW J1 \in SUBSET Ids, NEW J2 \in SUBSET Ids,
         NEW q1, Lists(q1, D, J1), NEW q2, Lists(q2, D, J2)
  PROVE  q1 \o q2 \in Seq(Records) /\ Unique(q1 \o q2) = RecsOf(D, J1 \cup J2)
  <1> DEFINE q == q1 \o q2
             n == Len(q1)
             all == J1 \cup J2
  <1>1. Listed(q1, D, J1) /\ Listed(q2, D, J2)
    BY ListIs
  <1>2. /\ n \in Nat /\ Len(q2) \in Nat /\ q1 \in Seq(Records) /\ q2 \in Seq(Records)
        /\ \A i \in 1..n : q1[i] \in Records /\ q1[i].id \in J1 /\ q1[i].p = D[q1[i].id]
        /\ \A j \in J1 : \E i \in 1..n : q1[i].id = j
    BY <1>1 DEF Listed
  <1>3. /\ \A i \in 1..Len(q2) : q2[i] \in Records /\ q2[i].id \in J2 /\ q2[i].p = D[q2[i].id]
        /\ \A j \in J2 : \E i \in 1..Len(q2) : q2[i].id = j
    BY <1>1 DEF Listed
  <1>4. /\ q \in Seq(Records) /\ Len(q) = n + Len(q2)
        /\ \A i \in 1..(n + Len(q2)) : q[i] = IF i <= n THEN q1[i] ELSE q2[i - n]
    BY <1>2, ConcatProperties
  <1>5. DOMAIN q = 1..Len(q) /\ Len(q) \in Nat
    BY <1>4, LenProperties
  <1> HIDE DEF q, n
  <1>6. ASSUME NEW i \in 1..Len(q)
        PROVE  q[i] \in Records /\ q[i].id \in all /\ q[i].p = D[q[i].id]
    <2>1. CASE i <= n
      <3>1. i \in 1..n /\ q[i] = q1[i]
        BY <1>2, <1>4, <2>1
      <3> QED BY <1>2, <3>1
    <2>2. CASE ~ (i <= n)
      <3>1. i - n \in 1..Len(q2) /\ q[i] = q2[i - n]
        BY <1>2, <1>4, <2>2
      <3> QED BY <1>3, <3>1
    <2> QED BY <2>1, <2>2
  <1>7. ASSUME NEW j \in all
        PROVE  \E i \in 1..Len(q) : q[i].id = j
    <2>1. CASE j \in J1
      <3>1. PICK i \in 1..n : q1[i].id = j
        BY <1>2, <2>1
      <3>2. i \in 1..Len(q) /\ q[i] = q1[i]
        BY <1>2, <1>4
      <3> QED BY <3>1, <3>2
    <2>2. CASE j \in J2
      <3>1. PICK i \in 1..Len(q2) : q2[i].id = j
        BY <1>3, <2>2
      <3>2. n + i \in 1..Len(q) /\ q[n + i] = q2[i]
        <4> DEFINE m == n + i
        <4>1. m \in 1..(n + Len(q2)) /\ ~ (m <= n) /\ m - n = i
          BY <1>2
        <4> HIDE DEF m
        <4>2. m \in 1..Len(q) /\ q[m] = q2[m - n]
          BY <1>4, <4>1
        <4>3. q[m] = q2[i]
          BY <4>1, <4>2
        <4> QED BY <4>2, <4>3 DEF m
      <3> QED BY <3>1, <3>2
    <2> QED BY <2>1, <2>2
  <1>8. \A i \in 1..Len(q) : q[i] = Rec(D, q[i].id)
    BY <1>6 DEF Records, Rec
  <1>9. ASSUME NEW d \in Unique(q)
        PROVE  d \in RecsOf(D, all)
    <2>1. PICK i \in 1..Len(q) : d = q[i]
      BY <1>5 DEF Unique
    <2> QED BY <1>6, <1>8, <2>1 DEF RecsOf
  <1>10. ASSUME NEW j \in all
         PROVE  Rec(D, j) \in Unique(q)
    <2> DEFINE T == {i \in 1..Len(q) : q[i].id = j}
    <2>1. T \in SUBSET Nat /\ T # {}
      BY <1>7
    <2>2. PICK i \in T : \A m \in T : i <= m
      <3> HIDE DEF T
      <3> QED BY <2>1, Least
    <2>3. i \in 1..Len(q) /\ q[i].id = j
      OBVIOUS
    <2>4. ASSUME NEW m \in 1..(i - 1)
          PROVE  q[m].id # q[i].id
      <3>1. m \in 1..Len(q) /\ ~ (i <= m)
        BY <1>5, <2>3
      <3>2. m \notin T
        <4> HIDE DEF T
        <4> QED BY <2>2, <3>1
      <3> QED BY <2>3, <3>1, <3>2
    <2>5. q[i] \in Unique(q)
      BY <1>5, <2>3, <2>4 DEF Unique
    <2> QED BY <1>8, <2>3, <2>5
  <1>11. Unique(q) = RecsOf(D, all)
    BY <1>9, <1>10 DEF RecsOf
  <1> QED BY <1>4, <1>11 DEF q

\* What the deals of X are worth at home.
HomeIn(D, X, home) == SumFunction([i \in X |-> Given(AmountHome(D[i], home), 0)])
RowsIn(D, X, rules, asOf) == {RowAt(Rec(D, i), rules, asOf) : i \in X}

LEMMA RowIs ==
  ASSUME NEW D \in [Ids -> Props], NEW i \in Ids, NEW rules, NEW asOf
  PROVE  LET r == RowAt(Rec(D, i), rules, asOf)
         IN /\ r.id = i /\ r.category = D[i].category
            /\ Given(r.home, 0) = Given(AmountHome(D[i], rules.home), 0) /\ Given(r.home, 0) \in Int
  <1> DEFINE r == RowAt(Rec(D, i), rules, asOf)
  <1>1. r.id = i /\ r.category = D[i].category /\ r.home = RowHome(D[i], rules.home)
    BY DEF RowAt, Row, Rec
  <1>2. D[i] \in Props
    OBVIOUS
  <1>3. Given(AmountHome(D[i], rules.home), 0) \in Int
    BY <1>2, HomeIsInt
  <1>4. None # 0
    BY DealRulesAssumption
  <1> HIDE DEF r
  <1>5. Given(r.home, 0) = Given(AmountHome(D[i], rules.home), 0)
    BY <1>1, <1>4 DEF RowHome, Given
  <1> QED BY <1>1, <1>3, <1>5 DEF r

\* The rows of a set of deals are worth what the deals are.
LEMMA RowsWorth ==
  ASSUME NEW D \in [Ids -> Props], NEW X \in SUBSET Ids, NEW rules, NEW asOf
  PROVE  Worth(RowsIn(D, X, rules, asOf)) = HomeIn(D, X, rules.home) /\ HomeIn(D, X, rules.home) \in Int
  <1> DEFINE R == RowsIn(D, X, rules, asOf)
             row == [i \in X |-> RowAt(Rec(D, i), rules, asOf)]
             v == [r \in R |-> Given(r.home, 0)]
             w == [i \in X |-> Given(AmountHome(D[i], rules.home), 0)]
             b == [r \in R |-> r.id]
  <1>1. \A i \in X : /\ row[i].id = i /\ Given(row[i].home, 0) = w[i] /\ w[i] \in Int
    BY RowIs
  <1>2. IsFiniteSet(X)
    BY ReadsAssumption, FS_Subset
  <1>3. R = {row[i] : i \in X}
    BY DEF RowsIn
  <1> HIDE DEF R, row
  <1>4. row \in [X -> R]
    BY <1>3 DEF row
  <1>5. IsFiniteSet(R)
    <2>1. row \in Surjection(X, R)
      BY <1>3, <1>4 DEF Surjection
    <2> QED BY <1>2, <2>1, FS_Surjection
  <1>6. v \in [R -> Int] /\ w \in [X -> Int] /\ b \in [R -> X]
    BY <1>1, <1>3
  <1>7. \A r \in R : w[b[r]] = v[r]
    BY <1>1, <1>3
  <1>8. \A r, s \in R : b[r] = b[s] => r = s
    BY <1>1, <1>3
  <1>9. \A i \in X : \E r \in R : b[r] = i
    BY <1>1, <1>3
  <1> HIDE DEF v, w, b
  <1>10. SumFunction(v) = SumFunction(w)
    BY <1>2, <1>5, <1>6, <1>7, <1>8, <1>9, SumsMatch
  <1>11. SumFunction(w) \in Int
    BY <1>2, <1>6, SumIsInt
  <1> QED BY <1>10, <1>11 DEF Worth, HomeIn, R, v, w

RowsInside(R, C) == {r \in R : r.category \in C}
DealsInside(D, X, C) == {i \in X : D[i].category \in C}

\* The rows in some categories are the rows of the deals in them.
LEMMA RowsSuch ==
  ASSUME NEW D \in [Ids -> Props], NEW X \in SUBSET Ids, NEW rules, NEW asOf, NEW C
  PROVE  RowsInside(RowsIn(D, X, rules, asOf), C) = RowsIn(D, DealsInside(D, X, C), rules, asOf)
  <1> DEFINE row(i) == RowAt(Rec(D, i), rules, asOf)
  <1>1. \A i \in X : row(i).category = D[i].category
    BY RowIs
  <1> HIDE DEF row
  <1>2. {r \in {row(i) : i \in X} : r.category \in C} = {row(i) : i \in {j \in X : D[j].category \in C}}
    BY <1>1
  <1> QED BY <1>2 DEF RowsIn, row, RowsInside, DealsInside

\* The figures of a forecast, counted from the deals.
FiguresOf(f, D, W, X, home) ==
  /\ f.closed_won = HomeIn(D, W, home)
  /\ f.commit = HomeIn(D, {i \in X : D[i].category \in {"COMMIT"}}, home)
  /\ f.best_case = HomeIn(D, {i \in X : D[i].category \in {"COMMIT", "BEST_CASE"}}, home)
  /\ f.pipeline = HomeIn(D, {i \in X : D[i].category # "OMIT"}, home)
  /\ f.supported_commit + f.challenged_commit = f.commit

LEMMA FiguresAre ==
  ASSUME NEW D \in [Ids -> Props], NEW W \in SUBSET Ids, NEW X \in SUBSET Ids, NEW rules, NEW asOf,
         NEW f, f = Figures(RowsIn(D, W, rules, asOf), RowsIn(D, X, rules, asOf))
  PROVE  FiguresOf(f, D, W, X, rules.home)
  <1> DEFINE won == RowsIn(D, W, rules, asOf)
             open == RowsIn(D, X, rules, asOf)
             commit == {r \in open : r.category = "COMMIT"}
             supported == {r \in commit : r.supported}
             best == {r \in open : r.category \in {"COMMIT", "BEST_CASE"}}
             K == {i \in X : D[i].category \in {"COMMIT"}}
             S == {i \in K : RowAt(Rec(D, i), rules, asOf).supported}
             weighted == Weighted(Counted(open))
  <1>1. f = [closed_won |-> Worth(won), commit |-> Worth(commit), supported_commit |-> Worth(supported),
             challenged_commit |-> Worth(commit) - Worth(supported), best_case |-> Worth(best),
             pipeline |-> Worth(Counted(open)), weighted |-> weighted]
    BY Zenon DEF Figures
  <1>2. commit = RowsIn(D, K, rules, asOf)
    <2>1. commit = {r \in open : r.category \in {"COMMIT"}}
      OBVIOUS
    <2>2. commit = RowsInside(RowsIn(D, X, rules, asOf), {"COMMIT"}) /\ K = DealsInside(D, X, {"COMMIT"})
      BY <2>1 DEF RowsInside, DealsInside
    <2> HIDE DEF commit, K
    <2> QED BY <2>2, RowsSuch
  <1>3. best = RowsIn(D, {i \in X : D[i].category \in {"COMMIT", "BEST_CASE"}}, rules, asOf)
    <2> DEFINE C == {"COMMIT", "BEST_CASE"}
    <2>1. /\ best = RowsInside(RowsIn(D, X, rules, asOf), C)
          /\ {i \in X : D[i].category \in {"COMMIT", "BEST_CASE"}} = DealsInside(D, X, C)
      BY DEF RowsInside, DealsInside
    <2> HIDE DEF best, C
    <2>2. RowsInside(RowsIn(D, X, rules, asOf), C) = RowsIn(D, DealsInside(D, X, C), rules, asOf)
      BY RowsSuch
    <2> QED BY <2>1, <2>2
  <1>4. supported = RowsIn(D, S, rules, asOf)
    <2> HIDE DEF commit
    <2> QED BY <1>2 DEF RowsIn
  <1>5. Counted(open) = RowsIn(D, {i \in X : D[i].category # "OMIT"}, rules, asOf)
    <2> DEFINE row(i) == RowAt(Rec(D, i), rules, asOf)
    <2>1. \A i \in X : row(i).category = D[i].category
      BY RowIs
    <2> HIDE DEF row
    <2>2. {r \in {row(i) : i \in X} : r.category # "OMIT"} = {row(i) : i \in {j \in X : D[j].category # "OMIT"}}
      BY <2>1
    <2> QED BY <2>2 DEF RowsIn, row, Counted
  <1> DEFINE B == {i \in X : D[i].category \in {"COMMIT", "BEST_CASE"}}
             P == {i \in X : D[i].category # "OMIT"}
  <1>6. K \in SUBSET Ids /\ S \in SUBSET Ids /\ B \in SUBSET Ids /\ P \in SUBSET Ids
    OBVIOUS
  <1> HIDE DEF won, open, commit, supported, best, weighted, K, S, B, P
  <1>7. /\ Worth(commit) = HomeIn(D, K, rules.home) /\ Worth(commit) \in Int
        /\ Worth(supported) \in Int
    BY <1>2, <1>4, <1>6, RowsWorth
  <1>8. Worth(best) = HomeIn(D, B, rules.home) /\ Worth(Counted(open)) = HomeIn(D, P, rules.home)
    BY <1>3, <1>5, <1>6, RowsWorth DEF B, P
  <1>9. Worth(won) = HomeIn(D, W, rules.home)
    BY RowsWorth DEF won
  <1>10. /\ f.closed_won = Worth(won) /\ f.commit = Worth(commit) /\ f.supported_commit = Worth(supported)
         /\ f.challenged_commit = Worth(commit) - Worth(supported) /\ f.best_case = Worth(best)
         /\ f.pipeline = Worth(Counted(open))
    BY <1>1
  <1>11. f.supported_commit + f.challenged_commit = f.commit
    <2> DEFINE x == Worth(commit) y == Worth(supported)
    <2>1. x \in Int /\ y \in Int
      BY <1>7
    <2> HIDE DEF x, y
    <2>2. y + (x - y) = x
      BY <2>1
    <2> QED BY <1>10, <2>2 DEF x, y
  <1>12. /\ f.closed_won = HomeIn(D, W, rules.home) /\ f.commit = HomeIn(D, K, rules.home)
         /\ f.best_case = HomeIn(D, B, rules.home) /\ f.pipeline = HomeIn(D, P, rules.home)
    BY <1>7, <1>8, <1>9, <1>10
  <1> QED BY <1>11, <1>12, Zenon DEF FiguresOf, K, B, P

ForecastExact(D, J, won, rules, bounds, a) ==
  LET open == {i \in J : InPeriod(D[i], bounds)}
  IN /\ a.won = won /\ a.open = open /\ a.outside = J \ open
     /\ rules.home # None =>
          /\ a.figures.closed_won = HomeIn(D, won, rules.home)
          /\ a.figures.commit = HomeIn(D, {i \in open : D[i].category \in {"COMMIT"}}, rules.home)
          /\ a.figures.best_case = HomeIn(D, {i \in open : D[i].category \in {"COMMIT", "BEST_CASE"}}, rules.home)
          /\ a.figures.pipeline = HomeIn(D, {i \in open : D[i].category # "OMIT"}, rules.home)
          /\ a.figures.supported_commit + a.figures.challenged_commit = a.figures.commit

LEMMA RecsAre ==
  ASSUME NEW D, NEW X
  PROVE  /\ IdsOf(RecsOf(D, X)) = X
         /\ \A rules, asOf : {RowAt(d, rules, asOf) : d \in RecsOf(D, X)} = RowsIn(D, X, rules, asOf)
  <1>1. \A i : Rec(D, i).id = i
    BY DEF Rec
  <1>2. IdsOf(RecsOf(D, X)) = X
    BY <1>1 DEF IdsOf, RecsOf
  <1>3. ASSUME NEW rules, NEW asOf
        PROVE  {RowAt(d, rules, asOf) : d \in RecsOf(D, X)} = RowsIn(D, X, rules, asOf)
    BY DEF RecsOf, RowsIn
  <1> QED BY <1>2, <1>3

\* A set of records is known by the deals whose record it holds.
LEMMA RecsFrom ==
  ASSUME NEW D, NEW A, NEW X \in SUBSET A, NEW S \in SUBSET RecsOf(D, A), \A i \in A : Rec(D, i) \in S <=> i \in X
  PROVE  S = RecsOf(D, X)
  <1>1. ASSUME NEW d \in S
        PROVE  d \in RecsOf(D, X)
    <2>1. PICK i \in A : d = Rec(D, i)
      BY DEF RecsOf
    <2> QED BY <2>1 DEF RecsOf
  <1>2. ASSUME NEW d \in RecsOf(D, X)
        PROVE  d \in S
    <2>1. PICK i \in X : d = Rec(D, i)
      BY DEF RecsOf
    <2> QED BY <2>1
  <1> QED BY <1>1, <1>2

ForecastHolds(q, D, J, won, bounds) ==
  LET open == {i \in J : InPeriod(D[i], bounds)}
  IN /\ OpenOf(q) = RecsOf(D, J) /\ WonOf(q, bounds) = RecsOf(D, won)
     /\ InsideOf(q, bounds) = RecsOf(D, open) /\ OpenOf(q) \ InsideOf(q, bounds) = RecsOf(D, J \ open)

\* Every open deal and every deal that was won in the period, each in its place.
LEMMA ForecastPlaces ==
  ASSUME NEW D \in [Ids -> Props], NEW J \in SUBSET Ids, \A j \in J : ~D[j].closed,
         NEW won \in SUBSET Ids, NEW bounds, \A j \in won : D[j].won /\ InPeriod(D[j], bounds),
         NEW q1, Lists(q1, D, J), NEW q2, Lists(q2, D, won)
  PROVE  ForecastHolds(q1 \o q2, D, J, won, bounds)
  <1> DEFINE q == q1 \o q2
             open == {i \in J : InPeriod(D[i], bounds)}
             closed(d) == ClosedDeal(d.p, StageOf(Pipelines, d.p))
             gained(d) == WonDeal(d.p, StageOf(Pipelines, d.p))
  <1>1. Unique(q) = RecsOf(D, J \cup won)
    BY UniqueOfTwo
  <1>2. \A i \in Ids : Rec(D, i).id = i /\ Rec(D, i).p = D[i] /\ D[i] \in Props
    BY DEF Rec
  <1>3. ASSUME NEW i \in Ids
        PROVE  (closed(Rec(D, i)) <=> D[i].closed) /\ (gained(Rec(D, i)) <=> D[i].won) /\ (D[i].won => D[i].closed)
    <2>1. D[i].closed # None /\ D[i].won # None /\ (D[i].won => D[i].closed)
      BY <1>2, DealsAssumption
    <2> QED BY <1>2, <2>1 DEF ClosedDeal, WonDeal
  <1>4. OpenOf(q) = {d \in RecsOf(D, J \cup won) : ~closed(d)}
    BY <1>1 DEF OpenOf
  <1>5. WonOf(q, bounds) = {d \in RecsOf(D, J \cup won) \ OpenOf(q) : gained(d) /\ InPeriod(d.p, bounds)}
    BY <1>1 DEF WonOf
  <1>6. InsideOf(q, bounds) = {d \in OpenOf(q) : InPeriod(d.p, bounds)}
    BY DEF InsideOf
  <1> HIDE DEF closed, gained, q
  <1>7. OpenOf(q) = RecsOf(D, J)
    <2>1. ASSUME NEW i \in J \cup won
          PROVE  Rec(D, i) \in OpenOf(q) <=> i \in J
      <3>1. (closed(Rec(D, i)) <=> D[i].closed) /\ (D[i].won => D[i].closed)
        BY <1>3
      <3>2. Rec(D, i) \in RecsOf(D, J \cup won)
        BY DEF RecsOf
      <3>3. Rec(D, i) \in OpenOf(q) <=> ~closed(Rec(D, i))
        BY <1>4, <3>2
      <3>4. D[i].closed <=> i \notin J
        <4>1. CASE i \in J
          BY <4>1
        <4>2. CASE i \notin J
          BY <3>1, <4>2
        <4> QED BY <4>1, <4>2
      <3> QED BY <3>1, <3>3, <3>4
    <2> DEFINE A == J \cup won
               S == OpenOf(q)
    <2>2. S \in SUBSET RecsOf(D, A) /\ J \in SUBSET A /\ \A i \in A : Rec(D, i) \in S <=> i \in J
      BY <1>4, <2>1
    <2> HIDE DEF A, S
    <2>3. S = RecsOf(D, J)
      BY <2>2, RecsFrom
    <2> QED BY <2>3 DEF S
  <1>8. WonOf(q, bounds) = RecsOf(D, won)
    <2>1. ASSUME NEW i \in J \cup won
          PROVE  Rec(D, i) \in WonOf(q, bounds) <=> i \in won
      <3>1. /\ (gained(Rec(D, i)) <=> D[i].won) /\ (D[i].won => D[i].closed) /\ Rec(D, i).p = D[i]
        BY <1>2, <1>3
      <3>2. Rec(D, i) \in RecsOf(D, J \cup won)
        BY DEF RecsOf
      <3>3. Rec(D, i) \in OpenOf(q) <=> i \in J
        BY <1>2, <1>7 DEF RecsOf
      <3>4. Rec(D, i) \in WonOf(q, bounds) <=> i \notin J /\ gained(Rec(D, i)) /\ InPeriod(D[i], bounds)
        BY <1>5, <3>1, <3>2, <3>3
      <3>5. CASE i \in won
        <4>1. D[i].won /\ InPeriod(D[i], bounds)
          BY <3>5
        <4>2. i \notin J
          BY <3>1, <4>1
        <4> QED BY <3>1, <3>4, <3>5, <4>1, <4>2
      <3>6. CASE i \notin won
        BY <3>4, <3>6
      <3> QED BY <3>5, <3>6
    <2>2. WonOf(q, bounds) \in SUBSET RecsOf(D, J \cup won)
      BY <1>5
    <2> QED BY <2>1, <2>2, RecsFrom
  <1>9. InsideOf(q, bounds) = RecsOf(D, open)
    <2>1. InsideOf(q, bounds) = {d \in RecsOf(D, J) : InPeriod(d.p, bounds)}
      BY <1>6, <1>7
    <2>2. ASSUME NEW i \in J
          PROVE  Rec(D, i) \in InsideOf(q, bounds) <=> i \in open
      <3>1. Rec(D, i) \in RecsOf(D, J) /\ Rec(D, i).p = D[i]
        BY <1>2 DEF RecsOf
      <3> QED BY <2>1, <3>1
    <2> DEFINE S == InsideOf(q, bounds)
    <2>3. S \in SUBSET RecsOf(D, J) /\ open \in SUBSET J /\ \A i \in J : Rec(D, i) \in S <=> i \in open
      BY <2>1, <2>2
    <2> HIDE DEF open, S
    <2>4. S = RecsOf(D, open)
      BY <2>3, RecsFrom
    <2> QED BY <2>4 DEF S
  <1>10. OpenOf(q) \ InsideOf(q, bounds) = RecsOf(D, J \ open)
    <2>1. ASSUME NEW i \in J, NEW j \in J, Rec(D, i) = Rec(D, j)
          PROVE  i = j
      BY <1>2, <2>1
    <2> HIDE DEF open
    <2>2. open \in SUBSET J
      BY DEF open
    <2>3. RecsOf(D, J) \ RecsOf(D, open) = RecsOf(D, J \ open)
      BY <2>1, <2>2 DEF RecsOf
    <2> QED BY <1>7, <1>9, <2>3
  <1> QED BY <1>7, <1>8, <1>9, <1>10 DEF ForecastHolds, q

LEMMA ForecastIsExact ==
  ASSUME NEW D \in [Ids -> Props], NEW J \in SUBSET Ids, \A j \in J : ~D[j].closed,
         NEW won \in SUBSET Ids, NEW bounds, \A j \in won : D[j].won /\ InPeriod(D[j], bounds),
         NEW q1, Lists(q1, D, J), NEW q2, Lists(q2, D, won), NEW cut, NEW rules, NEW asOf,
         NEW a, a = ComputeForecast(q1 \o q2, cut, rules, bounds, Pipelines, asOf)
  PROVE  ForecastExact(D, J, won, rules, bounds, a)
  <1> DEFINE q == q1 \o q2
             open == {i \in J : InPeriod(D[i], bounds)}
  <1>1. /\ OpenOf(q) = RecsOf(D, J) /\ WonOf(q, bounds) = RecsOf(D, won)
        /\ InsideOf(q, bounds) = RecsOf(D, open) /\ OpenOf(q) \ InsideOf(q, bounds) = RecsOf(D, J \ open)
    <2>1. ForecastHolds(q, D, J, won, bounds)
      BY ForecastPlaces
    <2> HIDE DEF q
    <2> QED BY <2>1, Zenon DEF ForecastHolds
  <1> HIDE DEF q
  <1>2. /\ a.won = IdsOf(WonOf(q, bounds)) /\ a.open = IdsOf(InsideOf(q, bounds))
        /\ a.outside = IdsOf(OpenOf(q) \ InsideOf(q, bounds))
        /\ rules.home # None => a.figures = Figures({RowAt(d, rules, asOf) : d \in WonOf(q, bounds)},
                                                    {RowAt(d, rules, asOf) : d \in InsideOf(q, bounds)})
    <2>1. a = ComputeForecast(q, cut, rules, bounds, Pipelines, asOf)
      BY DEF q
    <2>2. ForecastOf(a, q, cut, rules, bounds, asOf)
      BY <2>1, ForecastParts, Zenon
    <2> QED BY <2>2 DEF ForecastOf
  <1>3. open \in SUBSET Ids
    OBVIOUS
  <1> HIDE DEF open
  <1>4. a.won = won /\ a.open = open /\ a.outside = J \ open
    <2>1. IdsOf(RecsOf(D, won)) = won /\ IdsOf(RecsOf(D, open)) = open /\ IdsOf(RecsOf(D, J \ open)) = J \ open
      BY RecsAre
    <2> QED BY <1>1, <1>2, <2>1
  <1>5. ASSUME rules.home # None
        PROVE  a.figures = Figures(RowsIn(D, won, rules, asOf), RowsIn(D, open, rules, asOf))
    <2>1. /\ {RowAt(d, rules, asOf) : d \in RecsOf(D, won)} = RowsIn(D, won, rules, asOf)
          /\ {RowAt(d, rules, asOf) : d \in RecsOf(D, open)} = RowsIn(D, open, rules, asOf)
      BY RecsAre
    <2> QED BY <1>1, <1>2, <1>5, <2>1
  <1>6. ASSUME rules.home # None
        PROVE  /\ a.figures.closed_won = HomeIn(D, won, rules.home)
               /\ a.figures.commit = HomeIn(D, {i \in open : D[i].category \in {"COMMIT"}}, rules.home)
               /\ a.figures.best_case = HomeIn(D, {i \in open : D[i].category \in {"COMMIT", "BEST_CASE"}}, rules.home)
               /\ a.figures.pipeline = HomeIn(D, {i \in open : D[i].category # "OMIT"}, rules.home)
               /\ a.figures.supported_commit + a.figures.challenged_commit = a.figures.commit
    <2> DEFINE f == a.figures
    <2>1. f = Figures(RowsIn(D, won, rules, asOf), RowsIn(D, open, rules, asOf))
      BY <1>5, <1>6
    <2> HIDE DEF f
    <2>2. FiguresOf(f, D, won, open, rules.home)
      BY <1>3, <2>1, FiguresAre
    <2> QED BY <2>2 DEF FiguresOf, f
  <1> QED BY <1>4, <1>6, Zenon DEF ForecastExact, open

-----------------------------------------------------------------------------
(* The answer of a call that nobody disturbed *)

WonSeen(k) == {i \in Seen(k) : deals[i].won /\ InPeriod(deals[i], Bounds(k))}
DueSeen(k) == {i \in OpenSeen(k) : Overdue(deals[i], AsOf(k))}

\* What the searches ask for is what a look at the whole portal would pick.
LEMMA OpenDealsMatch ==
  ASSUME NEW k
  PROVE  {j \in Ids : Matches(deals[j], OpenDeals(k.owner))} = OpenSeen(k)
  <1>1. ASSUME NEW j \in Ids
        PROVE  Matches(deals[j], OpenDeals(k.owner)) <=> (k.owner = None \/ deals[j].owner = k.owner) /\ ~deals[j].closed
    BY DEF Matches, OpenDeals
  <1> QED BY <1>1 DEF OpenSeen, Seen

LEMMA WonDealsMatch ==
  ASSUME NEW k, Bounds(k).start # None
  PROVE  {j \in Ids : Matches(deals[j], WonDeals(k.owner, Bounds(k)))} = WonSeen(k)
  <1> DEFINE f == WonDeals(k.owner, Bounds(k))
             bounds == [start |-> f.from, end |-> f.to]
  <1>1. /\ f.owner = k.owner /\ f.open = FALSE /\ f.before = None /\ f.won = TRUE
        /\ f.from = Bounds(k).start /\ f.to = Bounds(k).end
    BY DEF WonDeals, OpenDeals
  <1> HIDE DEF f
  <1>2. bounds.start = Bounds(k).start /\ bounds.end = Bounds(k).end
    BY <1>1
  <1> HIDE DEF bounds
  <1>3. \A p : InPeriod(p, bounds) <=> InPeriod(p, Bounds(k))
    BY <1>2 DEF InPeriod
  <1>4. ASSUME NEW j \in Ids
        PROVE  Matches(deals[j], f) <=> /\ k.owner = None \/ deals[j].owner = k.owner
                                        /\ deals[j].won /\ InPeriod(deals[j], Bounds(k))
    BY <1>1, <1>3 DEF Matches, bounds
  <1> QED BY <1>4 DEF WonSeen, Seen, f

LEMMA PastDueDealsMatch ==
  ASSUME NEW k, AsOf(k) # None
  PROVE  {j \in Ids : Matches(deals[j], PastDueDeals(k.owner, AsOf(k)))} = DueSeen(k)
  <1> DEFINE f == PastDueDeals(k.owner, AsOf(k))
  <1>1. /\ f.owner = k.owner /\ f.open = TRUE /\ f.before = AsOf(k) /\ f.won = FALSE /\ f.from = None
    BY DEF PastDueDeals, OpenDeals
  <1> HIDE DEF f
  <1>2. ASSUME NEW j \in Ids
        PROVE  Matches(deals[j], f) <=> /\ k.owner = None \/ deals[j].owner = k.owner
                                        /\ ~deals[j].closed /\ Overdue(deals[j], AsOf(k))
    BY <1>1 DEF Matches
  <1> QED BY <1>2 DEF DueSeen, OpenSeen, Seen, f

\* What a call that read everything holds.
Whole(k) ==
  /\ CallOK(k) /\ Sane(k) /\ deals \in [Ids -> Props]
  /\ k.search = Len(Searches(k)) + 1 /\ k.found = Before(deals, k)

LEMMA TriageAnswerExact ==
  ASSUME NEW k, Whole(k), k.job.kind = "triage", NEW a, a = Answer(k)
  PROVE  ExactTriage(k, a)
  <1> DEFINE f == OpenDeals(k.owner)
  <1>1. Searches(k) = <<f>>
    BY DEF Searches
  <1> HIDE DEF f
  <1>2. k.found = HitsIn(deals, f)
    BY <1>1 DEF Whole, Before
  <1>3. Lists(k.found, deals, OpenSeen(k))
    BY <1>2, HitsList, OpenDealsMatch DEF f, Whole
  <1>4. OpenSeen(k) \in SUBSET Ids /\ \A j \in OpenSeen(k) : ~deals[j].closed
    BY DEF OpenSeen, Seen
  <1>5. a = TriageAnswer(k.found, k.cut, k.rules, Pipelines, AsOf(k), k.job.limit)
    BY DEF Answer
  <1>6. k.job.limit \in Nat /\ k.rules \in RuleFiles \ {None}
    BY DealsAssumption DEF Whole, Sane
  <1>7. TriageExact(deals, OpenSeen(k), k.rules, AsOf(k), a)
    BY <1>3, <1>4, <1>5, <1>6, TriageIsExact DEF Whole
  <1> QED BY <1>7, Zenon DEF TriageExact, ExactTriage, CodesIn

LEMMA ForecastAnswerExact ==
  ASSUME NEW k, Whole(k), k.job.kind = "forecast", NEW a, a = Answer(k)
  PROVE  ExactForecast(k, a)
  <1> DEFINE f == OpenDeals(k.owner)
             g == WonDeals(k.owner, Bounds(k))
  <1>1. Searches(k) = <<f, g>>
    BY DEF Searches
  <1> HIDE DEF f, g
  <1>2. k.found = HitsIn(deals, f) \o HitsIn(deals, g)
    <2>1. k.search = 3 /\ Searches(k)[1] = f /\ Searches(k)[2] = g
      BY <1>1 DEF Whole
    <2> QED BY <2>1 DEF Whole, Before
  <1>3. Bounds(k).start # None
    <2>1. Bounds(k).start \in Int
      BY DatesAssumption DEF Whole, Sane, Bounds
    <2> QED BY <2>1, DealRulesAssumption
  <1>4. Lists(HitsIn(deals, f), deals, OpenSeen(k)) /\ Lists(HitsIn(deals, g), deals, WonSeen(k))
    BY <1>3, HitsList, OpenDealsMatch, WonDealsMatch DEF f, g, Whole
  <1>5. OpenSeen(k) \in SUBSET Ids /\ \A j \in OpenSeen(k) : ~deals[j].closed
    BY DEF OpenSeen, Seen
  <1>6. WonSeen(k) \in SUBSET Ids /\ \A j \in WonSeen(k) : deals[j].won /\ InPeriod(deals[j], Bounds(k))
    BY DEF WonSeen, Seen
  <1>7. a = ComputeForecast(HitsIn(deals, f) \o HitsIn(deals, g), k.cut, k.rules, Bounds(k), Pipelines, AsOf(k))
    BY <1>2 DEF Answer
  <1>8. ForecastExact(deals, OpenSeen(k), WonSeen(k), k.rules, Bounds(k), a)
    BY <1>4, <1>5, <1>6, <1>7, ForecastIsExact DEF Whole
  <1> QED BY <1>8, Zenon DEF ForecastExact, ExactForecast, WonSeen, HomeIn, HomeSum

LEMMA HygieneAnswerExact ==
  ASSUME NEW k, Whole(k), k.job.kind = "hygiene", NEW a, a = Answer(k), a # Failed
  PROVE  ExactHygiene(k, a)
  <1> DEFINE f == PastDueDeals(k.owner, AsOf(k))
  <1>1. Searches(k) = <<f>>
    BY DEF Searches
  <1> HIDE DEF f
  <1>2. k.found = HitsIn(deals, f)
    BY <1>1 DEF Whole, Before
  <1>3. AsOf(k) # None
    <2>1. AsOf(k) \in Int
      BY TargetIs DEF Whole
    <2> QED BY <2>1, DealRulesAssumption
  <1>4. Lists(k.found, deals, DueSeen(k))
    BY <1>2, <1>3, HitsList, PastDueDealsMatch DEF f, Whole
  <1>5. DueSeen(k) \in SUBSET Ids /\ \A j \in DueSeen(k) : ~deals[j].closed /\ Overdue(deals[j], AsOf(k))
    BY DEF DueSeen, OpenSeen, Seen
  <1>6. a = FixPastDue(k.found, k.cut, AsOf(k), NewDate(k.job.newDate, AsOf(k)), k.job.addTask)
    BY DEF Answer
  <1>7. HygieneExact(DueSeen(k), a)
    BY <1>4, <1>5, <1>6, HygieneIsExact DEF Whole
  <1> QED BY <1>7, Zenon DEF HygieneExact, ExactHygiene, DueSeen

\* An answer says that it was cut.
LEMMA AnswerTells ==
  ASSUME NEW k, Sane(k), NEW a, a = Answer(k), a # Failed
  PROVE  a.truncated = k.cut
  <1>1. CASE k.job.kind = "triage"
    <2>1. a = TriageAnswer(k.found, k.cut, k.rules, Pipelines, AsOf(k), k.job.limit)
      BY <1>1 DEF Answer
    <2> QED BY <2>1 DEF TriageAnswer
  <1>2. CASE k.job.kind = "hygiene"
    <2>1. a = FixPastDue(k.found, k.cut, AsOf(k), NewDate(k.job.newDate, AsOf(k)), k.job.addTask)
      BY <1>2 DEF Answer
    <2> QED BY <2>1 DEF FixPastDue
  <1>3. CASE k.job.kind = "forecast"
    <2>1. a = ComputeForecast(k.found, k.cut, k.rules, Bounds(k), Pipelines, AsOf(k))
      BY <1>3 DEF Answer
    <2>2. ForecastOf(a, k.found, k.cut, k.rules, Bounds(k), AsOf(k))
      BY <2>1, ForecastParts
    <2> QED BY <2>2, Zenon DEF ForecastOf
  <1>4. k.job.kind \in {"triage", "forecast", "hygiene"}
    BY DatesAssumption DEF Sane
  <1> QED BY <1>1, <1>2, <1>3, <1>4

LEMMA AnswersExactly ==
  ASSUME NEW k, Whole(k), NEW a, a = Answer(k), a # Failed
  PROVE  Exact(k, a)
  <1>1. k.job.kind \in {"triage", "forecast", "hygiene"}
    BY DatesAssumption DEF Whole, Sane
  <1>2. CASE k.job.kind = "triage"
    BY <1>2, TriageAnswerExact, Zenon DEF Exact
  <1>3. CASE k.job.kind = "forecast"
    BY <1>3, ForecastAnswerExact, Zenon DEF Exact
  <1>4. CASE k.job.kind = "hygiene"
    BY <1>4, HygieneAnswerExact, Zenon DEF Exact
  <1> QED BY <1>1, <1>2, <1>3, <1>4

\* One step of the action property.
QuietStep ==
  \A c \in Calls :
    ~Answered(c) /\ Answered(c)' /\ ~calls[c].dirty /\ ~calls'[c].answer.truncated
    => Exact(calls[c], calls'[c].answer)

LEMMA QuietStepHolds ==
  ASSUME PagesInv, [Next]_vars
  PROVE  QuietStep
  <1> SUFFICES ASSUME NEW c \in Calls, ~Answered(c), Answered(c)', ~calls[c].dirty, ~calls'[c].answer.truncated
               PROVE  Exact(calls[c], calls'[c].answer)
    BY DEF QuietStep
  <1> DEFINE k == calls[c]
             a == calls'[c].answer
  <1>1. /\ CallOK(k) /\ Sane(k) /\ deals \in [Ids -> Props] /\ a = Answer(k) /\ a # Failed
        /\ ~k.cut => k.search = Len(Searches(k)) + 1 /\ k.found = Before(deals, k)
    BY QuietFinds
  <1>2. ~a.truncated
    OBVIOUS
  <1> HIDE DEF k, a
  <1>3. ~k.cut
    BY <1>1, <1>2, AnswerTells
  <1>4. Whole(k)
    BY <1>1, <1>3 DEF Whole
  <1>5. Exact(k, a)
    BY <1>1, <1>4, AnswersExactly
  <1> QED BY <1>5 DEF k, a

\* What a call answers after a look nobody disturbed is what the whole portal would have answered: each
\* deal counted once, the most urgent or the first by id kept, every figure summed over the deals that
\* belong in it (common.py:359, triage.py:95, forecast.py:322, bulk_hygiene.py:108).
THEOREM QuietCallsAreExact == Spec => QuietIsExact
  <1>1. PagesInv /\ [Next]_vars => QuietStep
    BY QuietStepHolds
  <1>2. QuietStep => [\A c \in Calls :
       ~Answered(c) /\ Answered(c)' /\ ~calls[c].dirty /\ ~calls'[c].answer.truncated
       => Exact(calls[c], calls'[c].answer)]_vars
    BY DEF QuietStep
  <1> QED BY <1>1, <1>2, PagesInit, PagesStep, PTL DEF Spec, QuietIsExact
=============================================================================
