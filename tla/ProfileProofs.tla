--------------------------- MODULE ProfileProofs ---------------------------
(* What a profile becomes, for lists of any length and any number of edits:
   the configuration of a connection request is closed and follows the policy;
   a window's subscriptions hang together, and its rules stay ones a connection
   request may carry.                                                       *)
EXTENDS ConnectionConfig, SubscriptionBook, RulesEditor, FiniteSetTheorems, TLAPS

(* The elements of a bounded set of numbers in their order, the smallest and *)
(* the largest of them.                                                     *)
LEMMA CountedUpTo ==
    ASSUME NEW n \in Nat
    PROVE  IsFiniteSet(1 .. n) /\ Cardinality(1 .. n) = n
<1>1. n \in Int /\ 1 \in Int
  OBVIOUS
<1> QED BY <1>1, FS_Interval

Rank(S, k) == Cardinality({j \in S : j <= k})

LEMMA RankRises ==
    ASSUME NEW n \in Nat, NEW S \in SUBSET (0 .. n)
    PROVE  /\ IsFiniteSet(S) /\ Cardinality(S) \in Nat
           /\ \A k \in S : Rank(S, k) \in 1 .. Cardinality(S)
           /\ \A j, k \in S : j < k => Rank(S, j) < Rank(S, k)
<1>0. IsFiniteSet(0 .. n)
  BY FS_Interval, 0 \in Int, n \in Int
<1>1. IsFiniteSet(S) /\ Cardinality(S) \in Nat
  BY <1>0, FS_Subset, FS_CardinalityType
<1>2. ASSUME NEW k \in S PROVE Rank(S, k) \in 1 .. Cardinality(S)
  <2> DEFINE D == {j \in S : j <= k}
  <2>1. IsFiniteSet(D) /\ Cardinality(D) <= Cardinality(S) /\ Cardinality(D) \in Nat
    BY <1>1, FS_Subset, FS_CardinalityType
  <2>2. k \in D
    OBVIOUS
  <2>3. Cardinality(D) # 0
    BY <2>1, <2>2, FS_EmptySet
  <2> QED BY <1>1, <2>1, <2>3 DEF Rank
<1>3. ASSUME NEW j \in S, NEW k \in S, j < k PROVE Rank(S, j) < Rank(S, k)
  <2> DEFINE D == {i \in S : i <= j}
             E == {i \in S : i <= k}
  <2>a. j \in Int /\ k \in Int /\ \A i \in S : i \in Int
    OBVIOUS
  <2>b. k \in E /\ k \notin D /\ E \subseteq S
    BY <1>3, <2>a
  <2>c. ASSUME NEW i \in D PROVE i \in E
    <3>1. i \in Int /\ i <= j /\ i \in S
      BY <2>a
    <3>2. i <= k
      BY <1>3, <2>a, <3>1
    <3> QED BY <3>1, <3>2
  <2>0. E \in SUBSET S /\ D \in SUBSET E /\ k \in E /\ k \notin D
    BY <2>b, <2>c
  <2>1. IsFiniteSet(E)
    BY <1>1, <2>0, FS_Subset
  <2>2. Cardinality(D) <= Cardinality(E) /\ Cardinality(D) # Cardinality(E)
    BY <2>0, <2>1, FS_Subset
  <2>3. Cardinality(D) \in Nat /\ Cardinality(E) \in Nat
    BY <2>0, <2>1, FS_Subset, FS_CardinalityType
  <2> QED BY <2>2, <2>3 DEF Rank
<1> QED BY <1>1, <1>2, <1>3

LEMMA EveryRank ==
    ASSUME NEW n \in Nat, NEW S \in SUBSET (0 .. n)
    PROVE  /\ \A j, k \in S : Rank(S, j) = Rank(S, k) => j = k
           /\ \A i \in 1 .. Cardinality(S) : \E k \in S : Rank(S, k) = i
<1> DEFINE m == Cardinality(S)
           rank == [k \in S |-> Rank(S, k)]
<1>1. /\ IsFiniteSet(S) /\ m \in Nat
      /\ \A k \in S : Rank(S, k) \in 1 .. m
      /\ \A j, k \in S : j < k => Rank(S, j) < Rank(S, k)
  BY RankRises
<1>2. \A j, k \in S : Rank(S, j) = Rank(S, k) => j = k
  <2> SUFFICES ASSUME NEW j \in S, NEW k \in S, Rank(S, j) = Rank(S, k), j # k PROVE FALSE
    OBVIOUS
  <2>1. j < k \/ k < j
    OBVIOUS
  <2>2. Rank(S, j) \in Int
    BY <1>1
  <2> QED BY <1>1, <2>1, <2>2
<1>3. rank \in Injection(S, 1 .. m)
  BY <1>1, <1>2 DEF Injection, IsInjective
<1>4. IsFiniteSet(1 .. m) /\ Cardinality(1 .. m) = m
  BY <1>1, FS_Interval
<1>5. rank \in Surjection(S, 1 .. m)
  BY <1>1, <1>3, <1>4, FS_Injection
<1>6. \A i \in 1 .. m : \E k \in S : Rank(S, k) = i
  BY <1>5 DEF Surjection
<1> QED BY <1>2, <1>6

LEMMA EndsAreThere ==
    ASSUME NEW n \in Nat, NEW S \in SUBSET (0 .. n), S # {}
    PROVE  /\ Min(S) \in S /\ \A y \in S : Min(S) <= y
           /\ Max(S) \in S /\ \A y \in S : y <= Max(S)
<1> DEFINE m == Cardinality(S)
<1>1. /\ IsFiniteSet(S) /\ m \in Nat
      /\ \A k \in S : Rank(S, k) \in 1 .. m
      /\ \A j, k \in S : j < k => Rank(S, j) < Rank(S, k)
  BY RankRises
<1>2. 1 \in 1 .. m /\ m \in 1 .. m
  <2>1. PICK k \in S : Rank(S, k) \in 1 .. m
    BY <1>1
  <2> QED BY <1>1, <2>1
<1>3. (\E k \in S : Rank(S, k) = 1) /\ (\E k \in S : Rank(S, k) = m)
  BY <1>2, EveryRank
<1>4. PICK k \in S : Rank(S, k) = 1
  BY <1>3
<1>5. PICK l \in S : Rank(S, l) = m
  BY <1>3
<1>6. ASSUME NEW y \in S PROVE k <= y /\ y <= l
  <2>1. Rank(S, y) \in 1 .. m
    BY <1>1
  <2>2. ~ (y < k) /\ ~ (l < y)
    BY <1>1, <1>4, <1>5, <2>1
  <2> QED BY <2>2
<1> QED BY <1>6 DEF Min, Max

LEMMA InOrderEnumerates ==
    ASSUME NEW n \in Nat, NEW S \in SUBSET (1 .. n)
    PROVE  /\ Cardinality(S) \in Nat /\ DOMAIN InOrder(S) = 1 .. Cardinality(S)
           /\ \A i \in 1 .. Cardinality(S) : InOrder(S)[i] \in S
           /\ \A i, j \in 1 .. Cardinality(S) : InOrder(S)[i] = InOrder(S)[j] => i = j
           /\ \A k \in S : \E i \in 1 .. Cardinality(S) : InOrder(S)[i] = k
<1> DEFINE m == Cardinality(S)
<1>0. S \in SUBSET (0 .. n)
  OBVIOUS
<1>1. /\ m \in Nat
      /\ \A k \in S : Rank(S, k) \in 1 .. m
  BY <1>0, RankRises
<1>2. \A j, k \in S : Rank(S, j) = Rank(S, k) => j = k
  BY <1>0, EveryRank
<1>6. \A i \in 1 .. m : \E k \in S : Rank(S, k) = i
  BY <1>0, EveryRank
<1>7. DOMAIN InOrder(S) = 1 .. m
  BY DEF InOrder
<1>8. ASSUME NEW i \in 1 .. m PROVE InOrder(S)[i] \in S /\ Rank(S, InOrder(S)[i]) = i
  <2>1. InOrder(S)[i] = CHOOSE k \in S : Rank(S, k) = i
    BY DEF InOrder, Rank
  <2> QED BY <1>6, <2>1
<1>9. ASSUME NEW k \in S PROVE \E i \in 1 .. m : InOrder(S)[i] = k
  BY <1>1, <1>2, <1>8
<1> QED BY <1>1, <1>7, <1>8, <1>9

LEMMA RetainKeeps ==
    ASSUME NEW T, NEW s \in Seq(T), NEW P \in SUBSET DOMAIN s
    PROVE  /\ Cardinality(P) \in Nat /\ Retain(s, P) \in Seq(T)
           /\ DOMAIN Retain(s, P) = 1 .. Cardinality(P)
           /\ Len(Retain(s, P)) = Cardinality(P) /\ Cardinality(P) <= Len(s)
           /\ \A i \in 1 .. Cardinality(P) :
                 InOrder(P)[i] \in P /\ Retain(s, P)[i] = s[InOrder(P)[i]]
           /\ \A i, j \in 1 .. Cardinality(P) : InOrder(P)[i] = InOrder(P)[j] => i = j
           /\ \A k \in P : \E i \in 1 .. Cardinality(P) : Retain(s, P)[i] = s[k]
<1>1. Len(s) \in Nat /\ P \in SUBSET (1 .. Len(s))
  OBVIOUS
<1>2. /\ Cardinality(P) \in Nat
      /\ \A i \in 1 .. Cardinality(P) : InOrder(P)[i] \in P
      /\ \A i, j \in 1 .. Cardinality(P) : InOrder(P)[i] = InOrder(P)[j] => i = j
      /\ \A k \in P : \E i \in 1 .. Cardinality(P) : InOrder(P)[i] = k
  BY <1>1, InOrderEnumerates
<1>3. Retain(s, P) = [i \in 1 .. Cardinality(P) |-> s[InOrder(P)[i]]]
  BY DEF Retain
<1>4. Retain(s, P) \in [1 .. Cardinality(P) -> T]
  BY <1>2, <1>3
<1>5. /\ Retain(s, P) \in Seq(T) /\ Len(Retain(s, P)) = Cardinality(P)
      /\ DOMAIN Retain(s, P) = 1 .. Cardinality(P)
  BY <1>2, <1>4
<1>6. \A i \in 1 .. Cardinality(P) : Retain(s, P)[i] = s[InOrder(P)[i]]
  BY <1>3
<1>7. IsFiniteSet(1 .. Len(s)) /\ Cardinality(1 .. Len(s)) = Len(s)
  BY <1>1, CountedUpTo
<1>8. Cardinality(P) <= Len(s)
  BY <1>1, <1>7, FS_Subset
<1>9. \A k \in P : \E i \in 1 .. Cardinality(P) : Retain(s, P)[i] = s[k]
  BY <1>2, <1>6
<1> QED BY ONLY <1>2, <1>5, <1>6, <1>8, <1>9

LEMMA InOrderRises ==
    ASSUME NEW n \in Nat, NEW S \in SUBSET (1 .. n), NEW i \in 1 .. Cardinality(S),
           NEW j \in 1 .. Cardinality(S), i < j
    PROVE  InOrder(S)[i] < InOrder(S)[j]
<1>0. S \in SUBSET (0 .. n)
  OBVIOUS
<1>1. /\ Cardinality(S) \in Nat
      /\ \A k, l \in S : k < l => Rank(S, k) < Rank(S, l)
      /\ \A k \in S : Rank(S, k) \in 1 .. Cardinality(S)
  BY <1>0, RankRises
<1>2. \A l \in 1 .. Cardinality(S) : \E k \in S : Rank(S, k) = l
  BY <1>0, EveryRank
<1>3. \A l \in 1 .. Cardinality(S) : InOrder(S)[l] \in S /\ Rank(S, InOrder(S)[l]) = l
  <2> SUFFICES ASSUME NEW l \in 1 .. Cardinality(S)
               PROVE  InOrder(S)[l] \in S /\ Rank(S, InOrder(S)[l]) = l
    OBVIOUS
  <2>1. InOrder(S)[l] = CHOOSE k \in S : Rank(S, k) = l
    BY DEF InOrder, Rank
  <2> QED BY <1>2, <2>1
<1>4. InOrder(S)[i] \in Int /\ InOrder(S)[j] \in Int /\ InOrder(S)[i] \in S /\ InOrder(S)[j] \in S
      /\ Rank(S, InOrder(S)[i]) = i /\ Rank(S, InOrder(S)[j]) = j /\ i \in Int /\ j \in Int
  <2>1. \A k \in S : k \in Int
    OBVIOUS
  <2>2. InOrder(S)[i] \in S /\ Rank(S, InOrder(S)[i]) = i
    BY <1>3
  <2>3. InOrder(S)[j] \in S /\ Rank(S, InOrder(S)[j]) = j
    BY <1>3
  <2>4. i \in Int /\ j \in Int
    BY <1>1
  <2> QED BY <2>1, <2>2, <2>3, <2>4
<1> DEFINE a == InOrder(S)[i]
           b == InOrder(S)[j]
<1> HIDE DEF a, b
<1>5. /\ a \in S /\ b \in S /\ Rank(S, a) = i /\ Rank(S, b) = j /\ a \in Int /\ b \in Int
  BY <1>4 DEF a, b
<1>6. a # b /\ ~ (b < a)
  BY <1>1, <1>4, <1>5
<1>7. a < b
  BY <1>5, <1>6
<1> QED BY <1>7 DEF a, b

-----------------------------------------------------------------------------
(* Lists of any length, and the first place of one that fits.                *)
-----------------------------------------------------------------------------
\* A sequence, of whatever it holds.
IsList(s) == s \in Seq(ToSet(s))

LEMMA ListIs ==
    ASSUME NEW n \in Nat, NEW s, DOMAIN s = 1 .. n, s = [i \in DOMAIN s |-> s[i]]
    PROVE  IsList(s) /\ Len(s) = n
<1>1. s \in [1 .. n -> ToSet(s)]
  BY DEF ToSet
<1> QED BY <1>1 DEF IsList

LEMMA SeqIsList ==
    ASSUME NEW T, NEW s \in Seq(T)
    PROVE  IsList(s)
<1>1. s \in [1 .. Len(s) -> T] /\ Len(s) \in Nat /\ DOMAIN s = 1 .. Len(s)
  OBVIOUS
<1>2. s \in [1 .. Len(s) -> ToSet(s)]
  BY <1>1 DEF ToSet
<1> QED BY <1>1, <1>2 DEF IsList

LEMMA ListHas ==
    ASSUME NEW s, IsList(s)
    PROVE  Len(s) \in Nat /\ DOMAIN s = 1 .. Len(s)
BY DEF IsList

LEMMA OneIs == ASSUME NEW x PROVE IsList(<<x>>) /\ Len(<<x>>) = 1 /\ <<x>>[1] = x
<1>1. <<x>> \in Seq({x}) /\ ToSet(<<x>>) = {x}
  BY DEF ToSet
<1> QED BY <1>1 DEF IsList

LEMMA NoneIs == IsList(<<>>) /\ Len(<<>>) = 0
BY DEF IsList

LEMMA BothAre ==
    ASSUME NEW s, NEW t, IsList(s), IsList(t)
    PROVE  /\ IsList(s \o t) /\ Len(s \o t) = Len(s) + Len(t)
           /\ \A i \in 1 .. Len(s) : (s \o t)[i] = s[i]
           /\ \A j \in 1 .. Len(t) : (s \o t)[Len(s) + j] = t[j]
           /\ ToSet(s \o t) = ToSet(s) \cup ToSet(t)
<1> DEFINE T == ToSet(s) \cup ToSet(t)
           u == s \o t
<1>1. s \in Seq(T) /\ t \in Seq(T)
  <2>1. s \in [1 .. Len(s) -> ToSet(s)] /\ t \in [1 .. Len(t) -> ToSet(t)] /\ Len(s) \in Nat /\ Len(t) \in Nat
    BY DEF IsList
  <2>2. s \in [1 .. Len(s) -> T] /\ t \in [1 .. Len(t) -> T]
    BY <2>1
  <2> QED BY <2>1, <2>2
<1> HIDE DEF T
<1>2. u \in Seq(T) /\ Len(u) = Len(s) + Len(t) /\ Len(s) \in Nat /\ Len(t) \in Nat
  BY <1>1
<1>3. \A i \in 1 .. Len(s) : u[i] = s[i]
  BY <1>1
<1>4. \A j \in 1 .. Len(t) : u[Len(s) + j] = t[j]
  BY <1>1
<1>5. /\ DOMAIN u = 1 .. Len(s) + Len(t) /\ DOMAIN s = 1 .. Len(s) /\ DOMAIN t = 1 .. Len(t)
  BY <1>1, <1>2
<1>6. ToSet(u) = ToSet(s) \cup ToSet(t)
  <2>1. ASSUME NEW i \in DOMAIN u PROVE u[i] \in ToSet(s) \cup ToSet(t)
    <3>1. CASE i <= Len(s) BY <1>2, <1>3, <1>5, <3>1 DEF ToSet
    <3>2. CASE i > Len(s)
      <4>1. i - Len(s) \in 1 .. Len(t) /\ Len(s) + (i - Len(s)) = i
        BY <1>2, <1>5, <3>2
      <4>2. u[i] = t[i - Len(s)]
        BY <1>4, <4>1
      <4> QED BY <1>5, <4>1, <4>2 DEF ToSet
    <3> QED BY <1>2, <1>5, <3>1, <3>2
  <2>2. ASSUME NEW i \in DOMAIN s PROVE s[i] \in ToSet(u)
    <3>1. i \in DOMAIN u
      BY <1>2, <1>5
    <3> QED BY <1>3, <1>5, <3>1 DEF ToSet
  <2>3. ASSUME NEW j \in DOMAIN t PROVE t[j] \in ToSet(u)
    <3>1. Len(s) + j \in DOMAIN u
      BY <1>2, <1>5
    <3> QED BY <1>4, <1>5, <3>1 DEF ToSet
  <2> QED BY <2>1, <2>2, <2>3 DEF ToSet
<1>7. IsList(u)
  BY <1>2, SeqIsList
<1> QED BY <1>2, <1>3, <1>4, <1>6, <1>7

(* The first place that fits, and what is there or else e.                  *)
First(places) == IF places # {} THEN Min(places) ELSE 0

LEMMA FirstIs ==
    ASSUME NEW n \in Nat, NEW P \in SUBSET (1 .. n)
    PROVE  /\ P = {} => First(P) = 0
           /\ P # {} => First(P) \in P /\ First(P) \in 1 .. n /\ \A j \in P : First(P) <= j
<1>1. P \in SUBSET (0 .. n)
  OBVIOUS
<1> QED BY <1>1, EndsAreThere DEF First

\* What is at the first of the places, or else e.
AtFirst(s, places, e) == IF places # {} THEN s[Min(places)] ELSE e

LEMMA AtFirstIs ==
    ASSUME NEW s, NEW e, IsList(s), NEW P \in SUBSET (1 .. Len(s))
    PROVE  /\ P = {} => AtFirst(s, P, e) = e
           /\ P # {} => \E k \in P : AtFirst(s, P, e) = s[k] /\ \A j \in P : k <= j
<1>1. Len(s) \in Nat /\ P \in SUBSET (0 .. Len(s))
  BY ListHas
<1> QED BY <1>1, EndsAreThere DEF AtFirst

LEMMA AtFirstOfBoth ==
    ASSUME NEW s, NEW t, NEW e, IsList(s), IsList(t),
           NEW P \in SUBSET (1 .. Len(s)), NEW Q \in SUBSET (1 .. Len(t)),
           NEW R \in SUBSET (1 .. Len(s \o t)), \A i \in 1 .. Len(s) : i \in R <=> i \in P,
           \A j \in 1 .. Len(t) : Len(s) + j \in R <=> j \in Q
    PROVE  AtFirst(s \o t, R, e) = AtFirst(s, P, AtFirst(t, Q, e))
<1>1. Len(s) \in Nat /\ Len(t) \in Nat
  BY ListHas
<1>2. /\ Len(s \o t) = Len(s) + Len(t)
      /\ \A i \in 1 .. Len(s) : (s \o t)[i] = s[i]
      /\ \A j \in 1 .. Len(t) : (s \o t)[Len(s) + j] = t[j]
  BY BothAre
<1>3. R \in SUBSET (1 .. Len(s) + Len(t))
  BY <1>2
<1>4. First(R) = IF P # {} THEN First(P) ELSE IF Q # {} THEN Len(s) + First(Q) ELSE 0
  <2> DEFINE n == Len(s)
             m == Len(t)
  <2>c. /\ n \in Nat /\ m \in Nat /\ P \in SUBSET (1 .. n) /\ Q \in SUBSET (1 .. m)
        /\ R \in SUBSET (1 .. n + m) /\ \A i \in 1 .. n : i \in R <=> i \in P
        /\ \A j \in 1 .. m : n + j \in R <=> j \in Q
    BY <1>1, <1>3
  <2> HIDE DEF n, m
  <2>0. /\ P = {} => First(P) = 0
        /\ P # {} => First(P) \in P /\ First(P) \in 1 .. n /\ \A j \in P : First(P) <= j
    BY <2>c, FirstIs
  <2>a. /\ Q = {} => First(Q) = 0
        /\ Q # {} => First(Q) \in Q /\ First(Q) \in 1 .. m /\ \A j \in Q : First(Q) <= j
    BY <2>c, FirstIs
  <2>b. /\ n + m \in Nat
        /\ R = {} => First(R) = 0
        /\ R # {} => First(R) \in R /\ First(R) \in 1 .. n + m /\ \A j \in R : First(R) <= j
    BY <2>c, FirstIs, n + m \in Nat
  <2>1. ASSUME NEW k \in R, k > n PROVE k - n \in Q
    <3>1. k - n \in 1 .. m /\ n + (k - n) = k
      BY <2>1, <2>b, <2>c
    <3> QED BY <2>c, <3>1
  <2>2. CASE P # {}
    <3>1. First(P) \in R
      BY <2>0, <2>2, <2>c
    <3>2. First(R) <= n /\ First(R) \in P
      BY <2>0, <2>b, <2>c, <2>2, <3>1
    <3> QED BY <2>0, <2>b, <2>c, <2>2, <3>1, <3>2 DEF n
  <2>3. CASE P = {} /\ Q # {}
    <3>1. n + First(Q) \in R
      BY <2>a, <2>c, <2>3
    <3>2. First(R) \in R /\ First(R) > n /\ First(R) \in 1 .. n + m
      BY <2>b, <2>c, <2>3, <3>1
    <3>3. First(R) - n \in Q
      BY <2>1, <2>c, <3>2
    <3>4. First(Q) <= First(R) - n /\ First(R) <= n + First(Q)
      BY <2>a, <2>b, <2>3, <3>1, <3>3
    <3>5. First(Q) \in Int /\ First(R) \in Int /\ n \in Int
      BY <2>a, <2>c, <2>3, <3>2
    <3>6. First(R) = n + First(Q)
      BY <3>4, <3>5
    <3> QED BY <2>3, <3>6 DEF n
  <2>4. CASE P = {} /\ Q = {}
    <3>1. R = {}
      BY <2>1, <2>c, <2>4
    <3> QED BY <2>b, <2>c, <2>4, <3>1 DEF n
  <2> QED BY <2>2, <2>3, <2>4 DEF n
<1>5. /\ P # {} => First(P) \in P /\ First(P) = Min(P)
      /\ Q # {} => First(Q) \in Q /\ First(Q) = Min(Q)
  BY <1>1, FirstIs DEF First
<1>6. /\ R # {} => First(R) \in R /\ First(R) = Min(R)
      /\ R = {} => First(R) = 0
  <2>1. Len(s) + Len(t) \in Nat
    BY <1>1
  <2> QED BY <1>3, <2>1, FirstIs DEF First
<1>7. CASE P # {}
  <2>1. First(P) \in 1 .. Len(s) /\ First(P) \in R
    BY <1>5, <1>7
  <2> QED BY <1>2, <1>4, <1>5, <1>6, <1>7, <2>1 DEF AtFirst
<1>8. CASE P = {} /\ Q # {}
  <2>1. First(Q) \in 1 .. Len(t) /\ Len(s) + First(Q) \in R
    BY <1>5, <1>8
  <2>2. Min(R) = Len(s) + Min(Q) /\ Min(Q) \in 1 .. Len(t) /\ R # {}
    BY <1>4, <1>5, <1>6, <1>8, <2>1
  <2> QED BY <1>2, <1>8, <2>2 DEF AtFirst
<1>9. CASE P = {} /\ Q = {}
  <2>1. R = {}
    <3> SUFFICES ASSUME NEW k \in R PROVE FALSE
      OBVIOUS
    <3>1. First(R) = 0 /\ First(R) \in R
      BY <1>4, <1>6, <1>9
    <3> QED BY <1>1, <1>3, <3>1
  <2> QED BY <1>9, <2>1 DEF AtFirst
<1> QED BY <1>7, <1>8, <1>9

(* The DNS rule that answers, and the route rule that decides.              *)
Hits(s, facts) == {i \in 1 .. Len(s) : s[i].fact \in facts}
AnswerIn(s, facts, e) == AtFirst(s, Hits(s, facts), e)
Deciders(s, facts) ==
    {i \in 1 .. Len(s) : s[i].action \in {"route", "hijack-dns"} /\ s[i].fact \in facts}
DecideIn(s, facts, e) == AtFirst(s, Deciders(s, facts), e)

LEMMA AnswerOfBoth ==
    ASSUME NEW s, NEW t, NEW facts, NEW e, IsList(s), IsList(t)
    PROVE  AnswerIn(s \o t, facts, e) = AnswerIn(s, facts, AnswerIn(t, facts, e))
<1> DEFINE P == Hits(s, facts)
           Q == Hits(t, facts)
           R == Hits(s \o t, facts)
<1>1. Len(s) \in Nat /\ Len(t) \in Nat
  BY ListHas
<1>2. /\ Len(s \o t) = Len(s) + Len(t)
      /\ \A i \in 1 .. Len(s) : (s \o t)[i] = s[i]
      /\ \A j \in 1 .. Len(t) : (s \o t)[Len(s) + j] = t[j]
  BY BothAre
<1>3. /\ P \in SUBSET (1 .. Len(s)) /\ Q \in SUBSET (1 .. Len(t))
      /\ R \in SUBSET (1 .. Len(s \o t))
  BY DEF Hits
<1>4. \A i \in 1 .. Len(s) : i \in R <=> i \in P
  BY <1>1, <1>2 DEF Hits
<1>5. \A j \in 1 .. Len(t) : Len(s) + j \in R <=> j \in Q
  BY <1>1, <1>2 DEF Hits
<1> HIDE DEF P, Q, R
<1>6. AtFirst(s \o t, R, e) = AtFirst(s, P, AtFirst(t, Q, e))
  BY <1>3, <1>4, <1>5, AtFirstOfBoth
<1> QED BY <1>6 DEF AnswerIn, P, Q, R

LEMMA DecideOfBoth ==
    ASSUME NEW s, NEW t, NEW facts, NEW e, IsList(s), IsList(t)
    PROVE  DecideIn(s \o t, facts, e) = DecideIn(s, facts, DecideIn(t, facts, e))
<1> DEFINE P == Deciders(s, facts)
           Q == Deciders(t, facts)
           R == Deciders(s \o t, facts)
<1>1. Len(s) \in Nat /\ Len(t) \in Nat
  BY ListHas
<1>2. /\ Len(s \o t) = Len(s) + Len(t)
      /\ \A i \in 1 .. Len(s) : (s \o t)[i] = s[i]
      /\ \A j \in 1 .. Len(t) : (s \o t)[Len(s) + j] = t[j]
  BY BothAre
<1>3. /\ P \in SUBSET (1 .. Len(s)) /\ Q \in SUBSET (1 .. Len(t))
      /\ R \in SUBSET (1 .. Len(s \o t))
  BY DEF Deciders
<1>4. \A i \in 1 .. Len(s) : i \in R <=> i \in P
  BY <1>1, <1>2 DEF Deciders
<1>5. \A j \in 1 .. Len(t) : Len(s) + j \in R <=> j \in Q
  BY <1>1, <1>2 DEF Deciders
<1> HIDE DEF P, Q, R
<1>6. AtFirst(s \o t, R, e) = AtFirst(s, P, AtFirst(t, Q, e))
  BY <1>3, <1>4, <1>5, AtFirstOfBoth
<1> QED BY <1>6 DEF DecideIn, P, Q, R

LEMMA AnswerOfOne ==
    ASSUME NEW x, NEW facts, NEW e
    PROVE  AnswerIn(<<x>>, facts, e) = IF x.fact \in facts THEN x ELSE e
<1>1. IsList(<<x>>) /\ Len(<<x>>) = 1 /\ <<x>>[1] = x
  BY OneIs
<1>2. Hits(<<x>>, facts) = IF x.fact \in facts THEN {1} ELSE {}
  BY <1>1 DEF Hits
<1>3. Hits(<<x>>, facts) \in SUBSET (1 .. Len(<<x>>))
  BY DEF Hits
<1>4. AnswerIn(<<x>>, facts, e) = AtFirst(<<x>>, Hits(<<x>>, facts), e)
  BY DEF AnswerIn
<1>5. ASSUME NEW Q \in SUBSET (1 .. Len(<<x>>)), Q = {1} PROVE AtFirst(<<x>>, Q, e) = x
  BY <1>1, <1>5, AtFirstIs
<1>6. AtFirst(<<x>>, {}, e) = e
  BY DEF AtFirst
<1> QED BY <1>2, <1>3, <1>4, <1>5, <1>6

LEMMA DecideOfOne ==
    ASSUME NEW x, NEW facts, NEW e
    PROVE  DecideIn(<<x>>, facts, e) =
              IF x.action \in {"route", "hijack-dns"} /\ x.fact \in facts THEN x ELSE e
<1>1. IsList(<<x>>) /\ Len(<<x>>) = 1 /\ <<x>>[1] = x
  BY OneIs
<1>2. Deciders(<<x>>, facts) =
         IF x.action \in {"route", "hijack-dns"} /\ x.fact \in facts THEN {1} ELSE {}
  BY <1>1 DEF Deciders
<1>3. Deciders(<<x>>, facts) \in SUBSET (1 .. Len(<<x>>))
  BY DEF Deciders
<1>4. DecideIn(<<x>>, facts, e) = AtFirst(<<x>>, Deciders(<<x>>, facts), e)
  BY DEF DecideIn
<1>5. ASSUME NEW Q \in SUBSET (1 .. Len(<<x>>)), Q = {1} PROVE AtFirst(<<x>>, Q, e) = x
  BY <1>1, <1>5, AtFirstIs
<1>6. AtFirst(<<x>>, {}, e) = e
  BY DEF AtFirst
<1> QED BY <1>2, <1>3, <1>4, <1>5, <1>6

LEMMA AnswerOfNone ==
    ASSUME NEW facts, NEW e
    PROVE  AnswerIn(<<>>, facts, e) = e /\ DecideIn(<<>>, facts, e) = e
<1>1. Hits(<<>>, facts) = {} /\ Deciders(<<>>, facts) = {}
  BY NoneIs DEF Hits, Deciders
<1> QED BY <1>1 DEF AnswerIn, DecideIn, AtFirst

-----------------------------------------------------------------------------
(* A connection request, of any length, with whatever is selected and on      *)
(* record.                                                                    *)
-----------------------------------------------------------------------------
\* A node's tag is prefixed with its subscription (domain.rs:106), so it is
\* none of these; its subscription numbered it (parser.rs:846), so tags differ.
OwnTags == {Tag(w) : w \in {"", "proxy", "direct", "block", "dns-direct", "dns-bootstrap",
                            "dns-proxy", "dns-subscription", "dns-fakeip"}}
           \cup ({"dns-override"} \X Nat)

ConnectionRequest(r) ==
    /\ IsList(r.nodes) /\ IsList(r.rules) /\ IsList(r.overrides) /\ IsList(r.nameservers)
    /\ r.mode \in {"rule", "global", "direct"} /\ r.tun \in BOOLEAN
    /\ \A i \in DOMAIN r.nodes : r.nodes[i].tag \notin OwnTags
    /\ \A i, j \in DOMAIN r.nodes : r.nodes[i].tag = r.nodes[j].tag => i = j
    /\ \A i \in DOMAIN r.rules : r.rules[i].action \in {"proxy", "direct", "block"}

LEMMA RetainedList ==
    ASSUME NEW s, IsList(s), NEW P \in SUBSET DOMAIN s
    PROVE  /\ IsList(Retain(s, P)) /\ Len(Retain(s, P)) = Cardinality(P) /\ Cardinality(P) \in Nat
           /\ \A i \in 1 .. Cardinality(P) :
                 InOrder(P)[i] \in P /\ Retain(s, P)[i] = s[InOrder(P)[i]]
           /\ \A k \in P : \E i \in 1 .. Cardinality(P) : InOrder(P)[i] = k
<1> DEFINE T == ToSet(s)
<1>1. s \in Seq(T)
  BY DEF IsList
<1> HIDE DEF T
<1>2. /\ Cardinality(P) \in Nat /\ Retain(s, P) \in Seq(T)
      /\ Len(Retain(s, P)) = Cardinality(P)
      /\ \A i \in 1 .. Cardinality(P) :
            InOrder(P)[i] \in P /\ Retain(s, P)[i] = s[InOrder(P)[i]]
  BY <1>1, RetainKeeps
<1>3. IsList(Retain(s, P))
  BY <1>2, SeqIsList
<1>4. Len(s) \in Nat /\ P \in SUBSET (1 .. Len(s))
  BY ListHas
<1>5. \A k \in P : \E i \in 1 .. Cardinality(P) : InOrder(P)[i] = k
  BY <1>4, InOrderEnumerates
<1> QED BY <1>2, <1>3, <1>5

\* The overrides that are on, and the rules that can be used, are lists of them.
LEMMA KeptLists ==
    ASSUME NEW r, ConnectionRequest(r)
    PROVE  /\ IsList(EnabledOverrides(r)) /\ IsList(UsableRules(r))
           /\ \A i \in 1 .. Len(EnabledOverrides(r)) : \E k \in DOMAIN r.overrides :
                 r.overrides[k].on /\ EnabledOverrides(r)[i] = r.overrides[k]
           /\ \A k \in DOMAIN r.overrides : r.overrides[k].on =>
                 \E i \in 1 .. Len(EnabledOverrides(r)) : EnabledOverrides(r)[i] = r.overrides[k]
           /\ \A i \in 1 .. Len(UsableRules(r)) : \E k \in DOMAIN r.rules :
                 UsableRules(r)[i] = r.rules[k]
<1> DEFINE O == {i \in DOMAIN r.overrides : r.overrides[i].on}
           U == {i \in DOMAIN r.rules : Usable(r.rules[i])}
           s == r.overrides
           t == r.rules
<1>1. IsList(s) /\ IsList(t) /\ O \in SUBSET DOMAIN s /\ U \in SUBSET DOMAIN t
  BY DEF ConnectionRequest
<1>2. EnabledOverrides(r) = Retain(s, O) /\ UsableRules(r) = Retain(t, U)
  BY DEF EnabledOverrides, UsableRules
<1>3. \A k \in O : k \in DOMAIN r.overrides /\ r.overrides[k].on
  OBVIOUS
<1>4. \A k \in U : k \in DOMAIN r.rules
  OBVIOUS
<1>5. \A k \in DOMAIN r.overrides : r.overrides[k].on => k \in O
  OBVIOUS
<1> HIDE DEF O, U
<1>6. /\ IsList(Retain(s, O)) /\ Len(Retain(s, O)) = Cardinality(O)
      /\ \A i \in 1 .. Cardinality(O) : InOrder(O)[i] \in O /\ Retain(s, O)[i] = s[InOrder(O)[i]]
      /\ \A k \in O : \E i \in 1 .. Cardinality(O) : InOrder(O)[i] = k
  BY <1>1, RetainedList
<1>7. /\ IsList(Retain(t, U)) /\ Len(Retain(t, U)) = Cardinality(U)
      /\ \A i \in 1 .. Cardinality(U) : InOrder(U)[i] \in U /\ Retain(t, U)[i] = t[InOrder(U)[i]]
  BY <1>1, RetainedList
<1>8. ASSUME NEW i \in 1 .. Len(EnabledOverrides(r))
      PROVE  \E k \in DOMAIN r.overrides : r.overrides[k].on /\ EnabledOverrides(r)[i] = r.overrides[k]
  BY <1>2, <1>3, <1>6
<1>9. ASSUME NEW k \in DOMAIN r.overrides, r.overrides[k].on
      PROVE  \E i \in 1 .. Len(EnabledOverrides(r)) : EnabledOverrides(r)[i] = r.overrides[k]
  <2>1. k \in O
    BY <1>5, <1>9
  <2>2. PICK i \in 1 .. Cardinality(O) : InOrder(O)[i] = k
    BY <1>6, <2>1
  <2> QED BY <1>2, <1>6, <2>2
<1>10. ASSUME NEW i \in 1 .. Len(UsableRules(r))
       PROVE  \E k \in DOMAIN r.rules : UsableRules(r)[i] = r.rules[k]
  BY <1>2, <1>4, <1>7
<1>11. IsList(EnabledOverrides(r)) /\ IsList(UsableRules(r))
  BY <1>2, <1>6, <1>7
<1> QED BY <1>8, <1>9, <1>10, <1>11

(* The outbounds.                                                           *)
NodeOut(r, i) == [tag |-> r.nodes[i].tag, kind |-> "node", members |-> <<>>, default |-> Untagged,
                  resolver |-> ResolverForServer(r, r.nodes[i])]
SelectorOut(r, d) == [tag |-> Tag("proxy"), kind |-> "selector", resolver |-> Untagged,
                      members |-> NodeTags(r), default |-> d]
PlainOut(w) == [tag |-> Tag(w), kind |-> w, resolver |-> Untagged, members |-> <<>>,
                default |-> Untagged]
Default(r) ==
    IF Tag("proxy") \in DOMAIN r.selections /\ r.selections[Tag("proxy")] \in ToSet(NodeTags(r))
    THEN r.selections[Tag("proxy")] ELSE Selected(r)
NodeTagSet(r) == {r.nodes[i].tag : i \in 1 .. Len(r.nodes)}

LEMMA NodesAre ==
    ASSUME NEW r, ConnectionRequest(r)
    PROVE  /\ Len(r.nodes) \in Nat /\ DOMAIN r.nodes = 1 .. Len(r.nodes)
           /\ ToSet(NodeTags(r)) = NodeTagSet(r) /\ NodeTagSet(r) \cap OwnTags = {}
           /\ NodeTags(r) # <<>> => Default(r) \in NodeTagSet(r)
<1> DEFINE nodes == r.nodes
<1>1. Len(nodes) \in Nat /\ DOMAIN nodes = 1 .. Len(nodes)
  BY ListHas DEF ConnectionRequest
<1>2. ToSet(NodeTags(r)) = NodeTagSet(r)
  BY <1>1 DEF ToSet, NodeTags, NodeTagSet
<1>3. NodeTagSet(r) \cap OwnTags = {}
  BY <1>1 DEF NodeTagSet, ConnectionRequest
<1>4. ASSUME NodeTags(r) # <<>> PROVE Selected(r) \in NodeTagSet(r)
  <2>1. nodes # <<>>
    <3> SUFFICES ASSUME nodes = <<>> PROVE FALSE
      OBVIOUS
    <3>1. Len(nodes) = 0
      OBVIOUS
    <3>2. NodeTags(r) = <<>>
      BY <3>1 DEF NodeTags
    <3> QED BY <1>4, <3>2
  <2>2. Len(nodes) # 0
    <3>1. nodes \in Seq(ToSet(nodes))
      BY DEF ConnectionRequest, IsList
    <3> QED BY <2>1, <3>1
  <2>3. 1 \in 1 .. Len(nodes)
    BY <1>1, <2>2
  <2> QED BY <1>2, <2>1, <2>3 DEF Selected, NodeTagSet
<1>5. ASSUME NodeTags(r) # <<>> PROVE Default(r) \in NodeTagSet(r)
  BY <1>2, <1>4, <1>5 DEF Default
<1> QED BY <1>1, <1>2, <1>3, <1>5

LEMMA OutboundsAre ==
    ASSUME NEW r
    PROVE  BuildConfig(r, TRUE).outbounds =
              {NodeOut(r, i) : i \in 1 .. Len(r.nodes)}
              \cup {SelectorOut(r, Default(r)), PlainOut("direct"), PlainOut("block")}
<1> DEFINE N == {NodeOut(r, i) : i \in 1 .. Len(r.nodes)}
           Changed(o) ==
              IF o.kind = "selector" /\ o.tag \in DOMAIN r.selections
                   /\ r.selections[o.tag] \in ToSet(o.members)
              THEN [o EXCEPT !.default = r.selections[o.tag]] ELSE o
<1>1. DownloadOutbound(r, TRUE) = {}
  BY DEF DownloadOutbound
<1>2. Outbounds(r) = N \cup {SelectorOut(r, Selected(r)), PlainOut("direct"), PlainOut("block")}
  BY DEF Outbounds, NodeOut, SelectorOut, PlainOut
<1>3. BuildConfig(r, TRUE).outbounds = {Changed(o) : o \in Outbounds(r)}
  BY <1>1 DEF BuildConfig, ApplySelections
<1>4. ASSUME NEW i \in 1 .. Len(r.nodes) PROVE Changed(NodeOut(r, i)) = NodeOut(r, i)
  BY DEF NodeOut
<1>5. Changed(PlainOut("direct")) = PlainOut("direct") /\ Changed(PlainOut("block")) = PlainOut("block")
  BY DEF PlainOut
<1>6. Changed(SelectorOut(r, Selected(r))) = SelectorOut(r, Default(r))
  <2>1. /\ SelectorOut(r, Selected(r)).kind = "selector"
        /\ SelectorOut(r, Selected(r)).tag = Tag("proxy")
        /\ SelectorOut(r, Selected(r)).members = NodeTags(r)
    BY DEF SelectorOut
  <2>2. \A d : [SelectorOut(r, Selected(r)) EXCEPT !.default = d] = SelectorOut(r, d)
    BY DEF SelectorOut
  <2> QED BY <2>1, <2>2 DEF Default
<1> HIDE DEF Changed
<1>7. \A o \in N : Changed(o) = o
  BY <1>4
<1> HIDE DEF N
<1>8. {Changed(o) : o \in Outbounds(r)} =
         N \cup {SelectorOut(r, Default(r)), PlainOut("direct"), PlainOut("block")}
  BY <1>2, <1>5, <1>6, <1>7
<1> QED BY <1>3, <1>8 DEF N

(* The name servers.                                                        *)
Server(tag, resolver, detour) == [tag |-> tag, resolver |-> resolver, detour |-> detour]
OverrideServer(r, i) ==
    Server(<<"dns-override", i>>,
           IF EnabledOverrides(r)[i].literal THEN Untagged ELSE Tag("dns-direct"), Untagged)
SubscriptionServer(r) ==
    Server(Tag("dns-subscription"),
           IF r.nameservers[SubscriptionDns(r)].literal THEN Untagged ELSE Tag("dns-bootstrap"), Untagged)
PlainServers == {Server(Tag(w), Untagged, Untagged) : w \in {"dns-direct", "dns-bootstrap", "dns-fakeip"}}
ProxyServer == Server(Tag("dns-proxy"), Untagged, Tag("proxy"))
OverrideTags(r) == {<<"dns-override", i>> : i \in 1 .. Len(EnabledOverrides(r))}
ServerNames(r) == TagsOf(DnsServers(r))

LEMMA ServersAre ==
    ASSUME NEW r
    PROVE  /\ DnsServers(r) \subseteq
                 PlainServers \cup {OverrideServer(r, i) : i \in 1 .. Len(EnabledOverrides(r))}
                 \cup {ProxyServer, SubscriptionServer(r)}
           /\ ProxyServer \in DnsServers(r) => r.mode # "direct"
           /\ SubscriptionServer(r) \in DnsServers(r) => r.mode # "direct"
<1>1. ASSUME NEW s \in DnsServers(r)
      PROVE  \/ s \in PlainServers
             \/ \E i \in 1 .. Len(EnabledOverrides(r)) : s = OverrideServer(r, i)
             \/ r.mode # "direct" /\ s \in {ProxyServer, SubscriptionServer(r)}
  BY <1>1 DEF DnsServers, Server, PlainServers, OverrideServer, ProxyServer, SubscriptionServer
<1>2. /\ ProxyServer \notin PlainServers /\ SubscriptionServer(r) \notin PlainServers
      /\ \A i \in 1 .. Len(EnabledOverrides(r)) :
            ProxyServer # OverrideServer(r, i) /\ SubscriptionServer(r) # OverrideServer(r, i)
  BY DEF Server, PlainServers, OverrideServer, ProxyServer, SubscriptionServer, Tag
<1> QED BY <1>1, <1>2

LEMMA NamesAre ==
    ASSUME NEW r
    PROVE  /\ Tag("dns-direct") \in ServerNames(r) /\ OverrideTags(r) \subseteq ServerNames(r)
           /\ r.mode # "direct" => Tag("dns-bootstrap") \in ServerNames(r) /\ Tag("dns-proxy") \in ServerNames(r)
           /\ r.mode # "direct" /\ SubscriptionDns(r) # 0 => Tag("dns-subscription") \in ServerNames(r)
           /\ FakeIp(r) => Tag("dns-fakeip") \in ServerNames(r)
<1>0. \A s \in DnsServers(r) : s.tag \in ServerNames(r)
  BY DEF ServerNames, TagsOf
<1>1. Tag("dns-direct") \in ServerNames(r)
  <2>1. Server(Tag("dns-direct"), Untagged, Untagged) \in DnsServers(r)
    BY DEF DnsServers, Server
  <2> QED BY <1>0, <2>1 DEF Server
<1>2. ASSUME NEW i \in 1 .. Len(EnabledOverrides(r)) PROVE <<"dns-override", i>> \in ServerNames(r)
  <2>1. OverrideServer(r, i) \in DnsServers(r)
    BY DEF DnsServers, OverrideServer, Server
  <2> QED BY <1>0, <2>1 DEF OverrideServer, Server
<1>3. ASSUME r.mode # "direct"
      PROVE  Tag("dns-bootstrap") \in ServerNames(r) /\ Tag("dns-proxy") \in ServerNames(r)
  <2>1. Server(Tag("dns-bootstrap"), Untagged, Untagged) \in DnsServers(r) /\ ProxyServer \in DnsServers(r)
    BY <1>3 DEF DnsServers, ProxyServer, Server
  <2> QED BY <1>0, <2>1 DEF ProxyServer, Server
<1>4. ASSUME r.mode # "direct", SubscriptionDns(r) # 0 PROVE Tag("dns-subscription") \in ServerNames(r)
  <2>1. SubscriptionServer(r) \in DnsServers(r)
    BY <1>4 DEF DnsServers, SubscriptionServer, Server
  <2> QED BY <1>0, <2>1 DEF SubscriptionServer, Server
<1>5. ASSUME FakeIp(r) PROVE Tag("dns-fakeip") \in ServerNames(r)
  <2>1. Server(Tag("dns-fakeip"), Untagged, Untagged) \in DnsServers(r)
    BY <1>5 DEF DnsServers, Server, FakeIp
  <2> QED BY <1>0, <2>1 DEF Server
<1> QED BY <1>1, <1>2, <1>3, <1>4, <1>5 DEF OverrideTags

\* Every server and every outbound is defined once.
LEMMA DefinedOnce ==
    ASSUME NEW r, ConnectionRequest(r)
    PROVE  /\ \A s, t \in DnsServers(r) : s.tag = t.tag => s = t
           /\ \A o, p \in BuildConfig(r, TRUE).outbounds : o.tag = p.tag => o = p
<1>1. ASSUME NEW s \in DnsServers(r), NEW t \in DnsServers(r), s.tag = t.tag PROVE s = t
  <2> DEFINE V == {OverrideServer(r, i) : i \in 1 .. Len(EnabledOverrides(r))}
  <2>1. /\ s \in PlainServers \/ s \in V \/ s = ProxyServer \/ s = SubscriptionServer(r)
        /\ t \in PlainServers \/ t \in V \/ t = ProxyServer \/ t = SubscriptionServer(r)
    BY <1>1, ServersAre
  <2>2. \A v \in V : \E i \in 1 .. Len(EnabledOverrides(r)) :
           v = OverrideServer(r, i) /\ v.tag = <<"dns-override", i>>
    BY DEF OverrideServer, Server
  <2>3. /\ \A v \in PlainServers : \E w \in {"dns-direct", "dns-bootstrap", "dns-fakeip"} :
              v = Server(Tag(w), Untagged, Untagged) /\ v.tag = <<w, 0>>
        /\ ProxyServer.tag = <<"dns-proxy", 0>> /\ SubscriptionServer(r).tag = <<"dns-subscription", 0>>
    BY DEF PlainServers, ProxyServer, SubscriptionServer, Server, Tag
  <2> HIDE DEF V
  <2> QED BY <1>1, <2>1, <2>2, <2>3
<1>2. ASSUME NEW o \in BuildConfig(r, TRUE).outbounds, NEW p \in BuildConfig(r, TRUE).outbounds,
             o.tag = p.tag
      PROVE  o = p
  <2> DEFINE N == {NodeOut(r, i) : i \in 1 .. Len(r.nodes)}
  <2>1. /\ o \in N \/ o = SelectorOut(r, Default(r)) \/ o = PlainOut("direct") \/ o = PlainOut("block")
        /\ p \in N \/ p = SelectorOut(r, Default(r)) \/ p = PlainOut("direct") \/ p = PlainOut("block")
    BY <1>2, OutboundsAre
  <2>2. \A q \in N : \E i \in DOMAIN r.nodes :
           q = NodeOut(r, i) /\ q.tag = r.nodes[i].tag /\ q.tag \notin OwnTags
    BY NodesAre DEF NodeOut, ConnectionRequest
  <2>3. /\ SelectorOut(r, Default(r)).tag = <<"proxy", 0>> /\ PlainOut("direct").tag = <<"direct", 0>>
        /\ PlainOut("block").tag = <<"block", 0>>
    BY DEF SelectorOut, PlainOut, Tag
  <2>4. {<<"proxy", 0>>, <<"direct", 0>>, <<"block", 0>>} \subseteq OwnTags
    BY DEF OwnTags, Tag
  <2>5. \A i, j \in DOMAIN r.nodes : r.nodes[i].tag = r.nodes[j].tag => i = j
    BY DEF ConnectionRequest
  <2> HIDE DEF N
  <2> QED BY <1>2, <2>1, <2>2, <2>3, <2>4, <2>5
<1> QED BY <1>1, <1>2

(* Whatever needs something stands above what it needs.                     *)
Levels(c, T0, T1, T2, T3, T4) ==
    /\ T0 \cap (T1 \cup T2 \cup T3 \cup T4) = {} /\ T1 \cap (T2 \cup T3 \cup T4) = {}
    /\ T2 \cap (T3 \cup T4) = {} /\ T3 \cap T4 = {}
    /\ \A x \in c.servers \cup c.outbounds : Needs(c, x) # {} =>
          \/ x.tag \in T1 /\ Needs(c, x) \subseteq T0
          \/ x.tag \in T2 /\ Needs(c, x) \subseteq T0 \cup T1
          \/ x.tag \in T3 /\ Needs(c, x) \subseteq T2
          \/ x.tag \in T4 /\ Needs(c, x) \subseteq T3

LEMMA LevelsSettle ==
    ASSUME NEW c, NEW T0, NEW T1, NEW T2, NEW T3, NEW T4, Levels(c, T0, T1, T2, T3, T4)
    PROVE  NothingNeedsItself(c)
<1> DEFINE All == {x \in c.servers \cup c.outbounds : Needs(c, x) # {}}
<1> SUFFICES ASSUME NEW things \in SUBSET All, things # {}
             PROVE  \E x \in things : Needs(c, x) \cap TagsOf(things) = {}
  BY DEF NothingNeedsItself
<1>1. /\ T0 \cap (T1 \cup T2 \cup T3 \cup T4) = {} /\ T1 \cap (T2 \cup T3 \cup T4) = {}
      /\ T2 \cap (T3 \cup T4) = {} /\ T3 \cap T4 = {}
      /\ \A x \in things :
            \/ x.tag \in T1 /\ Needs(c, x) \subseteq T0
            \/ x.tag \in T2 /\ Needs(c, x) \subseteq T0 \cup T1
            \/ x.tag \in T3 /\ Needs(c, x) \subseteq T2
            \/ x.tag \in T4 /\ Needs(c, x) \subseteq T3
  BY DEF Levels
<1>2. \A tag \in TagsOf(things) : \E x \in things : tag = x.tag
  BY DEF TagsOf
<1> DEFINE tags == TagsOf(things)
<1>3. tags \cap T0 = {}
  BY <1>1, <1>2
<1>4. CASE \E x \in things : x.tag \in T1
  BY <1>1, <1>3, <1>4
<1>5. CASE (\A x \in things : x.tag \notin T1) /\ \E x \in things : x.tag \in T2
  <2>1. tags \cap T1 = {}
    BY <1>2, <1>5
  <2> QED BY <1>1, <1>3, <1>5, <2>1
<1>6. CASE (\A x \in things : x.tag \notin T1 \cup T2) /\ \E x \in things : x.tag \in T3
  <2>1. tags \cap T2 = {}
    BY <1>2, <1>6
  <2> QED BY <1>1, <1>6, <2>1
<1>7. CASE \A x \in things : x.tag \notin T1 \cup T2 \cup T3
  <2>1. tags \cap T3 = {}
    BY <1>2, <1>7
  <2> QED BY <1>1, <1>7, <2>1
<1> QED BY <1>4, <1>5, <1>6, <1>7

LEMMA ResolversAre ==
    ASSUME NEW r, ConnectionRequest(r), NEW i \in 1 .. Len(r.nodes)
    PROVE  ResolverForServer(r, r.nodes[i]) \in {Untagged} \cup OverrideTags(r)
<1> DEFINE node == r.nodes[i]
           s == EnabledOverrides(r)
           P == {k \in 1 .. Len(s) : s[k].suffix \in node.facts}
           j == SelectInSeq(s, LAMBDA d : d.suffix \in node.facts)
<1>1. j = First(P)
  BY DEF SelectInSeq, First
<1>2. Len(s) \in Nat /\ P \in SUBSET (1 .. Len(s))
  BY KeptLists, ListHas
<1>3. j = 0 \/ j \in 1 .. Len(s)
  <2> HIDE DEF P, j
  <2> QED BY <1>1, <1>2, FirstIs
<1>4. ResolverForServer(r, node) = IF node.literal \/ j = 0 THEN Untagged ELSE <<"dns-override", j>>
  BY DEF ResolverForServer
<1> HIDE DEF j
<1> QED BY <1>3, <1>4 DEF OverrideTags

LEMMA NoCircle ==
    ASSUME NEW r, ConnectionRequest(r)
    PROVE  NothingNeedsItself(BuildConfig(r, TRUE))
<1> DEFINE c == BuildConfig(r, TRUE)
           T0 == {Tag("dns-direct"), Tag("dns-bootstrap")}
           T1 == ({"dns-override"} \X Nat) \cup {Tag("dns-subscription")}
           T2 == NodeTagSet(r)
           T3 == {Tag("proxy")}
           T4 == {Tag("dns-proxy")}
<1>1. T2 \cap (T0 \cup T1 \cup T3 \cup T4) = {}
  <2>1. T0 \cup T1 \cup T3 \cup T4 \subseteq OwnTags
    BY DEF OwnTags
  <2> QED BY <2>1, NodesAre
<1>2. T0 \cap (T1 \cup T3 \cup T4) = {} /\ T1 \cap (T3 \cup T4) = {} /\ T3 \cap T4 = {}
  BY DEF Tag
<1>3. OverrideTags(r) \subseteq T1
  BY KeptLists, ListHas DEF OverrideTags
<1>4. c.servers = DnsServers(r) /\ c.resolver = DefaultDomainResolver(r)
  BY DEF BuildConfig
<1>5. c.resolver \in T0 \cup T1
  BY <1>4 DEF DefaultDomainResolver
<1>6. \A tag : IfTagged(tag) \subseteq {tag} /\ IfTagged(Untagged) = {}
  BY DEF IfTagged
<1>7. ASSUME NEW x \in c.servers, Needs(c, x) # {}
      PROVE  \/ x.tag \in T1 /\ Needs(c, x) \subseteq T0
             \/ x.tag \in T4 /\ Needs(c, x) \subseteq T3
  <2>1. Needs(c, x) = IfTagged(x.resolver) \cup IfTagged(x.detour)
    BY DEF Needs
  <2>2. x \notin PlainServers
    <3> SUFFICES ASSUME x \in PlainServers PROVE FALSE
      OBVIOUS
    <3>1. x.resolver = Untagged /\ x.detour = Untagged
      BY DEF PlainServers, Server
    <3>2. IfTagged(Untagged) = {}
      BY <1>6
    <3>3. Needs(c, x) = {}
      BY <2>1, <3>1, <3>2
    <3> QED BY <1>7, <3>3
  <2>3. CASE \E i \in 1 .. Len(EnabledOverrides(r)) : x = OverrideServer(r, i)
    <3>1. PICK i \in 1 .. Len(EnabledOverrides(r)) : x = OverrideServer(r, i)
      BY <2>3
    <3>2. x.tag = <<"dns-override", i>> /\ x.detour = Untagged /\ x.resolver \in {Untagged, Tag("dns-direct")}
      BY <3>1 DEF OverrideServer, Server
    <3>3. x.tag \in T1
      BY <1>3, <3>2 DEF OverrideTags
    <3> QED BY <1>6, <2>1, <3>2, <3>3
  <2>4. CASE x = SubscriptionServer(r)
    <3>1. /\ x.tag = Tag("dns-subscription") /\ x.detour = Untagged
          /\ x.resolver \in {Untagged, Tag("dns-bootstrap")}
      BY <2>4 DEF SubscriptionServer, Server
    <3> QED BY <1>6, <2>1, <3>1
  <2>5. CASE x = ProxyServer
    <3>1. x.tag = Tag("dns-proxy") /\ x.detour = Tag("proxy") /\ x.resolver = Untagged
      BY <2>5 DEF ProxyServer, Server
    <3> QED BY <1>6, <2>1, <3>1
  <2> QED BY <1>4, <2>2, <2>3, <2>4, <2>5, ServersAre
<1>8. ASSUME NEW x \in c.outbounds, x \notin c.servers, Needs(c, x) # {}
      PROVE  \/ x.tag \in T2 /\ Needs(c, x) \subseteq T0 \cup T1
             \/ x.tag \in T3 /\ Needs(c, x) \subseteq T2
  <2>1. CASE \E i \in 1 .. Len(r.nodes) : x = NodeOut(r, i)
    <3>1. PICK i \in 1 .. Len(r.nodes) : x = NodeOut(r, i)
      BY <2>1
    <3>2. x.tag = r.nodes[i].tag /\ x.kind = "node" /\ x.resolver = ResolverForServer(r, r.nodes[i])
      BY <3>1 DEF NodeOut
    <3>3. Needs(c, x) = {IF x.resolver = Untagged THEN c.resolver ELSE x.resolver}
      BY <1>8, <3>2 DEF Needs
    <3>4. x.resolver \in {Untagged} \cup T1
      BY <1>3, <3>2, ResolversAre
    <3>5. Needs(c, x) \subseteq T0 \cup T1
      BY <1>5, <3>3, <3>4
    <3> QED BY <3>2, <3>5 DEF NodeTagSet
  <2>2. CASE x = SelectorOut(r, Default(r))
    <3>1. x.tag = Tag("proxy") /\ x.kind = "selector" /\ x.members = NodeTags(r)
      BY <2>2 DEF SelectorOut
    <3>2. Needs(c, x) = ToSet(NodeTags(r))
      BY <1>8, <3>1 DEF Needs
    <3> QED BY <3>1, <3>2, NodesAre
  <2>3. CASE x = PlainOut("direct") \/ x = PlainOut("block")
    <3>1. x.kind \in {"direct", "block"} /\ x.resolver = Untagged
      BY <2>3 DEF PlainOut
    <3>2. Needs(c, x) = {}
      BY <1>6, <1>8, <3>1 DEF Needs
    <3> QED BY <1>8, <3>2
  <2> QED BY <2>1, <2>2, <2>3, OutboundsAre
<1> HIDE DEF c, T0, T1, T2, T3, T4
<1>9. Levels(c, T0, T1, T2, T3, T4)
  <2>1. /\ T0 \cap (T1 \cup T2 \cup T3 \cup T4) = {} /\ T1 \cap (T2 \cup T3 \cup T4) = {}
        /\ T2 \cap (T3 \cup T4) = {} /\ T3 \cap T4 = {}
    BY <1>1, <1>2
  <2>2. \A x \in c.servers \cup c.outbounds : Needs(c, x) # {} =>
           \/ x.tag \in T1 /\ Needs(c, x) \subseteq T0
           \/ x.tag \in T2 /\ Needs(c, x) \subseteq T0 \cup T1
           \/ x.tag \in T3 /\ Needs(c, x) \subseteq T2
           \/ x.tag \in T4 /\ Needs(c, x) \subseteq T3
    BY <1>7, <1>8
  <2> QED BY <2>1, <2>2 DEF Levels
<1> QED BY <1>9, LevelsSettle DEF c

(* The lists of rules, in their parts.                                      *)
LEMMA TwoAre ==
    ASSUME NEW x, NEW y
    PROVE  <<x, y>> = <<x>> \o <<y>>
<1> DEFINE T == {x, y}
           two == <<x, y>>
           both == <<x>> \o <<y>>
<1>1. <<x>> \in Seq(T) /\ <<y>> \in Seq(T) /\ Len(<<x>>) = 1 /\ Len(<<y>>) = 1
      /\ <<x>>[1] = x /\ <<y>>[1] = y
  OBVIOUS
<1>2. two \in Seq(T) /\ Len(two) = 2 /\ two[1] = x /\ two[2] = y
  OBVIOUS
<1> HIDE DEF T
<1>3. both \in Seq(T) /\ Len(both) = 2 /\ both[1] = x /\ both[2] = y
  BY <1>1
<1> HIDE DEF two, both
<1>4. /\ two = [i \in 1 .. 2 |-> two[i]] /\ both = [i \in 1 .. 2 |-> both[i]]
      /\ \A i \in 1 .. 2 : two[i] = both[i]
  BY <1>2, <1>3
<1>5. two = both
  BY <1>4
<1> QED BY <1>5 DEF two, both

LEMMA PairIs ==
    ASSUME NEW x, NEW y
    PROVE  /\ IsList(<<x, y>>) /\ DOMAIN <<x, y>> = {1, 2}
           /\ <<x, y>>[1] = x /\ <<x, y>>[2] = y
<1>1. IsList(<<x, y>>)
  BY TwoAre, OneIs, BothAre
<1> QED BY <1>1

DirectRules(r) == Retain(r.rules, {i \in DOMAIN r.rules : Usable(r.rules[i]) /\ Questioned(r.rules[i])})

LEMMA DnsPartsAre ==
    ASSUME NEW r, ConnectionRequest(r)
    PROVE  /\ IsList(OverrideDnsRules(r)) /\ IsList(CustomDirectDnsRules(r))
           /\ Len(OverrideDnsRules(r)) = Len(EnabledOverrides(r))
           /\ \A i \in 1 .. Len(OverrideDnsRules(r)) : OverrideDnsRules(r)[i] =
                 DnsRule(EnabledOverrides(r)[i].suffix, <<"dns-override", i>>, FALSE)
           /\ IsList(DirectRules(r)) /\ Len(CustomDirectDnsRules(r)) = Len(DirectRules(r))
           /\ \A i \in 1 .. Len(CustomDirectDnsRules(r)) : CustomDirectDnsRules(r)[i] =
                 DnsRule(DirectRules(r)[i].value, Tag("dns-direct"), TRUE)
<1> DEFINE o == OverrideDnsRules(r)
           d == CustomDirectDnsRules(r)
           n == Len(EnabledOverrides(r))
           P == {i \in DOMAIN r.rules : Usable(r.rules[i]) /\ Questioned(r.rules[i])}
           kept == Retain(r.rules, P)
<1>1. n \in Nat
  BY KeptLists, ListHas
<1>2. o = [i \in 1 .. n |-> DnsRule(EnabledOverrides(r)[i].suffix, <<"dns-override", i>>, FALSE)]
  BY DEF OverrideDnsRules
<1>3. IsList(o) /\ Len(o) = n
  <2>1. DOMAIN o = 1 .. n /\ o = [i \in DOMAIN o |-> o[i]]
    BY <1>2
  <2> HIDE DEF o, n
  <2> QED BY <1>1, <2>1, ListIs
<1>4. IsList(r.rules) /\ P \in SUBSET DOMAIN r.rules
  BY DEF ConnectionRequest
<1>5. IsList(kept)
  <2> DEFINE rules == r.rules
  <2>1. IsList(rules) /\ P \in SUBSET DOMAIN rules
    BY <1>4
  <2> HIDE DEF rules, P
  <2>2. IsList(Retain(rules, P))
    BY <2>1, RetainedList
  <2> QED BY <2>2 DEF rules
<1>6. Len(kept) \in Nat /\ DOMAIN kept = 1 .. Len(kept)
  BY <1>5, ListHas
<1>7. d = [i \in 1 .. Len(kept) |-> DnsRule(kept[i].value, Tag("dns-direct"), TRUE)] /\ kept = DirectRules(r)
  BY <1>6 DEF CustomDirectDnsRules, DirectDnsRules, DirectRules
<1>8. IsList(d) /\ Len(d) = Len(kept)
  <2>1. DOMAIN d = 1 .. Len(kept) /\ d = [i \in DOMAIN d |-> d[i]]
    BY <1>7
  <2> HIDE DEF d, kept
  <2> QED BY <1>6, <2>1, ListIs
<1> QED BY <1>2, <1>3, <1>5, <1>7, <1>8

LEMMA RoutePartsAre ==
    ASSUME NEW r, ConnectionRequest(r)
    PROVE  /\ IsList(OverrideRouteRules(r)) /\ IsList(CustomRouteRules(r))
           /\ Len(OverrideRouteRules(r)) = 2 * Len(EnabledOverrides(r))
           /\ \A i \in 1 .. Len(EnabledOverrides(r)) :
                 /\ OverrideRouteRules(r)[2 * i - 1] =
                       RouteRule(EnabledOverrides(r)[i].suffix, "resolve", <<"dns-override", i>>)
                 /\ OverrideRouteRules(r)[2 * i] =
                       RouteRule(EnabledOverrides(r)[i].suffix, "route", Tag("direct"))
           /\ \A k \in 1 .. Len(OverrideRouteRules(r)) : \E i \in 1 .. Len(EnabledOverrides(r)) :
                 k = 2 * i - 1 \/ k = 2 * i
           /\ Len(CustomRouteRules(r)) = Len(UsableRules(r))
           /\ \A i \in 1 .. Len(CustomRouteRules(r)) : CustomRouteRules(r)[i] =
                 RouteRule(UsableRules(r)[i].value, "route", Tag(UsableRules(r)[i].action))
<1> DEFINE o == OverrideRouteRules(r)
           d == CustomRouteRules(r)
           n == Len(EnabledOverrides(r))
           m == Len(UsableRules(r))
           At(k) == LET i == (k + 1) \div 2
                        suffix == EnabledOverrides(r)[i].suffix
                    IN  IF k % 2 = 1 THEN RouteRule(suffix, "resolve", <<"dns-override", i>>)
                        ELSE RouteRule(suffix, "route", Tag("direct"))
<1>1. n \in Nat /\ m \in Nat
  BY KeptLists, ListHas
<1>2. o = [k \in 1 .. 2 * n |-> At(k)]
  BY DEF OverrideRouteRules
<1>3. d = [i \in 1 .. m |-> RouteRule(UsableRules(r)[i].value, "route", Tag(UsableRules(r)[i].action))]
  BY DEF CustomRouteRules
<1>4. IsList(o) /\ Len(o) = 2 * n
  <2>1. DOMAIN o = 1 .. 2 * n /\ o = [i \in DOMAIN o |-> o[i]]
    BY <1>2
  <2>2. 2 * n \in Nat
    BY <1>1
  <2> HIDE DEF o, n
  <2> QED BY <2>1, <2>2, ListIs
<1>5. IsList(d) /\ Len(d) = m
  <2>1. DOMAIN d = 1 .. m /\ d = [i \in DOMAIN d |-> d[i]]
    BY <1>3
  <2> HIDE DEF d, m
  <2> QED BY <1>1, <2>1, ListIs
<1>6. ASSUME NEW i \in 1 .. n
      PROVE  /\ o[2 * i - 1] = RouteRule(EnabledOverrides(r)[i].suffix, "resolve", <<"dns-override", i>>)
             /\ o[2 * i] = RouteRule(EnabledOverrides(r)[i].suffix, "route", Tag("direct"))
  <2>1. /\ 2 * i - 1 \in 1 .. 2 * n /\ 2 * i \in 1 .. 2 * n
        /\ ((2 * i - 1) + 1) \div 2 = i /\ (2 * i - 1) % 2 = 1
        /\ (2 * i + 1) \div 2 = i /\ (2 * i) % 2 # 1
    BY <1>1
  <2>2. At(2 * i - 1) = RouteRule(EnabledOverrides(r)[i].suffix, "resolve", <<"dns-override", i>>)
    BY <2>1
  <2>3. At(2 * i) = RouteRule(EnabledOverrides(r)[i].suffix, "route", Tag("direct"))
    BY <2>1
  <2> HIDE DEF At
  <2> QED BY <1>2, <2>1, <2>2, <2>3
<1>7. ASSUME NEW k \in 1 .. Len(o) PROVE \E i \in 1 .. n : k = 2 * i - 1 \/ k = 2 * i
  <2>1. (k + 1) \div 2 \in 1 .. n /\ (k = 2 * ((k + 1) \div 2) - 1 \/ k = 2 * ((k + 1) \div 2))
    BY <1>1, <1>4
  <2> QED BY <2>1
<1>8. \A i \in 1 .. Len(d) : d[i] =
         RouteRule(UsableRules(r)[i].value, "route", Tag(UsableRules(r)[i].action))
  BY <1>3, <1>5
<1> HIDE DEF o, d
<1>9. /\ IsList(o) /\ IsList(d) /\ Len(o) = 2 * n /\ Len(d) = m
  BY <1>4, <1>5
<1> QED BY <1>6, <1>7, <1>8, <1>9 DEF o, d

ChinaDnsRules(r) ==
    IF r.mode = "rule"
    THEN CustomDirectDnsRules(r) \o <<DnsRule("geosite-cn", Tag("dns-direct"), TRUE)>> ELSE <<>>
FakeDnsRules(r) == IF FakeIp(r) THEN <<DnsRule("address", Tag("dns-fakeip"), FALSE)>> ELSE <<>>
LocalDnsRules == <<DnsRule("ptr", Tag("dns-direct"), FALSE), DnsRule("lan", Tag("dns-direct"), FALSE)>>
ModeDnsRules(r) ==
    IF r.mode = "direct" THEN <<>> ELSE LocalDnsRules \o ChinaDnsRules(r) \o FakeDnsRules(r)

LastRouteRules == <<RouteRule("geosite-cn", "route", Tag("direct")),
                    RouteRule("geoip-cn", "route", Tag("direct"))>>
FirstRouteRules == <<RouteRule("any", "sniff", Untagged), RouteRule("private", "route", Tag("direct"))>>
ModeRouteRules(r) ==
    IF r.mode = "rule" THEN FirstRouteRules \o CustomRouteRules(r) \o LastRouteRules ELSE <<>>
HijackRules == <<RouteRule("port 53", "hijack-dns", Untagged)>>

LEMMA OneSet == ASSUME NEW x PROVE ToSet(<<x>>) = {x}
BY DEF ToSet

LEMMA NoneSet == ToSet(<<>>) = {}
BY DEF ToSet

LEMMA DnsListsAre ==
    ASSUME NEW r, ConnectionRequest(r)
    PROVE  /\ IsList(LocalDnsRules) /\ IsList(ChinaDnsRules(r)) /\ IsList(FakeDnsRules(r))
           /\ IsList(LocalDnsRules \o ChinaDnsRules(r))
           /\ IsList(ModeDnsRules(r)) /\ IsList(OverrideDnsRules(r))
           /\ DnsRules(r) = OverrideDnsRules(r) \o ModeDnsRules(r)
<1>1. IsList(LocalDnsRules)
  BY TwoAre, OneIs, BothAre DEF LocalDnsRules
<1>2. IsList(ChinaDnsRules(r)) /\ IsList(OverrideDnsRules(r))
  <2> DEFINE d == CustomDirectDnsRules(r)
             one == <<DnsRule("geosite-cn", Tag("dns-direct"), TRUE)>>
  <2>1. IsList(d) /\ IsList(OverrideDnsRules(r)) /\ IsList(one) /\ IsList(<<>>)
    BY DnsPartsAre, OneIs, NoneIs
  <2>2. ChinaDnsRules(r) = IF r.mode = "rule" THEN d \o one ELSE <<>>
    BY DEF ChinaDnsRules
  <2> HIDE DEF d, one
  <2>3. IsList(d \o one)
    BY <2>1, BothAre
  <2> QED BY <2>1, <2>2, <2>3
<1>3. IsList(FakeDnsRules(r))
  BY OneIs, NoneIs DEF FakeDnsRules
<1>4. IsList(LocalDnsRules \o ChinaDnsRules(r))
  BY <1>1, <1>2, BothAre
<1>5. IsList(LocalDnsRules \o ChinaDnsRules(r) \o FakeDnsRules(r))
  BY <1>3, <1>4, BothAre
<1>6. IsList(ModeDnsRules(r))
  BY <1>5, NoneIs DEF ModeDnsRules
<1>7. DnsRules(r) = OverrideDnsRules(r) \o ModeDnsRules(r)
  BY DEF DnsRules, ModeDnsRules, LocalDnsRules, ChinaDnsRules, FakeDnsRules
<1> QED BY <1>1, <1>2, <1>3, <1>4, <1>6, <1>7

LEMMA RouteListsAre ==
    ASSUME NEW r, ConnectionRequest(r)
    PROVE  /\ IsList(HijackRules) /\ IsList(OverrideRouteRules(r)) /\ IsList(ModeRouteRules(r))
           /\ IsList(FirstRouteRules) /\ IsList(CustomRouteRules(r)) /\ IsList(LastRouteRules)
           /\ IsList(FirstRouteRules \o CustomRouteRules(r)) /\ IsList(HijackRules \o OverrideRouteRules(r))
           /\ RouteRules(r) = HijackRules \o OverrideRouteRules(r) \o ModeRouteRules(r)
<1>1. IsList(HijackRules)
  BY OneIs DEF HijackRules
<1>2. IsList(FirstRouteRules)
  BY TwoAre, OneIs, BothAre DEF FirstRouteRules
<1>3. IsList(LastRouteRules)
  BY TwoAre, OneIs, BothAre DEF LastRouteRules
<1>4. IsList(OverrideRouteRules(r)) /\ IsList(CustomRouteRules(r))
  BY RoutePartsAre
<1>5. IsList(FirstRouteRules \o CustomRouteRules(r))
  BY <1>2, <1>4, BothAre
<1>6. IsList(FirstRouteRules \o CustomRouteRules(r) \o LastRouteRules)
  BY <1>3, <1>5, BothAre
<1>7. IsList(ModeRouteRules(r))
  BY <1>6, NoneIs DEF ModeRouteRules
<1>8. IsList(HijackRules \o OverrideRouteRules(r))
  BY <1>1, <1>4, BothAre
<1>9. RouteRules(r) = HijackRules \o OverrideRouteRules(r) \o ModeRouteRules(r)
  BY DEF RouteRules, HijackRules, ModeRouteRules, FirstRouteRules, LastRouteRules
<1> QED BY <1>1, <1>2, <1>3, <1>4, <1>5, <1>7, <1>8, <1>9

\* Every DNS rule names a server there is.
LEMMA DnsRulesAnswer ==
    ASSUME NEW r, ConnectionRequest(r)
    PROVE  \A x \in ToSet(DnsRules(r)) : x.server \in ServerNames(r)
<1> DEFINE Good(s) == \A x \in ToSet(s) : x.server \in ServerNames(r)
<1>0. ASSUME NEW s, NEW t, IsList(s), IsList(t), Good(s), Good(t) PROVE Good(s \o t)
  BY <1>0, BothAre
<1>1. Good(OverrideDnsRules(r))
  <2> DEFINE o == OverrideDnsRules(r)
             n == Len(EnabledOverrides(r))
  <2>1. DOMAIN o = 1 .. n /\ \A i \in 1 .. n : o[i].server = <<"dns-override", i>>
    BY DEF OverrideDnsRules, DnsRule
  <2>2. \A i \in 1 .. n : <<"dns-override", i>> \in ServerNames(r)
    BY NamesAre DEF OverrideTags
  <2> HIDE DEF o, n
  <2> QED BY <2>1, <2>2 DEF ToSet, o
<1>2. Good(CustomDirectDnsRules(r))
  <2> DEFINE d == CustomDirectDnsRules(r)
  <2>a. IsList(d) /\ \A i \in 1 .. Len(d) : d[i] = DnsRule(DirectRules(r)[i].value, Tag("dns-direct"), TRUE)
    BY DnsPartsAre
  <2> HIDE DEF d
  <2>b. \A fact, server : DnsRule(fact, server, TRUE).server = server
    BY DEF DnsRule
  <2>1. IsList(d) /\ \A i \in 1 .. Len(d) : d[i].server = Tag("dns-direct")
    <3>1. ASSUME NEW i \in 1 .. Len(d) PROVE d[i].server = Tag("dns-direct")
      <4>1. d[i] = DnsRule(DirectRules(r)[i].value, Tag("dns-direct"), TRUE)
        BY <2>a
      <4> QED BY <2>b, <4>1
    <3> QED BY <2>a, <3>1
  <2>2. \A x \in ToSet(d) : x.server = Tag("dns-direct")
    BY <2>1, ListHas DEF ToSet
  <2> QED BY <2>2, NamesAre DEF d
<1>3. /\ Good(<<DnsRule("geosite-cn", Tag("dns-direct"), TRUE)>>)
      /\ Good(<<DnsRule("ptr", Tag("dns-direct"), FALSE)>>)
      /\ Good(<<DnsRule("lan", Tag("dns-direct"), FALSE)>>)
  BY OneSet, NamesAre DEF DnsRule
<1>4. Good(<<>>)
  BY NoneSet
<1>5. Good(FakeDnsRules(r))
  <2>1. ASSUME FakeIp(r) PROVE Good(<<DnsRule("address", Tag("dns-fakeip"), FALSE)>>)
    BY <2>1, OneSet, NamesAre DEF DnsRule
  <2> QED BY <1>4, <2>1 DEF FakeDnsRules
<1> HIDE DEF Good
<1>6. Good(LocalDnsRules)
  BY <1>0, <1>3, TwoAre, OneIs DEF LocalDnsRules
<1>7. Good(ChinaDnsRules(r))
  BY <1>0, <1>2, <1>3, <1>4, OneIs, DnsPartsAre DEF ChinaDnsRules
<1>8. Good(LocalDnsRules \o ChinaDnsRules(r))
  BY <1>0, <1>6, <1>7, DnsListsAre
<1>9. Good(LocalDnsRules \o ChinaDnsRules(r) \o FakeDnsRules(r))
  BY <1>0, <1>5, <1>8, DnsListsAre
<1>10. Good(ModeDnsRules(r))
  BY <1>4, <1>9 DEF ModeDnsRules
<1>11. Good(DnsRules(r))
  BY <1>0, <1>1, <1>10, DnsListsAre
<1> QED BY <1>11 DEF Good

\* A route rule leads to an outbound, and one that resolves to a server.
Exits(r) == TagsOf(BuildConfig(r, TRUE).outbounds)
Leads(r, x) == x.to \in CASE x.action = "resolve" -> ServerNames(r) [] x.action = "route" -> Exits(r)
                           [] OTHER -> {Untagged}

LEMMA ExitsAre ==
    ASSUME NEW r
    PROVE  {Tag("proxy"), Tag("direct"), Tag("block")} \cup NodeTagSet(r) \subseteq Exits(r)
<1> DEFINE outs == BuildConfig(r, TRUE).outbounds
<1>1. /\ \A i \in 1 .. Len(r.nodes) : NodeOut(r, i) \in outs
      /\ SelectorOut(r, Default(r)) \in outs /\ PlainOut("direct") \in outs /\ PlainOut("block") \in outs
  BY OutboundsAre
<1>2. \A o \in outs : o.tag \in Exits(r)
  BY DEF Exits, TagsOf
<1> HIDE DEF outs
<1>3. /\ \A i \in 1 .. Len(r.nodes) : NodeOut(r, i).tag = r.nodes[i].tag
      /\ SelectorOut(r, Default(r)).tag = Tag("proxy")
      /\ PlainOut("direct").tag = Tag("direct") /\ PlainOut("block").tag = Tag("block")
  BY DEF NodeOut, SelectorOut, PlainOut
<1> QED BY <1>1, <1>2, <1>3 DEF NodeTagSet

LEMMA RouteRulesLead ==
    ASSUME NEW r, ConnectionRequest(r)
    PROVE  \A x \in ToSet(RouteRules(r)) : Leads(r, x)
<1> DEFINE Good(s) == \A x \in ToSet(s) : Leads(r, x)
<1>0. ASSUME NEW s, NEW t, IsList(s), IsList(t), Good(s), Good(t) PROVE Good(s \o t)
  BY <1>0, BothAre
<1>a. ASSUME NEW fact, NEW to, to \in Exits(r) PROVE Leads(r, RouteRule(fact, "route", to))
  BY <1>a DEF Leads, RouteRule
<1>b. ASSUME NEW fact, NEW to, to \in ServerNames(r) PROVE Leads(r, RouteRule(fact, "resolve", to))
  BY <1>b DEF Leads, RouteRule
<1>c. /\ Leads(r, RouteRule("port 53", "hijack-dns", Untagged))
      /\ Leads(r, RouteRule("any", "sniff", Untagged))
  BY DEF Leads, RouteRule
<1>d. Tag("direct") \in Exits(r) /\ \A w \in {"proxy", "direct", "block"} : Tag(w) \in Exits(r)
  BY ExitsAre
<1>1. Good(OverrideRouteRules(r))
  <2> DEFINE o == OverrideRouteRules(r)
             n == Len(EnabledOverrides(r))
  <2> SUFFICES ASSUME NEW x \in ToSet(o) PROVE Leads(r, x)
    OBVIOUS
  <2>1. IsList(o)
    BY RoutePartsAre
  <2>2. PICK k \in 1 .. Len(o) : x = o[k]
    BY <2>1, ListHas DEF ToSet
  <2>3. PICK i \in 1 .. n : k = 2 * i - 1 \/ k = 2 * i
    BY RoutePartsAre
  <2>4. /\ o[2 * i - 1] = RouteRule(EnabledOverrides(r)[i].suffix, "resolve", <<"dns-override", i>>)
        /\ o[2 * i] = RouteRule(EnabledOverrides(r)[i].suffix, "route", Tag("direct"))
    BY RoutePartsAre
  <2>5. <<"dns-override", i>> \in ServerNames(r)
    BY NamesAre DEF OverrideTags
  <2> QED BY <1>a, <1>b, <1>d, <2>2, <2>3, <2>4, <2>5
<1>2. Good(CustomRouteRules(r))
  <2> DEFINE d == CustomRouteRules(r)
  <2> SUFFICES ASSUME NEW x \in ToSet(d) PROVE Leads(r, x)
    OBVIOUS
  <2>1. IsList(d)
    BY RoutePartsAre
  <2>2. PICK i \in 1 .. Len(d) : x = d[i]
    BY <2>1, ListHas DEF ToSet
  <2>3. /\ x = RouteRule(UsableRules(r)[i].value, "route", Tag(UsableRules(r)[i].action))
        /\ i \in 1 .. Len(UsableRules(r))
    BY <2>2, RoutePartsAre
  <2>4. UsableRules(r)[i].action \in {"proxy", "direct", "block"}
    BY <2>3, KeptLists DEF ConnectionRequest
  <2> QED BY <1>a, <1>d, <2>3, <2>4
<1>3. /\ Good(HijackRules) /\ Good(<<RouteRule("any", "sniff", Untagged)>>)
      /\ Good(<<RouteRule("private", "route", Tag("direct"))>>)
      /\ Good(<<RouteRule("geosite-cn", "route", Tag("direct"))>>)
      /\ Good(<<RouteRule("geoip-cn", "route", Tag("direct"))>>)
  <2>1. ASSUME NEW x, Leads(r, x) PROVE Good(<<x>>)
    BY <2>1, OneSet
  <2>2. /\ Leads(r, RouteRule("private", "route", Tag("direct")))
        /\ Leads(r, RouteRule("geosite-cn", "route", Tag("direct")))
        /\ Leads(r, RouteRule("geoip-cn", "route", Tag("direct")))
    BY <1>a, <1>d
  <2> HIDE DEF Good
  <2> QED BY <1>c, <2>1, <2>2 DEF HijackRules
<1>4. Good(<<>>)
  BY NoneSet
<1> HIDE DEF Good
<1>5. Good(FirstRouteRules)
  BY <1>0, <1>3, TwoAre, OneIs DEF FirstRouteRules
<1>6. Good(LastRouteRules)
  BY <1>0, <1>3, TwoAre, OneIs DEF LastRouteRules
<1>7. Good(FirstRouteRules \o CustomRouteRules(r))
  BY <1>0, <1>2, <1>5, RouteListsAre
<1>8. Good(FirstRouteRules \o CustomRouteRules(r) \o LastRouteRules)
  BY <1>0, <1>6, <1>7, RouteListsAre
<1>9. Good(ModeRouteRules(r))
  BY <1>4, <1>8 DEF ModeRouteRules
<1>10. Good(HijackRules \o OverrideRouteRules(r))
  BY <1>0, <1>1, <1>3, RouteListsAre
<1>11. Good(RouteRules(r))
  BY <1>0, <1>9, <1>10, RouteListsAre
<1> QED BY <1>11 DEF Good

-----------------------------------------------------------------------------
(* Whatever is asked for, with any number of nodes, rules, overrides, name
   servers and selections: every tag the configuration uses is defined once,
   and nothing has to be resolved through itself (singbox_config.rs:187).   *)
THEOREM ConfigCloses ==
    ASSUME NEW r, ConnectionRequest(r)
    PROVE  ConfigIsClosed(r)
<1> DEFINE c == BuildConfig(r, TRUE)
<1>1. /\ c.servers = DnsServers(r) /\ c.resolver = DefaultDomainResolver(r)
      /\ c.dnsFinal = DnsFinal(r) /\ c.final = RouteFinal(r)
      /\ c.dnsRules = DnsRules(r) /\ c.routeRules = RouteRules(r)
  BY DEF BuildConfig
<1>2. TagsOf(c.servers) = ServerNames(r) /\ TagsOf(c.outbounds) = Exits(r)
  BY <1>1 DEF ServerNames, Exits
<1> HIDE DEF c
<1>3. /\ \A s, t \in c.servers : s.tag = t.tag => s = t
      /\ \A o, p \in c.outbounds : o.tag = p.tag => o = p
  <2>1. \A s, t \in DnsServers(r) : s.tag = t.tag => s = t
    BY DefinedOnce
  <2>2. \A o, p \in BuildConfig(r, TRUE).outbounds : o.tag = p.tag => o = p
    BY DefinedOnce
  <2> QED BY <1>1, <2>1, <2>2, Zenon DEF c
<1>4. {c.resolver, c.dnsFinal} \subseteq ServerNames(r) /\ c.final \in Exits(r)
  <2>1. c.resolver \in ServerNames(r)
    BY <1>1, NamesAre DEF DefaultDomainResolver
  <2>2. c.dnsFinal \in ServerNames(r)
    BY <1>1, NamesAre DEF DnsFinal
  <2>3. c.final \in Exits(r)
    BY <1>1, ExitsAre DEF RouteFinal
  <2> QED BY <2>1, <2>2, <2>3
<1>5. \A tag : IfTagged(tag) \subseteq {tag} /\ IfTagged(Untagged) = {}
  BY DEF IfTagged
<1>6. ASSUME NEW s \in c.servers
      PROVE  IfTagged(s.resolver) \subseteq ServerNames(r) /\ IfTagged(s.detour) \subseteq Exits(r)
  <2>1. CASE s \in PlainServers
    <3>1. s.resolver = Untagged /\ s.detour = Untagged
      BY <2>1 DEF PlainServers, Server
    <3> QED BY <1>5, <3>1
  <2>2. CASE \E i \in 1 .. Len(EnabledOverrides(r)) : s = OverrideServer(r, i)
    <3>1. s.resolver \in {Untagged, Tag("dns-direct")} /\ s.detour = Untagged
      BY <2>2 DEF OverrideServer, Server
    <3> QED BY <1>5, <3>1, NamesAre
  <2>3. CASE s = SubscriptionServer(r)
    <3>1. s.resolver \in {Untagged, Tag("dns-bootstrap")} /\ s.detour = Untagged
      BY <2>3 DEF SubscriptionServer, Server
    <3>2. r.mode # "direct"
      BY <1>1, <2>3, ServersAre
    <3> QED BY <1>5, <3>1, <3>2, NamesAre
  <2>4. CASE s = ProxyServer
    <3>1. s.resolver = Untagged /\ s.detour = Tag("proxy")
      BY <2>4 DEF ProxyServer, Server
    <3> QED BY <1>5, <3>1, ExitsAre
  <2> QED BY <1>1, <2>1, <2>2, <2>3, <2>4, ServersAre
<1>7. ASSUME NEW o \in c.outbounds
      PROVE  /\ IfTagged(o.resolver) \subseteq ServerNames(r) /\ ToSet(o.members) \subseteq Exits(r)
             /\ o.members # <<>> => o.default \in ToSet(o.members)
  <2>1. CASE \E i \in 1 .. Len(r.nodes) : o = NodeOut(r, i)
    <3>1. PICK i \in 1 .. Len(r.nodes) : o = NodeOut(r, i)
      BY <2>1
    <3>2. o.members = <<>> /\ o.resolver = ResolverForServer(r, r.nodes[i])
      BY <3>1 DEF NodeOut
    <3>3. o.resolver \in {Untagged} \cup OverrideTags(r)
      BY <3>2, ResolversAre
    <3> QED BY <1>5, <3>2, <3>3, NamesAre, NoneSet
  <2>2. CASE o = SelectorOut(r, Default(r))
    <3>1. o.members = NodeTags(r) /\ o.resolver = Untagged /\ o.default = Default(r)
      BY <2>2 DEF SelectorOut
    <3> QED BY <1>5, <3>1, NodesAre, ExitsAre
  <2>3. CASE o = PlainOut("direct") \/ o = PlainOut("block")
    <3>1. o.members = <<>> /\ o.resolver = Untagged
      BY <2>3 DEF PlainOut
    <3> QED BY <1>5, <3>1, NoneSet
  <2> QED BY <2>1, <2>2, <2>3, OutboundsAre DEF c
<1>8. /\ \A x \in ToSet(c.dnsRules) : x.server \in ServerNames(r)
      /\ \A x \in ToSet(c.routeRules) : Leads(r, x)
  BY <1>1, DnsRulesAnswer, RouteRulesLead
<1>9. NothingNeedsItself(c)
  BY NoCircle DEF c
<1>10. /\ \A s \in c.servers :
             IfTagged(s.resolver) \subseteq ServerNames(r) /\ IfTagged(s.detour) \subseteq Exits(r)
       /\ \A o \in c.outbounds :
             /\ IfTagged(o.resolver) \subseteq ServerNames(r) /\ ToSet(o.members) \subseteq Exits(r)
             /\ o.members # <<>> => o.default \in ToSet(o.members)
  BY <1>6, <1>7
<1>11. \A x \in ToSet(c.routeRules) :
          x.to \in CASE x.action = "resolve" -> ServerNames(r) [] x.action = "route" -> Exits(r)
                      [] OTHER -> {Untagged}
  BY <1>8 DEF Leads
<1>12. ConfigIsClosed(r) <=>
        /\ \A s, t \in c.servers : s.tag = t.tag => s = t
        /\ \A o, p \in c.outbounds : o.tag = p.tag => o = p
        /\ {c.resolver, c.dnsFinal} \subseteq ServerNames(r) /\ c.final \in Exits(r)
        /\ \A s \in c.servers :
              IfTagged(s.resolver) \subseteq ServerNames(r) /\ IfTagged(s.detour) \subseteq Exits(r)
        /\ \A o \in c.outbounds :
              /\ IfTagged(o.resolver) \subseteq ServerNames(r) /\ ToSet(o.members) \subseteq Exits(r)
              /\ o.members # <<>> => o.default \in ToSet(o.members)
        /\ \A x \in ToSet(c.dnsRules) : x.server \in ServerNames(r)
        /\ \A x \in ToSet(c.routeRules) :
              x.to \in CASE x.action = "resolve" -> ServerNames(r) [] x.action = "route" -> Exits(r)
                          [] OTHER -> {Untagged}
        /\ NothingNeedsItself(c)
  BY <1>2, Zenon DEF ConfigIsClosed, c
<1> QED BY ONLY <1>3, <1>4, <1>8, <1>9, <1>10, <1>11, <1>12

-----------------------------------------------------------------------------
(* Which rule a connection meets.                                           *)
LEMMA RouteRuleFields ==
    ASSUME NEW fact, NEW action, NEW to
    PROVE  /\ RouteRule(fact, action, to).fact = fact /\ RouteRule(fact, action, to).action = action
           /\ RouteRule(fact, action, to).to = to
BY DEF RouteRule

LEMMA DnsRuleFields ==
    ASSUME NEW fact, NEW server
    PROVE  /\ DnsRule(fact, server, TRUE).fact = fact /\ DnsRule(fact, server, FALSE).fact = fact
           /\ DnsRule(fact, server, TRUE).server = server /\ DnsRule(fact, server, TRUE).v4only = TRUE
           /\ DnsRule(fact, server, FALSE).server = server
BY DEF DnsRule

LEMMA NothingFits ==
    ASSUME NEW s, NEW facts, NEW e, IsList(s)
    PROVE  /\ (\A i \in 1 .. Len(s) : s[i].fact \notin facts) =>
                 AnswerIn(s, facts, e) = e /\ DecideIn(s, facts, e) = e
           /\ (\E i \in 1 .. Len(s) : s[i].fact \in facts) =>
                 \E k \in 1 .. Len(s) : AnswerIn(s, facts, e) = s[k] /\ s[k].fact \in facts
<1> DEFINE P == Hits(s, facts)
           Q == Deciders(s, facts)
<1>1. /\ P \in SUBSET (1 .. Len(s)) /\ Q \in SUBSET (1 .. Len(s)) /\ Q \subseteq P
      /\ \A i \in 1 .. Len(s) : i \in P <=> s[i].fact \in facts
  BY DEF Hits, Deciders
<1>2. /\ AnswerIn(s, facts, e) = AtFirst(s, P, e) /\ DecideIn(s, facts, e) = AtFirst(s, Q, e)
  BY DEF AnswerIn, DecideIn
<1> HIDE DEF P, Q
<1>3. /\ P = {} => AtFirst(s, P, e) = e
      /\ P # {} => \E k \in P : AtFirst(s, P, e) = s[k]
  BY <1>1, AtFirstIs
<1>4. AtFirst(s, {}, e) = e
  BY DEF AtFirst
<1>5. ASSUME \A i \in 1 .. Len(s) : s[i].fact \notin facts PROVE P = {} /\ Q = {}
  BY <1>1, <1>5
<1>6. ASSUME \E i \in 1 .. Len(s) : s[i].fact \in facts PROVE P # {}
  BY <1>1, <1>6
<1> QED BY <1>1, <1>2, <1>3, <1>4, <1>5, <1>6

LEMMA OverriddenIs ==
    ASSUME NEW r, ConnectionRequest(r), NEW facts
    PROVE  Overridden(r, facts) <=>
              \E i \in 1 .. Len(EnabledOverrides(r)) : EnabledOverrides(r)[i].suffix \in facts
BY KeptLists DEF Overridden

\* An overridden connection leaves directly, whatever comes behind.
LEMMA OverridesDecide ==
    ASSUME NEW r, ConnectionRequest(r), NEW facts, NEW e
    PROVE  /\ Overridden(r, facts) => DecideIn(OverrideRouteRules(r), facts, e).to = Tag("direct")
           /\ ~ Overridden(r, facts) => DecideIn(OverrideRouteRules(r), facts, e) = e
<1> DEFINE s == OverrideRouteRules(r)
           n == Len(EnabledOverrides(r))
           Q == Deciders(s, facts)
           Suffix(i) == EnabledOverrides(r)[i].suffix
<1>0. n \in Nat
  BY KeptLists, ListHas
<1>1. /\ IsList(s) /\ Len(s) = 2 * n
      /\ \A k \in 1 .. Len(s) : \E i \in 1 .. n : k = 2 * i - 1 \/ k = 2 * i
  BY RoutePartsAre
<1>2. \A i \in 1 .. n :
         /\ s[2 * i - 1] = RouteRule(Suffix(i), "resolve", <<"dns-override", i>>)
         /\ s[2 * i] = RouteRule(Suffix(i), "route", Tag("direct"))
  BY RoutePartsAre
<1> HIDE DEF s
<1>3. \A i \in 1 .. n :
         /\ s[2 * i - 1].fact = Suffix(i) /\ s[2 * i - 1].action = "resolve"
         /\ s[2 * i].fact = Suffix(i) /\ s[2 * i].action = "route"
         /\ s[2 * i].to = Tag("direct")
  <2> SUFFICES ASSUME NEW i \in 1 .. n
               PROVE  /\ s[2 * i - 1].fact = Suffix(i) /\ s[2 * i - 1].action = "resolve"
                      /\ s[2 * i].fact = Suffix(i) /\ s[2 * i].action = "route"
                      /\ s[2 * i].to = Tag("direct")
    OBVIOUS
  <2> DEFINE x == s[2 * i - 1]
             y == s[2 * i]
  <2>1. /\ x = RouteRule(Suffix(i), "resolve", <<"dns-override", i>>)
        /\ y = RouteRule(Suffix(i), "route", Tag("direct"))
    BY <1>2
  <2> HIDE DEF x, y, Suffix, n
  <2>2. x.fact = Suffix(i) /\ x.action = "resolve"
    BY <2>1 DEF RouteRule
  <2>3. y.fact = Suffix(i) /\ y.action = "route" /\ y.to = Tag("direct")
    BY <2>1 DEF RouteRule
  <2> QED BY <2>2, <2>3 DEF x, y
<1>4. Overridden(r, facts) <=> \E i \in 1 .. n : Suffix(i) \in facts
  BY OverriddenIs
<1> HIDE DEF Suffix, n
<1>5. ASSUME Overridden(r, facts) PROVE DecideIn(s, facts, e).to = Tag("direct")
  <2>1. PICK i \in 1 .. n : Suffix(i) \in facts
    BY <1>4, <1>5
  <2>2. 2 * i \in 1 .. Len(s)
    BY <1>0, <1>1
  <2>3. 2 * i \in Q
    BY <1>3, <2>1, <2>2 DEF Deciders
  <2>4. \A k \in Q : s[k].to = Tag("direct")
    <3> SUFFICES ASSUME NEW k \in Q PROVE s[k].to = Tag("direct")
      OBVIOUS
    <3>1. k \in 1 .. Len(s) /\ s[k].action \in {"route", "hijack-dns"}
      BY DEF Deciders
    <3>2. PICK j \in 1 .. n : k = 2 * j - 1 \/ k = 2 * j
      BY <1>1, <3>1
    <3> QED BY <1>3, <3>1, <3>2
  <2>5. Q \in SUBSET (1 .. Len(s)) /\ DecideIn(s, facts, e) = AtFirst(s, Q, e)
    BY DEF Deciders, DecideIn
  <2> HIDE DEF Q
  <2>6. \E k \in Q : AtFirst(s, Q, e) = s[k]
    BY <1>1, <2>3, <2>5, AtFirstIs
  <2> QED BY <2>4, <2>5, <2>6
<1>6. ASSUME ~ Overridden(r, facts) PROVE DecideIn(s, facts, e) = e
  <2>1. \A k \in 1 .. Len(s) : s[k].fact \notin facts
    BY <1>1, <1>3, <1>4, <1>6
  <2> QED BY <1>1, <2>1, NothingFits
<1> QED BY <1>5, <1>6 DEF s

\* Of the user's rules the first that is on, valid and fits decides.
LEMMA FirstMatchDecides ==
    ASSUME NEW r, ConnectionRequest(r), NEW facts, NEW e
    PROVE  /\ Matching(r, facts) = {} => DecideIn(CustomRouteRules(r), facts, e) = e
           /\ Matching(r, facts) # {} =>
                 /\ Min(Matching(r, facts)) \in Matching(r, facts)
                 /\ DecideIn(CustomRouteRules(r), facts, e).to =
                       Tag(r.rules[Min(Matching(r, facts))].action)
<1> DEFINE t == r.rules
           P == {i \in DOMAIN t : Usable(t[i])}
           M == Matching(r, facts)
           s == CustomRouteRules(r)
           Q == Deciders(s, facts)
<1>0. IsList(t)
  BY DEF ConnectionRequest
<1>1. Len(t) \in Nat /\ DOMAIN t = 1 .. Len(t)
  BY <1>0, ListHas
<1>2. P \in SUBSET (1 .. Len(t)) /\ P \in SUBSET DOMAIN t
  BY <1>1
<1>3. M = {i \in P : t[i].value \in facts}
  BY DEF Matching, Usable
<1>4. UsableRules(r) = Retain(t, P)
  BY DEF UsableRules
<1>5. /\ IsList(s) /\ Len(s) = Len(UsableRules(r))
      /\ \A i \in 1 .. Len(s) : s[i] =
            RouteRule(UsableRules(r)[i].value, "route", Tag(UsableRules(r)[i].action))
  BY RoutePartsAre
<1> HIDE DEF s, P, t
<1>6. /\ Len(Retain(t, P)) = Cardinality(P) /\ Cardinality(P) \in Nat
      /\ \A i \in 1 .. Cardinality(P) : InOrder(P)[i] \in P /\ Retain(t, P)[i] = t[InOrder(P)[i]]
      /\ \A k \in P : \E i \in 1 .. Cardinality(P) : InOrder(P)[i] = k
  BY <1>0, <1>2, RetainedList
<1>7. Len(s) = Cardinality(P)
  BY <1>4, <1>5, <1>6
<1>8. \A i \in 1 .. Len(s) :
         /\ InOrder(P)[i] \in P
         /\ s[i].fact = t[InOrder(P)[i]].value /\ s[i].action = "route"
         /\ s[i].to = Tag(t[InOrder(P)[i]].action)
  <2> SUFFICES ASSUME NEW i \in 1 .. Len(s)
               PROVE  /\ InOrder(P)[i] \in P
                      /\ s[i].fact = t[InOrder(P)[i]].value /\ s[i].action = "route"
                      /\ s[i].to = Tag(t[InOrder(P)[i]].action)
    OBVIOUS
  <2>1. InOrder(P)[i] \in P /\ UsableRules(r)[i] = t[InOrder(P)[i]]
    BY <1>4, <1>6, <1>7
  <2>2. s[i] = RouteRule(UsableRules(r)[i].value, "route", Tag(UsableRules(r)[i].action))
    BY <1>5
  <2> QED BY <2>1, <2>2, RouteRuleFields
<1>9. Q \in SUBSET (1 .. Len(s)) /\ \A i \in 1 .. Len(s) : i \in Q <=> InOrder(P)[i] \in M
  BY <1>3, <1>8 DEF Deciders
<1>10. DecideIn(s, facts, e) = AtFirst(s, Q, e)
  BY DEF DecideIn
<1> HIDE DEF M, Q
<1>11. CASE M = {}
  <2>1. Q = {}
    BY <1>9, <1>11
  <2> QED BY <1>10, <1>11, <2>1 DEF AtFirst, s, M
<1>12. CASE M # {}
  <2>1. M \in SUBSET (0 .. Len(t)) /\ M \subseteq P
    BY <1>2, <1>3
  <2>2. Min(M) \in M /\ \A y \in M : Min(M) <= y
    BY <1>1, <1>12, <2>1, EndsAreThere
  <2>3. PICK i \in 1 .. Len(s) : InOrder(P)[i] = Min(M)
    BY <1>6, <1>7, <2>1, <2>2
  <2>4. i \in Q
    BY <1>9, <2>2, <2>3
  <2>5. PICK k \in Q : AtFirst(s, Q, e) = s[k] /\ \A j \in Q : k <= j
    BY <1>5, <1>9, <2>4, AtFirstIs
  <2>6. k <= i /\ k \in 1 .. Len(s) /\ InOrder(P)[k] \in M /\ Len(s) \in Nat
    BY <1>6, <1>7, <1>9, <2>4, <2>5
  <2>7. ~ (k < i)
    <3> SUFFICES ASSUME k < i PROVE FALSE
      OBVIOUS
    <3>1. InOrder(P)[k] < InOrder(P)[i]
      BY <1>1, <1>2, <1>7, <2>6, InOrderRises
    <3>2. InOrder(P)[i] <= InOrder(P)[k]
      BY <2>2, <2>3, <2>6
    <3>3. InOrder(P)[k] \in Int /\ InOrder(P)[i] \in Int
      BY <1>2, <1>8, <2>6
    <3> QED BY <3>1, <3>2, <3>3
  <2>8. k = i
    BY <2>6, <2>7
  <2>9. DecideIn(s, facts, e).to = Tag(t[Min(M)].action)
    BY <1>8, <1>10, <2>3, <2>5, <2>8
  <2> QED BY <1>12, <2>2, <2>9 DEF s, M, t
<1> QED BY <1>11, <1>12 DEF M

\* A usable direct rule that can match a question answers its name directly.
Asked(r, facts) == \E i \in DOMAIN r.rules :
    Usable(r.rules[i]) /\ Questioned(r.rules[i]) /\ r.rules[i].value \in facts

LEMMA DirectRulesAnswer ==
    ASSUME NEW r, ConnectionRequest(r), NEW facts, NEW e
    PROVE  /\ ~ Asked(r, facts) => AnswerIn(CustomDirectDnsRules(r), facts, e) = e
           /\ Asked(r, facts) =>
                 \E fact \in facts : AnswerIn(CustomDirectDnsRules(r), facts, e) =
                    DnsRule(fact, Tag("dns-direct"), TRUE)
<1> DEFINE t == r.rules
           P == {i \in DOMAIN t : Usable(t[i]) /\ Questioned(t[i])}
           s == CustomDirectDnsRules(r)
<1>0. IsList(t) /\ P \in SUBSET DOMAIN t
  BY DEF ConnectionRequest
<1>1. /\ IsList(s) /\ Len(s) = Len(DirectRules(r))
      /\ \A i \in 1 .. Len(s) : s[i] = DnsRule(DirectRules(r)[i].value, Tag("dns-direct"), TRUE)
  BY DnsPartsAre
<1>2. DirectRules(r) = Retain(t, P)
  BY DEF DirectRules
<1>3. Asked(r, facts) <=> \E i \in P : t[i].value \in facts
  BY DEF Asked
<1> HIDE DEF s, P, t
<1>4. /\ Len(Retain(t, P)) = Cardinality(P)
      /\ \A i \in 1 .. Cardinality(P) : InOrder(P)[i] \in P /\ Retain(t, P)[i] = t[InOrder(P)[i]]
      /\ \A k \in P : \E i \in 1 .. Cardinality(P) : InOrder(P)[i] = k
  BY <1>0, RetainedList
<1>5. ASSUME NEW i \in 1 .. Len(s)
      PROVE  InOrder(P)[i] \in P /\ s[i] = DnsRule(t[InOrder(P)[i]].value, Tag("dns-direct"), TRUE)
  <2>1. i \in 1 .. Cardinality(P)
    BY <1>1, <1>2, <1>4
  <2>2. InOrder(P)[i] \in P /\ DirectRules(r)[i] = t[InOrder(P)[i]]
    BY <1>2, <1>4, <2>1
  <2>3. s[i] = DnsRule(DirectRules(r)[i].value, Tag("dns-direct"), TRUE)
    BY <1>1
  <2> QED BY <2>2, <2>3
<1>6. ASSUME NEW i \in 1 .. Len(s) PROVE s[i].fact = t[InOrder(P)[i]].value
  <2>1. s[i].fact = DnsRule(t[InOrder(P)[i]].value, Tag("dns-direct"), TRUE).fact
    BY <1>5
  <2> QED BY <2>1, DnsRuleFields
<1>7. Asked(r, facts) <=> \E i \in 1 .. Len(s) : s[i].fact \in facts
  <2>1. ASSUME Asked(r, facts) PROVE \E i \in 1 .. Len(s) : s[i].fact \in facts
    BY <1>1, <1>2, <1>3, <1>4, <1>6, <2>1
  <2>2. ASSUME NEW i \in 1 .. Len(s), s[i].fact \in facts PROVE Asked(r, facts)
    BY <1>3, <1>5, <1>6, <2>2
  <2> QED BY <2>1, <2>2
<1>8. ASSUME ~ Asked(r, facts) PROVE AnswerIn(s, facts, e) = e
  BY <1>1, <1>7, <1>8, NothingFits
<1>9. ASSUME Asked(r, facts)
      PROVE  \E fact \in facts : AnswerIn(s, facts, e) = DnsRule(fact, Tag("dns-direct"), TRUE)
  <2>1. PICK k \in 1 .. Len(s) : AnswerIn(s, facts, e) = s[k] /\ s[k].fact \in facts
    BY <1>1, <1>7, <1>9, NothingFits
  <2>2. t[InOrder(P)[k]].value \in facts
    BY <1>6, <2>1
  <2>3. AnswerIn(s, facts, e) = DnsRule(t[InOrder(P)[k]].value, Tag("dns-direct"), TRUE)
    BY <1>5, <2>1
  <2> QED BY <2>2, <2>3
<1> QED BY <1>8, <1>9 DEF s

LEMMA OverridesSilent ==
    ASSUME NEW r, ConnectionRequest(r), NEW facts, NEW e, ~ Overridden(r, facts)
    PROVE  AnswerIn(OverrideDnsRules(r), facts, e) = e
<1> DEFINE s == OverrideDnsRules(r)
<1>1. /\ IsList(s) /\ Len(s) = Len(EnabledOverrides(r))
      /\ \A i \in 1 .. Len(s) : s[i] =
            DnsRule(EnabledOverrides(r)[i].suffix, <<"dns-override", i>>, FALSE)
  BY DnsPartsAre
<1> HIDE DEF s
<1>3. ASSUME NEW i \in 1 .. Len(s) PROVE s[i].fact \notin facts
  <2>1. s[i] = DnsRule(EnabledOverrides(r)[i].suffix, <<"dns-override", i>>, FALSE)
    BY <1>1
  <2>2. EnabledOverrides(r)[i].suffix \notin facts
    BY <1>1, OverriddenIs
  <2>3. s[i].fact = DnsRule(EnabledOverrides(r)[i].suffix, <<"dns-override", i>>, FALSE).fact
    BY <2>1
  <2> QED BY <2>2, <2>3, DnsRuleFields
<1>4. AnswerIn(s, facts, e) = e
  BY <1>1, <1>3, NothingFits
<1> QED BY <1>4 DEF s

\* The route of a connection that is no DNS question, and of one that is.
LEMMA RouteIs ==
    ASSUME NEW r, ConnectionRequest(r), NEW facts
    PROVE  /\ "port 53" \notin facts =>
                 RouteOf(BuildConfig(r, TRUE), facts) = Tag(PolicyRoute(r, facts))
           /\ "port 53" \in facts => RouteOf(BuildConfig(r, TRUE), facts) = Untagged
<1> DEFINE c == BuildConfig(r, TRUE)
           e == RouteRule("any", "route", RouteFinal(r))
           o == OverrideRouteRules(r)
           d == CustomRouteRules(r)
           m == ModeRouteRules(r)
           In(s, x) == DecideIn(s, facts, x)
<1>1. RouteOf(c, facts) = In(RouteRules(r), e).to
  <2>1. c.routeRules = RouteRules(r) /\ c.final = RouteFinal(r)
    BY DEF BuildConfig
  <2> DEFINE s == RouteRules(r)
             Q == Deciders(s, facts)
  <2>2. Deciding(s, facts) = IF Q # {} THEN Min(Q) ELSE 0
    BY DEF Deciding, SelectInSeq, Deciders
  <2>3. Q \in SUBSET (1 .. Len(s)) /\ Len(s) \in Nat
    <3>1. IsList(s)
      BY RouteListsAre, BothAre
    <3> QED BY <3>1, ListHas DEF Deciders
  <2>4. Q # {} => Min(Q) \in Q /\ Min(Q) # 0
    <3> HIDE DEF Q, s
    <3> SUFFICES ASSUME Q # {} PROVE Min(Q) \in Q /\ Min(Q) # 0
      OBVIOUS
    <3>1. Q \in SUBSET (0 .. Len(s))
      BY <2>3
    <3>2. Min(Q) \in Q
      BY <2>3, <3>1, EndsAreThere
    <3> QED BY <2>3, <3>2
  <2>5. e.to = RouteFinal(r)
    BY DEF RouteRule
  <2> HIDE DEF Q, s, e, c
  <2>6. RouteOf(c, facts) = IF Q # {} THEN s[Min(Q)].to ELSE RouteFinal(r)
    BY <2>1, <2>2, <2>4 DEF RouteOf, s
  <2>7. In(s, e) = IF Q # {} THEN s[Min(Q)] ELSE e
    BY DEF DecideIn, AtFirst, Q
  <2> QED BY <2>5, <2>6, <2>7 DEF s
<1>2. In(RouteRules(r), e) = In(HijackRules, In(o, In(m, e)))
  <2>1. /\ IsList(HijackRules) /\ IsList(o) /\ IsList(m) /\ IsList(HijackRules \o o)
        /\ RouteRules(r) = HijackRules \o o \o m
    BY RouteListsAre
  <2> HIDE DEF e, o, m
  <2>2. In(RouteRules(r), e) = In(HijackRules \o o, In(m, e))
    BY <2>1, DecideOfBoth
  <2>3. In(HijackRules \o o, In(m, e)) = In(HijackRules, In(o, In(m, e)))
    BY <2>1, DecideOfBoth
  <2> QED BY <2>2, <2>3
<1> DEFINE p53 == RouteRule("port 53", "hijack-dns", Untagged)
<1>3. \A x : In(HijackRules, x) = IF "port 53" \in facts THEN p53 ELSE x
  BY DecideOfOne DEF HijackRules, RouteRule
<1>4. ASSUME "port 53" \in facts PROVE RouteOf(c, facts) = Untagged
  <2>1. p53.to = Untagged
    BY DEF RouteRule
  <2> QED BY <1>1, <1>2, <1>3, <1>4, <2>1
<1>5. ASSUME "port 53" \notin facts PROVE RouteOf(c, facts) = In(o, In(m, e)).to
  BY <1>1, <1>2, <1>3, <1>5
<1>6. ASSUME Overridden(r, facts) PROVE In(o, In(m, e)).to = Tag("direct")
  BY <1>6, OverridesDecide
<1>7. ASSUME ~ Overridden(r, facts) PROVE In(o, In(m, e)) = In(m, e)
  BY <1>7, OverridesDecide
<1>8. e.to = Tag(IF r.mode = "direct" THEN "direct" ELSE "proxy")
  BY DEF RouteRule, RouteFinal
<1>9. ASSUME r.mode # "rule" PROVE In(m, e) = e
  BY <1>9, AnswerOfNone DEF ModeRouteRules
<1>10. ASSUME r.mode = "rule"
       PROVE  In(m, e).to =
                 Tag(IF "private" \in facts THEN "direct"
                     ELSE IF Matching(r, facts) # {} THEN r.rules[Min(Matching(r, facts))].action
                     ELSE IF facts \cap {"geosite-cn", "geoip-cn"} # {} THEN "direct" ELSE "proxy")
  <2> DEFINE last == In(LastRouteRules, e)
             sniff == RouteRule("any", "sniff", Untagged)
             private == RouteRule("private", "route", Tag("direct"))
             site == RouteRule("geosite-cn", "route", Tag("direct"))
             ip == RouteRule("geoip-cn", "route", Tag("direct"))
  <2>1. m = FirstRouteRules \o d \o LastRouteRules
    BY <1>10 DEF ModeRouteRules
  <2>2. In(m, e) = In(FirstRouteRules, In(d, last))
    BY <2>1, RouteListsAre, DecideOfBoth
  <2>3. ASSUME NEW x PROVE In(FirstRouteRules, x) = IF "private" \in facts THEN private ELSE x
    <3>1. FirstRouteRules = <<sniff>> \o <<private>>
      BY TwoAre DEF FirstRouteRules
    <3>2. In(FirstRouteRules, x) = In(<<sniff>>, In(<<private>>, x))
      BY <3>1, OneIs, DecideOfBoth
    <3>3. In(<<private>>, x) = IF "private" \in facts THEN private ELSE x
      BY DecideOfOne DEF RouteRule
    <3>4. \A y : In(<<sniff>>, y) = y
      BY DecideOfOne DEF RouteRule
    <3> QED BY <3>2, <3>3, <3>4
  <2>4. last = IF "geosite-cn" \in facts THEN site ELSE IF "geoip-cn" \in facts THEN ip ELSE e
    <3>1. LastRouteRules = <<site>> \o <<ip>>
      BY TwoAre DEF LastRouteRules
    <3>2. last = In(<<site>>, In(<<ip>>, e))
      BY <3>1, OneIs, DecideOfBoth
    <3>3. \A y : In(<<site>>, y) = IF "geosite-cn" \in facts THEN site ELSE y
      BY DecideOfOne DEF RouteRule
    <3>4. \A y : In(<<ip>>, y) = IF "geoip-cn" \in facts THEN ip ELSE y
      BY DecideOfOne DEF RouteRule
    <3> QED BY <3>2, <3>3, <3>4
  <2>5. private.to = Tag("direct") /\ site.to = Tag("direct") /\ ip.to = Tag("direct")
    BY DEF RouteRule
  <2>6. last.to = Tag(IF facts \cap {"geosite-cn", "geoip-cn"} # {} THEN "direct" ELSE "proxy")
    <3>1. facts \cap {"geosite-cn", "geoip-cn"} # {} <=> "geosite-cn" \in facts \/ "geoip-cn" \in facts
      OBVIOUS
    <3>2. e.to = Tag("proxy")
      BY <1>8, <1>10
    <3> HIDE DEF site, ip, e
    <3> QED BY <2>4, <2>5, <3>1, <3>2
  <2> HIDE DEF private, site, ip, last, m, d, e, In
  <2>7. In(d, last).to =
           Tag(IF Matching(r, facts) # {} THEN r.rules[Min(Matching(r, facts))].action
               ELSE IF facts \cap {"geosite-cn", "geoip-cn"} # {} THEN "direct" ELSE "proxy")
    BY <2>6, FirstMatchDecides DEF In, d
  <2> QED BY <2>2, <2>3, <2>5, <2>7
<1> HIDE DEF In, e, o, m, c
<1>11. ASSUME "port 53" \notin facts PROVE RouteOf(c, facts) = Tag(PolicyRoute(r, facts))
  <2>1. r.mode \in {"rule", "global", "direct"}
    BY DEF ConnectionRequest
  <2>2. CASE Overridden(r, facts)
    BY <1>5, <1>6, <1>11, <2>2 DEF PolicyRoute
  <2>3. CASE ~ Overridden(r, facts) /\ r.mode # "rule"
    BY <1>5, <1>7, <1>8, <1>9, <1>11, <2>1, <2>3 DEF PolicyRoute
  <2>4. CASE ~ Overridden(r, facts) /\ r.mode = "rule"
    BY <1>5, <1>7, <1>10, <1>11, <2>4 DEF PolicyRoute
  <2> QED BY <2>2, <2>3, <2>4
<1> QED BY <1>4, <1>11 DEF c

\* The server that answers a name no override is for: the direct one for what
\* a direct rule or the list of China names, else a fake address or the final.
LEMMA ServerAnswers ==
    ASSUME NEW r, ConnectionRequest(r), r.mode # "direct", NEW facts, ~ Overridden(r, facts),
           "ptr" \notin facts, "lan" \notin facts
    PROVE  LET answer == AnswerOf(BuildConfig(r, TRUE), facts)
               direct == r.mode = "rule" /\ (Asked(r, facts) \/ "geosite-cn" \in facts)
           IN  /\ direct => answer.server = Tag("dns-direct") /\ answer.v4only
               /\ ~ direct => answer.server =
                     Tag(IF r.tun /\ "address" \in facts THEN "dns-fakeip" ELSE "dns-proxy")
<1> DEFINE c == BuildConfig(r, TRUE)
           e == DnsRule("any", DnsFinal(r), FALSE)
           o == OverrideDnsRules(r)
           m == ModeDnsRules(r)
           china == ChinaDnsRules(r)
           fake == FakeDnsRules(r)
           In(s, x) == AnswerIn(s, facts, x)
           direct == r.mode = "rule" /\ (Asked(r, facts) \/ "geosite-cn" \in facts)
<1>1. AnswerOf(c, facts) = In(DnsRules(r), e)
  <2>1. c.dnsRules = DnsRules(r) /\ c.dnsFinal = DnsFinal(r)
    BY DEF BuildConfig
  <2> DEFINE s == DnsRules(r)
             Q == Hits(s, facts)
  <2>2. Answering(s, facts) = IF Q # {} THEN Min(Q) ELSE 0
    BY DEF Answering, SelectInSeq, Hits
  <2>3. Q \in SUBSET (1 .. Len(s)) /\ Len(s) \in Nat
    <3>1. IsList(s)
      <4>1. IsList(o) /\ IsList(m) /\ s = o \o m
        BY DnsListsAre
      <4> HIDE DEF s, o, m
      <4> QED BY <4>1, BothAre
    <3> QED BY <3>1, ListHas DEF Hits
  <2>4. Q # {} => Min(Q) \in Q /\ Min(Q) # 0
    <3> HIDE DEF Q, s
    <3> SUFFICES ASSUME Q # {} PROVE Min(Q) \in Q /\ Min(Q) # 0
      OBVIOUS
    <3>1. Q \in SUBSET (0 .. Len(s))
      BY <2>3
    <3>2. Min(Q) \in Q
      BY <2>3, <3>1, EndsAreThere
    <3> QED BY <2>3, <3>2
  <2> HIDE DEF Q, s, c
  <2>6. AnswerOf(c, facts) = IF Q # {} THEN s[Min(Q)] ELSE e
    BY <2>1, <2>2, <2>4 DEF AnswerOf, s
  <2>7. In(s, e) = IF Q # {} THEN s[Min(Q)] ELSE e
    BY DEF AnswerIn, AtFirst, Q
  <2> HIDE DEF e, In
  <2> QED BY <2>6, <2>7 DEF s
<1>2. In(DnsRules(r), e) = In(LocalDnsRules, In(china, In(fake, e)))
  <2>1. /\ IsList(LocalDnsRules) /\ IsList(china) /\ IsList(fake) /\ IsList(LocalDnsRules \o china)
        /\ IsList(m) /\ IsList(o) /\ DnsRules(r) = o \o m
    BY DnsListsAre
  <2>2. m = LocalDnsRules \o china \o fake
    BY DEF ModeDnsRules
  <2>3. \A x : In(o, x) = x
    BY OverridesSilent
  <2> HIDE DEF e, o, m, china, fake
  <2>4. In(DnsRules(r), e) = In(o, In(m, e))
    BY <2>1, AnswerOfBoth
  <2>5. In(m, e) = In(LocalDnsRules \o china, In(fake, e))
    BY <2>1, <2>2, AnswerOfBoth
  <2>6. In(LocalDnsRules \o china, In(fake, e)) = In(LocalDnsRules, In(china, In(fake, e)))
    BY <2>1, AnswerOfBoth
  <2> HIDE DEF In
  <2> QED BY <2>3, <2>4, <2>5, <2>6
<1>3. ASSUME NEW x PROVE In(LocalDnsRules, x) = x
  <2> DEFINE ptr == DnsRule("ptr", Tag("dns-direct"), FALSE)
             lan == DnsRule("lan", Tag("dns-direct"), FALSE)
  <2>1. LocalDnsRules = <<ptr>> \o <<lan>>
    BY TwoAre DEF LocalDnsRules
  <2>2. In(LocalDnsRules, x) = In(<<ptr>>, In(<<lan>>, x))
    BY <2>1, OneIs, AnswerOfBoth
  <2>3. ptr.fact = "ptr" /\ lan.fact = "lan"
    BY DnsRuleFields
  <2> HIDE DEF ptr, lan
  <2>4. \A y : In(<<ptr>>, y) = y /\ In(<<lan>>, y) = y
    BY <2>3, AnswerOfOne
  <2> QED BY <2>2, <2>4
<1>4. AnswerOf(c, facts) = In(china, In(fake, e))
  BY <1>1, <1>2, <1>3
<1>5. In(fake, e).server = Tag(IF r.tun /\ "address" \in facts THEN "dns-fakeip" ELSE "dns-proxy")
  <2> DEFINE f == DnsRule("address", Tag("dns-fakeip"), FALSE)
  <2>1. f.fact = "address" /\ f.server = Tag("dns-fakeip") /\ e.server = DnsFinal(r)
    BY DnsRuleFields
  <2>2. DnsFinal(r) = Tag("dns-proxy")
    BY DEF DnsFinal
  <2>3. fake = IF r.tun THEN <<f>> ELSE <<>>
    BY DEF FakeDnsRules, FakeIp
  <2> HIDE DEF f, e, fake
  <2>4. \A y : In(<<f>>, y) = IF "address" \in facts THEN f ELSE y
    BY <2>1, AnswerOfOne
  <2>5. \A y : In(<<>>, y) = y
    BY AnswerOfNone
  <2> QED BY <2>1, <2>2, <2>3, <2>4, <2>5
<1>6. ASSUME NEW x, r.mode # "rule" PROVE In(china, x) = x
  BY <1>6, AnswerOfNone DEF ChinaDnsRules
<1>7. ASSUME NEW x, r.mode = "rule"
      PROVE  /\ ~ (Asked(r, facts) \/ "geosite-cn" \in facts) => In(china, x) = x
             /\ Asked(r, facts) \/ "geosite-cn" \in facts =>
                   \E fact \in facts : In(china, x) = DnsRule(fact, Tag("dns-direct"), TRUE)
  <2> DEFINE d == CustomDirectDnsRules(r)
             site == DnsRule("geosite-cn", Tag("dns-direct"), TRUE)
  <2>1. IsList(d) /\ IsList(<<site>>) /\ china = d \o <<site>>
    BY <1>7, DnsPartsAre, OneIs DEF ChinaDnsRules
  <2>2. In(china, x) = In(d, In(<<site>>, x))
    <3> HIDE DEF d, site, china
    <3> QED BY <2>1, AnswerOfBoth
  <2>3. In(<<site>>, x) = IF "geosite-cn" \in facts THEN site ELSE x
    <3>1. site.fact = "geosite-cn"
      BY DnsRuleFields
    <3> HIDE DEF site
    <3> QED BY <3>1, AnswerOfOne
  <2>4. ASSUME NEW y
        PROVE  /\ ~ Asked(r, facts) => In(d, y) = y
               /\ Asked(r, facts) =>
                     \E fact \in facts : In(d, y) = DnsRule(fact, Tag("dns-direct"), TRUE)
    BY DirectRulesAnswer
  <2> HIDE DEF d, In, china
  <2>5. ASSUME ~ (Asked(r, facts) \/ "geosite-cn" \in facts) PROVE In(china, x) = x
    BY <2>2, <2>3, <2>4, <2>5
  <2>6. ASSUME Asked(r, facts)
        PROVE  \E fact \in facts : In(china, x) = DnsRule(fact, Tag("dns-direct"), TRUE)
    BY <2>2, <2>4, <2>6
  <2>7. ASSUME ~ Asked(r, facts), "geosite-cn" \in facts
        PROVE  In(china, x) = DnsRule("geosite-cn", Tag("dns-direct"), TRUE)
    <3>1. In(china, x) = site
      BY <2>2, <2>3, <2>4, <2>7
    <3> QED BY <3>1 DEF site
  <2> QED BY <2>5, <2>6, <2>7
<1> DEFINE tail == In(fake, e)
<1>8. ASSUME direct PROVE AnswerOf(c, facts).server = Tag("dns-direct") /\ AnswerOf(c, facts).v4only
  <2>1. PICK fact \in facts : In(china, tail) = DnsRule(fact, Tag("dns-direct"), TRUE)
    BY <1>7, <1>8
  <2>2. AnswerOf(c, facts) = DnsRule(fact, Tag("dns-direct"), TRUE)
    BY <1>4, <2>1
  <2>3. /\ AnswerOf(c, facts).server = DnsRule(fact, Tag("dns-direct"), TRUE).server
        /\ AnswerOf(c, facts).v4only = DnsRule(fact, Tag("dns-direct"), TRUE).v4only
    BY <2>2
  <2>4. /\ DnsRule(fact, Tag("dns-direct"), TRUE).server = Tag("dns-direct")
        /\ DnsRule(fact, Tag("dns-direct"), TRUE).v4only = TRUE
    BY DnsRuleFields
  <2> QED BY <2>3, <2>4
<1>9. ASSUME ~ direct PROVE AnswerOf(c, facts) = tail
  <2> HIDE DEF tail
  <2>1. In(china, tail) = tail
    BY <1>6, <1>7, <1>9
  <2> QED BY <1>4, <2>1 DEF tail
<1> HIDE DEF In, e, fake, tail
<1>10. ASSUME ~ direct
       PROVE  AnswerOf(c, facts).server =
                 Tag(IF r.tun /\ "address" \in facts THEN "dns-fakeip" ELSE "dns-proxy")
  BY <1>5, <1>9, <1>10 DEF tail
<1> QED BY <1>8, <1>10

\* What a connection and a name server may be asked of: no connection of these
\* is a DNS question, and a name is neither an address, nor one of an address
\* range, nor in the reverse zones and local domains that are always direct.
PlainNames(r, names) ==
    /\ names \cap {"ptr", "lan", "private", "geoip-cn"} = {}
    /\ \A i \in DOMAIN r.rules :
          /\ r.rules[i].match = "cidr" => r.rules[i].value \notin names
          /\ r.rules[i].value # "address"
    /\ \A i \in DOMAIN r.overrides : r.overrides[i].suffix # "address"

(* Whatever is asked for, and whatever holds of a connection: it leaves the way
   the policy tells, and the server that answers its name follows the route
   (singbox_config.rs:311, :429).                                           *)
THEOREM RoutesFollow ==
    ASSUME NEW r, ConnectionRequest(r), NEW routed, "port 53" \notin routed,
           NEW names, PlainNames(r, names)
    PROVE  RouteFollowsPolicy(r, routed, names)
<1> DEFINE c == BuildConfig(r, TRUE)
           Behind(facts) == \/ "geosite-cn" \in facts
                            \/ \E i \in Matching(r, facts) : r.rules[i].action = "direct"
<1>1. ASSUME NEW facts \in SUBSET routed
      PROVE  /\ RouteOf(c, facts) = Tag(PolicyRoute(r, facts))
             /\ RouteOf(c, facts \cup {"port 53"}) = Untagged
  <2>1. "port 53" \notin facts /\ "port 53" \in facts \cup {"port 53"}
    OBVIOUS
  <2> QED BY <2>1, RouteIs
<1>2. ASSUME r.mode # "direct", NEW facts \in SUBSET names, ~ Overridden(r, facts)
      PROVE  LET answer == AnswerOf(c, facts \cup {"address"})
                 to == PolicyRoute(r, facts)
             IN  /\ to = "direct" => answer.server = Tag("dns-direct") /\ answer.v4only
                 /\ to # "direct" /\ ~ (r.mode = "rule" /\ Behind(facts)) =>
                       answer.server = Tag(IF r.tun THEN "dns-fakeip" ELSE "dns-proxy")
  <2> DEFINE asked == facts \cup {"address"}
             answer == AnswerOf(c, asked)
             direct == r.mode = "rule" /\ (Asked(r, facts) \/ "geosite-cn" \in facts)
  <2>1. /\ \A w \in {"ptr", "lan", "private", "geoip-cn"} : w \notin facts
        /\ "ptr" \notin asked /\ "lan" \notin asked /\ "address" \in asked
        /\ "geosite-cn" \in asked <=> "geosite-cn" \in facts
    BY DEF PlainNames
  <2>2. ~ Overridden(r, asked)
    BY <1>2 DEF Overridden, PlainNames
  <2>3. Asked(r, asked) <=> Asked(r, facts)
    BY DEF Asked, PlainNames
  <2> HIDE DEF asked, c
  <2>4. /\ direct => answer.server = Tag("dns-direct") /\ answer.v4only
        /\ ~ direct => answer.server = Tag(IF r.tun THEN "dns-fakeip" ELSE "dns-proxy")
    BY <1>2, <2>1, <2>2, <2>3, ServerAnswers DEF c
  <2>5. ASSUME NEW i \in Matching(r, facts), r.rules[i].action = "direct" PROVE Asked(r, facts)
    BY <2>5 DEF Matching, Asked, Usable, Questioned, PlainNames
  <2>6. ASSUME PolicyRoute(r, facts) = "direct" PROVE direct
    <3>1. r.mode = "rule"
      BY <1>2, <2>6 DEF PolicyRoute, ConnectionRequest
    <3>2. CASE Matching(r, facts) # {}
      <4>1. Min(Matching(r, facts)) \in Matching(r, facts)
        BY <3>2, FirstMatchDecides
      <4>2. r.rules[Min(Matching(r, facts))].action = "direct"
        BY <1>2, <2>1, <2>6, <3>1, <3>2 DEF PolicyRoute
      <4> QED BY <2>5, <3>1, <4>1, <4>2
    <3>3. CASE Matching(r, facts) = {}
      <4>1. facts \cap {"geosite-cn", "geoip-cn"} # {}
        BY <1>2, <2>1, <2>6, <3>1, <3>3 DEF PolicyRoute
      <4> QED BY <2>1, <3>1, <4>1
    <3> QED BY <3>2, <3>3
  <2>7. ASSUME direct PROVE r.mode = "rule" /\ Behind(facts)
    <3>1. ASSUME Asked(r, facts) PROVE \E i \in Matching(r, facts) : r.rules[i].action = "direct"
      BY <3>1 DEF Asked, Matching, Usable, Questioned
    <3> QED BY <2>7, <3>1
  <2> HIDE DEF direct, answer, Behind
  <2> QED BY <2>4, <2>6, <2>7 DEF answer, asked
<1> QED BY <1>1, <1>2 DEF RouteFollowsPolicy

-----------------------------------------------------------------------------
(* The subscriptions of a window.                                            *)
-----------------------------------------------------------------------------
Tags == {NoTag} \cup (Nat \X RawNodes)
GroupNames == Groups \cup {"proxy"}
Picks == UNION {[D -> Tags] : D \in SUBSET GroupNames}
SubType == [id : Nat, source : {"url"}, nodes : Seq(Tags), resolvers : {"auto"}, rejected : {0}]
RequestType == [nodes : Seq(Tags), tag : Tags, selections : Picks, edits : Nat]
ShownType == [subs : Seq(SubType), active : Nat, nodes : Seq(Tags), tag : Tags,
              selections : Picks, edits : Nat]
CoreType == [connected : BOOLEAN, pending : BOOLEAN, runs : RequestType]
BegunType == [kind : {"connect", "switch", "member"}, request : RequestType, before : ShownType]
CallType == [kind : {"call"}, group : GroupNames, tag : Tags, told : BOOLEAN, before : ShownType]
RefreshType == [kind : {"none", "one", "all"}, left : Seq(Nat), applied : Nat]
BudgetType == [steps : 0 .. MaxBookSteps, restarts : 0 .. MaxRestarts]

BookTyped ==
    /\ shown \in ShownType /\ core \in CoreType /\ crossed \in BOOLEAN
    /\ restart = NoRestart \/ restart \in BegunType \/ restart \in CallType
    /\ refreshing \in RefreshType /\ bookBudget \in BudgetType

(* What hangs together in what a window shows.                              *)
TagOk(s) == s.tag = SelectAvailable(s.nodes, s.tag)
ActiveOk(s) == IF s.subs = <<>> THEN s.active = NoId ELSE s.active \in Ids(s.subs)
NodesOk(s) == s.nodes = CollectNodes(s.subs, s.active)
Distinct(subs) == \A j, k \in DOMAIN subs : subs[j].id = subs[k].id => j = k
\* No id is larger than the number of steps that could have given it.
Numbered(subs) ==
    \A j \in DOMAIN subs : subs[j].id \in 1 .. (MaxBookSteps - bookBudget.steps)
\* The tags of a subscription carry its id, so a tag tells whose node it is.
Owned(subs) ==
    \A j \in DOMAIN subs : \A tag \in Range(subs[j].nodes) :
        tag[1] = subs[j].id /\ Namespaced(tag)
OwnedNodes(s) == \A tag \in Range(s.nodes) : tag[1] = s.active /\ Namespaced(tag)
\* The selection of "proxy" is the selected node, which is listed.
ProxyOk(s) ==
    "proxy" \in DOMAIN s.selections =>
        s.selections["proxy"] = s.tag /\ s.tag \in Range(s.nodes)
SameRun(r, s) == Effective(r) = Effective(RequestOf(s))
\* No report of a refresh of everything came in.
Steady == refreshing.kind = "all" => refreshing.applied = 0

(* A restart in flight that nothing crossed: it was asked of what is shown, *)
(* and its failure puts back what the core still runs.                      *)
RestartInv ==
    /\ restart.request = RequestOf(shown)
    /\ restart.before.subs = shown.subs /\ restart.before.edits = shown.edits
    /\ restart.kind # "switch" => restart.before.active = shown.active
                                  /\ restart.before.nodes = shown.nodes
    /\ restart.kind = "connect" => restart.before = shown
    /\ TagOk(restart.before) /\ ActiveOk(restart.before) /\ ProxyOk(restart.before)
    /\ restart.kind = "switch" \/ Steady => NodesOk(restart.before)
    /\ core.connected /\ ~core.pending => SameRun(core.runs, restart.before)

(* A call in flight that nothing crossed: what is shown is what it was      *)
(* asked of, but for the selected node, and the core runs that, or its      *)
(* choice once it was told.                                                 *)
Asks == IF restart.told THEN Wanted ELSE restart.before
CallInv ==
    /\ shown.subs = restart.before.subs /\ shown.active = restart.before.active
    /\ shown.nodes = restart.before.nodes /\ shown.edits = restart.before.edits
    /\ shown.selections = restart.before.selections /\ shown.tag = Wanted.tag
    /\ restart.tag \in Range(restart.before.nodes)
    /\ TagOk(restart.before) /\ ActiveOk(restart.before) /\ ProxyOk(restart.before)
    /\ Steady => NodesOk(restart.before)
    /\ core.connected /\ ~core.pending => SameRun(core.runs, Asks)
Uncrossed ==
    /\ TagOk(shown) /\ ActiveOk(shown) /\ (Steady => NodesOk(shown))
    /\ ~Calling => ProxyOk(shown)
    /\ Restarting /\ ~Calling => RestartInv
    /\ Calling => CallInv
    /\ ~Restarting /\ core.connected /\ ~core.pending => SameRun(core.runs, shown)

BookInv ==
    /\ BookTyped
    /\ Distinct(shown.subs) /\ Numbered(shown.subs) /\ Len(shown.subs) <= MaxSubscriptions
    /\ Owned(shown.subs) /\ OwnedNodes(shown)
    /\ Restarting => OwnedNodes(restart.before)
    /\ refreshing.applied + Len(refreshing.left) <= MaxSubscriptions
    /\ refreshing.kind = "none" => refreshing = NoRefresh
    /\ ~crossed => Uncrossed

LEMMA BookBounds ==
    "proxy" \notin Groups /\ MaxBookSteps \in Nat /\ MaxRestarts \in Nat /\ MaxSubscriptions \in Nat
    /\ MaxSubscriptions # 0
BY BookAssumption, ProfileAssumption DEF BookAssumption, ProfileAssumption

LEMMA PicksAre ==
    /\ \A f \in Picks : DOMAIN f \in SUBSET GroupNames /\ f \in [DOMAIN f -> Tags]
    /\ \A D \in SUBSET GroupNames : \A f \in [D -> Tags] : f \in Picks
BY DEF Picks

LEMMA NoTagIn == NoTag \in Tags
BY DEF Tags

LEMMA NodesAreTags ==
    ASSUME NEW id \in Nat, NEW raws \in Seq(RawNodes)
    PROVE  /\ NamespaceNodes(id, raws) \in Seq(Tags)
           /\ Len(NamespaceNodes(id, raws)) = Len(raws)
<1>1. NamespaceNodes(id, raws) = [k \in 1 .. Len(raws) |-> <<id, raws[k]>>]
  BY DEF NamespaceNodes
<1>2. \A k \in 1 .. Len(raws) : <<id, raws[k]>> \in Tags
  BY DEF Tags
<1>3. Len(raws) \in Nat
  OBVIOUS
<1> QED BY <1>1, <1>2, <1>3

LEMMA NodesAreOwned ==
    ASSUME NEW id \in Nat, id # 0, NEW raws \in Seq(RawNodes)
    PROVE  \A tag \in Range(NamespaceNodes(id, raws)) : tag[1] = id /\ Namespaced(tag)
<1>1. NamespaceNodes(id, raws) = [k \in DOMAIN raws |-> <<id, raws[k]>>]
  BY DEF NamespaceNodes
<1>2. ASSUME NEW tag \in Range(NamespaceNodes(id, raws)) PROVE tag[1] = id
  <2>1. PICK k \in DOMAIN raws : tag = <<id, raws[k]>>
    BY <1>1 DEF Range
  <2> QED BY <2>1
<1> QED BY <1>2 DEF Namespaced

\* What is in flight, told apart by its kind.
LEMMA RestartIs ==
    ASSUME BookTyped
    PROVE  /\ Calling => restart \in CallType /\ Restarting
           /\ Restarting /\ ~Calling => restart \in BegunType
           /\ restart = NoRestart => ~Calling /\ ~Restarting
<1>1. NoRestart.kind = "none"
  BY DEF NoRestart
<1>2. restart \in BegunType => restart.kind # "call"
  BY DEF BegunType
<1>3. restart \in CallType => restart.kind = "call"
  BY DEF CallType
<1>4. restart = NoRestart \/ restart \in BegunType \/ restart \in CallType
  BY DEF BookTyped
<1> QED BY <1>1, <1>2, <1>3, <1>4 DEF Calling, Restarting

LEMMA AvailableIs ==
    ASSUME NEW nodes \in Seq(Tags), NEW wanted \in Tags
    PROVE  /\ SelectAvailable(nodes, wanted) \in Tags
           /\ SelectAvailable(nodes, SelectAvailable(nodes, wanted)) = SelectAvailable(nodes, wanted)
<1>1. CASE wanted \in Range(nodes)
  BY <1>1 DEF SelectAvailable
<1>2. CASE wanted \notin Range(nodes) /\ nodes = <<>>
  BY <1>2, NoTagIn DEF SelectAvailable
<1>3. CASE wanted \notin Range(nodes) /\ nodes # <<>>
  <2>1. Head(nodes) \in Tags /\ Head(nodes) = nodes[1] /\ 1 \in DOMAIN nodes
    BY <1>3
  <2>2. Head(nodes) \in Range(nodes)
    BY <2>1 DEF Range
  <2> QED BY <1>3, <2>1, <2>2 DEF SelectAvailable
<1> QED BY <1>1, <1>2, <1>3

LEMMA CollectedAre ==
    ASSUME NEW subs \in Seq(SubType), NEW id
    PROVE  /\ CollectNodes(subs, id) \in Seq(Tags)
           /\ Range(CollectNodes(subs, id)) \subseteq LiveTags(subs)
<1>1. CASE id \notin Ids(subs)
  <2>1. CollectNodes(subs, id) = <<>>
    BY <1>1 DEF CollectNodes
  <2>2. Range(<<>>) = {}
    BY DEF Range
  <2> QED BY <2>1, <2>2
<1>2. CASE id \in Ids(subs)
  <2>1. PICK k \in DOMAIN subs : CollectNodes(subs, id) = subs[k].nodes
    BY <1>2 DEF CollectNodes, Ids
  <2>2. subs[k] \in SubType
    OBVIOUS
  <2> QED BY <2>1, <2>2 DEF SubType, LiveTags
<1> QED BY <1>1, <1>2

LEMMA CollectedOwned ==
    ASSUME NEW subs, Owned(subs), NEW id
    PROVE  \A tag \in Range(CollectNodes(subs, id)) : tag[1] = id /\ Namespaced(tag)
<1>1. CASE id \notin Ids(subs)
  <2>1. CollectNodes(subs, id) = <<>>
    BY <1>1 DEF CollectNodes
  <2>2. Range(<<>>) = {}
    BY DEF Range
  <2> QED BY <2>1, <2>2
<1>2. CASE id \in Ids(subs)
  <2>1. PICK k \in DOMAIN subs : CollectNodes(subs, id) = subs[k].nodes /\ subs[k].id = id
    BY <1>2 DEF CollectNodes, Ids
  <2> QED BY <2>1 DEF Owned
<1> QED BY <1>1, <1>2

LEMMA CollectedOf ==
    ASSUME NEW subs, Distinct(subs), NEW k \in DOMAIN subs
    PROVE  CollectNodes(subs, subs[k].id) = subs[k].nodes
<1>1. subs[k].id \in Ids(subs)
  BY DEF Ids
<1>2. \A j \in DOMAIN subs : subs[j].id = subs[k].id => j = k
  BY DEF Distinct
<1> QED BY <1>1, <1>2 DEF CollectNodes

LEMMA WithActiveIs ==
    ASSUME NEW s \in ShownType, NEW id \in Nat, NEW wanted \in Tags
    PROVE  LET r == WithActive(s, id, wanted) IN
           /\ r \in ShownType /\ r.subs = s.subs /\ r.active = id
           /\ r.selections = s.selections /\ r.edits = s.edits
           /\ r.nodes = CollectNodes(s.subs, id)
           /\ r.tag = SelectAvailable(r.nodes, wanted)
           /\ NodesOk(r) /\ TagOk(r) /\ (Owned(s.subs) => OwnedNodes(r))
<1> DEFINE nodes == CollectNodes(s.subs, id)
           tag == SelectAvailable(nodes, wanted)
           r == WithActive(s, id, wanted)
<1>1. s.subs \in Seq(SubType)
  BY DEF ShownType
<1>2. nodes \in Seq(Tags)
  BY <1>1, CollectedAre
<1>3. tag \in Tags /\ SelectAvailable(nodes, tag) = tag
  BY <1>2, AvailableIs
<1>4. r = [s EXCEPT !.active = id, !.nodes = nodes, !.tag = tag]
  BY DEF WithActive
<1> HIDE DEF nodes, tag, r
<1>5. /\ r \in ShownType /\ r.subs = s.subs /\ r.active = id /\ r.nodes = nodes /\ r.tag = tag
      /\ r.selections = s.selections /\ r.edits = s.edits
  BY <1>2, <1>3, <1>4 DEF ShownType
<1>6. nodes = CollectNodes(s.subs, id) /\ tag = SelectAvailable(nodes, wanted)
  BY DEF nodes, tag
<1>7. NodesOk(r) /\ TagOk(r)
  BY <1>3, <1>5, <1>6 DEF NodesOk, TagOk
<1>8. r = WithActive(s, id, wanted)
  BY DEF r
<1>9. Owned(s.subs) => OwnedNodes(r)
  BY <1>5, <1>6, CollectedOwned DEF OwnedNodes
<1> QED BY <1>5, <1>6, <1>7, <1>8, <1>9

LEMMA SelectProxyIs ==
    ASSUME NEW f \in Picks, NEW tag \in Tags
    PROVE  /\ SelectProxy(f, tag) \in Picks
           /\ "proxy" \in DOMAIN SelectProxy(f, tag) =>
                 tag # NoTag /\ SelectProxy(f, tag)["proxy"] = tag
<1>1. DOMAIN f \in SUBSET GroupNames /\ f \in [DOMAIN f -> Tags] /\ "proxy" \in GroupNames
  BY PicksAre DEF GroupNames
<1>2. CASE tag = NoTag
  <2>1. SelectProxy(f, tag) \in [DOMAIN f \ {"proxy"} -> Tags]
    BY <1>1, <1>2 DEF SelectProxy
  <2> QED BY <1>1, <2>1, PicksAre
<1>3. CASE tag # NoTag
  <2>1. /\ SelectProxy(f, tag) \in [DOMAIN f \cup {"proxy"} -> Tags]
        /\ SelectProxy(f, tag)["proxy"] = tag
    BY <1>1, <1>3 DEF SelectProxy
  <2> QED BY <1>1, <1>3, <2>1, PicksAre
<1> QED BY <1>2, <1>3

LEMMA ProxySelected ==
    ASSUME NEW s \in ShownType, NEW f \in Picks, TagOk(s), s.selections = SelectProxy(f, s.tag)
    PROVE  ProxyOk(s)
<1>1. s.tag \in Tags /\ s.nodes \in Seq(Tags)
  BY DEF ShownType
<1>2. "proxy" \in DOMAIN s.selections => s.tag # NoTag /\ s.selections["proxy"] = s.tag
  BY <1>1, SelectProxyIs
<1>3. s.tag # NoTag => s.tag \in Range(s.nodes)
  <2>1. s.nodes # <<>> => Head(s.nodes) = s.nodes[1] /\ 1 \in DOMAIN s.nodes
    BY <1>1
  <2>2. s.nodes # <<>> => Head(s.nodes) \in Range(s.nodes)
    BY <2>1 DEF Range
  <2> QED BY <2>2 DEF TagOk, SelectAvailable
<1> QED BY <1>2, <1>3 DEF ProxyOk

LEMMA NoSelectionsIn == NoSelections \in Picks
<1>1. NoSelections \in [{} -> Tags]
  BY DEF NoSelections
<1> QED BY <1>1, PicksAre

LEMMA PruneIs ==
    ASSUME NEW f \in Picks, NEW live
    PROVE  /\ PruneStale(f, live) \in Picks
           /\ DOMAIN PruneStale(f, live) =
                 {g \in DOMAIN f : ~Namespaced(f[g]) \/ f[g] \in live}
           /\ \A g \in DOMAIN PruneStale(f, live) : PruneStale(f, live)[g] = f[g]
<1> DEFINE D == {g \in DOMAIN f : ~Namespaced(f[g]) \/ f[g] \in live}
<1>1. DOMAIN f \in SUBSET GroupNames /\ f \in [DOMAIN f -> Tags]
  BY PicksAre
<1>2. {h \in DOMAIN f : f[h] \in {tag \in Range(f) : ~Namespaced(tag) \/ tag \in live}} = D
  BY DEF Range
<1>3. PruneStale(f, live) = [g \in D |-> f[g]]
  BY <1>2 DEF PruneStale, KeepSelections
<1>4. [g \in D |-> f[g]] \in [D -> Tags] /\ D \in SUBSET GroupNames
  BY <1>1
<1>5. PruneStale(f, live) \in Picks
  BY <1>3, <1>4, PicksAre
<1> QED BY <1>3, <1>5

\* A selected node that is not listed any more is pruned: its tag names the
\* subscription it was of, whose nodes are the listed ones or gone.
LEMMA PrunedProxy ==
    ASSUME NEW s \in ShownType, OwnedNodes(s), ProxyOk(s),
           NEW subs \in Seq(SubType), Owned(subs), Distinct(subs), NEW id, NEW wanted,
           s.active \in Ids(subs) => id = s.active /\ wanted = s.tag,
           NEW t \in ShownType, t.nodes = CollectNodes(subs, id),
           t.tag = SelectAvailable(t.nodes, wanted),
           t.selections = PruneStale(s.selections, LiveTags(subs))
    PROVE  ProxyOk(t)
<1> SUFFICES ASSUME "proxy" \in DOMAIN t.selections
             PROVE  t.selections["proxy"] = t.tag /\ t.tag \in Range(t.nodes)
  BY DEF ProxyOk
<1>1. s.selections \in Picks
  BY DEF ShownType
<1> DEFINE live == LiveTags(subs)
           pruned == PruneStale(s.selections, live)
<1>8. /\ DOMAIN pruned = {g \in DOMAIN s.selections :
                            ~Namespaced(s.selections[g]) \/ s.selections[g] \in live}
      /\ \A g \in DOMAIN pruned : pruned[g] = s.selections[g]
  BY <1>1, PruneIs
<1>9. t.selections = pruned
  OBVIOUS
<1> HIDE DEF pruned
<1>10. "proxy" \in DOMAIN pruned
  BY <1>9
<1>2. /\ "proxy" \in DOMAIN s.selections /\ t.selections["proxy"] = s.selections["proxy"]
      /\ ~Namespaced(s.selections["proxy"]) \/ s.selections["proxy"] \in LiveTags(subs)
  BY <1>8, <1>9, <1>10
<1>3. s.selections["proxy"] = s.tag /\ s.tag[1] = s.active /\ Namespaced(s.tag)
  BY <1>2 DEF ProxyOk, OwnedNodes
<1>4. PICK k \in DOMAIN subs : s.tag \in Range(subs[k].nodes)
  BY <1>2, <1>3 DEF LiveTags
<1>5. subs[k].id = s.active
  BY <1>3, <1>4 DEF Owned
<1>6. id = subs[k].id /\ wanted = s.tag
  BY <1>5 DEF Ids
<1>7. t.nodes = subs[k].nodes
  BY <1>6, CollectedOf
<1> QED BY <1>2, <1>3, <1>4, <1>6, <1>7 DEF SelectAvailable

-----------------------------------------------------------------------------
(* Two requests that run the same.                                          *)
LiveGroups(r) == {g \in DOMAIN r.selections : r.selections[g] \in Range(r.nodes)}
Same(a, b) ==
    /\ a.nodes = b.nodes /\ a.tag = b.tag /\ a.edits = b.edits
    /\ LiveGroups(a) = LiveGroups(b)
    /\ \A g \in LiveGroups(a) : a.selections[g] = b.selections[g]

LEMMA EffectiveSame ==
    ASSUME NEW a \in RequestType, NEW b \in RequestType
    PROVE  Effective(a) = Effective(b) <=> Same(a, b)
<1> DEFINE ea == [g \in LiveGroups(a) |-> a.selections[g]]
           eb == [g \in LiveGroups(b) |-> b.selections[g]]
<1>1. /\ Effective(a) = [a EXCEPT !.selections = ea]
      /\ Effective(b) = [b EXCEPT !.selections = eb]
  BY DEF Effective, Restrict, ToSet, LiveGroups, Range
<1>2. ea = eb <=> LiveGroups(a) = LiveGroups(b)
                  /\ \A g \in LiveGroups(a) : a.selections[g] = b.selections[g]
  <2>1. ASSUME ea = eb PROVE LiveGroups(a) = LiveGroups(b)
                  /\ \A g \in LiveGroups(a) : a.selections[g] = b.selections[g]
    <3>1. DOMAIN ea = LiveGroups(a) /\ DOMAIN eb = LiveGroups(b)
      OBVIOUS
    <3>2. LiveGroups(a) = LiveGroups(b)
      BY <2>1, <3>1
    <3>3. \A g \in LiveGroups(a) : ea[g] = a.selections[g] /\ eb[g] = b.selections[g]
      BY <3>2
    <3> QED BY <2>1, <3>2, <3>3
  <2> QED BY <2>1
<1> HIDE DEF ea, eb
<1>3. [a EXCEPT !.selections = ea] = [b EXCEPT !.selections = eb]
         <=> a.nodes = b.nodes /\ a.tag = b.tag /\ a.edits = b.edits /\ ea = eb
  BY DEF RequestType
<1> QED BY <1>1, <1>2, <1>3 DEF Same

LEMMA RequestIs ==
    ASSUME NEW s \in ShownType
    PROVE  /\ RequestOf(s) \in RequestType
           /\ RequestOf(s).nodes = s.nodes /\ RequestOf(s).tag = s.tag
           /\ RequestOf(s).selections = s.selections /\ RequestOf(s).edits = s.edits
BY DEF RequestOf, ShownType, RequestType

\* Selections of nodes that are gone count for nothing.
LEMMA PruneSame ==
    ASSUME NEW s \in ShownType, NEW t \in ShownType, NEW live,
           t.nodes = s.nodes, t.tag = s.tag, t.edits = s.edits,
           t.selections = PruneStale(s.selections, live), Range(s.nodes) \subseteq live
    PROVE  Effective(RequestOf(t)) = Effective(RequestOf(s))
<1>1. s.selections \in Picks
  BY DEF ShownType
<1> DEFINE f == s.selections
           p == PruneStale(f, live)
<1>a. /\ DOMAIN p = {g \in DOMAIN f : ~Namespaced(f[g]) \/ f[g] \in live}
      /\ \A g \in DOMAIN p : p[g] = f[g]
  BY <1>1, PruneIs
<1>b. t.selections = p
  OBVIOUS
<1> HIDE DEF p
<1>2. /\ DOMAIN t.selections = {g \in DOMAIN s.selections :
                                  ~Namespaced(s.selections[g]) \/ s.selections[g] \in live}
      /\ \A g \in DOMAIN t.selections : t.selections[g] = s.selections[g]
  BY <1>a, <1>b
<1>3. Same(RequestOf(t), RequestOf(s))
  BY <1>2, RequestIs DEF Same, LiveGroups
<1> QED BY <1>3, RequestIs, EffectiveSame

LEMMA ChosenIs ==
    ASSUME NEW g \in GroupNames, NEW tag \in Tags
    PROVE  /\ \A s \in ShownType :
                 /\ Chosen(s, g, tag) \in ShownType
                 /\ Chosen(s, g, tag).subs = s.subs /\ Chosen(s, g, tag).active = s.active
                 /\ Chosen(s, g, tag).nodes = s.nodes /\ Chosen(s, g, tag).edits = s.edits
                 /\ Chosen(s, g, tag).tag = IF g = "proxy" THEN tag ELSE s.tag
                 /\ RequestOf(Chosen(s, g, tag)) = Chosen(RequestOf(s), g, tag)
           /\ \A r \in RequestType :
                 /\ Chosen(r, g, tag) \in RequestType
                 /\ Chosen(r, g, tag).nodes = r.nodes /\ Chosen(r, g, tag).edits = r.edits
                 /\ Chosen(r, g, tag).tag = IF g = "proxy" THEN tag ELSE r.tag
                 /\ DOMAIN Chosen(r, g, tag).selections = DOMAIN r.selections \cup {g}
                 /\ \A h \in DOMAIN Chosen(r, g, tag).selections :
                      Chosen(r, g, tag).selections[h] = IF h = g THEN tag ELSE r.selections[h]
<1>1. ASSUME NEW f \in Picks
      PROVE  [h \in DOMAIN f \cup {g} |-> IF h = g THEN tag ELSE f[h]] \in Picks
  <2>1. DOMAIN f \in SUBSET GroupNames /\ f \in [DOMAIN f -> Tags]
    BY PicksAre
  <2>2. DOMAIN f \cup {g} \in SUBSET GroupNames
    BY <2>1
  <2>3. [h \in DOMAIN f \cup {g} |-> IF h = g THEN tag ELSE f[h]] \in [DOMAIN f \cup {g} -> Tags]
    BY <2>1
  <2> QED BY <2>2, <2>3, PicksAre
<1>2. ASSUME NEW s \in ShownType
      PROVE  /\ Chosen(s, g, tag) \in ShownType
             /\ Chosen(s, g, tag).subs = s.subs /\ Chosen(s, g, tag).active = s.active
             /\ Chosen(s, g, tag).nodes = s.nodes /\ Chosen(s, g, tag).edits = s.edits
             /\ Chosen(s, g, tag).tag = IF g = "proxy" THEN tag ELSE s.tag
             /\ RequestOf(Chosen(s, g, tag)) = Chosen(RequestOf(s), g, tag)
  <2> DEFINE p == [h \in DOMAIN s.selections \cup {g} |-> IF h = g THEN tag ELSE s.selections[h]]
             n == IF g = "proxy" THEN tag ELSE s.tag
  <2>1. s.selections \in Picks
    BY DEF ShownType
  <2>2. p \in Picks
    BY <1>1, <2>1
  <2>3. Chosen(s, g, tag) = [s EXCEPT !.selections = p, !.tag = n]
    BY DEF Chosen, ShownType
  <2>4. Chosen(RequestOf(s), g, tag) = [RequestOf(s) EXCEPT !.selections = p, !.tag = n]
    BY DEF Chosen, RequestOf
  <2>5. n = (IF g = "proxy" THEN tag ELSE s.tag) /\ n \in Tags
    BY DEF ShownType
  <2> HIDE DEF p, n
  <2>6. /\ Chosen(s, g, tag) \in ShownType
        /\ Chosen(s, g, tag).subs = s.subs /\ Chosen(s, g, tag).active = s.active
        /\ Chosen(s, g, tag).nodes = s.nodes /\ Chosen(s, g, tag).edits = s.edits
        /\ Chosen(s, g, tag).tag = n /\ Chosen(s, g, tag).selections = p
    BY <2>2, <2>3, <2>5 DEF ShownType
  <2>7. RequestOf(Chosen(s, g, tag)) = Chosen(RequestOf(s), g, tag)
    BY <2>4, <2>6 DEF RequestOf
  <2> QED BY <2>5, <2>6, <2>7
<1>3. ASSUME NEW r \in RequestType
      PROVE  /\ Chosen(r, g, tag) \in RequestType
             /\ Chosen(r, g, tag).nodes = r.nodes /\ Chosen(r, g, tag).edits = r.edits
             /\ Chosen(r, g, tag).tag = IF g = "proxy" THEN tag ELSE r.tag
             /\ DOMAIN Chosen(r, g, tag).selections = DOMAIN r.selections \cup {g}
             /\ \A h \in DOMAIN Chosen(r, g, tag).selections :
                  Chosen(r, g, tag).selections[h] = IF h = g THEN tag ELSE r.selections[h]
  <2> DEFINE p == [h \in DOMAIN r.selections \cup {g} |-> IF h = g THEN tag ELSE r.selections[h]]
             n == IF g = "proxy" THEN tag ELSE r.tag
  <2>1. r.selections \in Picks
    BY DEF RequestType
  <2>2. p \in Picks
    BY <1>1, <2>1
  <2>3. Chosen(r, g, tag) = [r EXCEPT !.selections = p, !.tag = n]
    BY DEF Chosen, RequestType
  <2>4. n \in Tags
    BY DEF RequestType
  <2>5. DOMAIN p = DOMAIN r.selections \cup {g}
        /\ \A h \in DOMAIN p : p[h] = IF h = g THEN tag ELSE r.selections[h]
    OBVIOUS
  <2>6. n = IF g = "proxy" THEN tag ELSE r.tag
    OBVIOUS
  <2> HIDE DEF p, n
  <2>7. /\ Chosen(r, g, tag) \in RequestType /\ Chosen(r, g, tag).selections = p
        /\ Chosen(r, g, tag).nodes = r.nodes /\ Chosen(r, g, tag).edits = r.edits
        /\ Chosen(r, g, tag).tag = n
    BY <2>2, <2>3, <2>4 DEF RequestType
  <2> QED BY <2>5, <2>6, <2>7
<1> QED BY <1>2, <1>3

\* A listed node that is chosen leaves what hangs together so.
LEMMA ChosenOk ==
    ASSUME NEW g \in GroupNames, NEW s \in ShownType, NEW tag \in Range(s.nodes),
           TagOk(s), ProxyOk(s), NEW t \in ShownType, t.nodes = s.nodes,
           t.tag = Chosen(s, g, tag).tag
    PROVE  /\ TagOk(t)
           /\ t.selections = Chosen(s, g, tag).selections => ProxyOk(t)
<1>1. tag \in Tags /\ s.nodes \in Seq(Tags)
  BY DEF ShownType, Range
<1>2. t.tag = IF g = "proxy" THEN tag ELSE s.tag
  BY <1>1, ChosenIs
<1>3. TagOk(t)
  BY <1>2 DEF TagOk, SelectAvailable
<1>4. Chosen(s, g, tag).selections =
          [h \in DOMAIN s.selections \cup {g} |-> IF h = g THEN tag ELSE s.selections[h]]
  BY DEF Chosen, ShownType
<1>5. ASSUME t.selections = Chosen(s, g, tag).selections, "proxy" \in DOMAIN t.selections
      PROVE  t.selections["proxy"] = t.tag /\ t.tag \in Range(t.nodes)
  BY <1>2, <1>4, <1>5 DEF ProxyOk
<1> QED BY <1>3, <1>5 DEF ProxyOk

LEMMA ChosenSame ==
    ASSUME NEW g \in GroupNames, NEW tag \in Tags, NEW r \in RequestType, NEW q \in RequestType,
           tag \in Range(q.nodes), Effective(r) = Effective(q)
    PROVE  Effective(Chosen(r, g, tag)) = Effective(Chosen(q, g, tag))
<1> DEFINE a == Chosen(r, g, tag)
           b == Chosen(q, g, tag)
<1>1. Same(r, q)
  BY EffectiveSame
<1>2. /\ a \in RequestType /\ a.nodes = r.nodes /\ a.edits = r.edits
      /\ a.tag = IF g = "proxy" THEN tag ELSE r.tag
      /\ DOMAIN a.selections = DOMAIN r.selections \cup {g}
      /\ \A h \in DOMAIN a.selections : a.selections[h] = IF h = g THEN tag ELSE r.selections[h]
  BY ChosenIs
<1>3. /\ b \in RequestType /\ b.nodes = q.nodes /\ b.edits = q.edits
      /\ b.tag = IF g = "proxy" THEN tag ELSE q.tag
      /\ DOMAIN b.selections = DOMAIN q.selections \cup {g}
      /\ \A h \in DOMAIN b.selections : b.selections[h] = IF h = g THEN tag ELSE q.selections[h]
  BY ChosenIs
<1> HIDE DEF a, b
<1>4. LiveGroups(a) = LiveGroups(r) \cup {g} /\ LiveGroups(b) = LiveGroups(q) \cup {g}
  BY <1>1, <1>2, <1>3 DEF LiveGroups, Same
<1>5. \A h \in LiveGroups(a) : a.selections[h] = b.selections[h]
  BY <1>1, <1>2, <1>3, <1>4 DEF LiveGroups, Same
<1>6. Same(a, b)
  BY <1>1, <1>2, <1>3, <1>4, <1>5 DEF Same
<1>7. Effective(a) = Effective(b)
  BY <1>2, <1>3, <1>6, EffectiveSame
<1> QED BY <1>7 DEF a, b

-----------------------------------------------------------------------------
(* What Show does to a state that hangs together.                           *)
LEMMA ShowKeeps ==
    ASSUME BookInv, NEW s \in ShownType, NEW flags \in BOOLEAN, Show(s, flags), UNCHANGED restart,
           refreshing' \in RefreshType, bookBudget' \in BudgetType,
           refreshing'.applied + Len(refreshing'.left) <= MaxSubscriptions,
           refreshing'.kind = "none" => refreshing' = NoRefresh,
           Distinct(s.subs), Len(s.subs) <= MaxSubscriptions, Owned(s.subs), OwnedNodes(s),
           \A j \in DOMAIN s.subs : s.subs[j].id \in 1 .. (MaxBookSteps - bookBudget'.steps),
           ~crossed /\ ~Calling => ProxyOk(s),
           ~crossed => TagOk(s) /\ ActiveOk(s) /\ (Steady' => NodesOk(s)),
           ~crossed /\ core.connected /\ ~core.pending /\ ~flags =>
               Effective(RequestOf(s)) = Effective(RequestOf(shown))
    PROVE  BookInv'
<1>1. /\ shown' = s
      /\ core' = [core EXCEPT !.pending = core.pending \/ flags]
      /\ crossed' = (crossed \/ (Restarting /\ s # shown))
  BY DEF Show
<1>2. core \in CoreType /\ crossed \in BOOLEAN
      /\ (restart = NoRestart \/ restart \in BegunType \/ restart \in CallType)
  BY DEF BookInv, BookTyped
<1>3. /\ core' \in CoreType /\ core'.connected = core.connected /\ core'.runs = core.runs
      /\ core'.pending = (core.pending \/ flags)
  BY <1>1, <1>2 DEF CoreType
<1>4. crossed' \in BOOLEAN
  BY <1>1, <1>2
<1>5. BookTyped'
  BY <1>1, <1>2, <1>3, <1>4 DEF BookTyped
<1>6. /\ Distinct(shown'.subs) /\ Len(shown'.subs) <= MaxSubscriptions /\ Numbered(shown.subs)'
      /\ Owned(shown.subs)' /\ OwnedNodes(shown)'
  BY <1>1 DEF Numbered, Owned, OwnedNodes
<1>8. (Restarting' <=> Restarting) /\ (Calling' <=> Calling)
  BY DEF Restarting, Calling
<1>9. Restarting' => OwnedNodes(restart.before)'
  BY <1>8 DEF BookInv, OwnedNodes
<1>7. ASSUME ~crossed' PROVE Uncrossed'
  <2>1. ~crossed /\ Uncrossed /\ (Restarting => s = shown)
    BY <1>1, <1>2, <1>7 DEF BookInv
  <2>2. TagOk(shown)' /\ ActiveOk(shown)' /\ (Steady' => NodesOk(shown)')
    BY <1>1, <2>1 DEF TagOk, ActiveOk, NodesOk
  <2>3. ~Calling' => ProxyOk(shown)'
    BY <1>1, <1>8, <2>1 DEF ProxyOk
  <2>4. ASSUME Restarting', ~Calling' PROVE RestartInv'
    <3>1. RestartInv /\ shown' = shown /\ s = shown
      BY <1>1, <1>8, <2>1, <2>4 DEF Uncrossed
    <3>2. restart.kind = "switch" \/ Steady' => NodesOk(restart.before)
      BY <2>1, <3>1 DEF RestartInv, NodesOk
    <3>3. core'.connected /\ ~core'.pending => SameRun(core'.runs, restart.before)
      BY <1>3, <3>1 DEF RestartInv
    <3> QED BY <3>1, <3>2, <3>3 DEF RestartInv, NodesOk, TagOk, ActiveOk, ProxyOk, SameRun
  <2>5. ASSUME ~Restarting', core'.connected, ~core'.pending PROVE SameRun(core.runs, shown)'
    <3>1. SameRun(core.runs, shown) /\ ~flags /\ core.connected /\ ~core.pending
      BY <1>3, <1>8, <2>1, <2>5 DEF Uncrossed
    <3> QED BY <1>1, <1>3, <2>1, <3>1 DEF SameRun
  <2>6. ASSUME Calling' PROVE CallInv'
    <3>1. CallInv /\ shown' = shown /\ s = shown
      BY <1>1, <1>2, <1>8, <2>1, <2>6, RestartIs DEF Uncrossed, BookInv
    <3>2. Steady' => NodesOk(restart.before)
      BY <2>1, <3>1 DEF CallInv, NodesOk
    <3>3. core'.connected /\ ~core'.pending => SameRun(core'.runs, Asks)
      BY <1>3, <3>1 DEF CallInv
    <3>4. Wanted' = Wanted /\ Asks' = Asks
      BY DEF Wanted, Asks
    <3> QED BY <3>1, <3>2, <3>3, <3>4 DEF CallInv, NodesOk, TagOk, ActiveOk, ProxyOk, SameRun
  <2> QED BY <2>2, <2>3, <2>4, <2>5, <2>6 DEF Uncrossed
<1> QED BY <1>5, <1>6, <1>7, <1>9 DEF BookInv

-----------------------------------------------------------------------------
LEMMA BookStarts == BookInit => BookInv
<1> SUFFICES ASSUME BookInit PROVE BookInv
  OBVIOUS
<1>1. /\ shown.subs = <<>> /\ shown.active = NoId /\ shown.nodes = <<>> /\ shown.tag = NoTag
      /\ shown.selections = NoSelections /\ shown.edits = 0
      /\ core.connected = FALSE /\ restart = NoRestart /\ refreshing = NoRefresh
      /\ bookBudget.steps = MaxBookSteps
  BY DEF BookInit
<1>2. Nothing \in RequestType
  BY NoTagIn, NoSelectionsIn DEF Nothing, RequestType
<1>3. core \in CoreType
  BY <1>2 DEF BookInit, CoreType
<1>4. shown \in ShownType
  <2>1. shown = [subs |-> <<>>, active |-> NoId, nodes |-> <<>>, tag |-> NoTag,
                 selections |-> NoSelections, edits |-> 0]
    BY DEF BookInit
  <2>2. NoId \in Nat /\ <<>> \in Seq(SubType) /\ <<>> \in Seq(Tags)
    BY DEF NoId
  <2> QED BY <2>1, <2>2, NoTagIn, NoSelectionsIn DEF ShownType
<1>5. refreshing \in RefreshType
  BY DEF BookInit, NoRefresh, RefreshType
<1>6. bookBudget \in BudgetType
  BY BookBounds DEF BookInit, BudgetType
<1>7. BookTyped
  BY <1>1, <1>3, <1>4, <1>5, <1>6 DEF BookInit, BookTyped
<1>8. Uncrossed
  <2>1. TagOk(shown)
    BY <1>1 DEF TagOk, SelectAvailable, Range
  <2>2. NodesOk(shown) /\ ActiveOk(shown)
    BY <1>1 DEF NodesOk, ActiveOk, CollectNodes, Ids
  <2>3. ~Restarting /\ ~Calling
    BY <1>1, <1>7, RestartIs
  <2>4. ProxyOk(shown)
    BY <1>1 DEF ProxyOk, NoSelections
  <2> QED BY <1>1, <2>1, <2>2, <2>3, <2>4 DEF Uncrossed
<1>11. Owned(shown.subs) /\ OwnedNodes(shown) /\ ~Restarting
  BY <1>1 DEF Owned, OwnedNodes, Range, Restarting
<1>9. refreshing.applied + Len(refreshing.left) <= MaxSubscriptions
  BY <1>1, BookBounds DEF NoRefresh
<1>10. Distinct(shown.subs) /\ Numbered(shown.subs) /\ Len(shown.subs) <= MaxSubscriptions
  BY <1>1, BookBounds DEF Distinct, Numbered
<1> QED BY <1>1, <1>7, <1>8, <1>9, <1>10, <1>11 DEF BookInv

LEMMA StepSpent ==
    ASSUME BookInv, SpendStep
    PROVE  /\ bookBudget' \in BudgetType /\ MaxBookSteps - bookBudget.steps \in Nat
           /\ MaxBookSteps - bookBudget'.steps = (MaxBookSteps - bookBudget.steps) + 1
<1>1. bookBudget \in BudgetType
  BY DEF BookInv, BookTyped
<1>2. bookBudget' = [bookBudget EXCEPT !.steps = bookBudget.steps - 1] /\ bookBudget.steps > 0
  BY DEF SpendStep
<1>3. bookBudget.steps - 1 \in 0 .. MaxBookSteps /\ bookBudget.steps \in 0 .. MaxBookSteps
  BY <1>1, <1>2, BookBounds DEF BudgetType
<1>4. bookBudget' \in BudgetType /\ bookBudget'.steps = bookBudget.steps - 1
  BY <1>1, <1>2, <1>3 DEF BudgetType
<1> QED BY <1>3, <1>4, BookBounds

LEMMA ReportIs ==
    ASSUME NEW report \in Reports
    PROVE  /\ report.nodes \in Seq(RawNodes)
           /\ report.resolvers = "auto" /\ report.rejected = 0
<1>1. report.nodes \in UNION {[1 .. m -> RawNodes] : m \in 0 .. 2}
      /\ report.resolvers = "auto" /\ report.rejected = 0
  BY DEF Reports, SeqOf
<1>2. PICK m \in 0 .. 2 : report.nodes \in [1 .. m -> RawNodes]
  BY <1>1
<1>3. m \in Nat
  OBVIOUS
<1> QED BY <1>1, <1>2, <1>3

LEMMA NextIsFresh ==
    ASSUME NEW subs \in Seq(SubType), NEW u \in Nat,
           \A j \in DOMAIN subs : subs[j].id \in 1 .. u
    PROVE  NextSubscriptionId(subs) \in 1 .. (u + 1) /\ NextSubscriptionId(subs) \notin Ids(subs)
<1> DEFINE S == {0} \cup Ids(subs)
<1>1. S \in SUBSET (0 .. u) /\ S # {}
  BY DEF Ids
<1>2. Max(S) \in S /\ \A y \in S : y <= Max(S)
  BY <1>1, EndsAreThere
<1>3. Max(S) \in 0 .. u /\ NextSubscriptionId(subs) = Max(S) + 1
  BY <1>1, <1>2 DEF NextSubscriptionId
<1> DEFINE m == Max(S)
<1>4. ASSUME NEW y \in Ids(subs) PROVE y <= m
  <2>1. y \in S
    OBVIOUS
  <2> QED BY <1>2, <2>1
<1> HIDE DEF m
<1>5. m \in 0 .. u /\ NextSubscriptionId(subs) = m + 1
  BY <1>3 DEF m
<1>6. m + 1 \notin Ids(subs)
  BY <1>4, <1>5
<1> QED BY <1>5, <1>6

(* A list that grew by an entry with an id of its own.                       *)
LEMMA AppendedDistinct ==
    ASSUME NEW s, NEW t, NEW n \in Nat, DOMAIN s = 1 .. n, DOMAIN t = 1 .. (n + 1), Distinct(s),
           \A j \in 1 .. n : t[j] = s[j] /\ t[j].id # t[n + 1].id
    PROVE  Distinct(t)
<1> SUFFICES ASSUME NEW j \in 1 .. (n + 1), NEW k \in 1 .. (n + 1), t[j].id = t[k].id
             PROVE  j = k
  BY DEF Distinct
<1>1. CASE j \in 1 .. n /\ k \in 1 .. n
  <2>1. t[j] = s[j] /\ t[k] = s[k]
    BY <1>1
  <2> QED BY <1>1, <2>1 DEF Distinct
<1>2. CASE j = n + 1
  <2>1. k \notin 1 .. n
    BY <1>2
  <2> QED BY <1>2, <2>1
<1>3. CASE k = n + 1
  <2>1. j \notin 1 .. n
    BY <1>3
  <2> QED BY <1>3, <2>1
<1> QED BY <1>1, <1>2, <1>3

LEMMA ImportKeeps == BookInv /\ Import => BookInv'
<1> SUFFICES ASSUME BookInv, Import PROVE BookInv'
  OBVIOUS
<1> DEFINE id == NextSubscriptionId(shown.subs)
           u == MaxBookSteps - bookBudget.steps
<1>1. /\ SpendStep /\ UNCHANGED <<restart, refreshing>>
      /\ shown \in ShownType /\ shown.subs \in Seq(SubType) /\ core.connected \in BOOLEAN
  BY DEF Import, BookInv, BookTyped, ShownType, CoreType
<1>2. /\ bookBudget' \in BudgetType /\ u \in Nat
      /\ MaxBookSteps - bookBudget'.steps = u + 1
  BY <1>1, StepSpent
<1>3. \A j \in DOMAIN shown.subs : shown.subs[j].id \in 1 .. u
  BY DEF BookInv, Numbered
<1> HIDE DEF u
<1>4a. NextSubscriptionId(shown.subs) \in 1 .. (u + 1)
       /\ NextSubscriptionId(shown.subs) \notin Ids(shown.subs)
  BY <1>1, <1>2, <1>3, NextIsFresh
<1> HIDE DEF id
<1>4b. id \in 1 .. (u + 1) /\ id \notin Ids(shown.subs)
  BY <1>4a DEF id
<1>4. id \in 1 .. (u + 1) /\ id \notin Ids(shown.subs) /\ id \in Nat
  BY <1>2, <1>4b
<1>5. PICK report \in Reports :
        LET sub == [id |-> id, source |-> "url", nodes |-> NamespaceNodes(id, report.nodes),
                    resolvers |-> report.resolvers, rejected |-> report.rejected]
            s == WithActive([shown EXCEPT !.subs = Append(shown.subs, sub)], id, NoTag)
        IN /\ Len(shown.subs) < MaxSubscriptions
           /\ Show([s EXCEPT !.selections = SelectProxy(s.selections, s.tag)], core.connected)
  BY DEF Import, id
<1> DEFINE sub == [id |-> id, source |-> "url", nodes |-> NamespaceNodes(id, report.nodes),
                   resolvers |-> report.resolvers, rejected |-> report.rejected]
           subs == Append(shown.subs, sub)
           base == [shown EXCEPT !.subs = subs]
           s == WithActive(base, id, NoTag)
           next == [s EXCEPT !.selections = SelectProxy(s.selections, s.tag)]
<1>6. /\ sub \in SubType /\ sub.id = id
      /\ \A tag \in Range(sub.nodes) : tag[1] = sub.id /\ Namespaced(tag)
  <2>1. id # 0 /\ report.nodes \in Seq(RawNodes)
    BY <1>2, <1>4, ReportIs
  <2>2. sub \in SubType /\ sub.id = id /\ sub.nodes = NamespaceNodes(id, report.nodes)
    BY <1>4, ReportIs, NodesAreTags DEF SubType
  <2> QED BY <1>4, <2>1, <2>2, NodesAreOwned
<1> HIDE DEF sub
<1>7. /\ subs \in Seq(SubType) /\ Len(subs) = Len(shown.subs) + 1
      /\ DOMAIN subs = 1 .. (Len(shown.subs) + 1)
      /\ \A j \in DOMAIN shown.subs : subs[j] = shown.subs[j]
      /\ subs[Len(shown.subs) + 1] = sub /\ DOMAIN shown.subs = 1 .. Len(shown.subs)
      /\ Len(shown.subs) \in Nat
  BY <1>1, <1>6
<1>19. Owned(subs)
  <2>1. ASSUME NEW j \in DOMAIN subs
        PROVE  \A tag \in Range(subs[j].nodes) : tag[1] = subs[j].id /\ Namespaced(tag)
    <3>1. CASE j \in DOMAIN shown.subs
      BY <1>7, <3>1 DEF BookInv, Owned
    <3>2. CASE j = Len(shown.subs) + 1
      BY <1>6, <1>7, <3>2
    <3> QED BY <1>7, <3>1, <3>2
  <2> QED BY <2>1 DEF Owned
<1> HIDE DEF subs
<1>8. base \in ShownType /\ base.subs = subs
  <2>1. shown \in ShownType /\ subs \in Seq(SubType)
    BY <1>1, <1>7
  <2> QED BY ONLY <2>1 DEF ShownType, base
<1> HIDE DEF base
<1>9. /\ s \in ShownType /\ s.subs = subs /\ s.active = id /\ NodesOk(s) /\ TagOk(s)
      /\ OwnedNodes(s)
  BY <1>4, <1>8, <1>19, NoTagIn, WithActiveIs
<1> HIDE DEF s
<1>10. SelectProxy(s.selections, s.tag) \in Picks /\ s.selections \in Picks
  BY <1>9, SelectProxyIs DEF ShownType
<1>11. /\ next \in ShownType /\ next.subs = subs /\ next.active = id
       /\ next.nodes = s.nodes /\ next.tag = s.tag
       /\ next.selections = SelectProxy(s.selections, s.tag)
  BY <1>9, <1>10 DEF ShownType
<1>12. Show(next, core.connected) /\ Len(shown.subs) < MaxSubscriptions
  BY <1>5 DEF s, base, subs, sub
<1> HIDE DEF next
<1>13. Distinct(next.subs)
  <2>1. Distinct(shown.subs)
    BY DEF BookInv
  <2>2. \A j \in 1 .. Len(shown.subs) : subs[j] = shown.subs[j] /\ subs[j].id # id
    BY <1>4, <1>7 DEF Ids
  <2>3. DOMAIN next.subs = 1 .. (Len(shown.subs) + 1) /\ Len(shown.subs) \in Nat
        /\ subs[Len(shown.subs) + 1].id = id /\ DOMAIN shown.subs = 1 .. Len(shown.subs)
    BY <1>6, <1>7, <1>11
  <2>4. \A j \in 1 .. Len(shown.subs) :
           next.subs[j] = shown.subs[j] /\ next.subs[j].id # next.subs[Len(shown.subs) + 1].id
    BY <1>11, <2>2, <2>3
  <2>5. PICK old \in Seq(SubType) : old = shown.subs
    BY <1>1
  <2>6. PICK new \in Seq(SubType) : new = next.subs
    BY <1>7, <1>11
  <2>7. PICK n \in Nat : n = Len(shown.subs)
    BY <2>3
  <2>8. /\ DOMAIN old = 1 .. n /\ DOMAIN new = 1 .. (n + 1) /\ Distinct(old)
        /\ \A j \in 1 .. n : new[j] = old[j] /\ new[j].id # new[n + 1].id
    BY <2>1, <2>3, <2>4, <2>5, <2>6, <2>7
  <2>9. Distinct(new)
    BY ONLY <2>8, n \in Nat, AppendedDistinct
  <2> QED BY <2>6, <2>9
<1>14. \A j \in DOMAIN next.subs : next.subs[j].id \in 1 .. (MaxBookSteps - bookBudget'.steps)
  <2> SUFFICES ASSUME NEW j \in DOMAIN subs PROVE subs[j].id \in 1 .. (u + 1)
    BY <1>2, <1>11
  <2>1. CASE j \in DOMAIN shown.subs
    BY <1>2, <1>3, <1>7, <2>1
  <2>2. CASE j = Len(shown.subs) + 1
    BY <1>4, <1>6, <1>7, <2>2
  <2> QED BY <1>7, <2>1, <2>2
<1>15. TagOk(next) /\ NodesOk(next) /\ OwnedNodes(next)
  BY <1>9, <1>11 DEF TagOk, NodesOk, OwnedNodes
<1>20. ProxyOk(next)
  BY <1>10, <1>11, <1>15, ProxySelected
<1>16. ActiveOk(next)
  BY <1>6, <1>7, <1>11 DEF ActiveOk, Ids
<1>17. Len(next.subs) <= MaxSubscriptions
  BY <1>7, <1>11, <1>12, BookBounds
<1>18. /\ refreshing' \in RefreshType
       /\ refreshing'.applied + Len(refreshing'.left) <= MaxSubscriptions
       /\ (refreshing'.kind = "none" => refreshing' = NoRefresh)
  BY <1>1 DEF BookInv, BookTyped
<1> QED BY <1>1, <1>2, <1>11, <1>12, <1>13, <1>14, <1>15, <1>16, <1>17, <1>18, <1>19, <1>20,
           ShowKeeps

LEMMA QuietKeeps ==
    ASSUME BookInv, UNCHANGED <<shown, core, restart, crossed>>,
           refreshing' \in RefreshType, bookBudget' \in BudgetType,
           refreshing'.applied + Len(refreshing'.left) <= MaxSubscriptions,
           refreshing'.kind = "none" => refreshing' = NoRefresh,
           Steady' => Steady, bookBudget'.steps <= bookBudget.steps
    PROVE  BookInv'
<1>1. BookTyped'
  BY DEF BookInv, BookTyped
<1>2. Numbered(shown.subs)'
  <2> SUFFICES ASSUME NEW j \in DOMAIN shown.subs
               PROVE  shown.subs[j].id \in 1 .. (MaxBookSteps - bookBudget'.steps)
    BY DEF Numbered
  <2>1. shown.subs[j].id \in 1 .. (MaxBookSteps - bookBudget.steps)
    BY DEF BookInv, Numbered
  <2>2. bookBudget.steps \in Int /\ bookBudget'.steps \in Int /\ MaxBookSteps \in Int
    BY BookBounds DEF BookInv, BookTyped, BudgetType
  <2> QED BY <2>1, <2>2
<1>3. ASSUME ~crossed PROVE Uncrossed'
  <2>1. Uncrossed
    BY <1>3 DEF BookInv
  <2>2. TagOk(shown)' /\ ActiveOk(shown)' /\ (Steady' => NodesOk(shown)')
    BY <2>1 DEF Uncrossed, TagOk, ActiveOk, NodesOk
  <2>5. (Restarting' <=> Restarting) /\ (Calling' <=> Calling)
    BY DEF Restarting, Calling
  <2>3. Restarting' /\ ~Calling' => RestartInv'
    BY <2>1, <2>5 DEF Uncrossed, RestartInv, TagOk, ActiveOk, NodesOk, ProxyOk, SameRun
  <2>4. ~Restarting' /\ core'.connected /\ ~core'.pending => SameRun(core.runs, shown)'
    BY <2>1, <2>5 DEF Uncrossed, SameRun
  <2>6. Calling' => CallInv'
    BY <2>1, <2>5 DEF Uncrossed, CallInv, Asks, Wanted, TagOk, ActiveOk, NodesOk, ProxyOk, SameRun
  <2>7. ~Calling' => ProxyOk(shown)'
    BY <2>1, <2>5 DEF Uncrossed, ProxyOk
  <2> QED BY <2>2, <2>3, <2>4, <2>6, <2>7 DEF Uncrossed
<1>4. Owned(shown.subs)' /\ OwnedNodes(shown)' /\ (Restarting' => OwnedNodes(restart.before)')
  BY DEF BookInv, Owned, OwnedNodes, Restarting
<1> QED BY <1>1, <1>2, <1>3, <1>4 DEF BookInv

LEMMA AskRefreshKeeps == BookInv /\ AskRefresh => BookInv'
<1> SUFFICES ASSUME BookInv, AskRefresh PROVE BookInv'
  OBVIOUS
<1>1. /\ UNCHANGED <<shown, core, restart, crossed>> /\ SpendStep /\ shown.subs # <<>>
      /\ refreshing = NoRefresh
  BY DEF AskRefresh
<1>2. shown.subs \in Seq(SubType) /\ Len(shown.subs) <= MaxSubscriptions
  BY DEF BookInv, BookTyped, ShownType
<1>3. \A k \in DOMAIN shown.subs : shown.subs[k].id \in Nat
  <2>1. \A k \in DOMAIN shown.subs : shown.subs[k] \in SubType
    BY <1>2
  <2> QED BY <2>1 DEF SubType
<1>4. bookBudget' \in BudgetType /\ bookBudget'.steps <= bookBudget.steps
  <2>1. bookBudget' \in BudgetType /\ bookBudget'.steps = bookBudget.steps - 1
    BY <1>1, StepSpent DEF SpendStep, BookInv, BookTyped, BudgetType
  <2> QED BY <2>1 DEF BookInv, BookTyped, BudgetType
<1>5. /\ refreshing' \in RefreshType /\ refreshing'.applied = 0 /\ refreshing'.kind # "none"
      /\ refreshing'.applied + Len(refreshing'.left) <= MaxSubscriptions
  <2>1. CASE refreshing' = [kind |-> "all", applied |-> 0,
                            left |-> [k \in DOMAIN shown.subs |-> shown.subs[k].id]]
    <3> DEFINE left == [k \in DOMAIN shown.subs |-> shown.subs[k].id]
    <3>1. left \in Seq(Nat) /\ Len(left) = Len(shown.subs)
      BY <1>2, <1>3
    <3> HIDE DEF left
    <3> QED BY <1>2, <2>1, <3>1 DEF left, RefreshType
  <2>2. CASE \E id \in Ids(shown.subs) :
               refreshing' = [kind |-> "one", left |-> <<id>>, applied |-> 0]
    <3>1. PICK id \in Ids(shown.subs) :
               refreshing' = [kind |-> "one", left |-> <<id>>, applied |-> 0]
      BY <2>2
    <3>2. id \in Nat
      BY <1>3 DEF Ids
    <3>3. <<id>> \in Seq(Nat) /\ Len(<<id>>) = 1
      BY <3>2
    <3> QED BY <3>1, <3>3, BookBounds DEF RefreshType
  <2> QED BY <2>1, <2>2 DEF AskRefresh
<1>6. Steady
  BY <1>1 DEF Steady, NoRefresh
<1> QED BY <1>1, <1>4, <1>5, <1>6, QuietKeeps

LEMMA RetainedAre ==
    ASSUME NEW subs \in Seq(SubType), NEW id, Distinct(subs), NEW P \in SUBSET DOMAIN subs,
           \A k \in DOMAIN subs : k \in P <=> subs[k].id # id,
           NEW kept, kept = Retain(subs, P)
    PROVE  /\ kept \in Seq(SubType) /\ Distinct(kept) /\ Len(kept) <= Len(subs)
           /\ Ids(kept) = Ids(subs) \ {id}
           /\ \A i \in DOMAIN kept : \E k \in DOMAIN subs : kept[i] = subs[k]
<1> DEFINE at == InOrder(P)
           m == Cardinality(P)
<1>1. P \in SUBSET DOMAIN subs /\ kept = Retain(subs, P)
  OBVIOUS
<1>2. /\ Cardinality(P) \in Nat /\ Retain(subs, P) \in Seq(SubType)
      /\ DOMAIN Retain(subs, P) = 1 .. Cardinality(P)
      /\ Len(Retain(subs, P)) = Cardinality(P) /\ Cardinality(P) <= Len(subs)
      /\ \A i \in 1 .. Cardinality(P) :
            InOrder(P)[i] \in P /\ Retain(subs, P)[i] = subs[InOrder(P)[i]]
      /\ \A i, j \in 1 .. Cardinality(P) : InOrder(P)[i] = InOrder(P)[j] => i = j
      /\ \A k \in P : \E i \in 1 .. Cardinality(P) : Retain(subs, P)[i] = subs[k]
  <2>1. P \in SUBSET DOMAIN subs
    BY <1>1
  <2> QED BY ONLY <2>1, subs \in Seq(SubType), RetainKeeps
<1> HIDE DEF at, m
<1>3. /\ m \in Nat /\ kept \in Seq(SubType) /\ DOMAIN kept = 1 .. m
      /\ Len(kept) <= Len(subs)
      /\ \A i \in 1 .. m : at[i] \in P /\ kept[i] = subs[at[i]]
      /\ \A i, j \in 1 .. m : at[i] = at[j] => i = j
      /\ \A k \in P : \E i \in 1 .. m : kept[i] = subs[k]
  BY <1>1, <1>2 DEF at, m
<1>4. ASSUME NEW i \in DOMAIN kept PROVE at[i] \in DOMAIN subs /\ kept[i] = subs[at[i]]
  BY <1>1, <1>3
<1>5. Distinct(kept)
  <2> SUFFICES ASSUME NEW i \in DOMAIN kept, NEW j \in DOMAIN kept, kept[i].id = kept[j].id
               PROVE  i = j
    BY DEF Distinct
  <2>1. at[i] = at[j]
    BY <1>4 DEF Distinct
  <2> QED BY <1>3, <2>1
<1>6. Ids(kept) = Ids(subs) \ {id}
  <2>1. ASSUME NEW i \in DOMAIN kept PROVE kept[i].id \in Ids(subs) \ {id}
    <3>1. at[i] \in P /\ at[i] \in DOMAIN subs /\ kept[i] = subs[at[i]]
      BY <1>1, <1>3
    <3>2. subs[at[i]].id # id
      BY <3>1
    <3> QED BY <3>1, <3>2 DEF Ids
  <2>2. ASSUME NEW k \in DOMAIN subs, subs[k].id # id PROVE subs[k].id \in Ids(kept)
    <3>1. k \in P
      BY <2>2
    <3>2. PICK i \in DOMAIN kept : kept[i] = subs[k]
      BY <1>3, <3>1
    <3> QED BY <3>2 DEF Ids
  <2> QED BY <2>1, <2>2 DEF Ids
<1> QED BY <1>3, <1>4, <1>5, <1>6

LEMMA DeleteKeeps ==
    ASSUME BookInv, NEW id \in Ids(shown.subs), Delete(id)
    PROVE  BookInv'
<1> DEFINE subs == Retain(shown.subs, {k \in DOMAIN shown.subs : shown.subs[k].id # id})
           pruned == [shown EXCEPT !.subs = subs,
                                   !.selections = PruneStale(shown.selections, LiveTags(subs))]
           first == IF subs = <<>> THEN NoId ELSE Head(subs).id
           s == IF shown.active = id THEN WithActive(pruned, first, NoTag)
                ELSE WithActive(pruned, shown.active, shown.tag)
<1>1. /\ SpendStep /\ UNCHANGED <<restart, refreshing>> /\ Show(s, core.connected)
  BY DEF Delete
<1>2. /\ shown \in ShownType /\ shown.subs \in Seq(SubType) /\ core.connected \in BOOLEAN
      /\ shown.selections \in Picks /\ shown.active \in Nat /\ shown.tag \in Tags
      /\ Distinct(shown.subs) /\ Len(shown.subs) <= MaxSubscriptions
  BY DEF BookInv, BookTyped, ShownType, CoreType
<1> DEFINE P == {k \in DOMAIN shown.subs : shown.subs[k].id # id}
<1>a. /\ subs = Retain(shown.subs, P) /\ P \in SUBSET DOMAIN shown.subs
      /\ \A k \in DOMAIN shown.subs : k \in P <=> shown.subs[k].id # id
  OBVIOUS
<1> HIDE DEF subs, P
<1>3. /\ subs \in Seq(SubType) /\ Distinct(subs) /\ Len(subs) <= Len(shown.subs)
      /\ Ids(subs) = Ids(shown.subs) \ {id}
      /\ \A i \in DOMAIN subs : \E k \in DOMAIN shown.subs : subs[i] = shown.subs[k]
  <2> DEFINE from == shown.subs
  <2>1. /\ from \in Seq(SubType) /\ Distinct(from) /\ P \in SUBSET DOMAIN from
        /\ \A k \in DOMAIN from : k \in P <=> from[k].id # id
        /\ subs = Retain(from, P)
    BY <1>2, <1>a
  <2> HIDE DEF from
  <2>2. /\ subs \in Seq(SubType) /\ Distinct(subs) /\ Len(subs) <= Len(from)
        /\ Ids(subs) = Ids(from) \ {id}
        /\ \A i \in DOMAIN subs : \E k \in DOMAIN from : subs[i] = from[k]
    BY ONLY <2>1, RetainedAre
  <2> QED BY <2>2 DEF from
<1>4. PruneStale(shown.selections, LiveTags(subs)) \in Picks
  BY <1>2, PruneIs
<1>5. /\ pruned \in ShownType /\ pruned.subs = subs
      /\ pruned.selections = PruneStale(shown.selections, LiveTags(subs))
  BY <1>2, <1>3, <1>4 DEF ShownType
<1>14. Owned(subs)
  BY <1>3 DEF BookInv, Owned
<1> HIDE DEF pruned
<1>6. first \in Nat /\ (subs = <<>> => first = NoId) /\ (subs # <<>> => first \in Ids(subs))
  <2>1. CASE subs = <<>>
    BY <2>1 DEF NoId
  <2>2. CASE subs # <<>>
    <3>1. 1 \in DOMAIN subs /\ Head(subs) = subs[1] /\ subs[1] \in SubType
      BY <1>3, <2>2
    <3> QED BY <2>2, <3>1 DEF Ids, SubType
  <2> QED BY <2>1, <2>2
<1> HIDE DEF first
<1>7. \A a \in Nat, t \in Tags :
         LET r == WithActive(pruned, a, t) IN
         /\ r \in ShownType /\ r.subs = subs /\ r.active = a /\ NodesOk(r) /\ TagOk(r)
         /\ OwnedNodes(r) /\ r.selections = pruned.selections
         /\ r.tag = SelectAvailable(r.nodes, t)
  BY <1>5, <1>14, WithActiveIs
<1> DEFINE wanted == IF shown.active = id THEN NoTag ELSE shown.tag
<1>8. /\ s \in ShownType /\ s.subs = subs /\ NodesOk(s) /\ TagOk(s) /\ OwnedNodes(s)
      /\ s.active = (IF shown.active = id THEN first ELSE shown.active)
      /\ s.selections = pruned.selections /\ s.tag = SelectAvailable(s.nodes, wanted)
  BY <1>2, <1>6, <1>7, NoTagIn
<1> HIDE DEF s
<1>15. ~crossed /\ ~Calling => ProxyOk(s)
  <2> SUFFICES ASSUME ~crossed, ~Calling PROVE ProxyOk(s)
    OBVIOUS
  <2>1. ProxyOk(shown) /\ OwnedNodes(shown)
    BY DEF BookInv, Uncrossed
  <2>2. shown.active \in Ids(subs) => s.active = shown.active /\ wanted = shown.tag
    BY <1>3, <1>8
  <2>3. s.nodes = CollectNodes(subs, s.active)
    BY <1>8 DEF NodesOk
  <2> HIDE DEF wanted
  <2> QED BY <1>2, <1>3, <1>5, <1>8, <1>14, <2>1, <2>2, <2>3, PrunedProxy
<1>9. ~crossed => ActiveOk(s)
  <2> SUFFICES ASSUME ~crossed PROVE ActiveOk(s)
    OBVIOUS
  <2>1. ActiveOk(shown) /\ shown.subs # <<>>
    BY DEF BookInv, Uncrossed, Ids
  <2>2. shown.active # id => shown.active \in Ids(subs)
    BY <1>3, <2>1 DEF ActiveOk
  <2>3. Ids(<<>>) = {}
    BY DEF Ids
  <2> QED BY <1>6, <1>8, <2>2, <2>3 DEF ActiveOk
<1>10. /\ bookBudget' \in BudgetType /\ MaxBookSteps - bookBudget.steps \in Nat
       /\ MaxBookSteps - bookBudget'.steps = (MaxBookSteps - bookBudget.steps) + 1
  BY <1>1, StepSpent
<1>11. \A j \in DOMAIN s.subs : s.subs[j].id \in 1 .. (MaxBookSteps - bookBudget'.steps)
  <2> SUFFICES ASSUME NEW j \in DOMAIN subs
               PROVE  subs[j].id \in 1 .. (MaxBookSteps - bookBudget'.steps)
    BY <1>8
  <2>1. PICK k \in DOMAIN shown.subs : subs[j] = shown.subs[k]
    BY <1>3
  <2>2. shown.subs[k].id \in 1 .. (MaxBookSteps - bookBudget.steps)
    BY DEF BookInv, Numbered
  <2> QED BY <1>10, <2>1, <2>2
<1>12. Len(s.subs) <= MaxSubscriptions /\ Distinct(s.subs)
  BY <1>2, <1>3, <1>8, BookBounds
<1>13. /\ refreshing' \in RefreshType
       /\ refreshing'.applied + Len(refreshing'.left) <= MaxSubscriptions
       /\ (refreshing'.kind = "none" => refreshing' = NoRefresh)
  BY <1>1 DEF BookInv, BookTyped
<1> QED BY <1>1, <1>2, <1>8, <1>9, <1>10, <1>11, <1>12, <1>13, <1>14, <1>15, ShowKeeps

(* A report changes the nodes of its subscription and no id.                *)
LEMMA AppliedIs ==
    ASSUME NEW subs \in Seq(SubType), NEW id \in Nat, NEW report \in Reports
    PROVE  /\ ApplyReport(subs, id, report) \in Seq(SubType)
           /\ DOMAIN ApplyReport(subs, id, report) = DOMAIN subs
           /\ Len(ApplyReport(subs, id, report)) = Len(subs)
           /\ \A k \in DOMAIN subs :
                 /\ ApplyReport(subs, id, report)[k].id = subs[k].id
                 /\ subs[k].id # id => ApplyReport(subs, id, report)[k] = subs[k]
           /\ id # 0 /\ Owned(subs) => Owned(ApplyReport(subs, id, report))
<1> DEFINE new(k) == IF subs[k].id = id
                     THEN [subs[k] EXCEPT !.nodes = NamespaceNodes(id, report.nodes),
                                          !.resolvers = report.resolvers,
                                          !.rejected = report.rejected]
                     ELSE subs[k]
<1>1. NamespaceNodes(id, report.nodes) \in Seq(Tags)
      /\ report.resolvers = "auto" /\ report.rejected = 0
  BY ReportIs, NodesAreTags
<1>2. ApplyReport(subs, id, report) = [k \in DOMAIN subs |-> new(k)]
  BY DEF ApplyReport
<1>3. ASSUME NEW k \in DOMAIN subs
      PROVE  new(k) \in SubType /\ new(k).id = subs[k].id /\ (subs[k].id # id => new(k) = subs[k])
  <2>1. subs[k] \in SubType
    OBVIOUS
  <2> QED BY <1>1, <2>1 DEF SubType
<1>4. Len(subs) \in Nat /\ DOMAIN subs = 1 .. Len(subs)
  OBVIOUS
<1>5. ASSUME id # 0, Owned(subs), NEW k \in DOMAIN subs
      PROVE  \A tag \in Range(new(k).nodes) : tag[1] = new(k).id /\ Namespaced(tag)
  <2>1. CASE subs[k].id = id
    <3>1. subs[k] \in SubType
      OBVIOUS
    <3>2. new(k).nodes = NamespaceNodes(id, report.nodes) /\ new(k).id = id
      BY <1>1, <2>1, <3>1 DEF SubType
    <3>3. report.nodes \in Seq(RawNodes)
      BY ReportIs
    <3> HIDE DEF new
    <3> QED BY <1>5, <3>2, <3>3, NodesAreOwned
  <2>2. CASE subs[k].id # id
    BY <1>5, <2>2 DEF Owned
  <2> QED BY <2>1, <2>2
<1> HIDE DEF new
<1>6. id # 0 /\ Owned(subs) => Owned(ApplyReport(subs, id, report))
  BY <1>2, <1>5 DEF Owned
<1> QED BY <1>2, <1>3, <1>4, <1>6

LEMMA SameIds ==
    ASSUME NEW subs \in Seq(SubType), NEW new \in Seq(SubType), DOMAIN new = DOMAIN subs,
           \A k \in DOMAIN subs : new[k].id = subs[k].id
    PROVE  /\ Ids(new) = Ids(subs) /\ (new = <<>> <=> subs = <<>>)
           /\ Distinct(subs) => Distinct(new)
<1>1. Ids(new) = Ids(subs) /\ (Distinct(subs) => Distinct(new))
  BY DEF Ids, Distinct
<1>2. new = <<>> <=> subs = <<>>
  <2>1. \A q \in Seq(SubType) : q = <<>> <=> DOMAIN q = {}
    OBVIOUS
  <2> QED BY <2>1
<1> QED BY <1>1, <1>2

LEMMA RefreshAnswerKeeps == BookInv /\ RefreshAnswer => BookInv'
<1> SUFFICES ASSUME BookInv, RefreshAnswer PROVE BookInv'
  OBVIOUS
<1> DEFINE id == Head(refreshing.left)
           left == Tail(refreshing.left)
<1>1. /\ refreshing.left # <<>> /\ UNCHANGED <<restart, bookBudget>>
      /\ \/ /\ \E report \in Reports :
                /\ ReportApplies(shown.subs, id, report)
                /\ LET s == [shown EXCEPT !.subs = ApplyReport(shown.subs, id, report)]
                       kept == PruneStale(s.selections, LiveTags(s.subs))
                   IN IF refreshing.kind = "one" /\ shown.active = id
                      THEN Show([WithActive(s, id, s.tag) EXCEPT !.selections = kept],
                                core.connected)
                      ELSE Show(s, FALSE)
             /\ refreshing' = IF refreshing.kind = "one" THEN NoRefresh
                              ELSE [refreshing EXCEPT !.left = left, !.applied = refreshing.applied + 1]
         \/ /\ refreshing' = IF refreshing.kind = "one" THEN NoRefresh
                              ELSE [refreshing EXCEPT !.left = left]
            /\ UNCHANGED <<shown, core, crossed>>
  BY DEF RefreshAnswer
<1>2. /\ refreshing \in RefreshType /\ refreshing.left \in Seq(Nat)
      /\ refreshing.kind \in {"none", "one", "all"} /\ refreshing.applied \in Nat
      /\ refreshing.applied + Len(refreshing.left) <= MaxSubscriptions
      /\ bookBudget \in BudgetType /\ shown \in ShownType /\ core \in CoreType
  BY DEF BookInv, BookTyped, RefreshType
<1>3. refreshing.kind # "none"
  BY <1>1 DEF BookInv, NoRefresh
<1>4. id \in Nat /\ left \in Seq(Nat) /\ Len(left) = Len(refreshing.left) - 1
  BY <1>1, <1>2
<1> HIDE DEF id, left
<1>5. /\ NoRefresh \in RefreshType /\ NoRefresh.kind = "none"
      /\ NoRefresh.applied + Len(NoRefresh.left) <= MaxSubscriptions
  BY BookBounds DEF NoRefresh, RefreshType
<1>6. CASE /\ refreshing' = IF refreshing.kind = "one" THEN NoRefresh
                            ELSE [refreshing EXCEPT !.left = left]
           /\ UNCHANGED <<shown, core, crossed>>
  <2>1. CASE refreshing.kind = "one"
    <3>1. Steady
      BY <2>1 DEF Steady
    <3>2. bookBudget'.steps <= bookBudget.steps
      BY <1>1, <1>2 DEF BudgetType
    <3> QED BY <1>1, <1>2, <1>5, <1>6, <2>1, <3>1, <3>2, QuietKeeps
  <2>2. CASE refreshing.kind = "all"
    <3>1. /\ refreshing' \in RefreshType /\ refreshing'.kind = "all"
          /\ refreshing'.left = left /\ refreshing'.applied = refreshing.applied
      BY <1>2, <1>4, <1>6, <2>2 DEF RefreshType
    <3>2. bookBudget'.steps <= bookBudget.steps
      BY <1>1, <1>2 DEF BudgetType
    <3>3. refreshing'.applied + Len(refreshing'.left) <= MaxSubscriptions
      BY <1>2, <1>4, <3>1, BookBounds
    <3>4. Steady' => Steady
      BY <3>1 DEF Steady
    <3> QED BY <1>1, <1>2, <1>6, <3>1, <3>2, <3>3, <3>4, QuietKeeps
  <2> QED BY <1>2, <1>3, <2>1, <2>2
<1>7. ASSUME NEW report \in Reports, ReportApplies(shown.subs, id, report),
             LET s == [shown EXCEPT !.subs = ApplyReport(shown.subs, id, report)]
                 kept == PruneStale(s.selections, LiveTags(s.subs))
             IN IF refreshing.kind = "one" /\ shown.active = id
                THEN Show([WithActive(s, id, s.tag) EXCEPT !.selections = kept], core.connected)
                ELSE Show(s, FALSE),
             refreshing' = IF refreshing.kind = "one" THEN NoRefresh
                           ELSE [refreshing EXCEPT !.left = left, !.applied = refreshing.applied + 1]
      PROVE  BookInv'
  <2> DEFINE subs == ApplyReport(shown.subs, id, report)
             s == [shown EXCEPT !.subs = subs]
             kept == PruneStale(s.selections, LiveTags(s.subs))
             w == WithActive(s, id, s.tag)
             next == [w EXCEPT !.selections = kept]
  <2>1. IF refreshing.kind = "one" /\ shown.active = id THEN Show(next, core.connected)
        ELSE Show(s, FALSE)
    BY <1>7
  <2>2. shown.subs \in Seq(SubType) /\ shown.selections \in Picks /\ shown.tag \in Tags
        /\ shown.active \in Nat
    BY <1>2 DEF ShownType
  <2>3. /\ subs \in Seq(SubType) /\ DOMAIN subs = DOMAIN shown.subs
        /\ Len(subs) = Len(shown.subs)
        /\ \A k \in DOMAIN shown.subs : subs[k].id = shown.subs[k].id
        /\ \A k \in DOMAIN shown.subs : shown.subs[k].id # id => subs[k] = shown.subs[k]
        /\ id # 0 => Owned(subs)
    BY <1>4, <2>2, AppliedIs DEF BookInv
  <2>11. Owned(subs)
    <3>1. PICK k \in DOMAIN shown.subs : shown.subs[k].id = id
      BY <1>7 DEF ReportApplies, Ids
    <3>2. id # 0
      BY <1>2, <3>1, BookBounds DEF BookInv, Numbered, BudgetType
    <3> QED BY <2>3, <3>2
  <2> HIDE DEF subs
  <2>4. /\ Ids(subs) = Ids(shown.subs) /\ (subs = <<>> <=> shown.subs = <<>>)
        /\ Distinct(subs)
    BY <2>2, <2>3, SameIds DEF BookInv
  <2>5. /\ s \in ShownType /\ s.subs = subs /\ s.active = shown.active /\ s.nodes = shown.nodes
        /\ s.tag = shown.tag /\ s.selections = shown.selections /\ s.edits = shown.edits
    BY <1>2, <2>3 DEF ShownType
  <2> HIDE DEF s
  <2>6. /\ refreshing' \in RefreshType
        /\ refreshing'.applied + Len(refreshing'.left) <= MaxSubscriptions
        /\ refreshing'.kind = "none" => refreshing' = NoRefresh
        /\ refreshing.kind = "all" => ~Steady'
    <3>1. CASE refreshing.kind = "one"
      BY <1>5, <1>7, <3>1
    <3>2. CASE refreshing.kind = "all"
      <4>1. refreshing' = [refreshing EXCEPT !.left = left, !.applied = refreshing.applied + 1]
        BY <1>7, <3>2
      <4>2. refreshing.applied + 1 \in Nat
        BY <1>2
      <4>3. /\ refreshing' \in RefreshType /\ refreshing'.kind = "all"
            /\ refreshing'.left = left /\ refreshing'.applied = refreshing.applied + 1
        BY <1>2, <1>4, <3>2, <4>1, <4>2 DEF RefreshType
      <4>4. refreshing'.applied + Len(refreshing'.left) <= MaxSubscriptions
        BY <1>2, <1>4, <4>3, BookBounds
      <4>5. refreshing.applied + 1 # 0
        BY <1>2
      <4> QED BY <4>3, <4>4, <4>5 DEF Steady
    <3> QED BY <1>2, <1>3, <3>1, <3>2
  <2>7. bookBudget' \in BudgetType /\ MaxBookSteps - bookBudget'.steps = MaxBookSteps - bookBudget.steps
    BY <1>1, <1>2
  <2>8. /\ Len(subs) <= MaxSubscriptions
        /\ \A j \in DOMAIN subs : subs[j].id \in 1 .. (MaxBookSteps - bookBudget'.steps)
    BY <2>3, <2>7 DEF BookInv, Numbered
  <2>9. CASE refreshing.kind = "one" /\ shown.active = id
    <3>1. /\ w \in ShownType /\ w.subs = subs /\ w.active = id /\ NodesOk(w) /\ TagOk(w)
          /\ OwnedNodes(w) /\ w.tag = SelectAvailable(w.nodes, shown.tag)
      <4>1. \A t \in Tags :
               LET r == WithActive(s, id, t) IN
               /\ r \in ShownType /\ r.subs = s.subs /\ r.active = id /\ NodesOk(r) /\ TagOk(r)
               /\ OwnedNodes(r) /\ r.tag = SelectAvailable(r.nodes, t)
        BY <1>4, <2>5, <2>11, WithActiveIs
      <4> QED BY <2>2, <2>5, <4>1
    <3> HIDE DEF w
    <3>2. kept \in Picks /\ kept = PruneStale(shown.selections, LiveTags(subs))
      BY <2>2, <2>5, PruneIs
    <3> HIDE DEF kept
    <3>3. /\ next \in ShownType /\ next.subs = subs /\ next.active = id /\ next.nodes = w.nodes
          /\ next.tag = w.tag /\ next.selections = kept
      BY <3>1, <3>2 DEF ShownType
    <3>4. Show(next, core.connected) /\ core.connected \in BOOLEAN
      BY <1>2, <2>1, <2>9 DEF CoreType
    <3> HIDE DEF next
    <3>5. TagOk(next) /\ NodesOk(next) /\ OwnedNodes(next)
      BY <3>1, <3>3 DEF TagOk, NodesOk, OwnedNodes
    <3>9. ~crossed /\ ~Calling => ProxyOk(next)
      <4> SUFFICES ASSUME ~crossed, ~Calling PROVE ProxyOk(next)
        OBVIOUS
      <4>1. ProxyOk(shown) /\ OwnedNodes(shown)
        BY DEF BookInv, Uncrossed
      <4>2. next.nodes = CollectNodes(subs, id) /\ next.tag = SelectAvailable(next.nodes, shown.tag)
        BY <3>1, <3>3 DEF NodesOk
      <4> QED BY <1>2, <2>3, <2>4, <2>9, <2>11, <3>2, <3>3, <4>1, <4>2, PrunedProxy
    <3>6. id \in Ids(subs)
      BY <1>7, <2>4 DEF ReportApplies
    <3>7. ActiveOk(next)
      <4>1. subs # <<>>
        BY <3>6 DEF Ids
      <4> QED BY <3>3, <3>6, <4>1 DEF ActiveOk
    <3>8. Distinct(next.subs) /\ Len(next.subs) <= MaxSubscriptions
          /\ \A j \in DOMAIN next.subs : next.subs[j].id \in 1 .. (MaxBookSteps - bookBudget'.steps)
      BY <2>4, <2>8, <3>3
    <3> QED BY <1>1, <2>6, <2>7, <2>11, <3>3, <3>4, <3>5, <3>7, <3>8, <3>9, ShowKeeps
  <2>10. CASE ~(refreshing.kind = "one" /\ shown.active = id)
    <3>1. Show(s, FALSE)
      BY <2>1, <2>10
    <3>2. Distinct(s.subs) /\ Len(s.subs) <= MaxSubscriptions
          /\ \A j \in DOMAIN s.subs : s.subs[j].id \in 1 .. (MaxBookSteps - bookBudget'.steps)
      BY <2>4, <2>5, <2>8
    <3>3. Effective(RequestOf(s)) = Effective(RequestOf(shown))
      BY <2>5 DEF RequestOf
    <3>4. ASSUME ~crossed PROVE TagOk(s) /\ ActiveOk(s) /\ (Steady' => NodesOk(s))
      <4>1. TagOk(shown) /\ ActiveOk(shown) /\ (Steady => NodesOk(shown))
        BY <3>4 DEF BookInv, Uncrossed
      <4>2. TagOk(s)
        BY <2>5, <4>1 DEF TagOk
      <4>3. ActiveOk(s)
        BY <2>4, <2>5, <4>1 DEF ActiveOk
      <4>4. ASSUME Steady' PROVE NodesOk(s)
        <5>1. refreshing.kind = "one" /\ shown.active # id
          BY <1>2, <1>3, <2>6, <2>10, <4>4
        <5>2. NodesOk(shown)
          BY <4>1, <5>1 DEF Steady
        <5>3. CASE shown.active \in Ids(shown.subs)
          <6>1. PICK k \in DOMAIN shown.subs : shown.subs[k].id = shown.active
            BY <5>3 DEF Ids
          <6>2. subs[k] = shown.subs[k] /\ k \in DOMAIN subs
            BY <2>3, <5>1, <6>1
          <6>3. CollectNodes(shown.subs, shown.active) = shown.subs[k].nodes
            BY <6>1, CollectedOf DEF BookInv
          <6>4. CollectNodes(subs, shown.active) = subs[k].nodes
            BY <2>4, <6>1, <6>2, CollectedOf
          <6> QED BY <2>5, <5>2, <6>2, <6>3, <6>4 DEF NodesOk
        <5>4. CASE shown.active \notin Ids(shown.subs)
          BY <2>4, <2>5, <5>2, <5>4 DEF NodesOk, CollectNodes
        <5> QED BY <5>3, <5>4
      <4> QED BY <4>2, <4>3, <4>4
    <3>5. OwnedNodes(s) /\ (~crossed /\ ~Calling => ProxyOk(s))
      BY <2>5 DEF BookInv, Uncrossed, OwnedNodes, ProxyOk
    <3> QED BY <1>1, <2>5, <2>6, <2>7, <2>11, <3>1, <3>2, <3>3, <3>4, <3>5, ShowKeeps
  <2> QED BY <2>9, <2>10
<1> QED BY <1>1, <1>6, <1>7

LEMMA ResolveIs ==
    ASSUME NEW subs \in Seq(SubType), NEW requested \in Nat, NEW tag
    PROVE  /\ ResolveActive(subs, requested, tag) \in Nat
           /\ requested \in Ids(subs) => ResolveActive(subs, requested, tag) = requested
           /\ subs = <<>> => ResolveActive(subs, requested, tag) = NoId
           /\ subs # <<>> => ResolveActive(subs, requested, tag) \in Ids(subs)
<1> DEFINE holders == {k \in DOMAIN subs : tag \in Range(subs[k].nodes)}
           a == ResolveActive(subs, requested, tag)
<1>1. Len(subs) \in Nat /\ DOMAIN subs = 1 .. Len(subs)
      /\ \A k \in DOMAIN subs : subs[k].id \in Ids(subs) /\ subs[k].id \in Nat
  <2>1. \A k \in DOMAIN subs : subs[k] \in SubType
    OBVIOUS
  <2> QED BY <2>1 DEF SubType, Ids
<1>2. ASSUME NEW S \in SUBSET DOMAIN subs, S # {} PROVE FirstOf(subs, S) \in Ids(subs)
  <2>1. S \in SUBSET (0 .. Len(subs))
    BY <1>1
  <2>2. Min(S) \in S
    BY <1>1, <1>2, <2>1, EndsAreThere
  <2> QED BY <1>1, <1>2, <2>2 DEF FirstOf
<1>3. FirstOf(subs, {}) = NoId /\ NoId \in Nat
  BY DEF FirstOf, NoId
<1>4. holders \in SUBSET DOMAIN subs
  OBVIOUS
<1>5. a = IF requested \in Ids(subs) THEN requested
          ELSE IF FirstOf(subs, holders) # NoId THEN FirstOf(subs, holders)
          ELSE FirstOf(subs, DOMAIN subs)
  BY DEF ResolveActive
<1> HIDE DEF holders, a
<1>6. FirstOf(subs, holders) \in Ids(subs) \cup {NoId}
  BY <1>2, <1>3, <1>4
<1>7. CASE subs = <<>>
  <2>1. Ids(subs) = {} /\ DOMAIN subs = {}
    BY <1>7 DEF Ids
  <2> QED BY <1>3, <1>5, <1>6, <1>7, <2>1 DEF a
<1>8. CASE subs # <<>>
  <2>0. \A q \in Seq(SubType) : q = <<>> <=> DOMAIN q = {}
    OBVIOUS
  <2>1. DOMAIN subs # {}
    BY <1>8, <2>0
  <2>2. FirstOf(subs, DOMAIN subs) \in Ids(subs)
    BY <1>2, <2>1
  <2>3. a \in Ids(subs) /\ (requested \in Ids(subs) => a = requested)
    BY <1>5, <1>6, <2>2
  <2>4. a \in Nat
    BY <1>1, <2>3 DEF Ids
  <2> QED BY <1>8, <2>3, <2>4 DEF a
<1> QED BY <1>7, <1>8

LEMMA RefreshAllEndsKeeps == BookInv /\ RefreshAllEnds => BookInv'
<1> SUFFICES ASSUME BookInv, RefreshAllEnds PROVE BookInv'
  OBVIOUS
<1> DEFINE id == ResolveActive(shown.subs, shown.active, shown.tag)
           s == WithActive(shown, id, shown.tag)
           p == PruneStale(s.selections, LiveTags(s.subs))
           next == [s EXCEPT !.selections = p]
           flags == refreshing.applied > 0 /\ core.connected
<1>1. /\ refreshing.kind = "all" /\ refreshing' = NoRefresh /\ UNCHANGED <<restart, bookBudget>>
      /\ Show(next, flags)
  BY DEF RefreshAllEnds
<1>2. /\ shown \in ShownType /\ shown.subs \in Seq(SubType) /\ core.connected \in BOOLEAN
      /\ shown.selections \in Picks /\ shown.active \in Nat /\ shown.tag \in Tags
      /\ Distinct(shown.subs) /\ Len(shown.subs) <= MaxSubscriptions
      /\ bookBudget \in BudgetType /\ refreshing.applied \in Nat /\ core \in CoreType
  BY DEF BookInv, BookTyped, ShownType, CoreType, RefreshType
<1>3. /\ id \in Nat
      /\ shown.active \in Ids(shown.subs) => id = shown.active
      /\ shown.subs = <<>> => id = NoId
      /\ shown.subs # <<>> => id \in Ids(shown.subs)
  BY <1>2, ResolveIs
<1> HIDE DEF id
<1>4. /\ s \in ShownType /\ s.subs = shown.subs /\ s.active = id
      /\ s.selections = shown.selections /\ s.edits = shown.edits
      /\ s.nodes = CollectNodes(shown.subs, id) /\ s.tag = SelectAvailable(s.nodes, shown.tag)
      /\ NodesOk(s) /\ TagOk(s) /\ OwnedNodes(s)
  BY <1>2, <1>3, WithActiveIs DEF BookInv
<1> HIDE DEF s
<1>5. p \in Picks
  BY <1>2, <1>4, PruneIs
<1>6. p = PruneStale(shown.selections, LiveTags(shown.subs))
  BY <1>4
<1> HIDE DEF p
<1>7. /\ next \in ShownType /\ next.subs = shown.subs /\ next.active = id /\ next.nodes = s.nodes
      /\ next.tag = s.tag /\ next.selections = p /\ next.edits = shown.edits
  BY <1>4, <1>5 DEF ShownType
<1>8. Show(next, flags) /\ flags \in BOOLEAN
  BY <1>1, <1>2
<1> HIDE DEF next
<1>9. TagOk(next) /\ NodesOk(next) /\ OwnedNodes(next)
  BY <1>4, <1>7 DEF TagOk, NodesOk, OwnedNodes
<1>14. ~crossed /\ ~Calling => ProxyOk(next)
  <2> SUFFICES ASSUME ~crossed, ~Calling PROVE ProxyOk(next)
    OBVIOUS
  <2>1. ProxyOk(shown) /\ OwnedNodes(shown) /\ Owned(shown.subs)
    BY DEF BookInv, Uncrossed
  <2>2. /\ next.nodes = CollectNodes(shown.subs, id)
        /\ next.tag = SelectAvailable(next.nodes, shown.tag)
        /\ next.selections = PruneStale(shown.selections, LiveTags(shown.subs))
    BY <1>4, <1>6, <1>7
  <2> QED BY <1>2, <1>3, <1>7, <2>1, <2>2, PrunedProxy
<1>10. ActiveOk(next)
  BY <1>3, <1>7 DEF ActiveOk
<1>11. ASSUME ~crossed, core.connected, ~flags
       PROVE  Effective(RequestOf(next)) = Effective(RequestOf(shown))
  <2>1. TagOk(shown) /\ ActiveOk(shown) /\ (Steady => NodesOk(shown))
    BY <1>11 DEF BookInv, Uncrossed
  <2>2. NodesOk(shown)
    BY <1>2, <1>11, <2>1 DEF Steady
  <2>3. id = shown.active
    BY <1>3, <2>1 DEF ActiveOk
  <2>4. next.nodes = shown.nodes
    BY <1>4, <1>7, <2>2, <2>3 DEF NodesOk
  <2>5. next.tag = shown.tag
    BY <1>4, <1>7, <2>1, <2>4 DEF TagOk
  <2>6. Range(shown.nodes) \subseteq LiveTags(shown.subs)
    BY <1>2, <2>2, CollectedAre DEF NodesOk
  <2> QED BY <1>2, <1>6, <1>7, <2>4, <2>5, <2>6, PruneSame
<1>12. /\ NoRefresh \in RefreshType /\ NoRefresh.kind = "none"
       /\ NoRefresh.applied + Len(NoRefresh.left) <= MaxSubscriptions
  BY BookBounds DEF NoRefresh, RefreshType
<1>13. \A j \in DOMAIN next.subs : next.subs[j].id \in 1 .. (MaxBookSteps - bookBudget'.steps)
  BY <1>1, <1>7 DEF BookInv, Numbered
<1> HIDE DEF flags
<1>15. Owned(next.subs)
  BY <1>7 DEF BookInv
<1> QED BY <1>1, <1>2, <1>7, <1>8, <1>9, <1>10, <1>11, <1>12, <1>13, <1>14, <1>15, ShowKeeps

LEMMA EditRulesKeeps == BookInv /\ EditRules => BookInv'
<1> SUFFICES ASSUME BookInv, EditRules PROVE BookInv'
  OBVIOUS
<1> DEFINE s == [shown EXCEPT !.edits = shown.edits + 1]
<1>1. /\ SpendStep /\ UNCHANGED <<restart, refreshing>> /\ Show(s, core.connected)
  BY DEF EditRules
<1>2. shown \in ShownType /\ core.connected \in BOOLEAN /\ shown.edits + 1 \in Nat
  BY DEF BookInv, BookTyped, ShownType, CoreType
<1>3. /\ s \in ShownType /\ s.subs = shown.subs /\ s.active = shown.active
      /\ s.nodes = shown.nodes /\ s.tag = shown.tag /\ s.selections = shown.selections
  BY <1>2 DEF ShownType
<1> HIDE DEF s
<1>4. /\ bookBudget' \in BudgetType /\ MaxBookSteps - bookBudget.steps \in Nat
      /\ MaxBookSteps - bookBudget'.steps = (MaxBookSteps - bookBudget.steps) + 1
  BY <1>1, StepSpent
<1>5. \A j \in DOMAIN s.subs : s.subs[j].id \in 1 .. (MaxBookSteps - bookBudget'.steps)
  BY <1>3, <1>4 DEF BookInv, Numbered
<1>6. Distinct(s.subs) /\ Len(s.subs) <= MaxSubscriptions
  BY <1>3 DEF BookInv
<1>7. /\ refreshing' \in RefreshType
      /\ refreshing'.applied + Len(refreshing'.left) <= MaxSubscriptions
      /\ (refreshing'.kind = "none" => refreshing' = NoRefresh)
  BY <1>1 DEF BookInv, BookTyped
<1>8. ~crossed => TagOk(s) /\ ActiveOk(s) /\ (Steady' => NodesOk(s))
  BY <1>1, <1>3 DEF BookInv, Uncrossed, TagOk, ActiveOk, NodesOk, Steady
<1>9. Owned(s.subs) /\ OwnedNodes(s) /\ (~crossed /\ ~Calling => ProxyOk(s))
  BY <1>3 DEF BookInv, Uncrossed, OwnedNodes, ProxyOk
<1> QED BY <1>1, <1>2, <1>3, <1>4, <1>5, <1>6, <1>7, <1>8, <1>9, ShowKeeps

LEMMA PullKeeps == BookInv /\ Pull => BookInv'
<1> SUFFICES ASSUME BookInv, Pull PROVE BookInv'
  OBVIOUS
<1>1. PICK report \in Reports :
         LET subs == IF report.nodes = <<>> THEN <<>>
                     ELSE <<[id |-> 1, source |-> "url",
                             nodes |-> NamespaceNodes(1, report.nodes),
                             resolvers |-> report.resolvers, rejected |-> report.rejected]>>
             s == WithActive([shown EXCEPT !.subs = subs], ResolveActive(subs, NoId, NoTag), NoTag)
         IN Show([s EXCEPT !.selections = SelectProxy(NoSelections, s.tag)], TRUE)
  BY DEF Pull
<1> DEFINE sub == [id |-> 1, source |-> "url", nodes |-> NamespaceNodes(1, report.nodes),
                   resolvers |-> report.resolvers, rejected |-> report.rejected]
           subs == IF report.nodes = <<>> THEN <<>> ELSE <<sub>>
           base == [shown EXCEPT !.subs = subs]
           id == ResolveActive(subs, NoId, NoTag)
           s == WithActive(base, id, NoTag)
           next == [s EXCEPT !.selections = SelectProxy(NoSelections, s.tag)]
<1>2. /\ SpendStep /\ refreshing = NoRefresh /\ UNCHANGED <<restart, refreshing>>
      /\ shown \in ShownType /\ core.connected \in BOOLEAN
  BY DEF Pull, BookInv, BookTyped, CoreType
<1>3. Show(next, TRUE)
  BY <1>1
<1>4. /\ sub \in SubType /\ sub.id = 1
      /\ \A tag \in Range(sub.nodes) : tag[1] = sub.id /\ Namespaced(tag)
  <2>1. sub \in SubType /\ sub.id = 1 /\ sub.nodes = NamespaceNodes(1, report.nodes)
    BY ReportIs, NodesAreTags DEF SubType
  <2>2. report.nodes \in Seq(RawNodes)
    BY ReportIs
  <2> QED BY <2>1, <2>2, NodesAreOwned
<1> HIDE DEF sub
<1>5. /\ subs \in Seq(SubType) /\ Distinct(subs) /\ Len(subs) <= 1
      /\ \A j \in DOMAIN subs : subs[j].id = 1
      /\ Owned(subs)
  <2>1. <<>> \in Seq(SubType) /\ <<sub>> \in Seq(SubType)
    BY <1>4
  <2>2. DOMAIN <<sub>> = {1} /\ <<sub>>[1] = sub /\ Len(<<sub>>) = 1 /\ Len(<<>>) = 0
    OBVIOUS
  <2>3. \A j \in DOMAIN subs : j = 1 /\ subs[j].id = 1 /\ subs[j] = sub
    BY <1>4, <2>2
  <2> QED BY <1>4, <2>1, <2>2, <2>3 DEF Distinct, Owned
<1> HIDE DEF subs
<1>6. base \in ShownType /\ base.subs = subs
  BY <1>2, <1>5 DEF ShownType
<1> HIDE DEF base
<1>7. id \in Nat /\ (subs = <<>> => id = NoId) /\ (subs # <<>> => id \in Ids(subs))
  <2>1. NoId \in Nat
    BY DEF NoId
  <2> QED BY <1>5, <2>1, ResolveIs
<1> HIDE DEF id
<1>8. /\ s \in ShownType /\ s.subs = subs /\ s.active = id /\ NodesOk(s) /\ TagOk(s)
      /\ OwnedNodes(s)
  BY <1>5, <1>6, <1>7, NoTagIn, WithActiveIs
<1> HIDE DEF s
<1>9. SelectProxy(NoSelections, s.tag) \in Picks
  BY <1>8, NoSelectionsIn, SelectProxyIs DEF ShownType
<1>10. /\ next \in ShownType /\ next.subs = subs /\ next.active = id /\ next.nodes = s.nodes
       /\ next.tag = s.tag /\ next.selections = SelectProxy(NoSelections, s.tag)
  BY <1>8, <1>9 DEF ShownType
<1> HIDE DEF next
<1>11. TagOk(next) /\ NodesOk(next) /\ ActiveOk(next) /\ OwnedNodes(next)
  BY <1>7, <1>8, <1>10 DEF TagOk, NodesOk, ActiveOk, OwnedNodes
<1>16. ProxyOk(next) /\ Owned(next.subs)
  BY <1>5, <1>10, <1>11, NoSelectionsIn, ProxySelected
<1>12. /\ bookBudget' \in BudgetType /\ MaxBookSteps - bookBudget.steps \in Nat
       /\ MaxBookSteps - bookBudget'.steps = (MaxBookSteps - bookBudget.steps) + 1
  BY <1>2, StepSpent
<1>13. \A j \in DOMAIN next.subs : next.subs[j].id \in 1 .. (MaxBookSteps - bookBudget'.steps)
  BY <1>5, <1>10, <1>12
<1>14. Distinct(next.subs) /\ Len(next.subs) <= MaxSubscriptions
  <2>1. Len(subs) \in Nat
    BY <1>5
  <2> QED BY <1>5, <1>10, <2>1, BookBounds
<1>15. /\ refreshing' \in RefreshType
       /\ refreshing'.applied + Len(refreshing'.left) <= MaxSubscriptions
       /\ (refreshing'.kind = "none" => refreshing' = NoRefresh)
  BY <1>2 DEF BookInv, BookTyped
<1> QED BY <1>2, <1>3, <1>10, <1>11, <1>12, <1>13, <1>14, <1>15, <1>16, ShowKeeps

-----------------------------------------------------------------------------
(* A restart: what was shown before can come back.                          *)
LEMMA BegunIs ==
    ASSUME BookInv, NEW kind \in {"connect", "switch", "member"}, NEW request \in RequestType,
           NEW before \in ShownType, BeginRestart(kind, request, before),
           kind # "member" => bookBudget.steps > 0
    PROVE  /\ restart' \in BegunType /\ restart'.kind = kind /\ restart'.request = request
           /\ restart'.before = before /\ Restarting' /\ ~Calling'
           /\ bookBudget' \in BudgetType /\ bookBudget'.steps <= bookBudget.steps
<1>1. bookBudget \in BudgetType
  BY DEF BookInv, BookTyped
<1> DEFINE steps == IF kind = "member" THEN bookBudget.steps ELSE bookBudget.steps - 1
<1>2. /\ bookBudget' = [bookBudget EXCEPT !.restarts = bookBudget.restarts - 1, !.steps = steps]
      /\ restart' = [kind |-> kind, request |-> request, before |-> before]
      /\ bookBudget.restarts > 0
  BY DEF BeginRestart
<1>3. /\ restart' \in BegunType /\ restart'.kind = kind /\ restart'.request = request
      /\ restart'.before = before
  BY <1>2 DEF BegunType
<1>4. Restarting' /\ ~Calling'
  <2>1. NoRestart.kind = "none"
    BY DEF NoRestart
  <2>2. restart'.kind # "none" /\ restart'.kind # "call"
    BY <1>3
  <2> QED BY <2>1, <2>2 DEF Restarting, Calling, NoRestart
<1>5. steps \in 0 .. MaxBookSteps /\ bookBudget.restarts - 1 \in 0 .. MaxRestarts
      /\ steps <= bookBudget.steps
  BY <1>1, <1>2, BookBounds DEF BudgetType
<1> HIDE DEF steps
<1>6. bookBudget' \in BudgetType /\ bookBudget'.steps = steps
  BY <1>1, <1>2, <1>5 DEF BudgetType
<1> QED BY <1>3, <1>4, <1>5, <1>6

(* Steps that keep the subscriptions and the refresh.                       *)
LEMMA FramedKeeps ==
    ASSUME BookInv, shown' \in ShownType, shown'.subs = shown.subs, core' \in CoreType,
           restart' = NoRestart \/ restart' \in BegunType \/ restart' \in CallType,
           UNCHANGED refreshing, crossed' \in BOOLEAN,
           bookBudget' \in BudgetType, bookBudget'.steps <= bookBudget.steps,
           OwnedNodes(shown)', Restarting' => OwnedNodes(restart.before)',
           ~crossed' => Uncrossed'
    PROVE  BookInv'
<1>1. BookTyped'
  BY DEF BookInv, BookTyped
<1>2. Numbered(shown.subs)'
  <2> SUFFICES ASSUME NEW j \in DOMAIN shown.subs
               PROVE  shown.subs[j].id \in 1 .. (MaxBookSteps - bookBudget'.steps)
    BY DEF Numbered
  <2>1. shown.subs[j].id \in 1 .. (MaxBookSteps - bookBudget.steps)
    BY DEF BookInv, Numbered
  <2>2. bookBudget.steps \in Int /\ bookBudget'.steps \in Int /\ MaxBookSteps \in Int
    BY BookBounds DEF BookInv, BookTyped, BudgetType
  <2> QED BY <2>1, <2>2
<1>3. Owned(shown.subs)'
  BY DEF BookInv, Owned
<1> QED BY <1>1, <1>2, <1>3 DEF BookInv

LEMMA SpentIsLess ==
    ASSUME BookInv, SpendStep
    PROVE  bookBudget' \in BudgetType /\ bookBudget'.steps <= bookBudget.steps
<1>1. bookBudget \in BudgetType /\ bookBudget' = [bookBudget EXCEPT !.steps = bookBudget.steps - 1]
  BY DEF SpendStep, BookInv, BookTyped
<1>2. bookBudget'.steps = bookBudget.steps - 1 /\ bookBudget.steps \in Int
  BY <1>1 DEF BudgetType
<1> QED BY <1>2, StepSpent

LEMMA ConnectKeeps == BookInv /\ Connect => BookInv'
<1> SUFFICES ASSUME BookInv, Connect PROVE BookInv'
  OBVIOUS
<1>1. /\ ~Restarting /\ bookBudget.steps > 0 /\ BeginRestart("connect", RequestOf(shown), shown)
      /\ UNCHANGED <<shown, core, refreshing, crossed>>
      /\ shown \in ShownType /\ core \in CoreType /\ crossed \in BOOLEAN
      /\ ~Calling /\ OwnedNodes(shown)
  BY RestartIs DEF Connect, BookInv, BookTyped
<1>2. /\ restart' \in BegunType /\ restart'.kind = "connect" /\ restart'.request = RequestOf(shown)
      /\ restart'.before = shown /\ Restarting' /\ ~Calling'
      /\ bookBudget' \in BudgetType /\ bookBudget'.steps <= bookBudget.steps
  BY <1>1, RequestIs, BegunIs
<1>3. ASSUME ~crossed PROVE Uncrossed'
  <2>1. Uncrossed /\ ProxyOk(shown)
    BY <1>1, <1>3 DEF BookInv, Uncrossed
  <2>2. TagOk(shown)' /\ ActiveOk(shown)' /\ (Steady' => NodesOk(shown)') /\ ProxyOk(shown)'
    BY <1>1, <2>1 DEF Uncrossed, TagOk, ActiveOk, NodesOk, Steady, ProxyOk
  <2>3. RestartInv'
    BY <1>1, <1>2, <2>1 DEF Uncrossed, RestartInv, TagOk, ActiveOk, NodesOk, ProxyOk, SameRun,
                            Steady
  <2> QED BY <1>2, <2>2, <2>3 DEF Uncrossed
<1>4. OwnedNodes(shown)' /\ OwnedNodes(restart.before)'
  BY <1>1, <1>2 DEF OwnedNodes
<1> QED BY <1>1, <1>2, <1>3, <1>4, FramedKeeps

LEMMA SwitchKeeps ==
    ASSUME BookInv, NEW id \in Ids(shown.subs), Switch(id)
    PROVE  BookInv'
<1> DEFINE s == WithActive(shown, id, NoTag)
           next == [s EXCEPT !.selections = SelectProxy(NoSelections, s.tag)]
<1>1. /\ ~Restarting /\ bookBudget.steps > 0 /\ shown' = next
      /\ IF core.connected THEN BeginRestart("switch", RequestOf(next), shown)
         ELSE SpendStep /\ UNCHANGED restart
      /\ UNCHANGED <<core, refreshing>>
      /\ crossed' = (crossed \/ (core.connected /\ refreshing # NoRefresh))
      /\ shown \in ShownType /\ shown.subs \in Seq(SubType) /\ core \in CoreType
      /\ crossed \in BOOLEAN /\ core.connected \in BOOLEAN
      /\ restart = NoRestart /\ ~Calling /\ Owned(shown.subs) /\ OwnedNodes(shown)
  BY RestartIs DEF Switch, BookInv, BookTyped, ShownType, CoreType, Restarting
<1>2. id \in Nat
  <2>1. \A k \in DOMAIN shown.subs : shown.subs[k] \in SubType
    BY <1>1
  <2> QED BY <2>1 DEF Ids, SubType
<1>3. /\ s \in ShownType /\ s.subs = shown.subs /\ s.active = id /\ NodesOk(s) /\ TagOk(s)
      /\ s.edits = shown.edits /\ OwnedNodes(s)
  BY <1>1, <1>2, NoTagIn, WithActiveIs
<1> HIDE DEF s
<1>4. SelectProxy(NoSelections, s.tag) \in Picks
  BY <1>3, NoSelectionsIn, SelectProxyIs DEF ShownType
<1>5. /\ next \in ShownType /\ next.subs = shown.subs /\ next.active = id /\ next.nodes = s.nodes
      /\ next.tag = s.tag /\ next.edits = shown.edits
      /\ next.selections = SelectProxy(NoSelections, s.tag)
  BY <1>3, <1>4 DEF ShownType
<1>6. shown' = next
  BY <1>1
<1>7. IF core.connected THEN BeginRestart("switch", RequestOf(next), shown)
      ELSE SpendStep /\ UNCHANGED restart
  BY <1>1
<1> HIDE DEF next
<1>8. TagOk(next) /\ NodesOk(next) /\ OwnedNodes(next)
  BY <1>3, <1>5 DEF TagOk, NodesOk, OwnedNodes
<1>9. ActiveOk(next)
  <2>1. shown.subs # <<>>
    BY DEF Ids
  <2> QED BY <1>5, <2>1 DEF ActiveOk
<1>12. ProxyOk(next)
  BY <1>5, <1>8, NoSelectionsIn, ProxySelected
<1>13. /\ TagOk(shown)' /\ ActiveOk(shown)' /\ NodesOk(shown)' /\ ProxyOk(shown)'
       /\ OwnedNodes(shown)'
  BY <1>6, <1>8, <1>9, <1>12 DEF TagOk, ActiveOk, NodesOk, ProxyOk, OwnedNodes
<1>14. crossed' \in BOOLEAN
  BY <1>1
<1>10. CASE core.connected
  <2>1. BeginRestart("switch", RequestOf(next), shown)
    BY <1>7, <1>10
  <2>2. /\ restart' \in BegunType /\ restart'.kind = "switch" /\ restart'.request = RequestOf(next)
        /\ restart'.before = shown /\ Restarting' /\ ~Calling'
        /\ bookBudget' \in BudgetType /\ bookBudget'.steps <= bookBudget.steps
    BY <1>1, <1>5, <2>1, RequestIs, BegunIs
  <2>3. ASSUME ~crossed' PROVE Uncrossed'
    <3>3. refreshing = NoRefresh /\ ~crossed
      BY <1>1, <1>10, <2>3
    <3>4. Uncrossed
      BY <3>3 DEF BookInv
    <3>1. Uncrossed /\ Steady
      BY <3>3, <3>4 DEF Steady, NoRefresh
    <3>2. RestartInv'
      BY <1>1, <1>5, <1>6, <2>2, <3>1 DEF Uncrossed, RestartInv, TagOk, ActiveOk, NodesOk, ProxyOk,
                                      SameRun
    <3> QED BY <1>13, <2>2, <3>2 DEF Uncrossed
  <2>4. OwnedNodes(restart.before)'
    BY <1>1, <2>2 DEF OwnedNodes
  <2> QED BY <1>1, <1>5, <1>6, <1>13, <1>14, <2>2, <2>3, <2>4, FramedKeeps
<1>11. CASE ~core.connected
  <2>1. /\ bookBudget' \in BudgetType /\ bookBudget'.steps <= bookBudget.steps
        /\ restart' = NoRestart /\ ~Restarting' /\ ~Calling'
    <3>1. restart' = NoRestart /\ SpendStep
      BY <1>1, <1>7, <1>11
    <3> QED BY <1>1, <3>1, SpentIsLess DEF Restarting, Calling
  <2>2. ~core'.connected
    BY <1>1, <1>11
  <2>3. ~crossed' => Uncrossed'
    BY <1>13, <2>1, <2>2 DEF Uncrossed
  <2> QED BY <1>1, <1>5, <1>6, <1>13, <1>14, <2>1, <2>3, FramedKeeps
<1> QED BY <1>10, <1>11

LEMMA SelectMemberKeeps ==
    ASSUME BookInv, NEW g \in GroupNames, NEW tag \in Range(shown.nodes), SelectMember(g, tag)
    PROVE  BookInv'
<1> DEFINE next == Chosen(shown, g, tag)
           told == [shown EXCEPT !.tag = IF g = "proxy" THEN tag ELSE shown.tag]
           call == [kind |-> "call", group |-> g, tag |-> tag, told |-> FALSE, before |-> shown]
<1>1. /\ ~Restarting /\ restart = NoRestart /\ ~Calling /\ SpendStep
      /\ UNCHANGED <<core, refreshing, crossed>>
      /\ shown \in ShownType /\ core \in CoreType /\ core.connected \in BOOLEAN
      /\ shown.nodes \in Seq(Tags) /\ crossed \in BOOLEAN /\ OwnedNodes(shown)
  BY RestartIs DEF SelectMember, BookInv, BookTyped, CoreType, Restarting, ShownType
<1>2. IF core.connected THEN shown' = told /\ restart' = call
      ELSE shown' = next /\ UNCHANGED restart
  BY DEF SelectMember
<1>3. tag \in Tags
  BY <1>1 DEF Range
<1>4. /\ next \in ShownType /\ next.subs = shown.subs /\ next.active = shown.active
      /\ next.nodes = shown.nodes /\ next.edits = shown.edits
      /\ next.tag = (IF g = "proxy" THEN tag ELSE shown.tag)
  BY <1>1, <1>3, ChosenIs
<1>5. /\ told \in ShownType /\ told.subs = shown.subs /\ told.active = shown.active
      /\ told.nodes = shown.nodes /\ told.edits = shown.edits
      /\ told.tag = (IF g = "proxy" THEN tag ELSE shown.tag)
      /\ told.selections = shown.selections
  BY <1>1, <1>3 DEF ShownType
<1>6. bookBudget' \in BudgetType /\ bookBudget'.steps <= bookBudget.steps
  BY <1>1, SpentIsLess
<1>7. ASSUME ~crossed
      PROVE  /\ Uncrossed /\ TagOk(shown) /\ ActiveOk(shown) /\ (Steady => NodesOk(shown))
             /\ ProxyOk(shown)
  BY <1>1, <1>7 DEF BookInv, Uncrossed
<1>8. CASE core.connected
  <2>1. shown' = told /\ restart' = call
    BY <1>2, <1>8
  <2>2. /\ restart' \in CallType /\ restart'.before = shown /\ ~restart'.told
        /\ restart'.group = g /\ restart'.tag = tag /\ restart'.kind = "call"
    BY <1>1, <1>3, <2>1 DEF CallType
  <2>3. Restarting' /\ Calling'
    BY <2>2 DEF Restarting, Calling, NoRestart
  <2> HIDE DEF told, call
  <2>4. OwnedNodes(shown)' /\ OwnedNodes(restart.before)'
    BY <1>1, <1>5, <2>1, <2>2 DEF OwnedNodes
  <2>5. ASSUME ~crossed PROVE Uncrossed'
    <3>1. told.tag = next.tag
      BY <1>4, <1>5
    <3>2. TagOk(told)
      BY <1>1, <1>5, <1>7, <2>5, <3>1, ChosenOk
    <3>3. TagOk(shown)' /\ ActiveOk(shown)' /\ (Steady' => NodesOk(shown)')
      BY <1>1, <1>5, <1>7, <2>1, <2>5, <3>2 DEF TagOk, ActiveOk, NodesOk, Steady
    <3>4. Wanted' = next /\ Asks' = shown
      BY <2>2 DEF Wanted, Asks
    <3>6. core'.connected /\ ~core'.pending => SameRun(core.runs, Asks)'
      BY <1>1, <1>7, <2>5, <3>4 DEF Uncrossed, SameRun
    <3>7. CallInv'
      <4>1. TagOk(restart.before)' /\ ActiveOk(restart.before)' /\ ProxyOk(restart.before)'
        BY <1>7, <2>2, <2>5 DEF TagOk, ActiveOk, ProxyOk
      <4>2. (Steady => NodesOk(restart.before))'
        BY <1>1, <1>7, <2>2, <2>5 DEF Steady, NodesOk
      <4>3. shown'.tag = Wanted'.tag
        BY <2>1, <3>1, <3>4
      <4> HIDE DEF next
      <4> QED BY <1>5, <2>1, <2>2, <3>6, <4>1, <4>2, <4>3 DEF CallInv
    <3> QED BY <2>3, <3>3, <3>7 DEF Uncrossed
  <2> QED BY <1>1, <1>5, <1>6, <2>1, <2>2, <2>4, <2>5, FramedKeeps
<1>9. CASE ~core.connected
  <2>1. shown' = next /\ restart' = NoRestart /\ ~Restarting' /\ ~Calling'
    BY <1>1, <1>2, <1>9 DEF Restarting, Calling
  <2> HIDE DEF told, call
  <2>2. ASSUME ~crossed PROVE Uncrossed'
    <3>1. TagOk(next) /\ ProxyOk(next)
      BY <1>1, <1>4, <1>7, <2>2, ChosenOk
    <3> HIDE DEF next
    <3>2. /\ TagOk(shown)' /\ ActiveOk(shown)' /\ (Steady' => NodesOk(shown)') /\ ProxyOk(shown)'
      BY <1>1, <1>4, <1>7, <2>1, <2>2, <3>1 DEF TagOk, ActiveOk, NodesOk, ProxyOk, Steady
    <3> QED BY <1>1, <1>9, <2>1, <3>2 DEF Uncrossed
  <2> HIDE DEF next
  <2>3. OwnedNodes(shown)'
    BY <1>1, <1>4, <2>1 DEF OwnedNodes
  <2> QED BY <1>1, <1>4, <1>6, <2>1, <2>2, <2>3, FramedKeeps
<1> QED BY <1>1, <1>8, <1>9

(* What is known of a call in flight.                                       *)
LEMMA CallIs ==
    ASSUME BookInv, Calling
    PROVE  /\ restart \in CallType /\ Restarting /\ OwnedNodes(restart.before)
           /\ restart.before \in ShownType /\ restart.tag \in Tags /\ restart.group \in GroupNames
           /\ restart.told \in BOOLEAN /\ shown \in ShownType /\ core \in CoreType
           /\ core.runs \in RequestType /\ crossed \in BOOLEAN
           /\ bookBudget \in BudgetType /\ bookBudget.steps <= bookBudget.steps
           /\ OwnedNodes(shown) /\ Wanted \in ShownType /\ Wanted.nodes = restart.before.nodes
           /\ Wanted.subs = restart.before.subs /\ Wanted.active = restart.before.active
           /\ Wanted.edits = restart.before.edits
           /\ RequestOf(Wanted) = Chosen(RequestOf(restart.before), restart.group, restart.tag)
<1>1. /\ restart \in CallType /\ Restarting /\ OwnedNodes(restart.before)
      /\ OwnedNodes(shown) /\ shown \in ShownType /\ core \in CoreType /\ crossed \in BOOLEAN
      /\ bookBudget \in BudgetType
  BY RestartIs DEF BookInv, BookTyped
<1>2. /\ restart.before \in ShownType /\ restart.tag \in Tags /\ restart.group \in GroupNames
      /\ restart.told \in BOOLEAN
  BY <1>1 DEF CallType
<1>3. core.runs \in RequestType /\ bookBudget.steps <= bookBudget.steps
  BY <1>1 DEF CoreType, BudgetType
<1>4. /\ Wanted \in ShownType /\ Wanted.nodes = restart.before.nodes
      /\ Wanted.subs = restart.before.subs /\ Wanted.active = restart.before.active
      /\ Wanted.edits = restart.before.edits
      /\ RequestOf(Wanted) = Chosen(RequestOf(restart.before), restart.group, restart.tag)
  BY <1>2, ChosenIs DEF Wanted
<1> QED BY <1>1, <1>2, <1>3, <1>4

LEMMA CallReachesKeeps == BookInv /\ CallReaches => BookInv'
<1> SUFFICES ASSUME BookInv, CallReaches PROVE BookInv'
  OBVIOUS
<1> DEFINE g == restart.group
           tag == restart.tag
           runs == Chosen(core.runs, g, tag)
<1>1. /\ Calling /\ ~restart.told /\ restart' = [restart EXCEPT !.told = TRUE]
      /\ core' = [core EXCEPT !.runs = runs]
      /\ UNCHANGED <<shown, refreshing, crossed, bookBudget>>
  BY DEF CallReaches
<1>2. runs \in RequestType
  BY <1>1, CallIs, ChosenIs
<1> HIDE DEF runs
<1>3. /\ core' \in CoreType /\ core'.connected = core.connected /\ core'.pending = core.pending
      /\ core'.runs = runs
  BY <1>1, <1>2, CallIs DEF CoreType
<1>4. /\ restart' \in CallType /\ restart'.before = restart.before /\ restart'.told
      /\ restart'.group = g /\ restart'.tag = tag /\ restart'.kind = "call"
  BY <1>1, CallIs DEF CallType
<1>5. Restarting' /\ Calling' /\ Wanted' = Wanted /\ Asks' = Wanted
  BY <1>4 DEF Restarting, Calling, NoRestart, Wanted, Asks
<1>6. ASSUME ~crossed PROVE Uncrossed'
  <2>1. Uncrossed /\ CallInv
    BY <1>1, <1>6 DEF BookInv, Uncrossed
  <2>2. ASSUME core.connected, ~core.pending PROVE Effective(runs) = Effective(RequestOf(Wanted))
    <3>1. Effective(core.runs) = Effective(RequestOf(restart.before))
      BY <1>1, <2>1, <2>2 DEF CallInv, SameRun, Asks
    <3>2. RequestOf(restart.before) \in RequestType
          /\ tag \in Range(RequestOf(restart.before).nodes)
      BY <1>1, <2>1, CallIs, RequestIs DEF CallInv
    <3>3. Effective(Chosen(core.runs, g, tag))
            = Effective(Chosen(RequestOf(restart.before), g, tag))
      BY <1>1, <3>1, <3>2, CallIs, ChosenSame
    <3> QED BY <1>1, <3>3, CallIs DEF runs
  <2>3. core'.connected /\ ~core'.pending => SameRun(core.runs, Asks)'
    BY <1>3, <1>5, <2>2 DEF SameRun
  <2>4. CallInv'
    <3>1. TagOk(restart.before)' /\ ActiveOk(restart.before)' /\ ProxyOk(restart.before)'
      BY <1>4, <2>1 DEF CallInv, TagOk, ActiveOk, ProxyOk
    <3>2. (Steady => NodesOk(restart.before))'
      BY <1>1, <1>4, <2>1 DEF CallInv, Steady, NodesOk
    <3> QED BY <1>1, <1>4, <1>5, <2>1, <2>3, <3>1, <3>2 DEF CallInv
  <2>5. TagOk(shown)' /\ ActiveOk(shown)' /\ (Steady' => NodesOk(shown)')
    BY <1>1, <2>1 DEF Uncrossed, TagOk, ActiveOk, NodesOk, Steady
  <2> QED BY <1>5, <2>4, <2>5 DEF Uncrossed
<1>7. OwnedNodes(shown)' /\ OwnedNodes(restart.before)'
  BY <1>1, <1>4, CallIs DEF OwnedNodes
<1> QED BY <1>1, <1>3, <1>4, <1>6, <1>7, CallIs, FramedKeeps

(* What a call leaves shown, whether it worked or not.                      *)
LEMMA CallEndIs ==
    ASSUME BookInv, Calling, NEW next, next = [shown EXCEPT !.selections = Wanted.selections]
    PROVE  /\ next \in ShownType /\ next.subs = shown.subs /\ next.nodes = shown.nodes
           /\ next.active = shown.active /\ next.edits = shown.edits /\ OwnedNodes(next)
           /\ ~crossed => /\ TagOk(next) /\ ActiveOk(next) /\ (Steady => NodesOk(next))
                          /\ ProxyOk(next) /\ RequestOf(next) = RequestOf(Wanted) /\ CallInv
<1>1. Wanted.selections \in Picks
  BY CallIs DEF ShownType
<1>2. /\ next \in ShownType /\ next.subs = shown.subs /\ next.nodes = shown.nodes
      /\ next.active = shown.active /\ next.edits = shown.edits /\ next.tag = shown.tag
      /\ next.selections = Wanted.selections
  BY <1>1, CallIs DEF ShownType
<1>3. OwnedNodes(next)
  BY <1>2, CallIs DEF OwnedNodes
<1>4. ASSUME ~crossed
      PROVE  /\ TagOk(next) /\ ActiveOk(next) /\ (Steady => NodesOk(next))
             /\ ProxyOk(next) /\ RequestOf(next) = RequestOf(Wanted) /\ CallInv
  <2>1. CallInv /\ TagOk(shown) /\ ActiveOk(shown) /\ (Steady => NodesOk(shown))
    BY <1>4 DEF BookInv, Uncrossed
  <2>2. TagOk(next) /\ ActiveOk(next) /\ (Steady => NodesOk(next))
    BY <1>2, <2>1 DEF TagOk, ActiveOk, NodesOk
  <2>3. next.nodes = Wanted.nodes /\ next.tag = Wanted.tag /\ next.edits = Wanted.edits
    BY <1>2, <2>1, CallIs DEF CallInv
  <2>4. RequestOf(next) = RequestOf(Wanted)
    BY <1>2, <2>3 DEF RequestOf
  <2>5. ProxyOk(next)
    <3>1. /\ restart.before \in ShownType /\ restart.group \in GroupNames
          /\ restart.tag \in Range(restart.before.nodes)
          /\ TagOk(restart.before) /\ ProxyOk(restart.before)
          /\ next.nodes = restart.before.nodes
      BY <1>2, <2>1, CallIs DEF CallInv
    <3>2. next.tag = Chosen(restart.before, restart.group, restart.tag).tag
          /\ next.selections = Chosen(restart.before, restart.group, restart.tag).selections
      BY <1>2, <2>3 DEF Wanted
    <3> QED BY <1>2, <3>1, <3>2, ChosenOk
  <2> QED BY <2>1, <2>2, <2>4, <2>5
<1> QED BY <1>2, <1>3, <1>4

LEMMA CallAnsweredKeeps == BookInv /\ CallAnswered => BookInv'
<1> SUFFICES ASSUME BookInv, CallAnswered PROVE BookInv'
  OBVIOUS
<1> DEFINE next == [shown EXCEPT !.selections = Wanted.selections]
<1>1. /\ Calling /\ restart.told /\ restart' = NoRestart /\ shown' = next
      /\ UNCHANGED <<core, refreshing, crossed, bookBudget>>
  BY DEF CallAnswered
<1>2. /\ next \in ShownType /\ next.subs = shown.subs /\ OwnedNodes(next)
      /\ ~crossed => /\ TagOk(next) /\ ActiveOk(next) /\ (Steady => NodesOk(next))
                     /\ ProxyOk(next) /\ RequestOf(next) = RequestOf(Wanted) /\ CallInv
  BY <1>1, CallEndIs
<1> HIDE DEF next
<1>3. ~Restarting' /\ ~Calling'
  BY <1>1 DEF Restarting, Calling, NoRestart
<1>4. ASSUME ~crossed PROVE Uncrossed'
  <2>1. /\ TagOk(shown)' /\ ActiveOk(shown)' /\ (Steady' => NodesOk(shown)') /\ ProxyOk(shown)'
    BY <1>1, <1>2, <1>4 DEF TagOk, ActiveOk, NodesOk, ProxyOk, Steady
  <2>2. core'.connected /\ ~core'.pending => SameRun(core.runs, shown)'
    BY <1>1, <1>2, <1>4 DEF CallInv, Asks, SameRun
  <2> QED BY <1>3, <2>1, <2>2 DEF Uncrossed
<1>5. OwnedNodes(shown)'
  BY <1>1, <1>2 DEF OwnedNodes
<1> QED BY <1>1, <1>2, <1>3, <1>4, <1>5, CallIs, FramedKeeps

LEMMA CallFailsKeeps == BookInv /\ CallFails => BookInv'
<1> SUFFICES ASSUME BookInv, CallFails PROVE BookInv'
  OBVIOUS
<1> DEFINE next == [shown EXCEPT !.selections = Wanted.selections]
           request == [RequestOf(next) EXCEPT !.nodes = restart.before.nodes]
<1>1. /\ Calling /\ shown' = next /\ BeginRestart("member", request, restart.before)
      /\ crossed' = (crossed \/ restart.told) /\ UNCHANGED <<core, refreshing>>
  BY DEF CallFails
<1>2. /\ next \in ShownType /\ next.subs = shown.subs /\ OwnedNodes(next)
      /\ next.nodes = shown.nodes /\ next.active = shown.active /\ next.edits = shown.edits
      /\ ~crossed => /\ TagOk(next) /\ ActiveOk(next) /\ (Steady => NodesOk(next))
                     /\ ProxyOk(next) /\ RequestOf(next) = RequestOf(Wanted) /\ CallInv
  BY <1>1, CallEndIs
<1> HIDE DEF next
<1>3. /\ request \in RequestType
      /\ next.nodes = restart.before.nodes => request = RequestOf(next)
  <2>1. RequestOf(next) \in RequestType /\ RequestOf(next).nodes = next.nodes
    BY <1>2, RequestIs
  <2>2. restart.before.nodes \in Seq(Tags)
    BY <1>1, CallIs DEF ShownType
  <2> QED BY <2>1, <2>2 DEF RequestType
<1> HIDE DEF request
<1>4. PICK before \in ShownType : before = restart.before /\ OwnedNodes(before)
  BY <1>1, CallIs
<1>5. BeginRestart("member", request, before)
  BY <1>1, <1>4
<1>6. PICK r \in RequestType : r = request /\ BeginRestart("member", r, before)
  BY <1>3, <1>5
<1>7. /\ restart' \in BegunType /\ restart'.kind = "member" /\ restart'.request = r
      /\ restart'.before = before /\ Restarting' /\ ~Calling'
      /\ bookBudget' \in BudgetType /\ bookBudget'.steps <= bookBudget.steps
  BY <1>4, <1>6, BegunIs
<1>8. ASSUME ~crossed' PROVE Uncrossed'
  <2>1. ~crossed /\ ~restart.told
    BY <1>1, <1>8
  <2>2. /\ TagOk(shown)' /\ ActiveOk(shown)' /\ (Steady' => NodesOk(shown)') /\ ProxyOk(shown)'
    BY <1>1, <1>2, <2>1 DEF TagOk, ActiveOk, NodesOk, ProxyOk, Steady
  <2>3. /\ next.subs = before.subs /\ next.edits = before.edits /\ next.active = before.active
        /\ next.nodes = before.nodes /\ r = RequestOf(next)
        /\ TagOk(before) /\ ActiveOk(before) /\ ProxyOk(before) /\ (Steady => NodesOk(before))
        /\ core.connected /\ ~core.pending => SameRun(core.runs, before)
    BY <1>2, <1>3, <1>4, <1>6, <2>1 DEF CallInv, Asks
  <2>4. RestartInv'
    <3>1. TagOk(restart.before)' /\ ActiveOk(restart.before)' /\ ProxyOk(restart.before)'
          /\ (Steady => NodesOk(restart.before))'
      BY <1>1, <1>7, <2>3 DEF TagOk, ActiveOk, ProxyOk, NodesOk, Steady
    <3>2. restart'.request = RequestOf(shown)'
      BY <1>1, <1>7, <2>3 DEF RequestOf
    <3>3. (core.connected /\ ~core.pending => SameRun(core.runs, restart.before))'
      BY <1>1, <1>7, <2>3 DEF SameRun
    <3> QED BY <1>1, <1>7, <2>3, <3>1, <3>2, <3>3 DEF RestartInv
  <2> QED BY <1>7, <2>2, <2>4 DEF Uncrossed
<1>9. OwnedNodes(shown)' /\ OwnedNodes(restart.before)' /\ crossed' \in BOOLEAN
  BY <1>1, <1>2, <1>4, <1>7, CallIs DEF OwnedNodes
<1> QED BY <1>1, <1>2, <1>7, <1>8, <1>9, CallIs, FramedKeeps

LEMMA RestartWorksKeeps == BookInv /\ RestartWorks => BookInv'
<1> SUFFICES ASSUME BookInv, RestartWorks PROVE BookInv'
  OBVIOUS
<1>1. /\ Restarting /\ ~Calling /\ restart' = NoRestart
      /\ UNCHANGED <<shown, refreshing, crossed, bookBudget>>
      /\ core' = [connected |-> TRUE, pending |-> FALSE, runs |-> restart.request]
  BY DEF RestartWorks, Accepted
<1>2. /\ restart \in BegunType /\ bookBudget \in BudgetType /\ shown \in ShownType
      /\ crossed \in BOOLEAN /\ OwnedNodes(shown)
  BY <1>1, RestartIs DEF BookInv, BookTyped
<1>3. core' \in CoreType /\ core'.runs = restart.request
  BY <1>1, <1>2 DEF CoreType, BegunType
<1>6. ~Restarting' /\ ~Calling'
  BY <1>1 DEF Restarting, Calling, NoRestart
<1>4. ASSUME ~crossed PROVE Uncrossed'
  <2>1. Uncrossed /\ RestartInv /\ ProxyOk(shown)
    BY <1>1, <1>4 DEF BookInv, Uncrossed
  <2>2. TagOk(shown)' /\ ActiveOk(shown)' /\ (Steady' => NodesOk(shown)') /\ ProxyOk(shown)'
    BY <1>1, <2>1 DEF Uncrossed, TagOk, ActiveOk, NodesOk, ProxyOk, Steady
  <2>3. SameRun(core.runs, shown)'
    BY <1>1, <1>3, <2>1 DEF RestartInv, SameRun
  <2> QED BY <1>6, <2>2, <2>3 DEF Uncrossed
<1>5. /\ bookBudget' \in BudgetType /\ bookBudget'.steps <= bookBudget.steps
      /\ OwnedNodes(shown)'
  BY <1>1, <1>2 DEF BudgetType, OwnedNodes
<1> QED BY <1>1, <1>2, <1>3, <1>4, <1>5, <1>6, FramedKeeps

LEMMA RestartFailsKeeps == BookInv /\ RestartFails => BookInv'
<1> SUFFICES ASSUME BookInv, RestartFails PROVE BookInv'
  OBVIOUS
<1>1. /\ Restarting /\ ~Calling /\ restart' = NoRestart
      /\ UNCHANGED <<refreshing, crossed, bookBudget>>
      /\ shown' = PutBack(shown, restart.before, restart.kind)
      /\ \/ UNCHANGED core
         \/ core' = [core EXCEPT !.connected = FALSE]
  BY DEF RestartFails
<1>2. /\ restart \in BegunType /\ bookBudget \in BudgetType /\ shown \in ShownType
      /\ core \in CoreType /\ crossed \in BOOLEAN
      /\ OwnedNodes(shown) /\ OwnedNodes(restart.before)
  BY <1>1, RestartIs DEF BookInv, BookTyped
<1>3. restart.before \in ShownType /\ restart.kind \in {"connect", "switch", "member"}
  BY <1>2 DEF BegunType
<1>4. /\ core' \in CoreType /\ core'.runs = core.runs /\ core'.pending = core.pending
      /\ core'.connected => core.connected
  BY <1>1, <1>2 DEF CoreType
<1>5. /\ shown' \in ShownType /\ shown'.subs = shown.subs /\ shown'.edits = shown.edits
      /\ restart.kind = "switch" =>
           /\ shown'.active = restart.before.active /\ shown'.nodes = restart.before.nodes
           /\ shown'.tag = restart.before.tag /\ shown'.selections = restart.before.selections
      /\ restart.kind = "member" =>
           /\ shown'.active = shown.active /\ shown'.nodes = shown.nodes
           /\ shown'.tag = restart.before.tag /\ shown'.selections = restart.before.selections
      /\ restart.kind = "connect" => shown' = shown
  BY <1>1, <1>2, <1>3 DEF PutBack, ShownType
<1>8. ~Restarting' /\ ~Calling'
  BY <1>1 DEF Restarting, Calling, NoRestart
<1>6. ASSUME ~crossed PROVE Uncrossed'
  <2>1. Uncrossed /\ RestartInv
    BY <1>1, <1>6 DEF BookInv, Uncrossed
  <2>2. /\ shown'.subs = restart.before.subs /\ shown'.edits = restart.before.edits
        /\ shown'.active = restart.before.active /\ shown'.nodes = restart.before.nodes
        /\ shown'.tag = restart.before.tag /\ shown'.selections = restart.before.selections
    BY <1>3, <1>5, <2>1 DEF RestartInv
  <2>3. TagOk(shown)' /\ ActiveOk(shown)' /\ (Steady' => NodesOk(shown)') /\ ProxyOk(shown)'
    BY <1>1, <2>1, <2>2 DEF RestartInv, TagOk, ActiveOk, NodesOk, ProxyOk, Steady, Uncrossed
  <2>4. RequestOf(shown)' = RequestOf(restart.before)
    BY <2>2 DEF RequestOf
  <2>5. core'.connected /\ ~core'.pending => SameRun(core.runs, shown)'
    BY <1>4, <2>1, <2>4 DEF RestartInv, SameRun
  <2> QED BY <1>8, <2>3, <2>5 DEF Uncrossed
<1>7. bookBudget' \in BudgetType /\ bookBudget'.steps <= bookBudget.steps
  BY <1>1, <1>2 DEF BudgetType
<1>9. OwnedNodes(shown)'
  BY <1>2, <1>3, <1>5 DEF OwnedNodes
<1> QED BY <1>1, <1>2, <1>4, <1>5, <1>6, <1>7, <1>8, <1>9, FramedKeeps

LEMMA DisconnectKeeps == BookInv /\ Disconnect => BookInv'
<1> SUFFICES ASSUME BookInv, Disconnect PROVE BookInv'
  OBVIOUS
<1>1. /\ ~Restarting /\ SpendStep /\ UNCHANGED <<shown, restart, refreshing, crossed>>
      /\ core' = [core EXCEPT !.connected = FALSE]
      /\ core \in CoreType /\ shown \in ShownType /\ restart = NoRestart
      /\ crossed \in BOOLEAN /\ OwnedNodes(shown) /\ ~Calling
  BY RestartIs DEF Disconnect, BookInv, BookTyped, Restarting
<1>2. core' \in CoreType /\ ~core'.connected
  BY <1>1 DEF CoreType
<1>4. ~Restarting' /\ ~Calling' /\ OwnedNodes(shown)'
  BY <1>1 DEF Restarting, Calling, OwnedNodes
<1>3. ASSUME ~crossed PROVE Uncrossed'
  <2>1. Uncrossed /\ ProxyOk(shown)
    BY <1>1, <1>3 DEF BookInv, Uncrossed
  <2>2. TagOk(shown)' /\ ActiveOk(shown)' /\ (Steady' => NodesOk(shown)') /\ ProxyOk(shown)'
    BY <1>1, <2>1 DEF Uncrossed, TagOk, ActiveOk, NodesOk, ProxyOk, Steady
  <2> QED BY <1>2, <1>4, <2>2 DEF Uncrossed
<1> QED BY <1>1, <1>2, <1>3, <1>4, SpentIsLess, FramedKeeps

LEMMA BookStep == BookInv /\ [BookNext]_bookVars => BookInv'
<1> SUFFICES ASSUME BookInv, [BookNext]_bookVars PROVE BookInv'
  OBVIOUS
<1>1. CASE UNCHANGED bookVars
  <2>1. UNCHANGED <<shown, core, restart, refreshing, crossed, bookBudget>>
    BY <1>1 DEF bookVars
  <2>2. /\ refreshing \in RefreshType /\ bookBudget \in BudgetType
        /\ refreshing.applied + Len(refreshing.left) <= MaxSubscriptions
        /\ (refreshing.kind = "none" => refreshing = NoRefresh) /\ bookBudget.steps <= bookBudget.steps
    BY DEF BookInv, BookTyped, BudgetType
  <2>3. Steady' => Steady
    BY <2>1 DEF Steady
  <2> QED BY <2>1, <2>2, <2>3, QuietKeeps
<1>2. ASSUME NEW id \in Ids(shown.subs), Delete(id) \/ Switch(id) PROVE BookInv'
  BY <1>2, DeleteKeeps, SwitchKeeps
<1>3. ASSUME NEW g \in Groups \cup {"proxy"}, NEW tag \in Range(shown.nodes), SelectMember(g, tag)
      PROVE  BookInv'
  BY <1>3, SelectMemberKeeps DEF GroupNames
<1> QED BY <1>1, <1>2, <1>3, ImportKeeps, AskRefreshKeeps, RefreshAnswerKeeps, RefreshAllEndsKeeps,
           ConnectKeeps, CallReachesKeeps, CallAnsweredKeeps, CallFailsKeeps, RestartWorksKeeps,
           RestartFailsKeeps, DisconnectKeeps, EditRulesKeeps, PullKeeps DEF BookNext

LEMMA BookTypeFrom == BookInv => BookTypeOK
<1> SUFFICES ASSUME BookInv PROVE BookTypeOK
  OBVIOUS
<1>1. /\ shown \in ShownType /\ core \in CoreType /\ crossed \in BOOLEAN
      /\ restart = NoRestart \/ restart \in BegunType \/ restart \in CallType
      /\ refreshing \in RefreshType /\ bookBudget \in BudgetType
      /\ Len(shown.subs) <= MaxSubscriptions
      /\ refreshing.applied + Len(refreshing.left) <= MaxSubscriptions
  BY DEF BookInv, BookTyped
<1>2. /\ shown.subs \in Seq(SubType) /\ shown.active \in Nat /\ shown.nodes \in Seq(Tags)
      /\ shown.tag \in Tags /\ shown.selections \in Picks
  BY <1>1 DEF ShownType
<1>3. Len(shown.subs) \in 0 .. MaxSubscriptions
  BY <1>1, <1>2, BookBounds
<1>4. DOMAIN shown.selections \in SUBSET GroupNames /\ shown.selections \in [DOMAIN shown.selections -> Tags]
  BY <1>2, PicksAre
<1>5. {shown.tag} \cup Range(shown.nodes) \cup Range(shown.selections) \subseteq Tags
  BY <1>2, <1>4 DEF Range
<1>6. {core.connected, core.pending, crossed} \subseteq BOOLEAN
  BY <1>1 DEF CoreType
<1>7. restart.kind \in {"none", "connect", "switch", "call", "member"}
  BY <1>1 DEF NoRestart, BegunType, CallType
<1>8. /\ refreshing.kind \in {"none", "one", "all"}
      /\ refreshing.applied + Len(refreshing.left) \in 0 .. MaxSubscriptions
  <2>1. /\ refreshing.kind \in {"none", "one", "all"} /\ refreshing.applied \in Nat
        /\ refreshing.left \in Seq(Nat)
    BY <1>1 DEF RefreshType
  <2>2. Len(refreshing.left) \in Nat
    BY <2>1
  <2> QED BY <1>1, <2>1, <2>2, BookBounds
<1>9. bookBudget.steps \in 0 .. MaxBookSteps /\ bookBudget.restarts \in 0 .. MaxRestarts
  BY <1>1 DEF BudgetType
<1> QED BY <1>2, <1>3, <1>4, <1>5, <1>6, <1>7, <1>8, <1>9 DEF BookTypeOK, Tags, GroupNames

LEMMA BookConsistentFrom == BookInv => ShownIsConsistent /\ DriftIsFlaggedUncrossed
<1> SUFFICES ASSUME BookInv PROVE ShownIsConsistent /\ DriftIsFlaggedUncrossed
  OBVIOUS
<1>1. ASSUME ~crossed, refreshing = NoRefresh
      PROVE  /\ \A j, k \in DOMAIN shown.subs : shown.subs[j].id = shown.subs[k].id => j = k
             /\ shown.active \in Ids(shown.subs) \cup {NoId}
             /\ shown.nodes = CollectNodes(shown.subs, shown.active)
             /\ shown.tag = SelectAvailable(shown.nodes, shown.tag)
             /\ ~Calling /\ "proxy" \in DOMAIN shown.selections =>
                   shown.selections["proxy"] = shown.tag
  BY <1>1 DEF BookInv, Uncrossed, Distinct, ActiveOk, NodesOk, TagOk, ProxyOk, Steady, NoRefresh
<1>2. ASSUME ~crossed PROVE DriftIsFlagged
  <2>1. ASSUME core.connected, ~core.pending, ~Restarting PROVE Runs(shown)
    BY <1>2, <2>1 DEF BookInv, Uncrossed, Runs, SameRun
  <2>2. ASSUME core.connected, ~core.pending, Calling PROVE Runs(Asks)
    BY <1>2, <2>2 DEF BookInv, Uncrossed, CallInv, Runs, SameRun
  <2> QED BY <2>1, <2>2 DEF DriftIsFlagged, Asks
<1> QED BY <1>1, <1>2 DEF ShownIsConsistent, DriftIsFlaggedUncrossed

(* The invariant that carries the rest, for any number of imports, refreshes,
   deletes, pulls, edits, choices and restarts, in any order of their answers.
   Of a history `crossed' stands for it says which ids are taken and who owns
   which node, and no more.                                                  *)
THEOREM BookSafe == BookSpec => []BookInv
<1>1. BookInv /\ [BookNext]_bookVars => BookInv'
  BY BookStep
<1> QED BY <1>1, BookStarts, PTL DEF BookSpec

(* The profile, its members and their choices keep their types, and a tag
   names one node of one subscription (subscriptions.rs).                    *)
THEOREM BookIsTyped == BookSpec => []BookTypeOK
BY BookSafe, BookTypeFrom, PTL

(* Between refreshes, and unless `crossed' holds, the active subscription a
   window shows exists, the nodes it lists are that subscription's, the selected
   node is one of them, and the choice of the "proxy" group is that node but
   while a call is on its way (subscriptions.rs; nodes.rs:622).               *)
THEOREM BookIsConsistent == BookSpec => []ShownIsConsistent
BY BookSafe, BookConsistentFrom, PTL

(* A connected core that runs another request than what is shown is flagged;
   while a group's choice is asked of it, it runs what was shown before, or
   that with the choice.  Not said of a core that restarts, nor when `crossed'
   holds: a change during a restart or a call, a switch during a refresh, a
   call whose answer was lost (nodes.rs:603, subscriptions.rs:437).           *)
THEOREM BookDriftIsFlagged == BookSpec => []DriftIsFlaggedUncrossed
BY BookSafe, BookConsistentFrom, PTL

-----------------------------------------------------------------------------
(* The rules page.                                                           *)
RuleType == [id : 1 .. MaxCustomRules, on : BOOLEAN, match : {d.match : d \in RuleDrafts},
             value : {Canonical[<<d.match, d.value>>] : d \in RuleDrafts},
             action : {d.action : d \in RuleDrafts}]
DnsType == [id : Nat, on : BOOLEAN, suffix : DnsDrafts]
ListsType == [rules : Seq(RuleType), dns : Seq(DnsType)]
ArmedType == [of : [Kinds -> Nat], generation : 0 .. MaxEdits]
BirthMaps == UNION {[D -> 0 .. MaxEdits] : D \in SUBSET Nat}
BirthsType == [now : [Kinds -> BirthMaps], atArm : 0 .. MaxEdits]

EditorTyped ==
    /\ lists \in ListsType /\ tab \in Kinds
    /\ editor \in [open : BOOLEAN, id : 0 .. MaxCustomRules]
    /\ armed \in ArmedType /\ births \in BirthsType /\ edits \in 0 .. MaxEdits
    /\ timers \subseteq 1 .. armed.generation /\ armed.generation <= edits

\* The ids of the DNS list: no two the same, none larger than the clicks so far.
DnsIds(list, last) ==
    /\ \A j \in DOMAIN list : list[j].id \in 1 .. last
    /\ \A j, k \in DOMAIN list : list[j].id = list[k].id => j = k

EditorInv ==
    /\ EditorTyped /\ RulesStayUsable /\ DnsIds(lists.dns, edits)
    /\ \A k \in Kinds : k # tab => armed.of[k] = NoId

LEMMA EditorBounds == MaxEdits \in Nat /\ MaxCustomRules \in Nat
BY EditorAssumption, ProfileAssumption DEF EditorAssumption, ProfileAssumption

(* A list that has the rules of a valid one, each at most once, is valid.   *)
LEMMA RearrangedIsValid ==
    ASSUME NEW rules, RulesAreValid(rules), NEW new, Len(new) <= MaxCustomRules,
           NEW p \in [DOMAIN new -> DOMAIN rules], \A i, j \in DOMAIN new : p[i] = p[j] => i = j,
           \A j \in DOMAIN new : /\ new[j].id = rules[p[j]].id
                                 /\ new[j].match = rules[p[j]].match
                                 /\ new[j].value = rules[p[j]].value
    PROVE  RulesAreValid(new)
<1>1. ASSUME NEW j \in DOMAIN new
      PROVE  new[j].id # 0 /\ Normalizes(new[j].match, new[j].value)
  <2>1. p[j] \in DOMAIN rules
    OBVIOUS
  <2> QED BY <2>1 DEF RulesAreValid
<1>2. ASSUME NEW i \in DOMAIN new, NEW j \in DOMAIN new, i # j
      PROVE  new[i].id # new[j].id /\ Key(new[i]) # Key(new[j])
  <2>1. p[i] \in DOMAIN rules /\ p[j] \in DOMAIN rules /\ p[i] # p[j]
    BY <1>2
  <2>2. rules[p[i]].id # rules[p[j]].id /\ Key(rules[p[i]]) # Key(rules[p[j]])
    BY <2>1 DEF RulesAreValid
  <2> QED BY <2>2 DEF Key
<1> QED BY <1>1, <1>2 DEF RulesAreValid

(* The next id is the smallest that is free, and there is one.              *)
LEMMA NextRuleIsFresh ==
    ASSUME NEW rules \in Seq(RuleType)
    PROVE  NextRuleId(rules) \in 1 .. (Len(rules) + 1) /\ NextRuleId(rules) \notin RuleIds(rules)
<1> DEFINE n == Len(rules)
           S == (1 .. (n + 1)) \ RuleIds(rules)
           f == [k \in 1 .. n |-> rules[k].id]
<1>1. n \in Nat /\ DOMAIN rules = 1 .. n
  OBVIOUS
<1>2. f \in Surjection(1 .. n, RuleIds(rules))
  BY <1>1 DEF Surjection, RuleIds
<1>3. IsFiniteSet(1 .. n) /\ Cardinality(1 .. n) = n
  BY <1>1, CountedUpTo
<1>4. IsFiniteSet(RuleIds(rules)) /\ Cardinality(RuleIds(rules)) <= n
      /\ Cardinality(RuleIds(rules)) \in Nat
  BY <1>2, <1>3, FS_Surjection, FS_CardinalityType
<1>5. n + 1 \in Nat
  BY <1>1
<1>6. Cardinality(1 .. (n + 1)) = n + 1
  BY <1>5, CountedUpTo
<1>7. S # {}
  <2> SUFFICES ASSUME S = {} PROVE FALSE
    OBVIOUS
  <2>1. (1 .. (n + 1)) \in SUBSET RuleIds(rules)
    OBVIOUS
  <2>2. n + 1 <= Cardinality(RuleIds(rules))
    BY <1>4, <1>6, <2>1, FS_Subset
  <2> QED BY <1>1, <1>4, <2>2
<1>8. S \in SUBSET (0 .. (n + 1))
  OBVIOUS
<1>9. Min(S) \in S
  BY <1>5, <1>7, <1>8, EndsAreThere
<1> QED BY <1>9 DEF NextRuleId

LEMMA DroppedIs ==
    ASSUME NEW T, NEW list \in Seq(T), NEW P \in SUBSET DOMAIN list
    PROVE  /\ Retain(list, P) \in Seq(T) /\ Len(Retain(list, P)) <= Len(list)
           /\ \A i \in DOMAIN Retain(list, P) :
                 /\ InOrder(P)[i] \in DOMAIN list /\ Retain(list, P)[i] = list[InOrder(P)[i]]
           /\ \A i, j \in DOMAIN Retain(list, P) : InOrder(P)[i] = InOrder(P)[j] => i = j
<1>1. P \in SUBSET DOMAIN list
  OBVIOUS
<1>2. /\ Cardinality(P) \in Nat /\ Retain(list, P) \in Seq(T)
      /\ DOMAIN Retain(list, P) = 1 .. Cardinality(P)
      /\ Len(Retain(list, P)) = Cardinality(P) /\ Cardinality(P) <= Len(list)
      /\ \A i \in 1 .. Cardinality(P) :
            InOrder(P)[i] \in P /\ Retain(list, P)[i] = list[InOrder(P)[i]]
      /\ \A i, j \in 1 .. Cardinality(P) : InOrder(P)[i] = InOrder(P)[j] => i = j
  BY ONLY <1>1, list \in Seq(T), RetainKeeps
<1> QED BY <1>1, <1>2

LEMMA SwappedIs ==
    ASSUME NEW rules \in Seq(RuleType), RulesAreValid(rules),
           NEW a \in DOMAIN rules, NEW b \in DOMAIN rules, a # b,
           NEW new, new = [rules EXCEPT ![a] = rules[b], ![b] = rules[a]]
    PROVE  new \in Seq(RuleType) /\ RulesAreValid(new) /\ RuleIds(new) = RuleIds(rules)
<1> DEFINE p == [k \in DOMAIN rules |-> IF k = a THEN b ELSE IF k = b THEN a ELSE k]
<1>1. /\ new \in Seq(RuleType) /\ DOMAIN new = DOMAIN rules /\ Len(new) = Len(rules)
      /\ \A k \in DOMAIN rules : new[k] = rules[p[k]]
  <2>1. Len(rules) \in Nat /\ DOMAIN rules = 1 .. Len(rules)
        /\ rules \in [1 .. Len(rules) -> RuleType]
    OBVIOUS
  <2>2. new \in [1 .. Len(rules) -> RuleType]
    BY <2>1
  <2>3. new \in Seq(RuleType) /\ Len(new) = Len(rules) /\ DOMAIN new = DOMAIN rules
    BY <2>1, <2>2
  <2>4. \A k \in DOMAIN rules : new[k] = rules[p[k]]
    BY <2>1
  <2> QED BY <2>3, <2>4
<1>2. p \in [DOMAIN rules -> DOMAIN rules] /\ \A i, j \in DOMAIN rules : p[i] = p[j] => i = j
  OBVIOUS
<1>3. \A k \in DOMAIN rules : p[p[k]] = k
  OBVIOUS
<1> HIDE DEF p
<1>4. Len(new) <= MaxCustomRules
  BY <1>1 DEF RulesAreValid
<1>5. RulesAreValid(new)
  <2>1. p \in [DOMAIN new -> DOMAIN rules] /\ \A i, j \in DOMAIN new : p[i] = p[j] => i = j
    BY <1>1, <1>2
  <2>2. \A j \in DOMAIN new : new[j].id = rules[p[j]].id /\ new[j].match = rules[p[j]].match
                               /\ new[j].value = rules[p[j]].value
    BY <1>1
  <2> QED BY ONLY RulesAreValid(rules), <1>4, <2>1, <2>2, RearrangedIsValid
<1>6. RuleIds(new) = RuleIds(rules)
  <2>1. ASSUME NEW k \in DOMAIN rules PROVE new[k].id \in RuleIds(rules)
    BY <1>1, <1>2 DEF RuleIds
  <2>2. ASSUME NEW k \in DOMAIN rules PROVE rules[k].id \in RuleIds(new)
    <3>1. p[k] \in DOMAIN new /\ new[p[k]] = rules[k]
      BY <1>1, <1>2, <1>3
    <3> QED BY <3>1 DEF RuleIds
  <2>3. DOMAIN new = DOMAIN rules
    BY <1>1
  <2>4. RuleIds(new) \subseteq RuleIds(rules)
    BY <2>1, <2>3 DEF RuleIds
  <2>5. RuleIds(rules) \subseteq RuleIds(new)
    <3> SUFFICES ASSUME NEW x \in RuleIds(rules) PROVE x \in RuleIds(new)
      OBVIOUS
    <3>1. PICK k \in DOMAIN rules : x = rules[k].id
      BY DEF RuleIds
    <3> QED BY <2>2, <3>1
  <2> QED BY <2>4, <2>5
<1> QED BY <1>1, <1>5, <1>6

LEMMA MovedIs ==
    ASSUME NEW rules \in Seq(RuleType), RulesAreValid(rules), NEW id, NEW offset \in {-1, 1},
           NEW processes
    PROVE  /\ MoveRule(rules, id, offset, processes) \in Seq(RuleType)
           /\ RulesAreValid(MoveRule(rules, id, offset, processes))
           /\ RuleIds(MoveRule(rules, id, offset, processes)) = RuleIds(rules)
<1> DEFINE S == {k \in DOMAIN rules : Visible(rules[k], processes)}
           at == VisibleAt(rules, processes)
           hits == {v \in DOMAIN at : rules[at[v]].id = id}
           here == Min(hits)
           m == Cardinality(S)
<1>1. MoveRule(rules, id, offset, processes) =
        IF hits = {} \/ here + offset \notin DOMAIN at THEN rules
        ELSE [rules EXCEPT ![at[here]] = rules[at[here + offset]],
                           ![at[here + offset]] = rules[at[here]]]
  BY DEF MoveRule
<1>2. Len(rules) \in Nat /\ DOMAIN rules = 1 .. Len(rules) /\ S \in SUBSET (1 .. Len(rules))
      /\ S \in SUBSET DOMAIN rules
  OBVIOUS
<1>3. at = InOrder(S)
  BY DEF VisibleAt
<1> HIDE DEF S
<1>4. /\ m \in Nat /\ DOMAIN InOrder(S) = 1 .. m
      /\ \A i \in 1 .. m : InOrder(S)[i] \in S
      /\ \A i, j \in 1 .. m : InOrder(S)[i] = InOrder(S)[j] => i = j
  BY <1>2, InOrderEnumerates
<1> HIDE DEF m, at
<1>5. /\ DOMAIN at = 1 .. m
      /\ \A i \in 1 .. m : at[i] \in DOMAIN rules
      /\ \A i, j \in 1 .. m : at[i] = at[j] => i = j
  BY <1>2, <1>3, <1>4
<1>6. CASE hits = {} \/ here + offset \notin DOMAIN at
  BY <1>1, <1>6
<1>7. CASE hits # {} /\ here + offset \in DOMAIN at
  <2>1. hits \in SUBSET (0 .. m)
    BY <1>5
  <2>2. here \in hits
    BY <1>4, <1>7, <2>1, EndsAreThere
  <2> DEFINE there == here + offset
  <2>3. here \in 1 .. m /\ there \in 1 .. m /\ here # there
    BY <1>5, <1>7, <2>2
  <2> HIDE DEF here, there
  <2>4. at[here] \in DOMAIN rules /\ at[there] \in DOMAIN rules /\ at[here] # at[there]
    BY <1>5, <2>3
  <2>5. MoveRule(rules, id, offset, processes) =
           [rules EXCEPT ![at[here]] = rules[at[there]], ![at[there]] = rules[at[here]]]
    BY <1>1, <1>7 DEF there
  <2>6. \A new : new = [rules EXCEPT ![at[here]] = rules[at[there]], ![at[there]] = rules[at[here]]]
           => new \in Seq(RuleType) /\ RulesAreValid(new) /\ RuleIds(new) = RuleIds(rules)
    BY <2>4, SwappedIs
  <2> QED BY <2>5, <2>6
<1> QED BY <1>6, <1>7

LEMMA EditedIs ==
    ASSUME NEW rules \in Seq(RuleType), NEW draft \in RuleDrafts, NEW editing,
           editing = NoId => Len(rules) < MaxCustomRules,
           editing # NoId => editing \in RuleIds(rules)
    PROVE  /\ Edited(rules, editing, draft) \in Seq(RuleType)
           /\ RuleIds(rules) \subseteq RuleIds(Edited(rules, editing, draft))
<1> DEFINE id == IF editing = NoId THEN NextRuleId(rules) ELSE editing
           on == IF id \in RuleIds(rules)
                 THEN (CHOOSE r \in Range(rules) : r.id = id).on ELSE TRUE
           rule == [id |-> id, on |-> on, match |-> draft.match,
                    value |-> Canonical[<<draft.match, draft.value>>], action |-> draft.action]
<1>0. Len(rules) \in Nat /\ DOMAIN rules = 1 .. Len(rules)
      /\ \A k \in DOMAIN rules : rules[k] \in RuleType
  OBVIOUS
<1>1. Edited(rules, editing, draft) =
        IF id \in RuleIds(rules)
        THEN [k \in DOMAIN rules |-> IF rules[k].id = id THEN rule ELSE rules[k]]
        ELSE Append(rules, rule)
  BY DEF Edited
<1>2. id \in 1 .. MaxCustomRules
  <2>1. CASE editing = NoId
    <3>1. NextRuleId(rules) \in 1 .. (Len(rules) + 1)
      BY NextRuleIsFresh
    <3>2. Len(rules) < MaxCustomRules
      BY <2>1
    <3> QED BY <1>0, <2>1, <3>1, <3>2, EditorBounds
  <2>2. CASE editing # NoId
    <3>1. editing \in RuleIds(rules)
      BY <2>2
    <3> QED BY <1>0, <2>2, <3>1 DEF RuleIds, RuleType
  <2> QED BY <2>1, <2>2
<1> HIDE DEF id
<1>3. on \in BOOLEAN
  <2>1. CASE id \in RuleIds(rules)
    <3>1. \E r \in Range(rules) : r.id = id
      BY <2>1 DEF RuleIds, Range
    <3>2. (CHOOSE r \in Range(rules) : r.id = id) \in Range(rules)
      BY <3>1
    <3>3. \A r \in Range(rules) : r \in RuleType
      BY <1>0 DEF Range
    <3>4. on = (CHOOSE r \in Range(rules) : r.id = id).on
      BY <2>1
    <3> HIDE DEF on
    <3> QED BY <3>2, <3>3, <3>4 DEF RuleType
  <2> QED BY <2>1
<1> HIDE DEF on
<1>4. rule \in RuleType /\ rule.id = id
  BY <1>2, <1>3 DEF RuleType
<1> HIDE DEF rule
<1>5. CASE id \in RuleIds(rules)
  <2> DEFINE new == [k \in DOMAIN rules |-> IF rules[k].id = id THEN rule ELSE rules[k]]
  <2>1. new \in [1 .. Len(rules) -> RuleType] /\ DOMAIN new = DOMAIN rules
    BY <1>0, <1>4
  <2>2. new \in Seq(RuleType)
    BY <1>0, <2>1
  <2>3. \A k \in DOMAIN rules : new[k].id = rules[k].id
    BY <1>4
  <2>4. Edited(rules, editing, draft) = new
    BY <1>1, <1>5
  <2> HIDE DEF new
  <2>5. RuleIds(rules) \subseteq RuleIds(new)
    BY <2>1, <2>3 DEF RuleIds
  <2> QED BY <2>2, <2>4, <2>5
<1>6. CASE id \notin RuleIds(rules)
  <2>1. Edited(rules, editing, draft) = Append(rules, rule)
    BY <1>1, <1>6
  <2>2. /\ Append(rules, rule) \in Seq(RuleType)
        /\ \A k \in DOMAIN rules : k \in DOMAIN Append(rules, rule) /\ Append(rules, rule)[k] = rules[k]
    BY <1>0, <1>4
  <2>3. RuleIds(rules) \subseteq RuleIds(Append(rules, rule))
    <3> SUFFICES ASSUME NEW k \in DOMAIN rules PROVE rules[k].id \in RuleIds(Append(rules, rule))
      BY DEF RuleIds
    <3>1. k \in DOMAIN Append(rules, rule) /\ Append(rules, rule)[k] = rules[k]
      BY <2>2
    <3> QED BY <3>1 DEF RuleIds
  <2> QED BY <2>1, <2>2, <2>3
<1> QED BY <1>5, <1>6

LEMMA ToggledIs ==
    ASSUME NEW T, NEW list \in Seq(T), NEW id,
           \A r \in T : [r EXCEPT !.on = ~r.on] \in T
    PROVE  /\ Toggled(list, id) \in Seq(T) /\ DOMAIN Toggled(list, id) = DOMAIN list
           /\ Len(Toggled(list, id)) = Len(list)
           /\ \A j \in DOMAIN list :
                 Toggled(list, id)[j] \in {list[j], [list[j] EXCEPT !.on = ~list[j].on]}
<1> DEFINE new == Toggled(list, id)
<1>1. Len(list) \in Nat /\ DOMAIN list = 1 .. Len(list) /\ \A j \in DOMAIN list : list[j] \in T
  OBVIOUS
<1>2. /\ DOMAIN new = DOMAIN list
      /\ \A j \in DOMAIN list : new[j] \in {list[j], [list[j] EXCEPT !.on = ~list[j].on]}
      /\ new = [j \in DOMAIN list |-> new[j]]
  BY DEF Toggled
<1>3. \A j \in DOMAIN list : new[j] \in T
  BY <1>1, <1>2
<1> HIDE DEF new
<1>4. new \in [1 .. Len(list) -> T]
  BY <1>1, <1>2, <1>3
<1>5. new \in Seq(T) /\ Len(new) = Len(list)
  BY <1>1, <1>4
<1> QED BY <1>2, <1>5 DEF new

-----------------------------------------------------------------------------
ArmedOk ==
    \A k \in Kinds : armed.of[k] # NoId =>
        armed.of[k] \in ListIds(k) /\ Births(k, armed.of[k]) = births.atArm

LEMMA EditorParts ==
    EditorInv <=> /\ EditorTyped /\ RulesAreValid(lists.rules) /\ ArmedOk
                  /\ DnsIds(lists.dns, edits) /\ \A k \in Kinds : k # tab => armed.of[k] = NoId
BY DEF EditorInv, RulesStayUsable, ArmedOk

LEMMA ActCounts ==
    ASSUME EditorTyped, EditAct
    PROVE  edits' = edits + 1 /\ edits' \in 0 .. MaxEdits /\ edits \in Nat
BY EditorBounds DEF EditorTyped, EditAct

LEMMA DnsLater ==
    ASSUME NEW list, NEW m \in Nat, NEW n \in Nat, m <= n, DnsIds(list, m)
    PROVE  DnsIds(list, n)
<1>1. \A j \in DOMAIN list : list[j].id \in 1 .. n
  BY DEF DnsIds
<1> QED BY <1>1 DEF DnsIds

LEMMA BornIs ==
    ASSUME EditorTyped, NEW k \in Kinds, NEW id \in Nat, edits + 1 \in 0 .. MaxEdits,
           births' = Born(k, id)
    PROVE  /\ births' \in BirthsType /\ births'.atArm = births.atArm
           /\ \A l \in Kinds, i \in Nat : l # k \/ i # id => Births(l, i)' = Births(l, i)
<1> DEFINE old == births.now[k]
           new == [j \in DOMAIN old \cup {id} |-> IF j = id THEN edits + 1 ELSE old[j]]
<1>1. births' = [births EXCEPT !.now[k] = new] /\ births \in BirthsType
  BY DEF Born, EditorTyped
<1>2. old \in BirthMaps /\ births.now \in [Kinds -> BirthMaps]
  BY <1>1 DEF BirthsType
<1>3. DOMAIN old \in SUBSET Nat /\ old \in [DOMAIN old -> 0 .. MaxEdits]
  BY <1>2 DEF BirthMaps
<1>4. new \in [DOMAIN old \cup {id} -> 0 .. MaxEdits] /\ DOMAIN old \cup {id} \in SUBSET Nat
  BY <1>3
<1>5. new \in BirthMaps
  BY <1>4 DEF BirthMaps
<1>6. /\ DOMAIN new = DOMAIN old \cup {id}
      /\ \A j \in DOMAIN old : j # id => new[j] = old[j]
  OBVIOUS
<1>7. old = births.now[k]
  OBVIOUS
<1> HIDE DEF new, old
<1>8. births' \in BirthsType /\ births'.atArm = births.atArm /\ births'.now[k] = new
      /\ \A l \in Kinds : l # k => births'.now[l] = births.now[l]
  BY <1>1, <1>2, <1>5 DEF BirthsType
<1>9. ASSUME NEW l \in Kinds, NEW i \in Nat, l # k \/ i # id PROVE Births(l, i)' = Births(l, i)
  <2>1. CASE l # k
    BY <1>8, <2>1 DEF Births
  <2>2. CASE l = k /\ i # id
    BY <1>6, <1>7, <1>8, <2>2 DEF Births
  <2> QED BY <1>9, <2>1, <2>2
<1> QED BY <1>8, <1>9

LEMMA IdsAre ==
    ASSUME EditorInv
    PROVE  /\ ListIds("rules") = RuleIds(lists.rules) /\ RuleIds(lists.rules) \subseteq 1 .. MaxCustomRules
           /\ \A k \in Kinds : ListIds(k) \subseteq Nat \ {0}
<1>1. lists.rules \in Seq(RuleType)
  BY DEF EditorInv, EditorTyped, ListsType
<1>2. \A j \in DOMAIN lists.rules : lists.rules[j] \in RuleType
  BY <1>1
<1>3. ListIds("rules") = RuleIds(lists.rules)
  BY DEF ListIds, RuleIds
<1>4. RuleIds(lists.rules) \subseteq 1 .. MaxCustomRules
  BY <1>2 DEF RuleIds, RuleType
<1>5. ListIds("dns") \subseteq Nat \ {0}
  BY DEF EditorInv, DnsIds, ListIds
<1> QED BY <1>3, <1>4, <1>5 DEF Kinds

(* The button stays armed for its rule while the lists keep their ids.      *)
LEMMA ArmedKept ==
    ASSUME EditorInv, UNCHANGED armed, births'.atArm = births.atArm,
           \A k \in Kinds : \A id \in ListIds(k) : id \in ListIds(k)' /\ Births(k, id)' = Births(k, id)
    PROVE  ArmedOk'
BY EditorParts DEF ArmedOk

LEMMA EditorStarts == EditorInit => EditorInv
<1> SUFFICES ASSUME EditorInit PROVE EditorInv
  OBVIOUS
<1>1. lists = [rules |-> <<>>, dns |-> <<>>] /\ tab = "rules" /\ editor = Closed /\ timers = {}
      /\ armed = [of |-> NothingArmed, generation |-> 0] /\ edits = 0
      /\ births = [now |-> [k \in Kinds |-> << >>], atArm |-> 0]
  BY DEF EditorInit
<1>2. lists \in ListsType
  BY <1>1 DEF ListsType
<1>3. NothingArmed \in [Kinds -> Nat] /\ \A k \in Kinds : NothingArmed[k] = NoId
  BY DEF NothingArmed, NoId
<1>4. armed \in ArmedType /\ armed.of = NothingArmed /\ armed.generation = 0
  BY <1>1, <1>3, EditorBounds DEF ArmedType
<1>5. births \in BirthsType
  <2>1. {} \in SUBSET Nat /\ << >> \in [{} -> 0 .. MaxEdits]
    OBVIOUS
  <2>2. << >> \in BirthMaps
    BY <2>1 DEF BirthMaps
  <2>3. [k \in Kinds |-> << >>] \in [Kinds -> BirthMaps]
    BY <2>2
  <2> QED BY <1>1, <2>3, EditorBounds DEF BirthsType
<1>6. editor \in [open : BOOLEAN, id : 0 .. MaxCustomRules]
  BY <1>1, EditorBounds DEF Closed, NoId
<1>7. EditorTyped
  BY <1>1, <1>2, <1>4, <1>5, <1>6, EditorBounds DEF EditorTyped, Kinds
<1>8. RulesAreValid(lists.rules) /\ DnsIds(lists.dns, edits)
  BY <1>1, EditorBounds DEF RulesAreValid, DnsIds
<1> QED BY <1>3, <1>4, <1>7, <1>8, EditorParts DEF ArmedOk

LEMMA EditorActs ==
    ASSUME EditorInv, EditorTyped', EditAct, RulesAreValid(lists.rules)', ArmedOk',
           lists'.dns = lists.dns \/ DnsIds(lists.dns, edits)',
           \A k \in Kinds : k # tab' => armed'.of[k] = NoId
    PROVE  EditorInv'
<1>1. DnsIds(lists'.dns, edits')
  <2>1. edits' = edits + 1 /\ edits \in Nat
    BY ActCounts DEF EditorInv
  <2>2. DnsIds(lists.dns, edits) /\ edits + 1 \in Nat /\ edits <= edits + 1
    BY <2>1 DEF EditorInv
  <2>3. DnsIds(lists.dns, edits + 1)
    BY <2>1, <2>2, DnsLater
  <2> QED BY <2>1, <2>3
<1> QED BY <1>1 DEF EditorInv, RulesStayUsable, ArmedOk

LEMMA OpenKeeps ==
    ASSUME EditorInv, NEW id \in RuleIds(lists.rules) \cup {NoId}, OpenEditor(id)
    PROVE  EditorInv'
<1>1. /\ EditAct /\ editor' = [open |-> TRUE, id |-> id]
      /\ armed' = [armed EXCEPT !.of["rules"] = NoId]
      /\ UNCHANGED <<tab, lists, timers, births>>
      /\ EditorTyped /\ armed \in ArmedType
  BY DEF OpenEditor, EditorInv, EditorTyped
<1>2. /\ armed' \in ArmedType /\ armed'.generation = armed.generation
      /\ armed'.of["rules"] = NoId /\ armed'.of["dns"] = armed.of["dns"]
  BY <1>1 DEF ArmedType, Kinds, NoId
<1>3. editor' \in [open : BOOLEAN, id : 0 .. MaxCustomRules]
  <2>1. id \in 0 .. MaxCustomRules
    BY IdsAre, EditorBounds DEF NoId
  <2> QED BY <1>1, <2>1
<1>4. EditorTyped'
  <2>1. edits' = edits + 1 /\ edits' \in 0 .. MaxEdits /\ edits \in Nat
    BY <1>1, ActCounts
  <2>2. armed'.generation <= edits'
    BY <1>1, <1>2, <2>1 DEF EditorTyped, ArmedType
  <2> QED BY <1>1, <1>2, <1>3, <2>1, <2>2 DEF EditorTyped
<1>5. ArmedOk'
  BY <1>1, <1>2, EditorParts DEF ArmedOk, Kinds, ListIds, Births
<1>6. \A k \in Kinds : k # tab' => armed'.of[k] = NoId
  BY <1>1, <1>2 DEF EditorInv, Kinds
<1> QED BY <1>1, <1>4, <1>5, <1>6, EditorActs DEF EditorInv, RulesStayUsable

LEMMA QuietEdit ==
    ASSUME EditorInv, EditAct, UNCHANGED <<timers, armed, tab>>, lists' \in ListsType,
           editor' \in [open : BOOLEAN, id : 0 .. MaxCustomRules], births' \in BirthsType
    PROVE  EditorTyped' /\ \A k \in Kinds : k # tab' => armed'.of[k] = NoId
<1>1. edits' = edits + 1 /\ edits' \in 0 .. MaxEdits /\ edits \in Nat
  BY ActCounts DEF EditorInv
<1>2. armed'.generation <= edits'
  BY <1>1 DEF EditorInv, EditorTyped, ArmedType
<1> QED BY <1>1, <1>2 DEF EditorInv, EditorTyped

LEMMA CancelKeeps == EditorInv /\ CancelEditor => EditorInv'
<1> SUFFICES ASSUME EditorInv, CancelEditor PROVE EditorInv'
  OBVIOUS
<1>1. /\ EditAct /\ editor' = Closed /\ UNCHANGED <<tab, lists, armed, timers, births>>
      /\ births \in BirthsType /\ lists \in ListsType
  BY DEF CancelEditor, EditorInv, EditorTyped
<1>2. editor' \in [open : BOOLEAN, id : 0 .. MaxCustomRules]
  BY <1>1, EditorBounds DEF Closed, NoId
<1>3. ArmedOk'
  BY <1>1, ArmedKept DEF ListIds, Births
<1> QED BY <1>1, <1>2, <1>3, QuietEdit, EditorActs DEF EditorInv, RulesStayUsable

LEMMA SaveKeeps ==
    ASSUME EditorInv, NEW draft \in RuleDrafts, SaveRule(draft)
    PROVE  EditorInv'
<1> DEFINE old == lists.rules
           new == Edited(old, editor.id, draft)
<1>1. /\ EditAct /\ CanSave(old, editor.id, draft) /\ lists' = [lists EXCEPT !.rules = new]
      /\ births' = IF editor.id = NoId THEN Born("rules", NextRuleId(old)) ELSE births
      /\ editor' = Closed /\ UNCHANGED <<tab, armed, timers>>
      /\ lists \in ListsType /\ births \in BirthsType /\ EditorTyped
  BY DEF SaveRule, EditorInv, EditorTyped
<1>2. old \in Seq(RuleType)
  BY <1>1 DEF ListsType
<1>3. /\ editor.id = NoId => Len(old) < MaxCustomRules
      /\ editor.id # NoId => editor.id \in RuleIds(old)
      /\ RulesAreValid(new)
  BY <1>1 DEF CanSave
<1> HIDE DEF old
<1>4. new \in Seq(RuleType) /\ RuleIds(old) \subseteq RuleIds(new)
  BY <1>2, <1>3, EditedIs
<1> HIDE DEF new
<1>5. lists' \in ListsType /\ lists'.rules = new /\ lists'.dns = lists.dns
  BY <1>1, <1>4 DEF ListsType
<1>6. editor' \in [open : BOOLEAN, id : 0 .. MaxCustomRules]
  BY <1>1, EditorBounds DEF Closed, NoId
<1>7. NextRuleId(old) \in Nat /\ NextRuleId(old) \notin RuleIds(old)
  <2>1. Len(old) \in Nat
    BY <1>2
  <2> QED BY <1>2, <2>1, NextRuleIsFresh
<1>8. edits + 1 \in 0 .. MaxEdits
  BY <1>1, ActCounts
<1>9. /\ births' \in BirthsType /\ births'.atArm = births.atArm
      /\ \A l \in Kinds, i \in Nat :
            l # "rules" \/ i \in RuleIds(old) => Births(l, i)' = Births(l, i)
  <2>1. CASE editor.id = NoId
    BY <1>1, <1>7, <1>8, <2>1, BornIs DEF Kinds
  <2>2. CASE editor.id # NoId
    BY <1>1, <2>2 DEF Births
  <2> QED BY <2>1, <2>2
<1>10. ASSUME NEW k \in Kinds, NEW id \in ListIds(k)
       PROVE  id \in ListIds(k)' /\ Births(k, id)' = Births(k, id)
  <2>1. id \in Nat
    BY IdsAre
  <2>2. CASE k = "rules"
    <3>1. id \in RuleIds(old)
      BY <2>2, IdsAre DEF old
    <3>2. id \in RuleIds(new)
      BY <1>4, <3>1
    <3>3. id \in ListIds(k)'
      BY <1>5, <2>2, <3>2 DEF ListIds, RuleIds
    <3> QED BY <1>9, <2>1, <3>1, <3>3
  <2>3. CASE k = "dns"
    <3>1. id \in ListIds(k)'
      BY <1>5, <2>3 DEF ListIds
    <3> QED BY <1>9, <2>1, <2>3, <3>1
  <2> QED BY <2>2, <2>3 DEF Kinds
<1>11. ArmedOk'
  BY <1>1, <1>9, <1>10, ArmedKept
<1> QED BY <1>1, <1>3, <1>5, <1>6, <1>9, <1>11, QuietEdit, EditorActs

LEMMA NextDnsIsFresh ==
    ASSUME EditorInv, NEW id, id = Max({0} \cup ListIds("dns")) + 1
    PROVE  id \in 1 .. (edits + 1) /\ id \notin ListIds("dns")
<1> DEFINE S == {0} \cup ListIds("dns")
           m == Max(S)
<1>1. edits \in Nat
  BY EditorBounds DEF EditorInv, EditorTyped
<1>2. S \in SUBSET (0 .. edits) /\ S # {}
  BY <1>1 DEF EditorInv, DnsIds, ListIds
<1>3. m \in S /\ \A y \in S : y <= m
  BY <1>1, <1>2, EndsAreThere
<1>4. m \in 0 .. edits /\ id = m + 1
  BY <1>2, <1>3
<1>5. \A y \in ListIds("dns") : y <= m
  BY <1>3
<1> HIDE DEF m
<1> QED BY <1>1, <1>4, <1>5

LEMMA AddDnsKeeps ==
    ASSUME EditorInv, NEW suffix \in DnsDrafts, AddDns(suffix)
    PROVE  EditorInv'
<1> DEFINE id == Max({0} \cup ListIds("dns")) + 1
           entry == [id |-> id, on |-> TRUE, suffix |-> suffix]
           old == lists.dns
           new == Append(old, entry)
<1>1. /\ EditAct /\ lists' = [lists EXCEPT !.dns = new] /\ births' = Born("dns", id)
      /\ UNCHANGED <<tab, editor, armed, timers>>
      /\ lists \in ListsType /\ EditorTyped /\ editor \in [open : BOOLEAN, id : 0 .. MaxCustomRules]
  BY DEF AddDns, EditorInv, EditorTyped
<1>2. id \in 1 .. (edits + 1) /\ id \notin ListIds("dns")
  BY NextDnsIsFresh
<1>3. edits' = edits + 1 /\ edits' \in 0 .. MaxEdits /\ edits \in Nat
  BY <1>1, ActCounts
<1> HIDE DEF id
<1>4. entry \in DnsType /\ entry.id = id
  BY <1>2, <1>3 DEF DnsType
<1> HIDE DEF entry
<1>5. old \in Seq(DnsType) /\ old = lists.dns
  BY <1>1 DEF ListsType
<1> HIDE DEF old
<1>6. /\ new \in Seq(DnsType) /\ DOMAIN new = 1 .. (Len(old) + 1) /\ DOMAIN old = 1 .. Len(old)
      /\ Len(old) \in Nat /\ new[Len(old) + 1] = entry /\ \A j \in DOMAIN old : new[j] = old[j]
  BY <1>4, <1>5
<1> HIDE DEF new
<1>7. lists' \in ListsType /\ lists'.dns = new /\ lists'.rules = lists.rules
  BY <1>1, <1>6 DEF ListsType
<1>8. DnsIds(new, edits + 1)
  <2>1. DnsIds(old, edits)
    BY <1>5 DEF EditorInv
  <2>2. \A j \in DOMAIN old : old[j].id \in 1 .. (edits + 1) /\ old[j].id # id
    BY <1>2, <1>3, <1>5, <2>1 DEF DnsIds, ListIds
  <2>3. \A j \in DOMAIN new : new[j].id \in 1 .. (edits + 1)
    BY <1>2, <1>4, <1>6, <2>2
  <2>4. ASSUME NEW j \in DOMAIN new, NEW k \in DOMAIN new, new[j].id = new[k].id PROVE j = k
    BY <1>4, <1>6, <2>1, <2>2, <2>4 DEF DnsIds
  <2> QED BY <2>3, <2>4 DEF DnsIds
<1>9. /\ births' \in BirthsType /\ births'.atArm = births.atArm
      /\ \A l \in Kinds, i \in Nat : l # "dns" \/ i # id => Births(l, i)' = Births(l, i)
  <2>1. id \in Nat /\ edits + 1 \in 0 .. MaxEdits
    BY <1>2, <1>3
  <2> QED BY <1>1, <2>1, BornIs DEF Kinds
<1>10. ASSUME NEW k \in Kinds, NEW i \in ListIds(k)
       PROVE  i \in ListIds(k)' /\ Births(k, i)' = Births(k, i)
  <2>1. i \in Nat
    BY IdsAre
  <2>2. CASE k = "dns"
    <3>1. PICK j \in DOMAIN old : i = old[j].id
      BY <1>5, <2>2 DEF ListIds
    <3>2. j \in DOMAIN new /\ i = new[j].id
      BY <1>6, <3>1
    <3>3. i \in ListIds(k)'
      BY <1>7, <2>2, <3>2 DEF ListIds
    <3>4. i # id
      BY <1>2, <2>2
    <3> QED BY <1>9, <2>1, <3>3, <3>4
  <2>3. CASE k = "rules"
    <3>1. i \in ListIds(k)'
      BY <1>7, <2>3 DEF ListIds
    <3> QED BY <1>9, <2>1, <2>3, <3>1
  <2> QED BY <2>2, <2>3 DEF Kinds
<1>11. ArmedOk'
  BY <1>1, <1>9, <1>10, ArmedKept
<1>12. DnsIds(lists'.dns, edits')
  BY <1>3, <1>7, <1>8
<1>13. RulesAreValid(lists'.rules)
  BY <1>7 DEF EditorInv, RulesStayUsable
<1> QED BY <1>1, <1>7, <1>9, <1>11, <1>12, <1>13, QuietEdit, EditorActs

(* An edit of one list that keeps its ids.                                  *)
LEMMA ListEdited ==
    ASSUME EditorInv, EditAct, NEW k \in Kinds, UNCHANGED <<tab, editor, armed, timers, births>>,
           lists' \in ListsType, \A l \in Kinds : l # k => lists'[l] = lists[l],
           ListIds(k) \subseteq ListIds(k)', RulesAreValid(lists'.rules),
           k = "rules" \/ DnsIds(lists'.dns, edits)
    PROVE  EditorInv'
<1>1. edits' = edits + 1 /\ edits \in Nat /\ edits' \in Nat
  BY ActCounts DEF EditorInv
<1>2. /\ editor' \in [open : BOOLEAN, id : 0 .. MaxCustomRules] /\ births' \in BirthsType
  BY DEF EditorInv, EditorTyped
<1>3. \A l \in Kinds : ListIds(l) \subseteq ListIds(l)'
  BY DEF ListIds
<1>4. ArmedOk'
  BY <1>3, ArmedKept DEF Births
<1>5. lists'.dns = lists.dns \/ DnsIds(lists'.dns, edits')
  BY <1>1, DnsLater DEF Kinds
<1> QED BY <1>2, <1>4, <1>5, QuietEdit, EditorActs

LEMMA ToggleKeeps ==
    ASSUME EditorInv, NEW k \in Kinds, NEW id, ToggleEntry(k, id)
    PROVE  EditorInv'
<1>1. /\ EditAct /\ lists' = [lists EXCEPT ![k] = Toggled(lists[k], id)]
      /\ UNCHANGED <<tab, editor, armed, timers, births>>
      /\ lists \in ListsType
  BY DEF ToggleEntry, EditorInv, EditorTyped
<1>2. lists.rules \in Seq(RuleType) /\ lists.dns \in Seq(DnsType)
  BY <1>1 DEF ListsType
<1>3. CASE k = "rules"
  <2> DEFINE old == lists.rules
             new == Toggled(old, id)
  <2>1. \A r \in RuleType : [r EXCEPT !.on = ~r.on] \in RuleType
    BY DEF RuleType
  <2>2. old \in Seq(RuleType) /\ RulesAreValid(old)
    BY <1>2 DEF EditorInv, RulesStayUsable
  <2>3. old = lists.rules
    OBVIOUS
  <2> HIDE DEF old
  <2>4. /\ new \in Seq(RuleType) /\ DOMAIN new = DOMAIN old /\ Len(new) = Len(old)
        /\ \A j \in DOMAIN old : new[j] \in {old[j], [old[j] EXCEPT !.on = ~old[j].on]}
    BY <2>1, <2>2, ToggledIs
  <2>5. lists' = [lists EXCEPT !.rules = new]
    BY <1>1, <1>3, <2>3
  <2> HIDE DEF new
  <2>6. ASSUME NEW j \in DOMAIN old
        PROVE  new[j].id = old[j].id /\ new[j].match = old[j].match /\ new[j].value = old[j].value
    <3>1. old[j] \in RuleType
      BY <2>2
    <3> QED BY <2>4, <3>1 DEF RuleType
  <2> DEFINE p == [j \in DOMAIN new |-> j]
  <2>7. /\ p \in [DOMAIN new -> DOMAIN old] /\ \A i, j \in DOMAIN new : p[i] = p[j] => i = j
        /\ \A j \in DOMAIN new : /\ new[j].id = old[p[j]].id
                                  /\ new[j].match = old[p[j]].match
                                  /\ new[j].value = old[p[j]].value
    BY <2>4, <2>6
  <2> HIDE DEF p
  <2>8. Len(new) <= MaxCustomRules
    BY <2>2, <2>4 DEF RulesAreValid
  <2>9. RulesAreValid(new)
    BY <2>2, <2>7, <2>8, RearrangedIsValid
  <2>10. /\ lists' \in ListsType /\ lists'.rules = new /\ lists'.dns = lists.dns
    BY <1>1, <2>4, <2>5 DEF ListsType
  <2>11. ListIds(k) \subseteq ListIds(k)'
    BY <1>3, <2>3, <2>4, <2>6, <2>10 DEF ListIds
  <2>12. \A l \in Kinds : l # k => lists'[l] = lists[l]
    BY <1>3, <2>10 DEF Kinds
  <2>13. RulesAreValid(lists'.rules)
    BY <2>9, <2>10
  <2> QED BY <1>1, <1>3, <2>10, <2>11, <2>12, <2>13, ListEdited
<1>4. CASE k = "dns"
  <2> DEFINE old == lists.dns
             new == Toggled(old, id)
  <2>1. \A r \in DnsType : [r EXCEPT !.on = ~r.on] \in DnsType
    BY DEF DnsType
  <2>2. old \in Seq(DnsType) /\ DnsIds(old, edits)
    BY <1>2 DEF EditorInv
  <2>3. old = lists.dns
    OBVIOUS
  <2> HIDE DEF old
  <2>4. /\ new \in Seq(DnsType) /\ DOMAIN new = DOMAIN old
        /\ \A j \in DOMAIN old : new[j] \in {old[j], [old[j] EXCEPT !.on = ~old[j].on]}
    BY <2>1, <2>2, ToggledIs
  <2>5. lists' = [lists EXCEPT !.dns = new]
    BY <1>1, <1>4, <2>3
  <2> HIDE DEF new
  <2>6. ASSUME NEW j \in DOMAIN old PROVE new[j].id = old[j].id
    <3>1. old[j] \in DnsType
      BY <2>2
    <3> QED BY <2>4, <3>1 DEF DnsType
  <2>7. DnsIds(new, edits)
    BY <2>2, <2>4, <2>6 DEF DnsIds
  <2>10. /\ lists' \in ListsType /\ lists'.dns = new /\ lists'.rules = lists.rules
    BY <1>1, <2>4, <2>5 DEF ListsType
  <2>11. ListIds(k) \subseteq ListIds(k)'
    BY <1>4, <2>3, <2>4, <2>6, <2>10 DEF ListIds
  <2>12. \A l \in Kinds : l # k => lists'[l] = lists[l]
    BY <1>4, <2>10 DEF Kinds
  <2>13. RulesAreValid(lists'.rules) /\ DnsIds(lists'.dns, edits)
    BY <2>7, <2>10 DEF EditorInv, RulesStayUsable
  <2> QED BY <1>1, <2>10, <2>11, <2>12, <2>13, ListEdited
<1> QED BY <1>3, <1>4 DEF Kinds

LEMMA MoveKeeps ==
    ASSUME EditorInv, NEW id, NEW offset \in {-1, 1}, Move(id, offset)
    PROVE  EditorInv'
<1> DEFINE old == lists.rules
           new == MoveRule(old, id, offset, FALSE)
<1>1. /\ EditAct /\ lists' = [lists EXCEPT !.rules = new]
      /\ UNCHANGED <<tab, editor, armed, timers, births>> /\ lists \in ListsType
  BY DEF Move, EditorInv, EditorTyped
<1>2. old \in Seq(RuleType) /\ RulesAreValid(old) /\ old = lists.rules
  BY <1>1 DEF ListsType, EditorInv, RulesStayUsable
<1> HIDE DEF old
<1>3. new \in Seq(RuleType) /\ RulesAreValid(new) /\ RuleIds(new) = RuleIds(old)
  <2>1. PICK untouched : untouched = FALSE
    OBVIOUS
  <2>2. new = MoveRule(old, id, offset, untouched)
    BY <2>1
  <2> HIDE DEF new
  <2> QED BY <1>2, <2>2, MovedIs
<1> HIDE DEF new
<1>4. lists' \in ListsType /\ lists'.rules = new /\ lists'.dns = lists.dns
  BY <1>1, <1>3 DEF ListsType
<1>5. ListIds("rules")' = RuleIds(new) /\ ListIds("rules") = RuleIds(old)
  BY <1>2, <1>4 DEF ListIds, RuleIds
<1>6. \A l \in Kinds : l # "rules" => lists'[l] = lists[l]
  BY <1>4 DEF Kinds
<1>7. RulesAreValid(lists'.rules) /\ "rules" \in Kinds
  BY <1>3, <1>4 DEF Kinds
<1> QED BY <1>1, <1>3, <1>4, <1>5, <1>6, <1>7, ListEdited

LEMMA ArmKeeps ==
    ASSUME EditorInv, NEW k \in Kinds, NEW id \in ListIds(k), Arm(k, id)
    PROVE  EditorInv'
<1>1. /\ EditAct /\ tab = k
      /\ armed' = [of |-> [armed.of EXCEPT ![k] = id], generation |-> armed.generation + 1]
      /\ timers' = timers \cup {armed.generation + 1}
      /\ births' = [births EXCEPT !.atArm = Births(k, id)]
      /\ UNCHANGED <<tab, lists, editor>>
      /\ EditorTyped /\ armed \in ArmedType /\ births \in BirthsType
  BY DEF Arm, EditorInv, EditorTyped
<1>2. edits' = edits + 1 /\ edits' \in 0 .. MaxEdits /\ edits \in Nat
  BY <1>1, ActCounts
<1>3. armed.of \in [Kinds -> Nat] /\ armed.generation \in Nat /\ armed.generation <= edits
  BY <1>1 DEF ArmedType, EditorTyped
<1>4. id \in Nat
  BY IdsAre
<1>5. /\ [armed.of EXCEPT ![k] = id] \in [Kinds -> Nat]
      /\ armed.generation + 1 \in 0 .. MaxEdits /\ armed.generation + 1 <= edits'
  BY <1>2, <1>3, <1>4, EditorBounds
<1>6. /\ armed' \in ArmedType /\ armed'.generation = armed.generation + 1
      /\ armed'.of = [armed.of EXCEPT ![k] = id]
  BY <1>1, <1>5 DEF ArmedType
<1>7. Births(k, id) \in 0 .. MaxEdits
  <2>1. births.now[k] \in BirthMaps
    BY <1>1 DEF BirthsType
  <2>2. births.now[k] \in [DOMAIN births.now[k] -> 0 .. MaxEdits]
    BY <2>1 DEF BirthMaps
  <2> QED BY <2>2, EditorBounds DEF Births
<1>8. /\ births' \in BirthsType /\ births'.atArm = Births(k, id) /\ births'.now = births.now
  BY <1>1, <1>7 DEF BirthsType
<1>9. timers' \subseteq 1 .. armed'.generation
  BY <1>1, <1>3, <1>6 DEF EditorTyped
<1>10. EditorTyped'
  BY <1>1, <1>2, <1>5, <1>6, <1>8, <1>9 DEF EditorTyped
<1>11. \A l \in Kinds : l # k => armed'.of[l] = NoId
  BY <1>1, <1>3, <1>6 DEF EditorInv
<1>12. armed'.of[k] = id
  BY <1>3, <1>6
<1>13. ArmedOk'
  <2>1. ListIds(k)' = ListIds(k) /\ Births(k, id)' = Births(k, id)
    BY <1>1, <1>8 DEF Births, ListIds
  <2>2. \A l \in Kinds : (armed.of[l] # NoId)' => l = k
    BY <1>11
  <2>3. (armed.of[k] = id)'
    BY <1>12
  <2>4. (births.atArm = Births(k, id))'
    BY <1>8, <2>1
  <2>5. (id \in ListIds(k))'
    BY <2>1
  <2> QED BY <2>2, <2>3, <2>4, <2>5 DEF ArmedOk
<1> QED BY <1>1, <1>10, <1>11, <1>13, EditorActs DEF EditorInv, RulesStayUsable

LEMMA DropIsValid ==
    ASSUME NEW old \in Seq(RuleType), RulesAreValid(old), NEW id, NEW new,
           new = Retain(old, {j \in DOMAIN old : old[j].id # id})
    PROVE  new \in Seq(RuleType) /\ RulesAreValid(new)
<1>1. PICK P \in SUBSET DOMAIN old : P = {j \in DOMAIN old : old[j].id # id}
  OBVIOUS
<1>2. new = Retain(old, P)
  BY <1>1
<1> DEFINE p == [i \in DOMAIN new |-> InOrder(P)[i]]
<1>4. /\ new \in Seq(RuleType) /\ Len(new) <= Len(old)
      /\ \A i \in DOMAIN new : InOrder(P)[i] \in DOMAIN old /\ new[i] = old[InOrder(P)[i]]
      /\ \A i, j \in DOMAIN new : InOrder(P)[i] = InOrder(P)[j] => i = j
  <2>1. PICK T : T = RuleType
    OBVIOUS
  <2>2. old \in Seq(T) /\ P \in SUBSET DOMAIN old
    BY <2>1
  <2>3. /\ Retain(old, P) \in Seq(T) /\ Len(Retain(old, P)) <= Len(old)
        /\ \A i \in DOMAIN Retain(old, P) :
              InOrder(P)[i] \in DOMAIN old /\ Retain(old, P)[i] = old[InOrder(P)[i]]
        /\ \A i, j \in DOMAIN Retain(old, P) : InOrder(P)[i] = InOrder(P)[j] => i = j
    BY ONLY <2>2, DroppedIs
  <2> QED BY <1>2, <2>1, <2>3
<1>5. p \in [DOMAIN new -> DOMAIN old] /\ \A i, j \in DOMAIN new : p[i] = p[j] => i = j
  BY <1>4
<1>6. Len(new) <= MaxCustomRules
  <2>1. Len(old) <= MaxCustomRules
    BY DEF RulesAreValid
  <2>2. Len(new) \in Nat /\ Len(old) \in Nat
    BY <1>4
  <2> QED BY <1>4, <2>1, <2>2, EditorBounds
<1>7. \A j \in DOMAIN new : /\ new[j].id = old[p[j]].id
                            /\ new[j].match = old[p[j]].match
                            /\ new[j].value = old[p[j]].value
  BY <1>4
<1> HIDE DEF p
<1>8. RulesAreValid(new)
  BY <1>5, <1>6, <1>7, RearrangedIsValid
<1> QED BY <1>4, <1>8

LEMMA DropKeepsDnsIds ==
    ASSUME NEW old \in Seq(DnsType), NEW last \in Nat, DnsIds(old, last), NEW id, NEW new,
           new = Retain(old, {j \in DOMAIN old : old[j].id # id})
    PROVE  new \in Seq(DnsType) /\ DnsIds(new, last)
<1>1. PICK P \in SUBSET DOMAIN old : P = {j \in DOMAIN old : old[j].id # id}
  OBVIOUS
<1>2. new = Retain(old, P)
  BY <1>1
<1>4. /\ new \in Seq(DnsType)
      /\ \A i \in DOMAIN new : InOrder(P)[i] \in DOMAIN old /\ new[i] = old[InOrder(P)[i]]
      /\ \A i, j \in DOMAIN new : InOrder(P)[i] = InOrder(P)[j] => i = j
  <2>1. PICK T : T = DnsType
    OBVIOUS
  <2>2. old \in Seq(T) /\ P \in SUBSET DOMAIN old
    BY <2>1
  <2>3. /\ Retain(old, P) \in Seq(T) /\ Len(Retain(old, P)) <= Len(old)
        /\ \A i \in DOMAIN Retain(old, P) :
              InOrder(P)[i] \in DOMAIN old /\ Retain(old, P)[i] = old[InOrder(P)[i]]
        /\ \A i, j \in DOMAIN Retain(old, P) : InOrder(P)[i] = InOrder(P)[j] => i = j
    BY ONLY <2>2, DroppedIs
  <2> QED BY <1>2, <2>1, <2>3
<1>5. \A j \in DOMAIN new : new[j].id \in 1 .. last
  BY <1>4 DEF DnsIds
<1>6. \A i, j \in DOMAIN new : new[i].id = new[j].id => i = j
  BY <1>4 DEF DnsIds
<1> QED BY <1>4, <1>5, <1>6 DEF DnsIds

LEMMA DeleteEntryKeeps ==
    ASSUME EditorInv, NEW k \in Kinds, NEW id \in ListIds(k), DeleteEntry(k, id)
    PROVE  EditorInv'
<1>1. /\ EditAct /\ tab = k /\ lists' = [lists EXCEPT ![k] = Drop(k, id)]
      /\ armed' = [armed EXCEPT !.of[k] = NoId]
      /\ UNCHANGED <<tab, editor, timers, births>>
      /\ EditorTyped /\ armed \in ArmedType /\ births \in BirthsType /\ lists \in ListsType
  BY DEF DeleteEntry, EditorInv, EditorTyped
<1>2. edits' = edits + 1 /\ edits' \in 0 .. MaxEdits /\ edits \in Nat
  BY <1>1, ActCounts
<1>3. /\ armed' \in ArmedType /\ armed'.generation = armed.generation
      /\ \A l \in Kinds : armed'.of[l] = IF l = k THEN NoId ELSE armed.of[l]
  BY <1>1 DEF ArmedType, NoId
<1>4. \A l \in Kinds : armed'.of[l] = NoId
  BY <1>1, <1>3 DEF EditorInv
<1>5. ArmedOk'
  BY <1>4 DEF ArmedOk
<1> DEFINE old == lists[k]
           new == Retain(old, {j \in DOMAIN old : old[j].id # id})
<1>6. lists' = [lists EXCEPT ![k] = new]
  BY <1>1 DEF Drop
<1>7. lists.rules \in Seq(RuleType) /\ lists.dns \in Seq(DnsType)
  BY <1>1 DEF ListsType
<1>8. /\ lists' \in ListsType /\ RulesAreValid(lists'.rules)
      /\ lists'.dns = lists.dns \/ DnsIds(lists'.dns, edits')
  <2>1. new = Retain(old, {j \in DOMAIN old : old[j].id # id})
    OBVIOUS
  <2> HIDE DEF new
  <2>2. CASE k = "rules"
    <3>1. old = lists.rules /\ old \in Seq(RuleType) /\ RulesAreValid(old)
      BY <1>7, <2>2 DEF EditorInv, RulesStayUsable
    <3> HIDE DEF old
    <3>2. new \in Seq(RuleType) /\ RulesAreValid(new)
      BY <2>1, <3>1, DropIsValid
    <3>3. lists' \in ListsType /\ lists'.rules = new /\ lists'.dns = lists.dns
      BY <1>1, <1>6, <2>2, <3>2 DEF ListsType
    <3> QED BY <3>2, <3>3
  <2>3. CASE k = "dns"
    <3>1. old = lists.dns /\ old \in Seq(DnsType) /\ DnsIds(old, edits)
      BY <1>7, <2>3 DEF EditorInv
    <3> HIDE DEF old
    <3>2. new \in Seq(DnsType) /\ DnsIds(new, edits)
      BY <1>2, <2>1, <3>1, DropKeepsDnsIds
    <3>3. DnsIds(new, edits')
      <4>1. edits + 1 \in Nat /\ edits <= edits + 1
        BY <1>2
      <4> QED BY <1>2, <3>2, <4>1, DnsLater
    <3>4. lists' \in ListsType /\ lists'.dns = new /\ lists'.rules = lists.rules
      BY <1>1, <1>6, <2>3, <3>2 DEF ListsType
    <3> QED BY <3>3, <3>4 DEF EditorInv, RulesStayUsable
  <2> QED BY <2>2, <2>3 DEF Kinds
<1>9. EditorTyped'
  BY <1>1, <1>2, <1>3, <1>8 DEF EditorTyped, ArmedType
<1> QED BY <1>1, <1>4, <1>5, <1>8, <1>9, EditorActs

LEMMA TimerFiresKeeps ==
    ASSUME EditorInv, NEW g \in timers, TimerFires(g)
    PROVE  EditorInv'
<1>1. /\ timers' = timers \ {g}
      /\ armed' = IF g = armed.generation THEN [armed EXCEPT !.of = NothingArmed] ELSE armed
      /\ UNCHANGED <<tab, lists, editor, edits, births>>
      /\ EditorTyped /\ armed \in ArmedType
  BY DEF TimerFires, EditorInv, EditorTyped
<1>2. NothingArmed \in [Kinds -> Nat] /\ \A k \in Kinds : NothingArmed[k] = NoId
  BY DEF NothingArmed, NoId
<1>3. /\ armed' \in ArmedType /\ armed'.generation = armed.generation
      /\ \A k \in Kinds : armed'.of[k] \in {NoId, armed.of[k]}
  BY <1>1, <1>2 DEF ArmedType
<1>4. EditorTyped'
  BY <1>1, <1>3 DEF EditorTyped
<1>5. ArmedOk'
  BY <1>1, <1>3, EditorParts DEF ArmedOk, ListIds, Births
<1> QED BY <1>1, <1>3, <1>4, <1>5 DEF EditorInv, RulesStayUsable, ArmedOk

LEMMA SwitchTabKeeps == EditorInv /\ SwitchTab => EditorInv'
<1> SUFFICES ASSUME EditorInv, SwitchTab PROVE EditorInv'
  OBVIOUS
<1>1. /\ EditAct /\ tab' \in Kinds /\ armed' = [armed EXCEPT !.of = NothingArmed]
      /\ UNCHANGED <<lists, editor, timers, births>>
      /\ EditorTyped /\ armed \in ArmedType
  BY DEF SwitchTab, EditorInv, EditorTyped
<1>2. NothingArmed \in [Kinds -> Nat] /\ \A k \in Kinds : NothingArmed[k] = NoId
  BY DEF NothingArmed, NoId
<1>3. /\ armed' \in ArmedType /\ armed'.generation = armed.generation
      /\ \A k \in Kinds : armed'.of[k] = NoId
  BY <1>1, <1>2 DEF ArmedType
<1>4. edits' = edits + 1 /\ edits' \in 0 .. MaxEdits /\ edits \in Nat
  BY <1>1, ActCounts
<1>5. EditorTyped'
  BY <1>1, <1>3, <1>4 DEF EditorTyped, ArmedType
<1>6. ArmedOk'
  BY <1>3 DEF ArmedOk
<1> QED BY <1>1, <1>3, <1>5, <1>6, EditorActs DEF EditorInv, RulesStayUsable

LEMMA EditorStep == EditorInv /\ [EditorNext]_reVars => EditorInv'
<1> SUFFICES ASSUME EditorInv, [EditorNext]_reVars PROVE EditorInv'
  OBVIOUS
<1>1. CASE \E id \in RuleIds(lists.rules) \cup {NoId} : OpenEditor(id)
  BY <1>1, OpenKeeps
<1>2. CASE CancelEditor
  BY <1>2, CancelKeeps
<1>3. CASE SwitchTab
  BY <1>3, SwitchTabKeeps
<1>4. CASE \E draft \in RuleDrafts : SaveRule(draft)
  BY <1>4, SaveKeeps
<1>5. CASE \E suffix \in DnsDrafts : AddDns(suffix)
  BY <1>5, AddDnsKeeps
<1>6. CASE \E k \in Kinds : \E id \in ListIds(k) : ToggleEntry(k, id) \/ Arm(k, id) \/ DeleteEntry(k, id)
  BY <1>6, ToggleKeeps, ArmKeeps, DeleteEntryKeeps
<1>7. CASE \E id \in RuleIds(lists.rules) : Move(id, -1) \/ Move(id, 1)
  <2>1. PICK id : \E offset \in {-1, 1} : Move(id, offset)
    BY <1>7
  <2> QED BY <2>1, MoveKeeps
<1>8. CASE \E g \in timers : TimerFires(g)
  BY <1>8, TimerFiresKeeps
<1>9. CASE UNCHANGED reVars
  BY <1>9 DEF reVars, EditorInv, EditorTyped, RulesStayUsable, ListIds, Births
<1> QED BY <1>1, <1>2, <1>3, <1>4, <1>5, <1>6, <1>7, <1>8, <1>9 DEF EditorNext

(* The invariant that carries the rest, for any number of edits and timers.  *)
THEOREM EditorSafe == EditorSpec => []EditorInv
<1>1. EditorInit => EditorInv
  BY EditorStarts
<1>2. EditorInv /\ [EditorNext]_reVars => EditorInv'
  BY EditorStep
<1> QED BY <1>1, <1>2, PTL DEF EditorSpec

(* The rules page keeps its types: the timers that run are of arms that were. *)
THEOREM EditorIsTyped == EditorSpec => []EditorTypeOK
<1>1. EditorInv => EditorTypeOK
  BY DEF EditorInv, EditorTyped, EditorTypeOK, ArmedType, BirthsType
<1> QED BY <1>1, EditorSafe, PTL

(* However the lists are edited, the rules stay what validate_custom_rules
   accepts; and a second click deletes the rule the first one was on, though
   the ids of deleted rules are given out again (rules.rs, settings.rs).      *)
THEOREM EditorRulesStayUsable == EditorSpec => []RulesStayUsable
<1>1. EditorInv => RulesStayUsable
  BY DEF EditorInv
<1> QED BY <1>1, EditorSafe, PTL
=============================================================================
