-------------------------- MODULE SelectionProofs --------------------------
(***************************************************************************)
(* Proofs about Selection, for every configuration, budget, threshold and  *)
(* set of scores, and prompts and requests of any length: what every       *)
(* policy keeps has the size of the budget and holds the windows, the cache*)
(* stays in order through every sequence of compressions, the quotas of the*)
(* segments add up and are proportional, and the batched form keeps only   *)
(* what the form segment by segment may keep.                              *)
(*                                                                         *)
(* The first three sections are about data: sorting, integer division and  *)
(* what the policies choose.  Induction on a number is done with the set of*)
(* the numbers that have a property (Induction).                           *)
(***************************************************************************)
EXTENDS Selection, FiniteSetTheorems, FunctionTheorems, SequenceTheorems, TLAPS

(* A set of natural numbers has a least one.                                *)
LEMMA LeastOf ==
  ASSUME NEW S, S \subseteq Nat, S # {}
  PROVE  \E x \in S : \A y \in S : x <= y
<1> DEFINE less == {p \in Nat \X Nat : p[1] < p[2]}
<1>1. IsWellFoundedOn(less, Nat) BY ONLY NatLessThanWellFounded, Zenon DEF OpToRel
<1>2. \E x \in S : \A y \in S : ~ (<<y, x>> \in less)
  <2> HIDE DEF less
  <2> QED BY <1>1, WFMin
<1>3. \A x, y \in Nat : <<y, x>> \in less <=> y < x OBVIOUS
<1> HIDE DEF less
<1>4. PICK x \in S : \A y \in S : ~ (<<y, x>> \in less) BY <1>2
<1>5. ASSUME NEW y \in S PROVE x <= y
  <2>1. x \in Nat /\ y \in Nat OBVIOUS
  <2>2. ~ (y < x) BY <1>3, <1>4, <2>1, Zenon
  <2> QED BY <2>1, <2>2
<1> QED BY <1>5

(* Induction, over the set of the numbers that have the property.           *)
LEMMA Induction ==
  ASSUME NEW S, 0 \in S, \A n \in Nat : n \in S => n + 1 \in S
  PROVE  Nat \subseteq S
<1> SUFFICES ASSUME Nat \ S # {} PROVE FALSE OBVIOUS
<1>1. PICK n \in Nat \ S : \A y \in Nat \ S : n <= y BY LeastOf
<1>2. n # 0 /\ n - 1 \in Nat BY <1>1
<1>3. n - 1 \in S BY <1>1, <1>2
<1>4. n - 1 + 1 \in S BY <1>2, <1>3
<1> QED BY <1>1, <1>4

----------------------------------------------------------------------------
(* Sorting.                                                                 *)

(* The entries ahead of two entries are not as many: the position in the    *)
(* order is a bijection.                                                    *)
LEMMA AheadOrder ==
  ASSUME NEW m \in Nat, NEW s \in [1..m -> Nat]
  PROVE  /\ Len(s) = m
         /\ \A i \in 1..m : /\ IsFiniteSet(Ahead(s, i))
                            /\ Cardinality(Ahead(s, i)) \in 0..m - 1
         /\ \A i, j \in 1..m : j \in Ahead(s, i) =>
              Cardinality(Ahead(s, j)) < Cardinality(Ahead(s, i))
         /\ \A i, j \in 1..m : i = j \/ j \in Ahead(s, i) \/ i \in Ahead(s, j)
<1>1. Len(s) = m BY LenProperties, IsASeq
<1>2. IsFiniteSet(1..m) /\ Cardinality(1..m) = m BY FS_Interval
<1>3. ASSUME NEW i \in 1..m
      PROVE  /\ IsFiniteSet(Ahead(s, i)) /\ Cardinality(Ahead(s, i)) \in 0..m - 1
  <2>1. Ahead(s, i) \subseteq (1..m) \ {i} BY <1>1 DEF Ahead
  <2>2. IsFiniteSet((1..m) \ {i}) /\ Cardinality((1..m) \ {i}) = m - 1
    BY <1>2, FS_RemoveElement
  <2>3. IsFiniteSet(Ahead(s, i)) /\ Cardinality(Ahead(s, i)) <= m - 1
    BY <2>1, <2>2, FS_Subset
  <2>4. Cardinality(Ahead(s, i)) \in Nat BY <2>3, FS_CardinalityType
  <2> QED BY <2>3, <2>4
<1>4. ASSUME NEW i \in 1..m, NEW j \in 1..m, j \in Ahead(s, i)
      PROVE  Cardinality(Ahead(s, j)) < Cardinality(Ahead(s, i))
  <2>1. s[i] \in Nat /\ s[j] \in Nat OBVIOUS
  <2>2. Ahead(s, j) \cup {j} \subseteq Ahead(s, i)
    <3>1. ASSUME NEW k \in Ahead(s, j) PROVE k \in Ahead(s, i)
      <4>1. k \in 1..m /\ s[k] \in Nat BY <1>1 DEF Ahead
      <4>2. s[k] < s[j] \/ (s[k] = s[j] /\ k < j) BY DEF Ahead
      <4>3. s[j] < s[i] \/ (s[j] = s[i] /\ j < i) BY <1>4 DEF Ahead
      <4>4. s[k] < s[i] \/ (s[k] = s[i] /\ k < i) BY <2>1, <4>1, <4>2, <4>3
      <4> QED BY <1>1, <4>1, <4>4 DEF Ahead
    <3> QED BY <1>4, <3>1
  <2>3. j \notin Ahead(s, j) BY <2>1 DEF Ahead
  <2>4. Cardinality(Ahead(s, j) \cup {j}) = Cardinality(Ahead(s, j)) + 1
    BY <1>3, <2>3, FS_AddElement
  <2>5. Cardinality(Ahead(s, j) \cup {j}) <= Cardinality(Ahead(s, i))
    BY <1>3, <2>2, FS_Subset
  <2> QED BY <1>3, <2>4, <2>5
<1>5. ASSUME NEW i \in 1..m, NEW j \in 1..m
      PROVE  i = j \/ j \in Ahead(s, i) \/ i \in Ahead(s, j)
  <2>1. s[i] \in Nat /\ s[j] \in Nat OBVIOUS
  <2> QED BY <1>1, <2>1 DEF Ahead
<1> QED BY <1>1, <1>3, <1>4, <1>5

(* torch.sort permutes the entries of a row into their order.               *)
LEMMA SortPermutes ==
  ASSUME NEW m \in Nat, NEW s \in [1..m -> Nat]
  PROVE  \E p \in Bijection(1..m, 1..m) :
           /\ SortValues(s) = [r \in 1..m |-> s[p[r]]]
           /\ \A i, j \in 1..m : i < j => s[p[i]] <= s[p[j]]
<1> DEFINE rank == [i \in 1..m |-> Cardinality(Ahead(s, i)) + 1]
           p == [r \in 1..m |-> CHOOSE i \in 1..m : Cardinality(Ahead(s, i)) = r - 1]
<1>1. Len(s) = m /\ \A i \in 1..m : Cardinality(Ahead(s, i)) \in 0..m - 1
  BY AheadOrder
<1>2. \A i, j \in 1..m : j \in Ahead(s, i) =>
        Cardinality(Ahead(s, j)) < Cardinality(Ahead(s, i))
  BY AheadOrder
<1>3. \A i, j \in 1..m : i = j \/ j \in Ahead(s, i) \/ i \in Ahead(s, j) BY AheadOrder
<1>4. rank \in Injection(1..m, 1..m)
  <2>1. rank \in [1..m -> 1..m] BY <1>1
  <2>2. \A i, j \in 1..m : rank[i] = rank[j] => i = j
    <3> SUFFICES ASSUME NEW i \in 1..m, NEW j \in 1..m, rank[i] = rank[j] PROVE i = j
      OBVIOUS
    <3>1. Cardinality(Ahead(s, i)) = Cardinality(Ahead(s, j)) BY <1>1
    <3>2. j \notin Ahead(s, i) BY <1>1, <1>2, <3>1
    <3>3. i \notin Ahead(s, j) BY <1>1, <1>2, <3>1
    <3> QED BY <1>3, <3>2, <3>3
  <2> HIDE DEF rank
  <2> QED BY <2>1, <2>2 DEF Injection, IsInjective
<1>5. rank \in Surjection(1..m, 1..m)
  <2> HIDE DEF rank
  <2>1. IsFiniteSet(1..m) BY FS_Interval
  <2> QED BY <1>4, <2>1, FS_Injection
<1>6. \A r \in 1..m : \E i \in 1..m : Cardinality(Ahead(s, i)) = r - 1
  <2> SUFFICES ASSUME NEW r \in 1..m
               PROVE  \E i \in 1..m : Cardinality(Ahead(s, i)) = r - 1
    OBVIOUS
  <2>1. \E i \in 1..m : rank[i] = r
    <3> HIDE DEF rank
    <3> QED BY <1>5 DEF Surjection
  <2>2. PICK i \in 1..m : rank[i] = r BY <2>1
  <2>3. rank[i] = Cardinality(Ahead(s, i)) + 1 OBVIOUS
  <2>4. Cardinality(Ahead(s, i)) \in Int BY <1>1
  <2> HIDE DEF rank
  <2>5. Cardinality(Ahead(s, i)) = r - 1 BY ONLY <2>2, <2>3, <2>4
  <2> QED BY <2>5
<1>7. \A r \in 1..m : p[r] \in 1..m /\ Cardinality(Ahead(s, p[r])) = r - 1 BY <1>6
<1>8. p \in [1..m -> 1..m] BY <1>7
<1>9. SortValues(s) = [r \in 1..m |-> s[p[r]]] BY <1>1 DEF SortValues
<1> HIDE DEF p, rank
<1>10. \A i, j \in 1..m : i < j => s[p[i]] <= s[p[j]]
  <2> SUFFICES ASSUME NEW i \in 1..m, NEW j \in 1..m, i < j PROVE s[p[i]] <= s[p[j]]
    OBVIOUS
  <2>1. p[i] \in 1..m /\ p[j] \in 1..m BY <1>7
  <2>2. s[p[i]] \in Nat /\ s[p[j]] \in Nat BY <2>1
  <2>3. ~ (Cardinality(Ahead(s, p[j])) < Cardinality(Ahead(s, p[i]))) BY <1>7
  <2>4. p[j] \notin Ahead(s, p[i]) BY <1>2, <2>1, <2>3
  <2>5. ~ (s[p[j]] < s[p[i]]) BY <1>1, <2>1, <2>4 DEF Ahead
  <2> QED BY <2>2, <2>5
<1>11. p \in Injection(1..m, 1..m)
  <2>1. \A i, j \in 1..m : p[i] = p[j] => i = j BY <1>7
  <2> QED BY <1>8, <2>1 DEF Injection, IsInjective
<1>12. p \in Surjection(1..m, 1..m)
  <2>1. IsFiniteSet(1..m) BY FS_Interval
  <2> QED BY <1>11, <2>1, FS_Injection
<1> QED BY <1>9, <1>10, <1>11, <1>12 DEF Bijection

(* The first k entries of f rise strictly.                                  *)
Increasing(f, k) == \A i, j \in 1..k : i < j => f[i] < f[j]

(* Neighbours in order are all in order.                                    *)
LEMMA AscendingIncreases ==
  ASSUME NEW k \in Nat, NEW f \in [1..k -> Int]
  PROVE  Ascending(f) <=> Increasing(f, k)
<1>1. Len(f) = k BY LenProperties, IsASeq
<1>2. ASSUME Ascending(f) PROVE Increasing(f, k)
  <2> DEFINE S == {d \in Nat : \A i \in 1..k : i + d + 1 <= k => f[i] < f[i + d + 1]}
  <2>1. 0 \in S
    <3>1. \A i \in 1..k : i + 1 <= k => f[i] < f[i + 1] BY <1>1, <1>2 DEF Ascending
    <3> QED BY <3>1
  <2>2. ASSUME NEW d \in Nat, d \in S PROVE d + 1 \in S
    <3> SUFFICES ASSUME NEW i \in 1..k, i + (d + 1) + 1 <= k
                 PROVE  f[i] < f[i + (d + 1) + 1]
      OBVIOUS
    <3>1. i + d + 1 \in 1..k - 1 /\ f[i] < f[i + d + 1] BY <2>2
    <3>2. f[i + d + 1] < f[i + d + 1 + 1] BY <1>1, <1>2, <3>1 DEF Ascending
    <3>3. i + d + 1 + 1 = i + (d + 1) + 1 /\ i + (d + 1) + 1 \in 1..k OBVIOUS
    <3>4. f[i] \in Int /\ f[i + d + 1] \in Int /\ f[i + (d + 1) + 1] \in Int
      BY <3>1, <3>3
    <3> QED BY <3>1, <3>2, <3>3, <3>4
  <2>3. Nat \subseteq S
    <3> HIDE DEF S
    <3> QED BY <2>1, <2>2, Induction
  <2> SUFFICES ASSUME NEW i \in 1..k, NEW j \in 1..k, i < j PROVE f[i] < f[j]
    BY DEF Increasing
  <2>4. PICK d \in Nat : i + d + 1 = j
    <3>1. j - i - 1 \in Nat /\ i + (j - i - 1) + 1 = j OBVIOUS
    <3> QED BY <3>1
  <2>5. d \in S BY <2>3
  <2>6. i + d + 1 <= k => f[i] < f[i + d + 1] BY <2>5
  <2> QED BY <2>4, <2>6
<1>3. ASSUME Increasing(f, k) PROVE Ascending(f)
  BY <1>1, <1>3 DEF Increasing, Ascending
<1> QED BY <1>2, <1>3

(* Sorting a set lists its members, each once, in increasing order.         *)
LEMMA SortedEnumerates ==
  ASSUME NEW K, K \subseteq Nat, IsFiniteSet(K)
  PROVE  /\ Cardinality(K) \in Nat
         /\ Sorted(K) \in [1..Cardinality(K) -> K]
         /\ Increasing(Sorted(K), Cardinality(K))
         /\ Range(Sorted(K)) = K
<1> DEFINE k == Cardinality(K)
           s == SetToSeq(K)
<1>1. k \in Nat /\ ExistsBijection(1..k, K) BY FS_CardinalityType
<1>2. s \in [1..k -> K] /\ IsInjective(s)
  <2>1. \E f \in [1..k -> K] : IsInjective(f)
    BY <1>1 DEF ExistsBijection, Bijection, Injection
  <2> QED BY <2>1 DEF SetToSeq
<1> HIDE DEF s
<1>3. s \in Surjection(1..k, K)
  <2>1. s \in Injection(1..k, K) BY <1>2 DEF Injection
  <2>2. IsFiniteSet(1..k) /\ Cardinality(1..k) = k BY <1>1, FS_Interval
  <2> QED BY <2>1, <2>2, FS_Injection
<1> HIDE DEF k
<1>4. s \in [1..k -> Nat] BY <1>2
<1>5. PICK p \in Bijection(1..k, 1..k) :
        /\ SortValues(s) = [r \in 1..k |-> s[p[r]]]
        /\ \A i, j \in 1..k : i < j => s[p[i]] <= s[p[j]]
  BY <1>1, <1>4, SortPermutes
<1>6. /\ p \in [1..k -> 1..k] /\ \A i, j \in 1..k : p[i] = p[j] => i = j
      /\ \A i \in 1..k : \E j \in 1..k : p[j] = i
  BY DEF Bijection, Injection, Surjection, IsInjective
<1>7. Sorted(K) = [r \in 1..k |-> s[p[r]]] BY <1>5 DEF Sorted, s
<1>8. Sorted(K) \in [1..k -> K] BY <1>2, <1>6, <1>7
<1>9. Increasing(Sorted(K), k)
  <2> SUFFICES ASSUME NEW i \in 1..k, NEW j \in 1..k, i < j
               PROVE  Sorted(K)[i] < Sorted(K)[j]
    BY DEF Increasing
  <2>1. p[i] \in 1..k /\ p[j] \in 1..k /\ p[i] # p[j]
    <3>1. i # j OBVIOUS
    <3> QED BY <1>6, <3>1
  <2>2. s[p[i]] # s[p[j]] BY <1>2, <2>1 DEF IsInjective
  <2>3. s[p[i]] \in Nat /\ s[p[j]] \in Nat BY <1>4, <2>1
  <2> QED BY <1>5, <1>7, <2>2, <2>3
<1>10. Range(Sorted(K)) = K
  <2>1. ASSUME NEW x \in K PROVE \E r \in 1..k : Sorted(K)[r] = x
    <3>1. PICK i \in 1..k : s[i] = x BY <1>3 DEF Surjection
    <3>2. PICK r \in 1..k : p[r] = i BY <1>6
    <3> QED BY <1>7, <3>1, <3>2
  <2> QED BY <1>8, <2>1 DEF Range
<1> QED BY <1>1, <1>8, <1>9, <1>10 DEF k

(* An increasing enumeration of natural numbers that lists the first ones   *)
(* starts with them ...                                                     *)
LEMMA FrontOf ==
  ASSUME NEW k \in Nat, NEW f \in [1..k -> Nat], Increasing(f, k),
         NEW p \in Nat, 0..p - 1 \subseteq Range(f)
  PROVE  \A i \in 1..p : i <= k /\ f[i] = i - 1
<1>1. DOMAIN f = 1..k OBVIOUS
<1> DEFINE S == {v \in Nat : v + 1 <= k => f[v + 1] >= v}
           T == {v \in Nat : v < p => \A i \in 1..k : f[i] = v => i >= v + 1}
<1>2. Nat \subseteq S
  <2>1. 0 \in S OBVIOUS
  <2>2. ASSUME NEW v \in Nat, v \in S PROVE v + 1 \in S
    <3> SUFFICES ASSUME (v + 1) + 1 <= k PROVE f[(v + 1) + 1] >= v + 1 OBVIOUS
    <3>1. f[v + 1] < f[(v + 1) + 1] BY DEF Increasing
    <3>2. f[v + 1] >= v /\ f[v + 1] \in Nat /\ f[(v + 1) + 1] \in Nat BY <2>2
    <3> QED BY <3>1, <3>2
  <2> HIDE DEF S
  <2> QED BY <2>1, <2>2, Induction
<1>3. Nat \subseteq T
  <2>1. 0 \in T OBVIOUS
  <2>2. ASSUME NEW v \in Nat, v \in T PROVE v + 1 \in T
    <3> SUFFICES ASSUME v + 1 < p, NEW i \in 1..k, f[i] = v + 1 PROVE i >= (v + 1) + 1
      OBVIOUS
    <3>1. PICK j \in 1..k : f[j] = v BY <1>1 DEF Range
    <3>2. j >= v + 1 BY <2>2, <3>1
    <3>3. ~ (i < j) /\ i # j BY <3>1 DEF Increasing
    <3> QED BY <3>2, <3>3
  <2> HIDE DEF T
  <2> QED BY <2>1, <2>2, Induction
<1> SUFFICES ASSUME NEW i \in 1..p PROVE i <= k /\ f[i] = i - 1 OBVIOUS
<1>4. i - 1 \in Nat /\ i - 1 \in 0..p - 1 OBVIOUS
<1>5. PICK j \in 1..k : f[j] = i - 1 BY <1>1, <1>4 DEF Range
<1>6. j >= i BY <1>3, <1>4, <1>5
<1>7. j - 1 \in Nat /\ f[j] >= j - 1 BY <1>2
<1>8. j = i BY <1>4, <1>5, <1>6, <1>7
<1> QED BY <1>5, <1>8

(* ... and one that lists the last ones below n ends with them.             *)
HasTail(f, k, n, r) ==
  /\ f \in [1..k -> 0..n - 1] /\ Increasing(f, k)
  /\ r <= n /\ n - r..n - 1 \subseteq Range(f)

LEMMA BackOf ==
  ASSUME NEW k \in Nat, NEW n \in Nat, NEW r \in Nat, NEW f, HasTail(f, k, n, r)
  PROVE  \A i \in 0..r - 1 : i < k /\ f[k - i] = n - 1 - i
<1> USE DEF HasTail
<1> DEFINE g == [i \in 1..k |-> n - 1 - f[k + 1 - i]]
<1>1. g \in [1..k -> Nat]
  <2>1. \A i \in 1..k : n - 1 - f[k + 1 - i] \in Nat
    <3> SUFFICES ASSUME NEW i \in 1..k PROVE n - 1 - f[k + 1 - i] \in Nat OBVIOUS
    <3>1. k + 1 - i \in 1..k OBVIOUS
    <3>2. f[k + 1 - i] \in 0..n - 1 BY <3>1
    <3> QED BY <3>2
  <2> QED BY <2>1
<1>2. Increasing(g, k)
  <2> SUFFICES ASSUME NEW i \in 1..k, NEW j \in 1..k, i < j PROVE g[i] < g[j]
    BY DEF Increasing
  <2>1. k + 1 - i \in 1..k /\ k + 1 - j \in 1..k /\ k + 1 - j < k + 1 - i OBVIOUS
  <2>2. f[k + 1 - j] < f[k + 1 - i] BY <2>1 DEF Increasing
  <2>3. f[k + 1 - j] \in 0..n - 1 /\ f[k + 1 - i] \in 0..n - 1 BY <2>1
  <2> QED BY <2>2, <2>3
<1>3. 0..r - 1 \subseteq Range(g)
  <2> SUFFICES ASSUME NEW v \in 0..r - 1 PROVE \E i \in 1..k : g[i] = v
    BY DEF Range
  <2>1. n - 1 - v \in n - r..n - 1 OBVIOUS
  <2>2. PICK j \in 1..k : f[j] = n - 1 - v BY <2>1 DEF Range
  <2>3. k + 1 - j \in 1..k /\ k + 1 - (k + 1 - j) = j OBVIOUS
  <2>4. g[k + 1 - j] = v BY <2>2, <2>3
  <2> QED BY <2>3, <2>4
<1> SUFFICES ASSUME NEW i \in 0..r - 1 PROVE i < k /\ f[k - i] = n - 1 - i OBVIOUS
<1>4. i + 1 \in 1..r OBVIOUS
<1>5. i + 1 <= k /\ g[i + 1] = i + 1 - 1
  <2> HIDE DEF g
  <2>1. \A j \in 1..r : j <= k /\ g[j] = j - 1 BY <1>1, <1>2, <1>3, FrontOf
  <2> QED BY <1>4, <2>1
<1>6. i + 1 \in 1..k /\ k + 1 - (i + 1) = k - i /\ k - i \in 1..k BY <1>5
<1>7. n - 1 - f[k - i] = i BY <1>5, <1>6
<1>8. f[k - i] \in 0..n - 1 BY <1>6
<1> HIDE DEF g
<1>9. i < k BY <1>5
<1>10. f[k - i] = n - 1 - i BY <1>7, <1>8
<1> QED BY <1>9, <1>10

----------------------------------------------------------------------------
(* Quotas.                                                                  *)

(* Division with a remainder, as // and % of the code.                      *)
LEMMA DivisionOf ==
  ASSUME NEW a \in Int, NEW m \in Nat \ {0}
  PROVE  a = m * (a \div m) + (a % m) /\ a % m \in 0..m - 1 /\ a \div m \in Int
OBVIOUS

(* Rounding down keeps the order, and rounds no multiple.                   *)
LEMMA DivisionOrder ==
  ASSUME NEW a \in Int, NEW b \in Int, a <= b, NEW m \in Nat \ {0}
  PROVE  a \div m <= b \div m
<1> DEFINE qa == a \div m
           qb == b \div m
<1>1. a = m * qa + (a % m) /\ a % m \in 0..m - 1 /\ qa \in Int BY DivisionOf
<1>2. b = m * qb + (b % m) /\ b % m \in 0..m - 1 /\ qb \in Int BY DivisionOf
<1> HIDE DEF qa, qb
<1>3. SUFFICES ASSUME qb + 1 <= qa PROVE FALSE BY <1>1, <1>2 DEF qa, qb
<1>4. m * (qb + 1) <= m * qa BY <1>1, <1>2, <1>3
<1>5. m * (qb + 1) = m * qb + m BY <1>2
<1> QED BY <1>1, <1>2, <1>4, <1>5

LEMMA DivisionExact ==
  ASSUME NEW a \in Nat, NEW m \in Nat \ {0}
  PROVE  (a * m) \div m = a /\ (m * a) \div m = a
<1> DEFINE q == (a * m) \div m
<1>1. a * m \in Int /\ m * a = a * m OBVIOUS
<1>2. a * m = m * q + ((a * m) % m) /\ (a * m) % m \in 0..m - 1 /\ q \in Int
  BY <1>1, DivisionOf
<1> HIDE DEF q
<1>3. m * (a - q) = a * m - m * q BY <1>2
<1>4. m * (a - q) \in 0..m - 1 BY <1>2, <1>3
<1>5. a - q = 0
  <2>1. ~ (a - q >= 1)
    <3> SUFFICES ASSUME a - q >= 1 PROVE FALSE OBVIOUS
    <3>1. m * (a - q) >= m * 1 BY <1>2
    <3> QED BY <1>4, <3>1
  <2>2. ~ (a - q <= -1)
    <3> SUFFICES ASSUME a - q <= -1 PROVE FALSE OBVIOUS
    <3>1. m * (a - q) <= m * (-1) BY <1>2
    <3> QED BY <1>4, <3>1
  <2> QED BY <1>2, <2>1, <2>2
<1>6. q = a BY <1>2, <1>5
<1> QED BY <1>1, <1>6 DEF q

(* A share rounded at both ends: of b - a tokens no more are evicted than   *)
(* there are, and not a whole token more or less than the proportion e / m. *)
LEMMA ShareOf ==
  ASSUME NEW e \in Nat, NEW m \in Nat \ {0}, e <= m,
         NEW a \in Nat, NEW b \in Nat, a <= b
  PROVE  /\ (e * a) \div m \in Int /\ (e * b) \div m \in Int
         /\ (e * b) \div m - (e * a) \div m \in 0..b - a
         /\ ((e * b) \div m - (e * a) \div m) * m - e * (b - a) \in 1 - m..m - 1
<1> DEFINE qa == (e * a) \div m
           qb == (e * b) \div m
           ra == (e * a) % m
           rb == (e * b) % m
           w == e * (b - a)
           q == qb - qa
<1>1. e * a \in Int /\ e * b \in Int OBVIOUS
<1>2. e * a = m * qa + ra /\ ra \in 0..m - 1 /\ qa \in Int BY <1>1, DivisionOf
<1>3. e * b = m * qb + rb /\ rb \in 0..m - 1 /\ qb \in Int BY <1>1, DivisionOf
<1> HIDE DEF qa, qb, ra, rb
<1>4. w = e * b - e * a /\ w \in Int OBVIOUS
<1>5. m * (qb - qa) = m * qb - m * qa BY <1>2, <1>3
<1>6. m * q - w = ra - rb BY <1>2, <1>3, <1>4, <1>5
<1>7. q \in Int /\ m * q \in Int BY <1>2, <1>3
<1>8. 0 <= w /\ w <= m * (b - a)
  <2>1. b - a \in Nat OBVIOUS
  <2>2. e * (b - a) <= m * (b - a) /\ 0 <= e * (b - a) BY <2>1
  <2> QED BY <2>2
<1> HIDE DEF w, q
<1>9. q >= 0
  <2> SUFFICES ASSUME q <= -1 PROVE FALSE BY <1>7
  <2>1. m * q <= m * (-1) BY <1>7
  <2>2. m * (-1) = -m OBVIOUS
  <2> QED BY <1>2, <1>3, <1>4, <1>6, <1>7, <1>8, <2>1, <2>2
<1>10. q <= b - a
  <2> SUFFICES ASSUME q >= b - a + 1 PROVE FALSE BY <1>7
  <2>1. m * q >= m * (b - a + 1) BY <1>7
  <2>2. m * (b - a + 1) = m * (b - a) + m OBVIOUS
  <2>3. m * (b - a) \in Int OBVIOUS
  <2> HIDE DEF w
  <2> QED BY <1>2, <1>3, <1>4, <1>6, <1>7, <1>8, <2>1, <2>2, <2>3
<1>11. m * q - w \in 1 - m..m - 1 BY <1>2, <1>3, <1>6
<1>12. q * m = m * q BY <1>7
<1>13. q \in 0..b - a BY <1>7, <1>9, <1>10
<1>14. q * m - w \in 1 - m..m - 1 BY <1>11, <1>12
<1>15. qa \in Int /\ qb \in Int BY <1>2, <1>3
<1> QED BY <1>13, <1>14, <1>15 DEF q, qa, qb, w

(* A cache that is compressed is longer than what is kept of it.            *)
LEMMA Shape ==
  ASSUME config \in Configs, NEW n \in Nat, n >= Threshold
  PROVE  /\ config.prefix \in Nat /\ config.recent \in Nat
         /\ config.segments \in Nat \ {0} /\ Budget \in Nat \ {0}
         /\ config.prefix + config.recent <= Budget /\ Budget < n
         /\ Middle(n) \in Nat \ {0} /\ Middle(n) = n - config.prefix - config.recent
         /\ n - Budget \in 1..Middle(n)
<1>1. config \in Config /\ config.prefix + config.recent <= Budget BY ConfigAssumption
<1>2. Budget \in Nat \ {0} /\ Threshold \in Nat /\ Budget < Threshold BY BoundAssumption
<1>3. config.prefix \in Nat /\ config.recent \in Nat /\ config.segments \in Nat \ {0}
  BY <1>1 DEF Config
<1> QED BY <1>1, <1>2, <1>3 DEF Middle

(* The segments follow each other from the prefix to the recent tokens.     *)
LEMMA SegmentsFollow ==
  ASSUME config \in Configs, NEW n \in Nat, n >= Threshold
  PROVE  /\ Start(n, 0) = config.prefix /\ Start(n, config.segments) = n - config.recent
         /\ \A s \in 0..config.segments :
              Start(n, s) \in config.prefix..n - config.recent
         /\ \A s, t \in 0..config.segments : s <= t => Start(n, s) <= Start(n, t)
<1> DEFINE m == Middle(n)
           g == config.segments
           p == config.prefix
<1>1. /\ p \in Nat /\ g \in Nat \ {0} /\ m \in Nat \ {0} /\ config.recent \in Nat
      /\ p + m = n - config.recent
  BY Shape
<1>2. \A s \in 0..g : Start(n, s) = p + (m * s) \div g BY DEF Start
<1> HIDE DEF m, g, p
<1>3. ASSUME NEW s \in 0..g, NEW t \in 0..g, s <= t
      PROVE  (m * s) \div g <= (m * t) \div g
  <2>1. m * s \in Int /\ m * t \in Int /\ m * s <= m * t BY <1>1, <1>3
  <2> QED BY <1>1, <2>1, DivisionOrder
<1>4. (m * 0) \div g = 0
  <2>1. m * 0 = 0 * g BY <1>1
  <2> QED BY <1>1, <2>1, DivisionExact
<1>5. (m * g) \div g = m BY <1>1, DivisionExact
<1>6. ASSUME NEW s \in 0..g PROVE (m * s) \div g \in Int
  <2>1. m * s \in Int BY <1>1
  <2> QED BY <1>1, <2>1, DivisionOf
<1>7. 0 \in 0..g /\ g \in 0..g BY <1>1
<1>8. ASSUME NEW s \in 0..g PROVE (m * s) \div g \in 0..m
  <2>1. (m * 0) \div g <= (m * s) \div g BY <1>1, <1>3, <1>7
  <2>2. (m * s) \div g <= (m * g) \div g BY <1>1, <1>3, <1>7
  <2> QED BY <1>1, <1>4, <1>5, <1>6, <2>1, <2>2
<1>9. Start(n, 0) = p /\ Start(n, g) = n - config.recent
  BY <1>1, <1>2, <1>4, <1>5, <1>7
<1>10. \A s \in 0..g : Start(n, s) \in p..n - config.recent
  <2> SUFFICES ASSUME NEW s \in 0..g PROVE Start(n, s) \in p..n - config.recent OBVIOUS
  <2>1. Start(n, s) = p + (m * s) \div g /\ (m * s) \div g \in 0..m BY <1>2, <1>8
  <2> HIDE DEF m
  <2> QED BY <1>1, <2>1
<1>11. \A s, t \in 0..g : s <= t => Start(n, s) <= Start(n, t)
  <2> SUFFICES ASSUME NEW s \in 0..g, NEW t \in 0..g, s <= t PROVE Start(n, s) <= Start(n, t)
    OBVIOUS
  <2>1. (m * s) \div g <= (m * t) \div g BY <1>3
  <2>2. (m * s) \div g \in Int /\ (m * t) \div g \in Int BY <1>6
  <2> QED BY <1>1, <1>2, <2>1, <2>2
<1> QED BY <1>9, <1>10, <1>11 DEF g, p

(* What is evicted before a boundary grows from nothing to all that goes,   *)
(* never by more than the tokens between two boundaries, and in proportion. *)
LEMMA EvictedGrows ==
  ASSUME config \in Configs, NEW n \in Nat, n >= Threshold
  PROVE  /\ EvictedBefore(n, config.prefix) = 0
         /\ EvictedBefore(n, n - config.recent) = n - Budget
         /\ \A b \in config.prefix..n - config.recent : EvictedBefore(n, b) \in Int
         /\ \A a, b \in config.prefix..n - config.recent : a <= b =>
              /\ EvictedBefore(n, b) - EvictedBefore(n, a) \in 0..b - a
              /\ (EvictedBefore(n, b) - EvictedBefore(n, a)) * Middle(n)
                   - (n - Budget) * (b - a) \in 1 - Middle(n)..Middle(n) - 1
<1> DEFINE m == Middle(n)
           e == n - Budget
           p == config.prefix
           z == n - config.recent
<1>1. p \in Nat /\ m \in Nat \ {0} /\ e \in Nat /\ e <= m /\ z = p + m /\ z \in Int
  BY Shape
<1>2. \A b \in p..z : EvictedBefore(n, b) = (e * (b - p)) \div m BY DEF EvictedBefore
<1> HIDE DEF m, e, p, z
<1>3. p \in p..z /\ z \in p..z /\ p - p = 0 /\ z - p = m BY <1>1
<1>4. EvictedBefore(n, p) = 0
  <2>1. e * 0 = 0 * m BY <1>1
  <2>2. (e * 0) \div m = 0 BY <1>1, <2>1, DivisionExact
  <2> QED BY <1>2, <1>3, <2>2
<1>5. EvictedBefore(n, z) = e
  <2>1. (e * m) \div m = e BY <1>1, DivisionExact
  <2> QED BY <1>2, <1>3, <2>1
<1>6. ASSUME NEW a \in p..z, NEW b \in p..z, a <= b
      PROVE  /\ EvictedBefore(n, b) \in Int
             /\ EvictedBefore(n, b) - EvictedBefore(n, a) \in 0..b - a
             /\ (EvictedBefore(n, b) - EvictedBefore(n, a)) * m - e * (b - a)
                  \in 1 - m..m - 1
  <2>1. PICK x \in Nat : x = a - p BY <1>1
  <2>2. PICK y \in Nat : y = b - p BY <1>1
  <2>3. x <= y /\ y - x = b - a BY <1>1, <1>6, <2>1, <2>2
  <2>4. /\ (e * y) \div m \in Int
        /\ (e * y) \div m - (e * x) \div m \in 0..y - x
        /\ ((e * y) \div m - (e * x) \div m) * m - e * (y - x) \in 1 - m..m - 1
    BY <1>1, <2>3, ShareOf
  <2> QED BY <1>2, <2>1, <2>2, <2>3, <2>4
<1>7. \A b \in p..z : EvictedBefore(n, b) \in Int
  <2> SUFFICES ASSUME NEW b \in p..z PROVE EvictedBefore(n, b) \in Int OBVIOUS
  <2>1. b <= b BY <1>1
  <2> QED BY <1>6, <2>1
<1> QED BY <1>4, <1>5, <1>6, <1>7 DEF m, e, p, z

(* The quota of a segment is one it can fill.                               *)
LEMMA QuotaFits ==
  ASSUME config \in Configs, NEW n \in Nat, n >= Threshold, NEW s \in SegmentIds
  PROVE  LET a == Start(n, s)
             b == Start(n, s + 1)
         IN  /\ a \in config.prefix..b /\ b \in a..n - config.recent
             /\ IsFiniteSet(Segment(n, s)) /\ Cardinality(Segment(n, s)) = b - a
             /\ KeepCount(n, s) = b - a - (EvictedBefore(n, b) - EvictedBefore(n, a))
             /\ KeepCount(n, s) \in 0..b - a
             /\ Max({0, KeepCount(n, s)}) = KeepCount(n, s)
<1> DEFINE a == Start(n, s)
           b == Start(n, s + 1)
           p == config.prefix
           z == n - config.recent
           d == EvictedBefore(n, b) - EvictedBefore(n, a)
<1>1. p \in Int /\ z \in Int /\ config.segments \in Nat BY Shape
<1>2. s \in 0..config.segments /\ s + 1 \in 0..config.segments /\ s <= s + 1
  BY <1>1 DEF SegmentIds
<1>3. a \in p..z /\ b \in p..z /\ a <= b BY <1>2, SegmentsFollow
<1>4. d \in 0..b - a
  <2> HIDE DEF a, b
  <2> QED BY <1>3, EvictedGrows
<1>5. Segment(n, s) = a..b - 1 BY DEF Segment
<1> HIDE DEF a, b, p, z, d
<1>6. IsFiniteSet(a..b - 1) /\ Cardinality(a..b - 1) = b - a
  <2>1. a \in Int /\ b - 1 \in Int /\ a <= b /\ b \in Int BY <1>1, <1>3
  <2>2. /\ IsFiniteSet(a..b - 1)
        /\ Cardinality(a..b - 1) = IF a > b - 1 THEN 0 ELSE b - 1 - a + 1
    BY <2>1, FS_Interval
  <2> QED BY <2>1, <2>2
<1>7. KeepCount(n, s) = b - a - d BY <1>5, <1>6 DEF KeepCount, a, b, d
<1>8. KeepCount(n, s) \in 0..b - a BY <1>1, <1>3, <1>4, <1>7
<1>9. Max({0, KeepCount(n, s)}) = KeepCount(n, s)
  <2>1. \A k \in Nat : Max({0, k}) = k
    <3> SUFFICES ASSUME NEW k \in Nat PROVE Max({0, k}) = k OBVIOUS
    <3>1. k \in {0, k} /\ \A y \in {0, k} : k >= y OBVIOUS
    <3>2. Max({0, k}) \in {0, k} /\ \A y \in {0, k} : Max({0, k}) >= y BY <3>1 DEF Max
    <3> QED BY <3>2
  <2>2. KeepCount(n, s) \in Nat BY <1>1, <1>3, <1>8
  <2> QED BY <2>1, <2>2
<1>10. a \in p..b /\ b \in a..z BY <1>1, <1>3
<1> QED BY <1>5, <1>6, <1>7, <1>8, <1>9, <1>10 DEF a, b, p, z, d

----------------------------------------------------------------------------
(* The policies.                                                            *)

(* The windows and the segments divide the cache between them.              *)
LEMMA WindowsApart ==
  ASSUME config \in Configs, NEW n \in Nat, n >= Threshold
  PROVE  /\ IsFiniteSet(Protected(n)) /\ Protected(n) \subseteq 0..n - 1
         /\ Cardinality(Protected(n)) = config.prefix + config.recent
         /\ \A s \in SegmentIds :
              /\ Segment(n, s) \subseteq config.prefix..n - config.recent - 1
              /\ Segment(n, s) \subseteq 0..n - 1
              /\ Segment(n, s) \cap Protected(n) = {}
         /\ \A s, t \in SegmentIds : s # t => Segment(n, s) \cap Segment(n, t) = {}
<1> DEFINE p == config.prefix
           r == config.recent
           A == 0..p - 1
           B == n - r..n - 1
<1>1. p \in Nat /\ r \in Nat /\ config.segments \in Nat /\ p + r <= n BY Shape
<1>2. Protected(n) = A \cup B BY DEF Protected
<1>3. IsFiniteSet(A) /\ Cardinality(A) = p
  <2>1. p - 1 \in Int /\ 0 \in Int BY <1>1
  <2>2. IsFiniteSet(A) /\ Cardinality(A) = IF 0 > p - 1 THEN 0 ELSE p - 1 - 0 + 1
    BY <2>1, FS_Interval
  <2> QED BY <1>1, <2>2
<1>4. IsFiniteSet(B) /\ Cardinality(B) = r
  <2>1. n - r \in Int /\ n - 1 \in Int BY <1>1
  <2>2. IsFiniteSet(B)
        /\ Cardinality(B) = IF n - r > n - 1 THEN 0 ELSE n - 1 - (n - r) + 1
    BY <2>1, FS_Interval
  <2> QED BY <1>1, <2>2
<1>5. A \cap B = {} /\ A \subseteq 0..n - 1 /\ B \subseteq 0..n - 1 BY <1>1
<1>6. IsFiniteSet(A \cup B) /\ Cardinality(A \cup B) = p + r
  <2>1. Cardinality({}) = 0 BY FS_EmptySet
  <2> HIDE DEF A, B
  <2>2. /\ IsFiniteSet(A \cup B)
        /\ Cardinality(A \cup B) = Cardinality(A) + Cardinality(B) - Cardinality(A \cap B)
    BY <1>3, <1>4, FS_Union
  <2>3. Cardinality(A \cap B) = 0 BY <1>5, <2>1, Zenon
  <2> QED BY <1>1, <1>3, <1>4, <2>2, <2>3
<1>7. ASSUME NEW s \in SegmentIds
      PROVE  Segment(n, s) \subseteq p..n - r - 1
  <2>1. s \in 0..config.segments /\ s + 1 \in 0..config.segments BY <1>1 DEF SegmentIds
  <2>2. Start(n, s) \in p..n - r /\ Start(n, s + 1) \in p..n - r BY <2>1, SegmentsFollow
  <2>3. \A i \in Segment(n, s) : i \in p..n - r - 1
    <3> HIDE DEF p, r
    <3> QED BY <1>1, <2>2 DEF Segment
  <2> QED BY <2>3
<1>8. p..n - r - 1 \subseteq 0..n - 1 /\ (p..n - r - 1) \cap (A \cup B) = {} BY <1>1
<1>9. ASSUME NEW s \in SegmentIds, NEW t \in SegmentIds, s < t
      PROVE  Segment(n, s) \cap Segment(n, t) = {}
  <2>1. s + 1 \in 0..config.segments /\ t \in 0..config.segments /\ s + 1 <= t
    BY <1>1, <1>9 DEF SegmentIds
  <2>2. Start(n, s + 1) <= Start(n, t) BY <2>1, SegmentsFollow
  <2>3. Start(n, s + 1) \in Int /\ Start(n, t) \in Int BY <1>1, <2>1, SegmentsFollow
  <2> QED BY <2>2, <2>3 DEF Segment
<1>10. \A s, t \in SegmentIds : s # t => Segment(n, s) \cap Segment(n, t) = {}
  <2> SUFFICES ASSUME NEW s \in SegmentIds, NEW t \in SegmentIds, s # t
               PROVE  Segment(n, s) \cap Segment(n, t) = {}
    OBVIOUS
  <2>1. s < t \/ t < s BY DEF SegmentIds
  <2> QED BY <1>9, <2>1
<1> HIDE DEF A, B
<1>11. Protected(n) \subseteq 0..n - 1 BY <1>2, <1>5
<1>12. \A s \in SegmentIds : /\ Segment(n, s) \subseteq 0..n - 1
                             /\ Segment(n, s) \cap Protected(n) = {}
  BY <1>2, <1>7, <1>8
<1> QED BY <1>2, <1>6, <1>7, <1>10, <1>11, <1>12

(* The selection of the windows and of the tokens C[s] of every segment s.  *)
ChoiceOf(n, C) == Protected(n) \cup UNION {C[s] : s \in SegmentIds}

(* The tokens kept of all segments, as many of each as its quota, are       *)
(* exactly those the budget leaves beside the windows.                      *)
LEMMA QuotasAddUp ==
  ASSUME config \in Configs, NEW n \in Nat, n >= Threshold, NEW C,
         \A s \in SegmentIds : C[s] \subseteq Segment(n, s)
                               /\ Cardinality(C[s]) = KeepCount(n, s),
         NEW K, K = ChoiceOf(n, C)
  PROVE  /\ IsFiniteSet(K) /\ K \subseteq 0..n - 1 /\ Cardinality(K) = Budget
         /\ \A s \in SegmentIds : K \cap Segment(n, s) = C[s]
<1> DEFINE U(j) == UNION {C[s] : s \in 0..j - 1}
           D(b) == EvictedBefore(n, b)
           p == config.prefix
           g == config.segments
           S == {j \in Nat : j <= g =>
                   /\ IsFiniteSet(U(j)) /\ U(j) \subseteq p..Start(n, j) - 1
                   /\ Cardinality(U(j)) = Start(n, j) - p - D(Start(n, j))}
<1>1. /\ p \in Nat /\ g \in Nat \ {0} /\ config.recent \in Nat /\ n - Budget \in Int
      /\ Budget \in Int
  BY Shape
<1>2. Start(n, 0) = p /\ Start(n, g) = n - config.recent BY SegmentsFollow
<1>3. 0 \in S
  <2>1. U(0) = {} OBVIOUS
  <2>2. IsFiniteSet({}) /\ Cardinality({}) = 0 BY FS_EmptySet
  <2>3. D(p) = 0 BY EvictedGrows
  <2>4. Start(n, 0) - p - D(Start(n, 0)) = 0 BY <1>1, <1>2, <2>3
  <2> HIDE DEF U, D, p
  <2> QED BY <2>1, <2>2, <2>4
<1>4. ASSUME NEW j \in Nat, j \in S PROVE j + 1 \in S
  <2> DEFINE a == Start(n, j)
             b == Start(n, j + 1)
  <2> SUFFICES ASSUME j + 1 <= g
               PROVE  /\ IsFiniteSet(U(j + 1)) /\ U(j + 1) \subseteq p..b - 1
                      /\ Cardinality(U(j + 1)) = b - p - D(b)
    OBVIOUS
  <2>1. /\ IsFiniteSet(U(j)) /\ U(j) \subseteq p..a - 1
        /\ Cardinality(U(j)) = a - p - D(a)
    BY <1>1, <1>4
  <2>2. j \in SegmentIds BY <1>1 DEF SegmentIds
  <2>3. U(j + 1) = U(j) \cup C[j]
    <3>1. 0..j + 1 - 1 = (0..j - 1) \cup {j} OBVIOUS
    <3> QED BY <3>1
  <2>4. /\ a \in p..b /\ b \in a..n - config.recent
        /\ IsFiniteSet(Segment(n, j))
        /\ KeepCount(n, j) = b - a - (D(b) - D(a))
    BY <2>2, QuotaFits
  <2>5. C[j] \subseteq a..b - 1 /\ Cardinality(C[j]) = KeepCount(n, j)
    BY <2>2 DEF Segment
  <2>6. IsFiniteSet(C[j]) BY <2>2, <2>4, FS_Subset
  <2>7. D(a) \in Int /\ D(b) \in Int
    <3>1. a \in p..n - config.recent /\ b \in p..n - config.recent
      BY <1>1, <2>4
    <3> HIDE DEF a, b
    <3> QED BY <3>1, EvictedGrows
  <2> HIDE DEF U, a, b, D
  <2>8. U(j) \cap C[j] = {} BY <2>1, <2>4, <2>5, <1>1
  <2>9. /\ IsFiniteSet(U(j + 1))
        /\ Cardinality(U(j + 1)) =
             Cardinality(U(j)) + Cardinality(C[j]) - Cardinality(U(j) \cap C[j])
    BY <2>1, <2>3, <2>6, FS_Union
  <2>10. Cardinality(U(j) \cap C[j]) = 0 BY <2>8, FS_EmptySet, Zenon
  <2>11. Cardinality(U(j + 1)) = b - p - D(b)
    BY <1>1, <2>1, <2>4, <2>5, <2>7, <2>9, <2>10
  <2>12. U(j + 1) \subseteq p..b - 1 BY <1>1, <2>1, <2>3, <2>4, <2>5
  <2> QED BY <2>9, <2>11, <2>12
<1>5. g \in S
  <2> HIDE DEF S
  <2> QED BY <1>1, <1>3, <1>4, Induction
<1>6. UNION {C[s] : s \in SegmentIds} = U(g) BY DEF SegmentIds
<1>7. D(n - config.recent) = n - Budget BY EvictedGrows
<1>8. /\ IsFiniteSet(U(g)) /\ U(g) \subseteq p..n - config.recent - 1
      /\ Cardinality(U(g)) = Budget - config.recent - p
  <2>1. /\ IsFiniteSet(U(g)) /\ U(g) \subseteq p..Start(n, g) - 1
        /\ Cardinality(U(g)) = Start(n, g) - p - D(Start(n, g))
    <3>1. \A j \in S : j <= g =>
            /\ IsFiniteSet(U(j)) /\ U(j) \subseteq p..Start(n, j) - 1
            /\ Cardinality(U(j)) = Start(n, j) - p - D(Start(n, j))
      OBVIOUS
    <3>2. g <= g BY <1>1
    <3> HIDE DEF S, U, D, p, g
    <3> QED BY <1>5, <3>1, <3>2
  <2> HIDE DEF U, D, p, g
  <2> QED BY <1>1, <1>2, <1>7, <2>1
<1>9. /\ IsFiniteSet(Protected(n)) /\ Protected(n) \subseteq 0..n - 1
      /\ Cardinality(Protected(n)) = p + config.recent
  BY WindowsApart
<1> HIDE DEF U, S
<1>10. Protected(n) \cap U(g) = {} BY <1>1, <1>8 DEF Protected
<1>11. K = Protected(n) \cup U(g) BY <1>6 DEF ChoiceOf
<1>12. IsFiniteSet(K) /\ Cardinality(K) = Budget
  <2>1. /\ IsFiniteSet(Protected(n) \cup U(g))
        /\ Cardinality(Protected(n) \cup U(g)) =
             Cardinality(Protected(n)) + Cardinality(U(g)) - Cardinality(Protected(n) \cap U(g))
    BY <1>8, <1>9, FS_Union
  <2>2. Cardinality(Protected(n) \cap U(g)) = 0 BY <1>10, FS_EmptySet, Zenon
  <2> QED BY <1>1, <1>8, <1>9, <1>11, <2>1, <2>2
<1>13. K \subseteq 0..n - 1 BY <1>1, <1>8, <1>9, <1>11
<1>14. ASSUME NEW s \in SegmentIds PROVE K \cap Segment(n, s) = C[s]
  <2>1. C[s] \subseteq K BY <1>14 DEF ChoiceOf
  <2>2. ASSUME NEW i \in K, i \in Segment(n, s) PROVE i \in C[s]
    <3>1. i \notin Protected(n) BY <2>2, WindowsApart
    <3>2. PICK t \in SegmentIds : i \in C[t] BY <3>1 DEF ChoiceOf
    <3>3. i \in Segment(n, t) BY <3>2
    <3>4. t = s BY <2>2, <3>3, WindowsApart
    <3> QED BY <3>2, <3>4
  <2> QED BY <2>1, <2>2
<1> QED BY <1>12, <1>13, <1>14

(* A selection of policy "v3" is a choice of tokens in every segment.       *)
LEMMA SegmentKeptIs ==
  ASSUME config \in Configs, NEW n \in Nat, n >= Threshold, NEW scores \in [1..n -> Score],
         NEW s \in SegmentIds, NEW T
  PROVE  /\ Len(scores) = n
         /\ T \in SegmentKept(scores, s) <=>
              /\ T \subseteq Segment(n, s) /\ Cardinality(T) = KeepCount(n, s)
              /\ \A t \in T, u \in Segment(n, s) \ T : At(scores, t) >= At(scores, u)
<1>1. Len(scores) = n BY LenProperties, IsASeq
<1>2. Max({0, KeepCount(n, s)}) = KeepCount(n, s) BY QuotaFits
<1> QED BY <1>1, <1>2 DEF SegmentKept, TopK, kSubset

(* ... which may be made in each of them on its own.                        *)
LEMMA V3KeptIs ==
  ASSUME config \in Configs, NEW n \in Nat, n >= Threshold, NEW scores \in [1..n -> Score],
         NEW K
  PROVE  K \in V3Kept(scores) <=>
           \E C : /\ \A s \in SegmentIds : C[s] \in SegmentKept(scores, s)
                  /\ K = ChoiceOf(n, C)
<1> DEFINE Ts == {SegmentKept(scores, s) : s \in SegmentIds}
<1>0. Len(scores) = n BY LenProperties, IsASeq
<1>1. ASSUME K \in V3Kept(scores)
      PROVE  \E C : /\ \A s \in SegmentIds : C[s] \in SegmentKept(scores, s)
                    /\ K = ChoiceOf(n, C)
  <2>1. PICK f \in [Ts -> UNION Ts] :
          /\ \A T \in Ts : f[T] \in T
          /\ K = Protected(n) \cup UNION Range(f)
    BY <1>0, <1>1 DEF V3Kept, Choices
  <2> DEFINE C == [s \in SegmentIds |-> f[SegmentKept(scores, s)]]
  <2>2. \A s \in SegmentIds : C[s] \in SegmentKept(scores, s) BY <2>1
  <2>3. Range(f) = {C[s] : s \in SegmentIds} BY <2>1 DEF Range
  <2>4. K = ChoiceOf(n, C) BY <2>1, <2>3 DEF ChoiceOf
  <2> HIDE DEF C
  <2> QED BY <2>2, <2>4
<1>2. ASSUME NEW C, \A s \in SegmentIds : C[s] \in SegmentKept(scores, s),
             K = ChoiceOf(n, C)
      PROVE  K \in V3Kept(scores)
  <2>1. ASSUME NEW s \in SegmentIds, NEW t \in SegmentIds,
               SegmentKept(scores, s) = SegmentKept(scores, t)
        PROVE  C[s] = C[t]
    <3>1. CASE s = t BY <3>1
    <3>2. CASE s # t
      <4>1. Segment(n, s) \cap Segment(n, t) = {} BY <3>2, WindowsApart
      <4>2. /\ C[s] \in SegmentKept(scores, s) /\ C[s] \in SegmentKept(scores, t)
            /\ C[t] \in SegmentKept(scores, t) /\ C[t] \in SegmentKept(scores, s)
        BY <1>2, <2>1
      <4>3. C[s] \subseteq Segment(n, s) /\ C[s] \subseteq Segment(n, t)
        BY <4>2, SegmentKeptIs
      <4>4. C[t] \subseteq Segment(n, s) /\ C[t] \subseteq Segment(n, t)
        BY <4>2, SegmentKeptIs
      <4> QED BY <4>1, <4>3, <4>4
    <3> QED BY <3>1, <3>2
  <2> DEFINE f == [T \in Ts |-> C[CHOOSE s \in SegmentIds : SegmentKept(scores, s) = T]]
  <2>2. ASSUME NEW s \in SegmentIds PROVE f[SegmentKept(scores, s)] = C[s]
    <3> DEFINE t == CHOOSE t \in SegmentIds : SegmentKept(scores, t) = SegmentKept(scores, s)
    <3>1. t \in SegmentIds /\ SegmentKept(scores, t) = SegmentKept(scores, s) OBVIOUS
    <3>2. f[SegmentKept(scores, s)] = C[t] OBVIOUS
    <3> HIDE DEF t, f
    <3> QED BY <2>1, <3>1, <3>2
  <2>3. \A T \in Ts : f[T] \in T /\ f[T] \in UNION Ts
    <3> SUFFICES ASSUME NEW s \in SegmentIds
                 PROVE  f[SegmentKept(scores, s)] \in SegmentKept(scores, s)
      <4> HIDE DEF f
      <4> QED OBVIOUS
    <3> HIDE DEF f
    <3> QED BY <1>2, <2>2
  <2>4. f \in [Ts -> UNION Ts] BY <2>3
  <2>5. Range(f) = {C[s] : s \in SegmentIds}
    <3>1. Range(f) = {f[T] : T \in Ts} BY <2>4 DEF Range
    <3>2. {f[T] : T \in Ts} = {f[SegmentKept(scores, s)] : s \in SegmentIds}
      <4> HIDE DEF f
      <4> QED OBVIOUS
    <3> HIDE DEF f
    <3> QED BY <2>2, <3>1, <3>2
  <2> HIDE DEF f
  <2>6. Range(f) \in Choices(Ts) BY <2>3, <2>4 DEF Choices
  <2>7. K = Protected(n) \cup UNION Range(f) BY <1>2, <2>5 DEF ChoiceOf
  <2> QED BY <1>0, <2>6, <2>7 DEF V3Kept
<1> QED BY <1>1, <1>2

(* What "v3" keeps: the windows, and of every segment its quota.            *)
LEMMA V3Keeps ==
  ASSUME config \in Configs, NEW n \in Nat, n >= Threshold, NEW scores \in [1..n -> Score],
         NEW K \in V3Kept(scores)
  PROVE  /\ IsFiniteSet(K) /\ K \subseteq 0..n - 1 /\ Cardinality(K) = Budget
         /\ Protected(n) \subseteq K
         /\ \A s \in SegmentIds : /\ IsFiniteSet(K \cap Segment(n, s))
                                  /\ Cardinality(K \cap Segment(n, s)) = KeepCount(n, s)
<1>1. PICK C : /\ \A s \in SegmentIds : C[s] \in SegmentKept(scores, s)
               /\ K = ChoiceOf(n, C)
  BY V3KeptIs
<1>3. \A s \in SegmentIds : C[s] \subseteq Segment(n, s)
                            /\ Cardinality(C[s]) = KeepCount(n, s)
  BY <1>1, SegmentKeptIs
<1>5. /\ IsFiniteSet(K) /\ K \subseteq 0..n - 1 /\ Cardinality(K) = Budget
      /\ \A s \in SegmentIds : K \cap Segment(n, s) = C[s]
  BY <1>1, <1>3, QuotasAddUp
<1>6. \A s \in SegmentIds : IsFiniteSet(K \cap Segment(n, s)) BY <1>5, FS_Subset
<1>7. Protected(n) \subseteq K BY <1>1 DEF ChoiceOf
<1> QED BY <1>3, <1>5, <1>6, <1>7

(* A sequence of as many indices as the budget, in order, with the windows. *)
Listed(n, kept) ==
  /\ kept \in [1..Budget -> 0..n - 1] /\ Increasing(kept, Budget)
  /\ Protected(n) \subseteq Range(kept)

(* Sorting a selection lists it.                                            *)
LEMMA SortedListed ==
  ASSUME NEW n \in Nat, NEW K, IsFiniteSet(K), K \subseteq 0..n - 1,
         Cardinality(K) = Budget, Protected(n) \subseteq K
  PROVE  Listed(n, Sorted(K)) /\ ToSet(Sorted(K)) = K
<1>1. K \subseteq Nat OBVIOUS
<1>2. /\ Sorted(K) \in [1..Budget -> K] /\ Increasing(Sorted(K), Budget)
      /\ Range(Sorted(K)) = K
  BY <1>1, SortedEnumerates
<1>3. Sorted(K) \in [1..Budget -> 0..n - 1] BY <1>2
<1>4. ToSet(Sorted(K)) = K BY <1>2 DEF ToSet, Range
<1> QED BY <1>2, <1>3, <1>4 DEF Listed

(* No score is above the greatest one.                                      *)
LEMMA GreatestScore ==
  ASSUME Score # {}
  PROVE  Max(Score) \in Nat /\ \A x \in Score : x <= Max(Score)
<1> DEFINE k == Cardinality(Score)
           f == Sorted(Score)
<1>1. Score \subseteq Nat /\ IsFiniteSet(Score) BY BoundAssumption
<1>2. k \in Nat /\ f \in [1..k -> Score] /\ Increasing(f, k) /\ Range(f) = Score
  BY <1>1, SortedEnumerates
<1>3. k # 0 BY <1>1, FS_EmptySet
<1> HIDE DEF k, f
<1>4. k \in 1..k BY <1>2, <1>3
<1>5. ASSUME NEW x \in Score PROVE x <= f[k]
  <2>1. PICK i \in 1..k : f[i] = x BY <1>2 DEF Range
  <2>2. i = k \/ i < k BY <1>2
  <2>3. f[k] \in Nat /\ x \in Nat BY <1>1, <1>2, <1>4
  <2>4. i < k => f[i] < f[k] BY <1>2, <1>4, <2>1 DEF Increasing
  <2> QED BY <2>1, <2>2, <2>3, <2>4
<1>6. f[k] \in Score BY <1>2, <1>4
<1>7. \A x \in Score : f[k] >= x BY <1>1, <1>5, <1>6
<1>8. Max(Score) \in Score /\ \A x \in Score : Max(Score) >= x
  BY <1>6, <1>7 DEF Max
<1> QED BY <1>1, <1>8

(* What "global" keeps: as many tokens as the budget, with the windows.     *)
LEMMA GlobalKeeps ==
  ASSUME config \in Configs, NEW n \in Nat, n >= Threshold, NEW scores \in [1..n -> Score],
         NEW K \in GlobalKept(scores)
  PROVE  /\ IsFiniteSet(K) /\ K \subseteq 0..n - 1 /\ Cardinality(K) = Budget
         /\ Protected(n) \subseteq K
<1> DEFINE value == [i \in 0..n - 1 |-> Ranked(scores, i)]
<1>1. Len(scores) = n BY LenProperties, IsASeq
<1>2. /\ K \subseteq 0..n - 1 /\ Cardinality(K) = Budget
      /\ \A t \in K, u \in (0..n - 1) \ K : value[t] >= value[u]
  BY <1>1 DEF GlobalKept, TopK, kSubset, Indices
<1>3. IsFiniteSet(K)
  <2>1. IsFiniteSet(0..n - 1) BY FS_Interval
  <2> QED BY <1>2, <2>1, FS_Subset
<1>4. Budget \in Nat \ {0} /\ config.prefix + config.recent <= Budget
      /\ config.prefix \in Nat /\ config.recent \in Nat
  BY Shape
<1>5. /\ IsFiniteSet(Protected(n)) /\ Protected(n) \subseteq 0..n - 1
      /\ Cardinality(Protected(n)) = config.prefix + config.recent
  BY WindowsApart
<1>6. ASSUME NEW i \in Protected(n), i \notin K PROVE FALSE
  <2>1. i \in 0..n - 1 BY <1>5
  <2>2. Score # {}
    <3>1. 1 \in 1..n BY <2>1
    <3>2. scores[1] \in Score BY <3>1
    <3> QED BY <3>2
  <2>3. Max(Score) \in Nat /\ \A x \in Score : x <= Max(Score) BY <2>2, GreatestScore
  <2>4. value[i] = Max(Score) + 1 BY <1>1, <2>1 DEF Ranked
  <2>5. ASSUME NEW t \in K PROVE t \in Protected(n)
    <3> SUFFICES ASSUME t \notin Protected(n) PROVE FALSE OBVIOUS
    <3>1. t \in 0..n - 1 /\ t + 1 \in 1..n BY <1>2
    <3>2. value[t] = At(scores, t) BY <1>1, <3>1 DEF Ranked
    <3>3. At(scores, t) \in Score BY <3>1 DEF At
    <3>4. value[t] >= value[i] BY <1>2, <1>6, <2>1
    <3>5. Score \subseteq Nat BY BoundAssumption
    <3> HIDE DEF value
    <3>6. At(scores, t) <= Max(Score) /\ At(scores, t) \in Nat BY <2>3, <3>3, <3>5
    <3> QED BY <2>3, <2>4, <3>2, <3>4, <3>6
  <2> DEFINE Others == Protected(n) \ {i}
  <2>6. K \subseteq Others BY <1>6, <2>5
  <2>7. /\ IsFiniteSet(Others)
        /\ Cardinality(Others) = IF i \in Protected(n) THEN Cardinality(Protected(n)) - 1
                                 ELSE Cardinality(Protected(n))
    BY <1>5, FS_RemoveElement
  <2>8. Cardinality(K) <= Cardinality(Others)
    <3> HIDE DEF Others
    <3> QED BY <2>6, <2>7, FS_Subset
  <2>9. Cardinality(Others) = Cardinality(Protected(n)) - 1 BY <2>7
  <2> HIDE DEF Others
  <2> QED BY <1>2, <1>4, <1>5, <2>8, <2>9
<1> QED BY <1>2, <1>3, <1>6

----------------------------------------------------------------------------
(* The batched form.                                                        *)

(* Min and Max of a set of numbers that has a bound.                        *)
LEMMA ExtremesOf ==
  ASSUME NEW w \in Nat, NEW S, S \subseteq 0..w, S # {}
  PROVE  /\ Min(S) \in S /\ Max(S) \in S
         /\ \A x \in S : Min(S) <= x /\ x <= Max(S)
<1>1. S \subseteq Nat OBVIOUS
<1>2. Min(S) \in S /\ \A x \in S : Min(S) <= x
  <2>1. \E x \in S : \A y \in S : x <= y BY <1>1, LeastOf
  <2> QED BY <2>1 DEF Min
<1> DEFINE T == {w - x : x \in S}
<1>3. \E x \in S : \A y \in S : x >= y
  <2>1. T \subseteq Nat /\ T # {}
    <3>1. \A x \in S : w - x \in Nat OBVIOUS
    <3> QED BY <3>1
  <2>2. \E x \in T : \A y \in T : x <= y
    <3> HIDE DEF T
    <3> QED BY <2>1, LeastOf
  <2>3. PICK x \in S : \A y \in T : w - x <= y BY <2>2
  <2>4. \A y \in S : w - x <= w - y BY <2>3
  <2>5. \A y \in S : x >= y BY <1>1, <2>4
  <2> QED BY <2>5
<1>4. Max(S) \in S /\ \A x \in S : Max(S) >= x BY <1>3 DEF Max
<1> QED BY <1>1, <1>2, <1>4

(* Segments of one width have the bounds and the quotas of the general form,*)
(* and one quota for all of them if not the greatest is wanted from topk.   *)
LEMMA BatchShape ==
  ASSUME config \in Configs, NEW n \in Nat, n >= Threshold, Batchable(n)
  PROVE  /\ Width(n) \in Nat \ {0}
         /\ \A s \in 0..config.segments :
              s * Width(n) \in Nat /\ Start(n, s) = config.prefix + s * Width(n)
         /\ \A s \in SegmentIds :
              /\ Start(n, s + 1) = Start(n, s) + Width(n)
              /\ Quota(n, s) = KeepCount(n, s)
              /\ Quota(n, s) \in 1..Max(Quotas(n))
              /\ ~ SortedTopK(n) => Quota(n, s) = Max(Quotas(n))
         /\ Max(Quotas(n)) \in 1..Width(n)
<1> DEFINE m == Middle(n)
           g == config.segments
           p == config.prefix
           w == Width(n)
           e == n - Budget
<1>1. /\ p \in Nat /\ g \in Nat \ {0} /\ m \in Nat \ {0} /\ e \in Nat BY Shape
<1>2. m % g = 0 /\ Min(Quotas(n)) > 0 BY DEF Batchable
<1>3. m = g * w /\ w \in Int
  <2>1. w = m \div g BY DEF Width
  <2> HIDE DEF m, g, w
  <2>2. m = g * (m \div g) + (m % g) /\ m \div g \in Int BY <1>1, DivisionOf
  <2> QED BY <1>1, <1>2, <2>1, <2>2
<1>4. w \in Nat \ {0}
  <2> HIDE DEF m, g, w
  <2> SUFFICES ASSUME w <= 0 PROVE FALSE BY <1>3
  <2>1. g * w <= g * 0 BY <1>1, <1>3
  <2> QED BY <1>1, <1>3, <2>1
<1>5. ASSUME NEW s \in 0..g
      PROVE  s * w \in Nat /\ Start(n, s) = p + s * w
  <2>1. Start(n, s) = p + (m * s) \div g BY DEF Start
  <2> HIDE DEF m, g, w, p
  <2>2. m * s = (s * w) * g BY <1>1, <1>3
  <2>3. s * w \in Nat BY <1>1, <1>4
  <2>4. ((s * w) * g) \div g = s * w BY <1>1, <2>3, DivisionExact
  <2> QED BY <2>1, <2>2, <2>3, <2>4
<1>6. ASSUME NEW s \in SegmentIds
      PROVE  /\ Start(n, s + 1) = Start(n, s) + w
             /\ Quota(n, s) = KeepCount(n, s) /\ KeepCount(n, s) \in 0..w
  <2>1. s \in 0..g /\ s + 1 \in 0..g BY <1>1 DEF SegmentIds
  <2>2. /\ Start(n, s) = p + s * w /\ Start(n, s + 1) = p + (s + 1) * w
        /\ s * w \in Nat /\ (s + 1) * w \in Nat
    BY <1>5, <2>1
  <2>3. (s + 1) * w = s * w + w
    <3> HIDE DEF w
    <3> QED BY <1>4, <2>1
  <2> DEFINE a == Start(n, s)
             b == Start(n, s + 1)
  <2>4. /\ KeepCount(n, s) = b - a - (EvictedBefore(n, b) - EvictedBefore(n, a))
        /\ KeepCount(n, s) \in 0..b - a
    BY QuotaFits
  <2>5. a - p = s * w /\ b - p = (s + 1) * w
    <3> HIDE DEF w
    <3> QED BY <1>1, <2>2
  <2>6. /\ EvictedBefore(n, b) = (e * ((s + 1) * w)) \div m
        /\ EvictedBefore(n, a) = (e * (s * w)) \div m
    BY <2>5 DEF EvictedBefore
  <2>7. Quota(n, s) = w - (e * ((s + 1) * w)) \div m + (e * (s * w)) \div m
    BY DEF Quota
  <2>8. (e * ((s + 1) * w)) \div m \in Int /\ (e * (s * w)) \div m \in Int
    <3> HIDE DEF e, w, m
    <3>1. e * ((s + 1) * w) \in Int /\ e * (s * w) \in Int BY <1>1, <2>2
    <3> QED BY <1>1, <3>1, DivisionOf
  <2> DEFINE x == (e * ((s + 1) * w)) \div m
             y == (e * (s * w)) \div m
  <2>9. b = a + w BY <1>1, <1>4, <2>2, <2>3
  <2>10. a \in Int /\ b - a = w BY <1>1, <1>4, <2>2, <2>9
  <2> HIDE DEF a, b, w, x, y, m, e
  <2>11. Quota(n, s) = KeepCount(n, s)
    BY <1>4, <2>4, <2>6, <2>7, <2>8, <2>10 DEF x, y
  <2> QED BY <2>4, <2>9, <2>10, <2>11 DEF a, b
<1>7. 0 \in SegmentIds BY <1>1 DEF SegmentIds
<1>8. Quotas(n) \subseteq 0..w /\ Quotas(n) # {} BY <1>6, <1>7 DEF Quotas
<1> HIDE DEF w, m, g, p, e
<1>9. /\ Min(Quotas(n)) \in Quotas(n) /\ Max(Quotas(n)) \in Quotas(n)
      /\ \A x \in Quotas(n) : Min(Quotas(n)) <= x /\ x <= Max(Quotas(n))
  BY <1>4, <1>8, ExtremesOf
<1>10. Min(Quotas(n)) \in Nat /\ Max(Quotas(n)) \in 0..w BY <1>8, <1>9
<1>11. ASSUME NEW s \in SegmentIds
       PROVE  /\ Quota(n, s) \in 1..Max(Quotas(n))
              /\ ~ SortedTopK(n) => Quota(n, s) = Max(Quotas(n))
  <2>1. Quota(n, s) \in Quotas(n) BY DEF Quotas
  <2>2. Quota(n, s) \in Nat BY <1>8, <2>1
  <2>3. Min(Quotas(n)) <= Quota(n, s) /\ Quota(n, s) <= Max(Quotas(n)) BY <1>9, <2>1
  <2>4. ~ SortedTopK(n) => Min(Quotas(n)) = Max(Quotas(n)) BY DEF SortedTopK
  <2> QED BY <1>2, <1>4, <1>10, <2>2, <2>3, <2>4
<1>12. Max(Quotas(n)) \in 1..w BY <1>4, <1>7, <1>10, <1>11
<1> QED BY <1>4, <1>5, <1>6, <1>11, <1>12 DEF w, g, p

(* The slot of the result that a segment's tokens start at.                 *)
Offset(n, s) == Start(n, s) - EvictedBefore(n, Start(n, s))

(* The slots run from the prefix to the recent tokens, a quota at a time.   *)
LEMMA OffsetsGrow ==
  ASSUME config \in Configs, NEW n \in Nat, n >= Threshold
  PROVE  /\ Offset(n, 0) = config.prefix
         /\ Offset(n, config.segments) = Budget - config.recent
         /\ \A s \in 0..config.segments : Offset(n, s) \in Int
         /\ \A s \in SegmentIds : Offset(n, s + 1) = Offset(n, s) + KeepCount(n, s)
         /\ \A s, t \in 0..config.segments : s <= t => Offset(n, s) <= Offset(n, t)
<1> DEFINE z == n - config.recent
           p == config.prefix
           g == config.segments
           D(b) == EvictedBefore(n, b)
<1>1. /\ p \in Nat /\ g \in Nat \ {0} /\ z \in Int /\ Budget \in Int
      /\ z - (n - Budget) = Budget - config.recent
  BY Shape
<1>2. /\ Start(n, 0) = p /\ Start(n, g) = z
      /\ \A s \in 0..g : Start(n, s) \in p..z
      /\ \A s, t \in 0..g : s <= t => Start(n, s) <= Start(n, t)
  BY SegmentsFollow
<1>3. /\ D(p) = 0 /\ D(z) = n - Budget
      /\ \A b \in p..z : D(b) \in Int
      /\ \A a, b \in p..z : a <= b => D(b) - D(a) \in 0..b - a
  BY EvictedGrows
<1>4. \A s \in SegmentIds :
        KeepCount(n, s) = Start(n, s + 1) - Start(n, s)
                            - (D(Start(n, s + 1)) - D(Start(n, s)))
  BY QuotaFits
<1>5. SegmentIds = 0..g - 1 BY DEF SegmentIds
<1> HIDE DEF D, p, z, g
<1>6. ASSUME NEW s \in 0..g
      PROVE  /\ Start(n, s) \in Int /\ D(Start(n, s)) \in Int
             /\ Offset(n, s) = Start(n, s) - D(Start(n, s))
  <2>1. Start(n, s) \in p..z BY <1>2
  <2>2. D(Start(n, s)) \in Int BY <1>3, <2>1
  <2>3. Offset(n, s) = Start(n, s) - D(Start(n, s)) BY DEF Offset, D
  <2> QED BY <1>1, <2>1, <2>2, <2>3
<1>7. 0 \in 0..g /\ g \in 0..g BY <1>1
<1>8. Offset(n, 0) = p /\ Offset(n, g) = Budget - config.recent
  <2>1. Offset(n, 0) = Start(n, 0) - D(Start(n, 0)) BY <1>6, <1>7
  <2>2. Offset(n, g) = Start(n, g) - D(Start(n, g)) BY <1>6, <1>7
  <2>3. Offset(n, 0) = p - 0 BY <1>2, <1>3, <2>1
  <2>4. Offset(n, g) = z - (n - Budget) BY <1>2, <1>3, <2>2
  <2> QED BY <1>1, <2>3, <2>4
<1>9. ASSUME NEW s \in SegmentIds
      PROVE  Offset(n, s + 1) = Offset(n, s) + KeepCount(n, s)
  <2>1. s \in 0..g /\ s + 1 \in 0..g BY <1>1, <1>5
  <2>2. KeepCount(n, s) = Start(n, s + 1) - Start(n, s)
                            - (D(Start(n, s + 1)) - D(Start(n, s)))
    BY <1>4
  <2>3. /\ Start(n, s) \in Int /\ D(Start(n, s)) \in Int
        /\ Offset(n, s) = Start(n, s) - D(Start(n, s))
    BY <1>6, <2>1
  <2>4. /\ Start(n, s + 1) \in Int /\ D(Start(n, s + 1)) \in Int
        /\ Offset(n, s + 1) = Start(n, s + 1) - D(Start(n, s + 1))
    BY <1>6, <2>1
  <2> QED BY <2>2, <2>3, <2>4
<1>10. ASSUME NEW s \in 0..g, NEW t \in 0..g, s <= t
       PROVE  Offset(n, s) <= Offset(n, t)
  <2>1. Start(n, s) <= Start(n, t) /\ Start(n, s) \in p..z /\ Start(n, t) \in p..z
    BY <1>2, <1>10
  <2>2. D(Start(n, t)) - D(Start(n, s)) \in 0..Start(n, t) - Start(n, s)
    BY <1>3, <2>1
  <2>3. /\ Start(n, s) \in Int /\ D(Start(n, s)) \in Int
        /\ Offset(n, s) = Start(n, s) - D(Start(n, s))
    BY <1>6
  <2>4. /\ Start(n, t) \in Int /\ D(Start(n, t)) \in Int
        /\ Offset(n, t) = Start(n, t) - D(Start(n, t))
    BY <1>6
  <2> QED BY <2>2, <2>3, <2>4
<1> QED BY <1>6, <1>8, <1>9, <1>10 DEF p, g

(* Every slot between the windows belongs to one segment.                   *)
LEMMA SlotOwner ==
  ASSUME config \in Configs, NEW n \in Nat, n >= Threshold,
         NEW t \in config.prefix..Budget - config.recent - 1
  PROVE  /\ \E s \in SegmentIds : Offset(n, s) <= t /\ t < Offset(n, s + 1)
         /\ \A s, u \in SegmentIds :
              /\ Offset(n, s) <= t /\ t < Offset(n, s + 1)
              /\ Offset(n, u) <= t /\ t < Offset(n, u + 1)
              => s = u
<1> DEFINE g == config.segments
           S == {s \in 0..g : t < Offset(n, s)}
<1>1. g \in Nat \ {0} /\ config.prefix \in Nat /\ config.recent \in Nat /\ Budget \in Nat
  BY Shape
<1>2. /\ Offset(n, 0) = config.prefix /\ Offset(n, g) = Budget - config.recent
      /\ \A s \in 0..g : Offset(n, s) \in Int
      /\ \A s, u \in 0..g : s <= u => Offset(n, s) <= Offset(n, u)
  BY OffsetsGrow
<1>3. SegmentIds = 0..g - 1 BY DEF SegmentIds
<1>4. \E s \in SegmentIds : Offset(n, s) <= t /\ t < Offset(n, s + 1)
  <2>1. g \in S BY <1>1, <1>2
  <2>2. S \subseteq Nat BY <1>1
  <2>3. PICK x \in S : \A y \in S : x <= y
    <3> HIDE DEF S
    <3> QED BY <2>1, <2>2, LeastOf
  <2>4. x # 0 BY <1>1, <1>2, <2>3
  <2>5. x - 1 \in SegmentIds /\ x - 1 \in 0..g BY <1>1, <1>3, <2>3, <2>4
  <2>6. x - 1 \notin S BY <2>3, <2>5
  <2>7. ~ (t < Offset(n, x - 1)) BY <2>5, <2>6
  <2>8. Offset(n, x - 1) <= t BY <1>1, <1>2, <2>5, <2>7
  <2>9. t < Offset(n, (x - 1) + 1)
    <3>1. (x - 1) + 1 = x BY <1>1, <2>3
    <3> QED BY <2>3, <3>1
  <2> QED BY <2>5, <2>8, <2>9
<1>5. ASSUME NEW s \in SegmentIds, NEW u \in SegmentIds, s < u,
             t < Offset(n, s + 1), Offset(n, u) <= t
      PROVE  FALSE
  <2>1. s + 1 \in 0..g /\ u \in 0..g /\ s + 1 <= u BY <1>1, <1>3, <1>5
  <2>2. Offset(n, s + 1) <= Offset(n, u) BY <1>2, <2>1
  <2>3. Offset(n, s + 1) \in Int /\ Offset(n, u) \in Int BY <1>2, <2>1
  <2> QED BY <1>1, <1>5, <2>2, <2>3
<1>6. \A s, u \in SegmentIds : s < u \/ u < s \/ s = u BY <1>3
<1> QED BY <1>4, <1>5, <1>6

(* The slots before a segment are those of the windows and the quotas       *)
(* before it.                                                               *)
LEMMA QuotasBeforeIs ==
  ASSUME config \in Configs, NEW n \in Nat, n >= Threshold, Batchable(n)
  PROVE  \A s \in 0..config.segments :
           config.prefix + QuotasBefore(n)[s] = Offset(n, s)
<1> DEFINE g == config.segments
           p == config.prefix
           f == [s \in 0..g |-> Offset(n, s) - p]
           h == QuotasBefore(n)
<1>1. g \in Nat \ {0} /\ p \in Nat BY Shape
<1>2. /\ Offset(n, 0) = p /\ \A s \in 0..g : Offset(n, s) \in Int
      /\ \A s \in SegmentIds : Offset(n, s + 1) = Offset(n, s) + KeepCount(n, s)
  BY OffsetsGrow
<1>3. \A s \in SegmentIds : Quota(n, s) = KeepCount(n, s) BY BatchShape
<1>4. SegmentIds = 0..g - 1 BY DEF SegmentIds
<1>5. \A s \in SegmentIds :
        /\ s \in 0..g /\ s + 1 \in 0..g /\ Offset(n, s) \in Int /\ Offset(n, s + 1) \in Int
        /\ Offset(n, s + 1) - Offset(n, s) = Quota(n, s)
  <2> HIDE DEF g
  <2> SUFFICES ASSUME NEW s \in SegmentIds
               PROVE  /\ s \in 0..g /\ s + 1 \in 0..g
                      /\ Offset(n, s) \in Int /\ Offset(n, s + 1) \in Int
                      /\ Offset(n, s + 1) - Offset(n, s) = Quota(n, s)
    OBVIOUS
  <2>1. s \in 0..g /\ s + 1 \in 0..g BY <1>1, <1>4
  <2>2. Offset(n, s) \in Int /\ Offset(n, s + 1) \in Int BY <1>2, <2>1
  <2>3. Quota(n, s) = Offset(n, s + 1) - Offset(n, s)
    <3>1. Offset(n, s + 1) = Offset(n, s) + Quota(n, s) BY <1>2, <1>3
    <3>2. Quota(n, s) \in Int BY BatchShape
    <3> QED BY <2>2, <3>1, <3>2
  <2> QED BY <2>1, <2>2, <2>3
<1>6. f = [s \in 0..g |-> IF s = 0 THEN 0 ELSE f[s - 1] + Quota(n, s - 1)]
  <2> HIDE DEF g, p
  <2>1. ASSUME NEW s \in 0..g
        PROVE  f[s] = IF s = 0 THEN 0 ELSE f[s - 1] + Quota(n, s - 1)
    <3>1. CASE s = 0 BY <1>1, <1>2, <3>1
    <3>2. CASE s # 0
      <4>1. s - 1 \in SegmentIds /\ (s - 1) + 1 = s BY <1>1, <1>4, <3>2
      <4>2. /\ s - 1 \in 0..g /\ Offset(n, s - 1) \in Int /\ Offset(n, s) \in Int
            /\ Offset(n, s) - Offset(n, s - 1) = Quota(n, s - 1)
        BY <1>5, <4>1
      <4>3. f[s] = Offset(n, s) - p /\ f[s - 1] = Offset(n, s - 1) - p BY <4>2
      <4> HIDE DEF f
      <4> QED BY <1>1, <3>2, <4>2, <4>3
    <3> QED BY <3>1, <3>2
  <2> QED BY <2>1
<1>7. h = [s \in 0..g |-> IF s = 0 THEN 0 ELSE h[s - 1] + Quota(n, s - 1)]
  <2> HIDE DEF f
  <2> DEFINE Before == CHOOSE b : b = [s \in 0..g |-> IF s = 0 THEN 0
                                                      ELSE b[s - 1] + Quota(n, s - 1)]
  <2>1. h = Before BY DEF QuotasBefore
  <2>2. Before = [s \in 0..g |-> IF s = 0 THEN 0 ELSE Before[s - 1] + Quota(n, s - 1)]
    BY <1>6
  <2> HIDE DEF Before, h
  <2> QED BY <2>1, <2>2
<1> HIDE DEF h
<1> DEFINE S == {s \in Nat : s <= g => h[s] = Offset(n, s) - p}
<1>8. 0 \in S
  <2>1. 0 \in 0..g BY <1>1
  <2>2. h[0] = 0 BY <1>7, <2>1
  <2> QED BY <1>1, <1>2, <2>2
<1>9. ASSUME NEW s \in Nat, s \in S PROVE s + 1 \in S
  <2> SUFFICES ASSUME s + 1 <= g PROVE h[s + 1] = Offset(n, s + 1) - p OBVIOUS
  <2>1. h[s] = Offset(n, s) - p BY <1>1, <1>9
  <2>2. s \in SegmentIds BY <1>1, <1>4
  <2>3. /\ s + 1 \in 0..g /\ Offset(n, s) \in Int /\ Offset(n, s + 1) \in Int
        /\ Offset(n, s + 1) - Offset(n, s) = Quota(n, s)
    BY <1>5, <2>2
  <2>4. h[s + 1] = h[(s + 1) - 1] + Quota(n, (s + 1) - 1)
    <3> HIDE DEF g, S
    <3>1. \A u \in 0..g : h[u] = IF u = 0 THEN 0 ELSE h[u - 1] + Quota(n, u - 1)
      BY <1>7
    <3>2. s + 1 # 0 OBVIOUS
    <3> QED BY <2>3, <3>1, <3>2
  <2>5. (s + 1) - 1 = s OBVIOUS
  <2>6. h[s + 1] = h[s] + Quota(n, s) BY <2>4, <2>5
  <2> QED BY <1>1, <2>1, <2>3, <2>6
<1>10. Nat \subseteq S
  <2> HIDE DEF S
  <2> QED BY <1>8, <1>9, Induction
<1>11. \A s \in 0..g : h[s] = Offset(n, s) - p BY <1>1, <1>10
<1>12. \A s \in 0..g : p + h[s] = Offset(n, s)
  <2> HIDE DEF S, f, g, p
  <2> QED BY <1>1, <1>2, <1>11
<1> QED BY <1>12 DEF h, g, p

(* Entries that never rise from one to the next.                            *)
LEMMA Descends ==
  ASSUME NEW k \in Nat, NEW v \in [1..k -> Int],
         \A i \in 1..k - 1 : v[i] >= v[i + 1]
  PROVE  \A i, j \in 1..k : i < j => v[i] >= v[j]
<1> DEFINE S == {d \in Nat : \A i \in 1..k : i + d <= k => v[i] >= v[i + d]}
<1>1. 0 \in S
  <2>1. \A i \in 1..k : i + 0 = i /\ v[i] >= v[i] OBVIOUS
  <2> QED BY <2>1
<1>2. ASSUME NEW d \in Nat, d \in S PROVE d + 1 \in S
  <2> SUFFICES ASSUME NEW i \in 1..k, i + (d + 1) <= k PROVE v[i] >= v[i + (d + 1)]
    OBVIOUS
  <2>1. i + d \in 1..k - 1 /\ v[i] >= v[i + d] BY <1>2
  <2>2. v[i + d] >= v[i + d + 1] BY <2>1
  <2>3. i + d + 1 = i + (d + 1) /\ i + (d + 1) \in 1..k OBVIOUS
  <2>4. v[i] \in Int /\ v[i + d] \in Int /\ v[i + (d + 1)] \in Int BY <2>1, <2>3
  <2> QED BY <2>1, <2>2, <2>3, <2>4
<1>3. Nat \subseteq S
  <2> HIDE DEF S
  <2> QED BY <1>1, <1>2, Induction
<1> SUFFICES ASSUME NEW i \in 1..k, NEW j \in 1..k, i < j PROVE v[i] >= v[j] OBVIOUS
<1>4. PICK d \in Nat : i + d = j
  <2>1. j - i \in Nat /\ i + (j - i) = j OBVIOUS
  <2> QED BY <2>1
<1>5. d \in S BY <1>3
<1>6. i + d <= k => v[i] >= v[i + d] BY <1>5
<1> HIDE DEF S
<1>7. i + d <= k /\ v[i + d] = v[j]
  <2>1. i + d <= k BY ONLY <1>4
  <2>2. v[i + d] = v[j] BY ONLY <1>4, Zenon
  <2> QED BY <2>1, <2>2
<1> QED BY <1>6, <1>7

(* The first k entries; a row of m different positions below w; the row     *)
(* with w for every entry behind k; a row that starts with the set D, in    *)
(* order.                                                                   *)
FirstOf(f, k) == {f[r] : r \in 1..k}
Distinct(q, m, w) ==
  q \in [1..m -> 0..w - 1] /\ \A i, j \in 1..m : q[i] = q[j] => i = j
CutOff(kept, q, m, k, w) ==
  kept \in [1..m -> Nat] /\ \A r \in 1..m : kept[r] = IF r <= k THEN q[r] ELSE w
Starts(v, m, k, D) == v \in [1..m -> Nat] /\ Increasing(v, k) /\ FirstOf(v, k) = D

(* A row in which every entry behind the quota k is replaced by the width w *)
(* starts, once sorted, with the k entries themselves.                      *)
LEMMA RowSorts ==
  ASSUME NEW w \in Nat, NEW m \in Nat, NEW k \in 1..m, NEW q, Distinct(q, m, w),
         NEW kept, CutOff(kept, q, m, k, w)
  PROVE  Starts(SortValues(kept), m, k, FirstOf(q, k))
<1> USE DEF Distinct, CutOff, Starts
<1>1. kept \in [1..m -> Nat] OBVIOUS
<1>2. PICK p \in Bijection(1..m, 1..m) :
        /\ SortValues(kept) = [r \in 1..m |-> kept[p[r]]]
        /\ \A i, j \in 1..m : i < j => kept[p[i]] <= kept[p[j]]
  BY <1>1, SortPermutes
<1>3. /\ p \in [1..m -> 1..m] /\ \A i, j \in 1..m : p[i] = p[j] => i = j
      /\ \A i \in 1..m : \E j \in 1..m : p[j] = i
  BY DEF Bijection, Injection, Surjection, IsInjective
<1>4. ASSUME NEW r \in 1..k PROVE p[r] \in 1..k
  <2> SUFFICES ASSUME ~ (p[r] <= k) PROVE FALSE BY <1>3
  <2>1. \A i \in 1..m : i >= r => ~ (p[i] <= k)
    <3> SUFFICES ASSUME NEW i \in 1..m, i >= r, p[i] <= k PROVE FALSE OBVIOUS
    <3>0. r \in 1..m /\ i # r OBVIOUS
    <3>1. i > r BY <3>0
    <3>2. p[i] \in 1..m /\ p[r] \in 1..m BY <1>3, <3>0
    <3>3. kept[p[r]] <= kept[p[i]] BY <1>2, <3>1
    <3>4. kept[p[r]] = w /\ kept[p[i]] = q[p[i]] BY <3>2
    <3>5. q[p[i]] \in 0..w - 1 BY <3>2
    <3> QED BY <3>3, <3>4, <3>5
  <2> DEFINE back == [i \in 1..k |-> CHOOSE j \in 1..m : p[j] = i]
  <2>2. \A i \in 1..k : back[i] \in 1..m /\ p[back[i]] = i
    <3> SUFFICES ASSUME NEW i \in 1..k PROVE back[i] \in 1..m /\ p[back[i]] = i OBVIOUS
    <3>1. i \in 1..m OBVIOUS
    <3>2. \E j \in 1..m : p[j] = i BY <1>3, <3>1
    <3>3. back[i] = CHOOSE j \in 1..m : p[j] = i OBVIOUS
    <3> HIDE DEF back
    <3> QED BY ONLY <3>2, <3>3, Zenon
  <2>3. \A i \in 1..k : back[i] \in 1..r - 1
    <3> SUFFICES ASSUME NEW i \in 1..k PROVE back[i] \in 1..r - 1 OBVIOUS
    <3>1. back[i] \in 1..m /\ p[back[i]] <= k BY <2>2
    <3> HIDE DEF back
    <3> QED BY <2>1, <3>1
  <2>4. back \in [1..k -> 1..r - 1] BY <2>3
  <2> HIDE DEF back
  <2>5. IsFiniteSet(1..k) /\ Cardinality(1..k) = k BY FS_Interval
  <2>6. IsFiniteSet(1..r - 1) /\ Cardinality(1..r - 1) = r - 1
    <3>1. 1 \in Int /\ r - 1 \in Int OBVIOUS
    <3>2. /\ IsFiniteSet(1..r - 1)
          /\ Cardinality(1..r - 1) = IF 1 > r - 1 THEN 0 ELSE r - 1 - 1 + 1
      BY <3>1, FS_Interval
    <3> QED BY <3>2
  <2>7. Cardinality(1..r - 1) < Cardinality(1..k) BY <2>5, <2>6
  <2>8. \E x, y \in 1..k : x # y /\ back[x] = back[y]
    BY ONLY <2>4, <2>5, <2>6, <2>7, FS_PigeonHole
  <2>9. PICK x \in 1..k, y \in 1..k : x # y /\ back[x] = back[y] BY <2>8
  <2>10. p[back[x]] = x /\ p[back[y]] = y BY <2>2
  <2> QED BY ONLY <2>9, <2>10
<1> DEFINE f == [r \in 1..k |-> p[r]]
<1>5. f \in Injection(1..k, 1..k)
  <2>1. f \in [1..k -> 1..k] BY <1>4
  <2>2. \A i, j \in 1..k : f[i] = f[j] => i = j
    <3> SUFFICES ASSUME NEW i \in 1..k, NEW j \in 1..k, p[i] = p[j] PROVE i = j OBVIOUS
    <3>1. i \in 1..m /\ j \in 1..m OBVIOUS
    <3> QED BY <1>3, <3>1
  <2> HIDE DEF f
  <2> QED BY <2>1, <2>2 DEF Injection, IsInjective
<1>6. \A i \in 1..k : \E r \in 1..k : p[r] = i
  <2>1. f \in Surjection(1..k, 1..k)
    <3> HIDE DEF f
    <3>1. IsFiniteSet(1..k) BY FS_Interval
    <3> QED BY <1>5, <3>1, FS_Injection
  <2>2. \A i \in 1..k : \E r \in 1..k : f[r] = i
    <3> HIDE DEF f
    <3> QED BY <2>1 DEF Surjection
  <2> QED BY <2>2
<1>7. \A r \in 1..k : SortValues(kept)[r] = q[p[r]]
  <2> SUFFICES ASSUME NEW r \in 1..k PROVE SortValues(kept)[r] = q[p[r]] OBVIOUS
  <2>1. r \in 1..m /\ p[r] \in 1..m /\ p[r] <= k BY <1>3, <1>4
  <2> QED BY <1>2, <2>1
<1>8. Increasing(SortValues(kept), k)
  <2> SUFFICES ASSUME NEW i \in 1..k, NEW j \in 1..k, i < j
               PROVE  SortValues(kept)[i] < SortValues(kept)[j]
    BY DEF Increasing
  <2>1. i \in 1..m /\ j \in 1..m /\ i # j OBVIOUS
  <2>2. p[i] \in 1..m /\ p[j] \in 1..m /\ p[i] # p[j] BY <1>3, <2>1
  <2>3. q[p[i]] # q[p[j]] /\ q[p[i]] \in 0..w - 1 /\ q[p[j]] \in 0..w - 1 BY <2>2
  <2>4. SortValues(kept)[i] <= SortValues(kept)[j] BY <1>2, <2>1
  <2>5. SortValues(kept)[i] = q[p[i]] /\ SortValues(kept)[j] = q[p[j]] BY <1>7
  <2> QED BY ONLY <2>3, <2>4, <2>5
<1>9. SortValues(kept) \in [1..m -> Nat]
  <2>1. \A r \in 1..m : kept[p[r]] \in Nat BY <1>1, <1>3
  <2> QED BY <1>2, <2>1
<1>10. FirstOf(SortValues(kept), k) = FirstOf(q, k)
  <2> DEFINE X == {SortValues(kept)[r] : r \in 1..k}
             Y == {q[r] : r \in 1..k}
  <2>1. ASSUME NEW r \in 1..k PROVE SortValues(kept)[r] \in Y
    <3>1. SortValues(kept)[r] = q[p[r]] /\ p[r] \in 1..k BY <1>4, <1>7
    <3>2. q[p[r]] \in Y BY <3>1
    <3> QED BY ONLY <3>1, <3>2
  <2>2. ASSUME NEW i \in 1..k PROVE q[i] \in X
    <3>1. PICK r \in 1..k : p[r] = i BY <1>6
    <3>2. SortValues(kept)[r] = q[i] BY <1>7, <3>1
    <3>3. SortValues(kept)[r] \in X OBVIOUS
    <3> QED BY ONLY <3>2, <3>3
  <2>3. X \subseteq Y
    <3> HIDE DEF Y
    <3> QED BY ONLY <2>1
  <2>4. Y \subseteq X
    <3> HIDE DEF X
    <3> QED BY ONLY <2>2
  <2> QED BY ONLY <2>3, <2>4 DEF FirstOf
<1> QED BY <1>8, <1>9, <1>10

(* The k of w positions with the greatest values; a row of T by value.      *)
Best(D, w, k, value) ==
  /\ D \subseteq 0..w - 1 /\ Cardinality(D) = k
  /\ \A t \in D, u \in (0..w - 1) \ D : value[t] >= value[u]
Lists(q, m, T) == q \in [1..m -> T] /\ \A i, j \in 1..m : i # j => q[i] # q[j]
Falls(q, m, value) == \A i \in 1..m - 1 : value[q[i]] >= value[q[i + 1]]

(* The choice of a row: its k best entries, of the m that topk returns in   *)
(* order of value if not all of them are wanted.                            *)
LEMMA RowSelects ==
  ASSUME NEW w \in Nat, NEW m \in 1..w, NEW k \in 1..m, NEW value \in [0..w - 1 -> Nat],
         NEW T, Best(T, w, m, value), NEW q, Lists(q, m, T),
         k = m \/ Falls(q, m, value)
  PROVE  Best(FirstOf(q, k), w, k, value)
<1> DEFINE D == FirstOf(q, k)
<1> USE DEF FirstOf, Best, Lists, Falls
<1>1. 1..k \subseteq 1..m /\ m \in Nat /\ k \in Nat OBVIOUS
<1>2. D \subseteq 0..w - 1
  <2>1. \A r \in 1..k : q[r] \in T BY <1>1
  <2> QED BY <2>1
<1>3. Cardinality(D) = k
  <2> DEFINE f == [r \in 1..k |-> q[r]]
  <2>1. f \in [1..k -> D] OBVIOUS
  <2>2. \A i, j \in 1..k : f[i] = f[j] => i = j
    <3> SUFFICES ASSUME NEW i \in 1..k, NEW j \in 1..k, q[i] = q[j] PROVE i = j OBVIOUS
    <3>1. i \in 1..m /\ j \in 1..m BY <1>1
    <3> QED BY <3>1
  <2>3. \A c \in D : \E i \in 1..k : f[i] = c OBVIOUS
  <2> HIDE DEF f
  <2>4. f \in Bijection(1..k, D)
    <3>1. f \in Injection(1..k, D) BY ONLY <2>1, <2>2 DEF Injection, IsInjective
    <3>2. f \in Surjection(1..k, D) BY ONLY <2>1, <2>3 DEF Surjection
    <3> QED BY ONLY <3>1, <3>2 DEF Bijection
  <2>5. ExistsBijection(1..k, D) BY ONLY <2>4 DEF ExistsBijection
  <2>6. IsFiniteSet(1..k) /\ Cardinality(1..k) = k
    <3>1. 1 \in Int /\ k \in Int /\ k >= 1 OBVIOUS
    <3>2. IsFiniteSet(1..k) /\ Cardinality(1..k) = IF 1 > k THEN 0 ELSE k - 1 + 1
      BY ONLY <3>1, FS_Interval
    <3> QED BY ONLY <3>1, <3>2
  <2> QED BY ONLY <2>5, <2>6, FS_Bijection
<1>4. ASSUME NEW i \in 1..k, NEW u \in (0..w - 1) \ D
      PROVE  value[q[i]] >= value[u]
  <2>1. i \in 1..m /\ q[i] \in T BY <1>1
  <2>2. CASE u \notin T BY <2>1, <2>2
  <2>3. CASE u \in T
    <3>1. q \in Injection(1..m, T)
      <4>1. \A x, y \in 1..m : q[x] = q[y] => x = y OBVIOUS
      <4>2. q \in [1..m -> T] OBVIOUS
      <4> QED BY ONLY <4>1, <4>2 DEF Injection, IsInjective
    <3>2. IsFiniteSet(T)
      <4>1. IsFiniteSet(0..w - 1) BY FS_Interval
      <4> QED BY <4>1, FS_Subset
    <3>3. Cardinality(1..m) = Cardinality(T) BY <1>1, FS_Interval
    <3>4. q \in Surjection(1..m, T) BY ONLY <3>1, <3>2, <3>3, FS_Injection
    <3>5. \E l \in 1..m : q[l] = u BY ONLY <2>3, <3>4 DEF Surjection
    <3>6. PICK l \in 1..m : q[l] = u BY <3>5
    <3>7. l \notin 1..k BY <3>6
    <3>8. l > k BY <3>7
    <3>9. \A j \in 1..m - 1 : value[q[j]] >= value[q[j + 1]] BY <3>8
    <3> DEFINE x == [y \in 1..m |-> value[q[y]]]
    <3>10. x \in [1..m -> Int]
      <4>1. \A y \in 1..m : q[y] \in 0..w - 1 OBVIOUS
      <4>2. \A y \in 1..m : value[q[y]] \in Nat BY <4>1
      <4> QED BY <4>2
    <3>11. \A j \in 1..m - 1 : x[j] >= x[j + 1]
      <4> SUFFICES ASSUME NEW j \in 1..m - 1 PROVE x[j] >= x[j + 1] OBVIOUS
      <4>1. j \in 1..m /\ j + 1 \in 1..m OBVIOUS
      <4>2. value[q[j]] >= value[q[j + 1]] BY <3>9
      <4> QED BY <4>1, <4>2
    <3>12. x[i] = value[q[i]] /\ x[l] = value[u] BY <2>1, <3>6
    <3> HIDE DEF x
    <3>13. \A a, b \in 1..m : a < b => x[a] >= x[b] BY ONLY <1>1, <3>10, <3>11, Descends
    <3>14. i < l BY <3>8
    <3> QED BY <2>1, <3>12, <3>13, <3>14
  <2> QED BY <2>2, <2>3
<1>5. \A t \in D, u \in (0..w - 1) \ D : value[t] >= value[u] BY <1>4
<1> QED BY <1>2, <1>3, <1>5

(* A set of positions, moved by the start b of their segment.               *)
MovedBy(b, D) == {b + d : d \in D}
Covers(C, D, b, w) ==
  /\ C \subseteq b..b + w - 1 /\ Cardinality(C) = Cardinality(D)
  /\ \A u \in (b..b + w - 1) \ C : \E j \in (0..w - 1) \ D : u = b + j

(* It keeps its size, and what it leaves out is moved from the rest.        *)
LEMMA Shifted ==
  ASSUME NEW b \in Nat, NEW w \in Nat, NEW D \in SUBSET (0..w - 1)
  PROVE  Covers(MovedBy(b, D), D, b, w)
<1> DEFINE C == MovedBy(b, D)
<1> USE DEF MovedBy, Covers
<1>1. C \subseteq b..b + w - 1
  <2>1. \A d \in D : b + d \in b..b + w - 1 OBVIOUS
  <2> QED BY <2>1
<1>2. Cardinality(C) = Cardinality(D)
  <2> DEFINE f == [d \in D |-> b + d]
  <2>1. f \in [D -> C] OBVIOUS
  <2>2. \A x, y \in D : f[x] = f[y] => x = y
    <3> SUFFICES ASSUME NEW x \in D, NEW y \in D, b + x = b + y PROVE x = y OBVIOUS
    <3>1. x \in Int /\ y \in Int OBVIOUS
    <3> QED BY <3>1
  <2>3. \A c \in C : \E d \in D : f[d] = c OBVIOUS
  <2> HIDE DEF f
  <2>4. f \in Bijection(D, C)
    <3>1. f \in Injection(D, C) BY ONLY <2>1, <2>2 DEF Injection, IsInjective
    <3>2. f \in Surjection(D, C) BY ONLY <2>1, <2>3 DEF Surjection
    <3> QED BY ONLY <3>1, <3>2 DEF Bijection
  <2>5. ExistsBijection(D, C) BY ONLY <2>4 DEF ExistsBijection
  <2>6. IsFiniteSet(D)
    <3>1. IsFiniteSet(0..w - 1) BY FS_Interval
    <3> QED BY <3>1, FS_Subset
  <2> QED BY ONLY <2>5, <2>6, FS_Bijection
<1>3. ASSUME NEW u \in (b..b + w - 1) \ C PROVE \E j \in (0..w - 1) \ D : u = b + j
  <2>1. u - b \in 0..w - 1 /\ u = b + (u - b) OBVIOUS
  <2>2. u - b \notin D BY <2>1
  <2> QED BY <2>1, <2>2
<1> QED BY <1>1, <1>2, <1>3

(* A row that the batched topk selects and sorts starts with the choice of  *)
(* its segment, in order.                                                   *)
LEMMA RowIs ==
  ASSUME config \in Configs, NEW n \in Nat, n >= Threshold, NEW scores \in [1..n -> Score],
         Batchable(n), NEW s \in SegmentIds, NEW row \in Rows(scores, s),
         NEW k \in Nat, k = Quota(n, s)
  PROVE  /\ \A r \in 1..k : row[r] \in Segment(n, s)
         /\ Increasing(row, k)
         /\ FirstOf(row, k) \in SegmentKept(scores, s)
<1>1. Len(scores) = n BY LenProperties, IsASeq
<1>2. PICK w \in Nat : w = Width(n) BY BatchShape
<1>3. PICK m \in 1..w : m = Max(Quotas(n)) BY <1>2, BatchShape
<1>4. /\ k \in 1..m
      /\ ~ SortedTopK(n) => k = m
      /\ k = KeepCount(n, s) /\ Start(n, s + 1) = Start(n, s) + w
  BY <1>2, <1>3, BatchShape
<1>5. config.prefix \in Nat /\ config.segments \in Nat BY Shape
<1>6. PICK x \in Nat : x = s * w /\ Start(n, s) = config.prefix + x
  <2>1. s \in 0..config.segments BY <1>5 DEF SegmentIds
  <2>2. s * Width(n) \in Nat /\ Start(n, s) = config.prefix + s * Width(n)
    BY <2>1, BatchShape
  <2> QED BY <1>2, <2>2
<1>7. PICK b \in Nat : b = config.prefix + x BY <1>5
<1>8. Segment(n, s) = b..b + w - 1
  <2>1. Start(n, s) = b /\ Start(n, s + 1) = b + w BY <1>4, <1>6, <1>7
  <2> QED BY <2>1 DEF Segment
<1>9. Segment(n, s) \subseteq 0..n - 1 BY WindowsApart
<1> DEFINE value == [i \in 0..w - 1 |-> At(scores, b + i)]
<1>10. value = [i \in 0..Width(n) - 1 |-> At(scores, config.prefix + s * Width(n) + i)]
  BY <1>2, <1>6, <1>7
<1>11. PICK q \in RowRanks(scores, s) : row = Chosen(n, s, q) BY <1>1 DEF Rows
<1>12. PICK T \in TopK(0..w - 1, m, value) :
         /\ q \in SetToSeqs(T)
         /\ SortedTopK(n) => \A i \in 1..Len(q) - 1 : value[q[i]] >= value[q[i + 1]]
  <2> HIDE DEF value
  <2> QED BY <1>1, <1>2, <1>3, <1>10 DEF RowRanks
<1>13. \A i \in 0..w - 1 : value[i] = At(scores, b + i) /\ value[i] \in Nat
  <2> SUFFICES ASSUME NEW i \in 0..w - 1
               PROVE  value[i] = At(scores, b + i) /\ value[i] \in Nat
    OBVIOUS
  <2>1. b + i \in b..b + w - 1 OBVIOUS
  <2>2. b + i \in 0..n - 1 BY <1>8, <1>9, <2>1
  <2>3. At(scores, b + i) \in Score BY <2>2 DEF At
  <2> QED BY <2>3, BoundAssumption
<1>14. value \in [0..w - 1 -> Nat] BY <1>13
<1> HIDE DEF value
<1>15. /\ T \subseteq 0..w - 1 /\ Cardinality(T) = m
       /\ \A t \in T, u \in (0..w - 1) \ T : value[t] >= value[u]
  BY <1>12 DEF TopK, kSubset
<1>16. q \in [1..m -> T] /\ \A i, j \in 1..m : i # j => q[i] # q[j]
  <2>1. q \in [1..Cardinality(T) -> T]
        /\ \A i, j \in 1..Cardinality(T) : i # j => q[i] # q[j]
    BY <1>12 DEF SetToSeqs
  <2> QED BY <1>15, <2>1, Zenon
<1>17. Len(q) = m
  <2>1. m \in Nat /\ q \in [1..m -> T] BY <1>16
  <2> QED BY ONLY <2>1, LenProperties, IsASeq
<1>18. k = m \/ \A i \in 1..m - 1 : value[q[i]] >= value[q[i + 1]]
  <2>1. CASE ~ SortedTopK(n) BY <1>4, <2>1
  <2>2. CASE SortedTopK(n)
    <3>1. \A i \in 1..Len(q) - 1 : value[q[i]] >= value[q[i + 1]] BY <1>12, <2>2
    <3> QED BY <1>17, <3>1, Zenon
  <2> QED BY <2>1, <2>2
<1>18a. PICK D : D = FirstOf(q, k) OBVIOUS
<1>19. /\ D \subseteq 0..w - 1 /\ Cardinality(D) = k
       /\ \A t \in D, u \in (0..w - 1) \ D : value[t] >= value[u]
  <2>1. w \in Nat /\ m \in 1..w /\ k \in 1..m BY <1>2, <1>3, <1>4
  <2>2. Best(T, w, m, value) BY ONLY <1>15 DEF Best
  <2>3. Lists(q, m, T) BY ONLY <1>16 DEF Lists
  <2>4. k = m \/ Falls(q, m, value) BY ONLY <1>18 DEF Falls
  <2>5. Best(FirstOf(q, k), w, k, value)
    BY ONLY <1>14, <2>1, <2>2, <2>3, <2>4, RowSelects, Zenon
  <2> QED BY ONLY <1>18a, <2>5 DEF Best
<1> DEFINE kept == [r \in 1..m |-> IF r <= k THEN q[r] ELSE w]
           v == SortValues(kept)
<1>20. \A r \in 1..m : row[r] = v[r] + config.prefix + s * Width(n)
  <2>1. DOMAIN q = 1..m BY <1>16
  <2>2. kept = [r \in DOMAIN q |-> IF r <= Quota(n, s) THEN q[r] ELSE Width(n)]
    BY <1>2, <2>1
  <2>3. row = [r \in DOMAIN q |-> SortValues(kept)[r] + config.prefix + s * Width(n)]
    <3> HIDE DEF kept
    <3> QED BY <1>11, <2>2 DEF Chosen
  <2> HIDE DEF kept, v
  <2> QED BY <2>1, <2>3 DEF v
<1>21. /\ v \in [1..m -> Nat] /\ Increasing(v, k)
       /\ FirstOf(v, k) = D
  <2>1. \A i \in 1..m : q[i] \in 0..w - 1 BY <1>15, <1>16
  <2>2. q \in [1..m -> 0..w - 1] BY <1>16, <2>1
  <2>3. \A i, j \in 1..m : q[i] = q[j] => i = j BY <1>16
  <2>4. kept \in [1..m -> Nat] BY <2>1
  <2>5. \A r \in 1..m : kept[r] = IF r <= k THEN q[r] ELSE w OBVIOUS
  <2>6. w \in Nat /\ m \in Nat /\ k \in 1..m BY <1>4
  <2>7. PICK e : e = kept OBVIOUS
  <2> HIDE DEF kept
  <2>8. CutOff(e, q, m, k, w) BY ONLY <2>4, <2>5, <2>7 DEF CutOff
  <2>9. Distinct(q, m, w) BY ONLY <2>2, <2>3 DEF Distinct
  <2>10. Starts(SortValues(e), m, k, FirstOf(q, k))
    BY ONLY <2>6, <2>8, <2>9, RowSorts, Zenon
  <2>11. v = SortValues(e) BY <2>7
  <2> QED BY ONLY <1>18a, <2>10, <2>11 DEF Starts
<1> HIDE DEF kept, v
<1>22. 1..k \subseteq 1..m BY <1>4
<1>23. \A r \in 1..m : row[r] = b + v[r] /\ v[r] \in Nat
  <2> SUFFICES ASSUME NEW r \in 1..m PROVE row[r] = b + v[r] /\ v[r] \in Nat OBVIOUS
  <2>1. v[r] \in Nat BY <1>21
  <2>2. row[r] = v[r] + config.prefix + x BY <1>2, <1>6, <1>20
  <2> QED BY <1>5, <1>7, <2>1, <2>2
<1>23a. PICK C : C = MovedBy(b, D) OBVIOUS
<1>24. FirstOf(row, k) = C
  <2>1. \A r \in 1..k : row[r] = b + v[r] BY <1>22, <1>23
  <2>2. FirstOf(row, k) = {b + v[r] : r \in 1..k} BY <2>1 DEF FirstOf
  <2>3. {b + v[r] : r \in 1..k} = MovedBy(b, FirstOf(v, k)) BY DEF MovedBy, FirstOf
  <2> QED BY <1>21, <1>23a, <2>2, <2>3
<1>25. /\ C \subseteq b..b + w - 1 /\ Cardinality(C) = k
       /\ \A u \in (b..b + w - 1) \ C : \E j \in (0..w - 1) \ D : u = b + j
  <2>1. b \in Nat /\ w \in Nat BY <1>7
  <2>2. D \subseteq 0..w - 1 /\ Cardinality(D) = k BY <1>19
  <2>3. D \in SUBSET (0..w - 1) BY ONLY <2>2
  <2>4. Covers(MovedBy(b, D), D, b, w) BY ONLY <2>1, <2>3, Shifted, Zenon
  <2> QED BY ONLY <1>23a, <2>2, <2>4 DEF Covers
<1>26. \A r \in 1..k : row[r] \in Segment(n, s)
  <2>1. \A r \in 1..k : row[r] \in FirstOf(row, k) BY DEF FirstOf
  <2> QED BY <1>8, <1>24, <1>25, <2>1
<1>27. Increasing(row, k)
  <2> SUFFICES ASSUME NEW i \in 1..k, NEW j \in 1..k, i < j PROVE row[i] < row[j]
    BY DEF Increasing
  <2>1. i \in 1..m /\ j \in 1..m BY <1>22
  <2>2. v[i] < v[j] BY <1>21 DEF Increasing
  <2> QED BY <1>23, <2>1, <2>2
<1>28. ASSUME NEW t \in C, NEW u \in Segment(n, s) \ C
       PROVE  At(scores, t) >= At(scores, u)
  <2>1. PICK d \in D : t = b + d BY <1>23a DEF MovedBy
  <2>2. PICK j \in (0..w - 1) \ D : u = b + j BY <1>8, <1>25
  <2>3. d \in 0..w - 1 BY <1>19
  <2>4. value[d] >= value[j] BY <1>19
  <2>5. value[d] = At(scores, t) /\ value[j] = At(scores, u) BY <1>13, <2>1, <2>2, <2>3
  <2> QED BY <2>4, <2>5
<1>29. C \in SegmentKept(scores, s)
  <2>1. Cardinality(C) = KeepCount(n, s) BY <1>4, <1>25
  <2>2. C \subseteq Segment(n, s) BY <1>8, <1>25
  <2> QED BY <1>28, <2>1, <2>2, SegmentKeptIs
<1> QED BY <1>24, <1>26, <1>27, <1>29

(* What is filled into a slot: nothing but the token of a window, or the    *)
(* one that the row of the slot's segment has for it.                       *)
LEMMA FilledIs ==
  ASSUME config \in Configs, NEW n \in Nat, n >= Threshold, Batchable(n),
         NEW chosen, NEW t \in 0..Budget - 1
  PROVE  /\ t < config.prefix => Filled(n, chosen, t) = {t}
         /\ t >= Budget - config.recent => Filled(n, chosen, t) = {t + n - Budget}
         /\ \A s \in SegmentIds : Offset(n, s) <= t /\ t < Offset(n, s + 1) =>
              /\ t - Offset(n, s) + 1 \in 1..Quota(n, s)
              /\ Filled(n, chosen, t) = {At(chosen, s)[t - Offset(n, s) + 1]}
<1>1. /\ config.prefix \in Nat /\ config.recent \in Nat /\ Budget \in Nat
      /\ config.segments \in Nat \ {0} /\ config.prefix + config.recent <= Budget
  BY Shape
<1>2. t < config.prefix => Filled(n, chosen, t) = {t} BY DEF Filled
<1>3. t >= Budget - config.recent => Filled(n, chosen, t) = {t + n - Budget}
  BY <1>1 DEF Filled
<1>4. ASSUME NEW s \in SegmentIds, Offset(n, s) <= t, t < Offset(n, s + 1)
      PROVE  /\ t - Offset(n, s) + 1 \in 1..Quota(n, s)
             /\ Filled(n, chosen, t) = {At(chosen, s)[t - Offset(n, s) + 1]}
  <2>1. PICK r \in Int : r = t - Offset(n, s) + 1 /\ r \in 1..Quota(n, s)
                         /\ Offset(n, s) \in Int /\ Quota(n, s) \in 1..Max(Quotas(n))
    <3>1. s \in 0..config.segments BY <1>1 DEF SegmentIds
    <3>2. Offset(n, s) \in Int /\ Offset(n, s + 1) = Offset(n, s) + KeepCount(n, s)
      BY <3>1, OffsetsGrow
    <3>3. KeepCount(n, s) = Quota(n, s) /\ Quota(n, s) \in 1..Max(Quotas(n))
      BY BatchShape
    <3>4. t - Offset(n, s) + 1 \in 1..Quota(n, s) BY <1>4, <3>2, <3>3
    <3> QED BY <3>2, <3>3, <3>4
  <2>2. config.prefix <= t /\ t < Budget - config.recent
    <3>1. s + 1 \in 0..config.segments /\ s \in 0..config.segments
          /\ 0 <= s /\ s + 1 <= config.segments
          /\ 0 \in 0..config.segments /\ config.segments \in 0..config.segments
      BY <1>1 DEF SegmentIds
    <3>2. Offset(n, 0) <= Offset(n, s) /\ Offset(n, s + 1) <= Offset(n, config.segments)
          /\ Offset(n, s + 1) \in Int
      BY <3>1, OffsetsGrow
    <3>3. Offset(n, 0) = config.prefix
          /\ Offset(n, config.segments) = Budget - config.recent
      BY OffsetsGrow
    <3> QED BY <1>1, <1>4, <2>1, <3>2, <3>3
  <2>3. t \in config.prefix..Budget - config.recent - 1 BY <1>1, <2>2
  <2>4. \A u \in SegmentIds : Offset(n, u) <= t /\ t < Offset(n, u + 1) => u = s
    BY <1>4, <2>3, SlotOwner
  <2>5. CASE t = 0
    <3>1. 0 \in SegmentIds /\ 0 \in 0..config.segments BY <1>1 DEF SegmentIds
    <3>2. Offset(n, 0) = 0 /\ Offset(n, 0 + 1) = Offset(n, 0) + KeepCount(n, 0)
      <4>1. config.prefix = 0 BY <1>1, <2>2, <2>5
      <4> QED BY <3>1, <4>1, OffsetsGrow
    <3>3. KeepCount(n, 0) \in Nat \ {0}
      <4>1. KeepCount(n, 0) = Quota(n, 0) /\ Quota(n, 0) \in 1..Max(Quotas(n))
        BY <3>1, BatchShape
      <4> QED BY <4>1
    <3>4. s = 0 BY <2>4, <2>5, <3>1, <3>2, <3>3
    <3>5. r = 1 BY <2>1, <2>5, <3>2, <3>4
    <3>6. Filled(n, chosen, t) = {At(chosen, 0)[1]} BY <1>1, <2>2, <2>5 DEF Filled
    <3>7. t - Offset(n, s) + 1 = 1 BY <2>1, <3>5
    <3>8. At(chosen, 0)[1] = At(chosen, s)[t - Offset(n, s) + 1] BY ONLY <3>4, <3>7, Zenon
    <3>9. t - Offset(n, s) + 1 \in 1..Quota(n, s) BY <2>1
    <3> QED BY ONLY <3>6, <3>8, <3>9
  <2>6. CASE t # 0
    <3>1. \A u \in SegmentIds : \A i \in 1..Quota(n, u) :
            Target(n, u, i) = Offset(n, u) + i - 1
      <4> SUFFICES ASSUME NEW u \in SegmentIds, NEW i \in 1..Quota(n, u)
                   PROVE  Target(n, u, i) = Offset(n, u) + i - 1
        OBVIOUS
      <4>1. u \in 0..config.segments BY <1>1 DEF SegmentIds
      <4>2. config.prefix + QuotasBefore(n)[u] = Offset(n, u) BY <4>1, QuotasBeforeIs
      <4>3. Quota(n, u) \in Int BY BatchShape
      <4>4. Target(n, u, i) = config.prefix + QuotasBefore(n)[u] + i - 1
        BY <4>3 DEF Target
      <4> QED BY <4>2, <4>4
    <3>2. Target(n, s, r) = t
      <4>1. Target(n, s, r) = Offset(n, s) + r - 1 BY <2>1, <3>1
      <4> QED BY <1>1, <2>1, <4>1
    <3>3. <<s, r>> \in SegmentIds \X (1..Max(Quotas(n)))
      <4>1. Width(n) \in Nat /\ Max(Quotas(n)) \in 1..Width(n) BY BatchShape
      <4>2. r \in 1..Max(Quotas(n)) BY <2>1, <4>1
      <4> QED BY <4>2
    <3>4. ASSUME NEW v \in SegmentIds \X (1..Max(Quotas(n))), Target(n, v[1], v[2]) = t
          PROVE  v[1] = s /\ v[2] = r
      <4>1. PICK u \in SegmentIds : u = v[1] OBVIOUS
      <4>2. PICK i \in Nat : i = v[2] /\ i >= 1 OBVIOUS
      <4>3. Target(n, u, i) = t BY <3>4, <4>1, <4>2
      <4>4. ~ (i > Quota(n, u)) BY <2>6, <4>3 DEF Target
      <4>5. /\ Quota(n, u) \in Int /\ Quota(n, u) = KeepCount(n, u)
        BY BatchShape
      <4>6. i \in 1..Quota(n, u) BY <4>2, <4>4, <4>5
      <4>7. t = Offset(n, u) + i - 1 BY <3>1, <4>3, <4>6
      <4>8. u \in 0..config.segments BY <1>1 DEF SegmentIds
      <4>9. Offset(n, u) \in Int /\ Offset(n, u + 1) = Offset(n, u) + KeepCount(n, u)
        BY <4>8, OffsetsGrow
      <4>10. Offset(n, u) <= t /\ t < Offset(n, u + 1) BY <1>1, <4>2, <4>5, <4>6, <4>7, <4>9
      <4>11. u = s BY ONLY <2>4, <4>10, Zenon
      <4>12. t = Offset(n, s) + i - 1 BY ONLY <4>7, <4>11, Zenon
      <4>13. i = r BY <1>1, <2>1, <4>2, <4>12
      <4> QED BY <4>1, <4>2, <4>11, <4>13
    <3>5. Writes(n, chosen, t) = {At(chosen, s)[r]}
      <4> DEFINE V == {v \in SegmentIds \X (1..Max(Quotas(n))) : Target(n, v[1], v[2]) = t}
      <4>1. <<s, r>> \in V BY <3>2, <3>3
      <4>2. \A v \in V : At(chosen, v[1])[v[2]] = At(chosen, s)[r] BY <3>4
      <4>3. Writes(n, chosen, t) = {At(chosen, w[1])[w[2]] : w \in V} BY DEF Writes
      <4> HIDE DEF V
      <4> QED BY <4>1, <4>2, <4>3
    <3>6. Filled(n, chosen, t) = Scattered(n, chosen, t)
      BY <1>1, <2>2, <2>6 DEF Filled
    <3> QED BY <2>1, <3>5, <3>6 DEF Scattered
  <2> QED BY <2>5, <2>6
<1> QED BY <1>2, <1>3, <1>4

(* A member of a product has a member of every set.                         *)
LEMMA ProductIs ==
  ASSUME NEW sets, NEW p \in Product(sets)
  PROVE  DOMAIN p = DOMAIN sets /\ \A i \in DOMAIN sets : p[i] \in sets[i]
BY DEF Product

(* What the slots of a batched selection hold.                              *)
LEMMA SlotsHold ==
  ASSUME config \in Configs, NEW n \in Nat, n >= Threshold, NEW scores \in [1..n -> Score],
         Batchable(n), NEW kept \in BatchedKept(scores)
  PROVE  \E chosen :
           /\ \A s \in SegmentIds : At(chosen, s) \in Rows(scores, s)
           /\ kept = [i \in 1..Budget |-> kept[i]]
           /\ \A i \in 1..Budget : i <= config.prefix => kept[i] = i - 1
           /\ \A i \in 1..Budget : i > Budget - config.recent => kept[i] = i - 1 + n - Budget
           /\ \A i \in 1..Budget, s \in SegmentIds :
                Offset(n, s) < i /\ i <= Offset(n, s + 1) =>
                  /\ i - Offset(n, s) \in 1..Quota(n, s)
                  /\ kept[i] = At(chosen, s)[i - Offset(n, s)]
<1>1. Len(scores) = n BY LenProperties, IsASeq
<1>2. /\ config.prefix \in Nat /\ config.recent \in Nat /\ Budget \in Nat
      /\ config.segments \in Nat \ {0}
  BY Shape
<1> DEFINE rows == [i \in 1..config.segments |-> Rows(scores, i - 1)]
<1>3. PICK chosen \in Product(rows) : kept \in Results(n, chosen)
  BY <1>1 DEF BatchedKept
<1>4. ASSUME NEW s \in SegmentIds PROVE At(chosen, s) \in Rows(scores, s)
  <2>1. s + 1 \in 1..config.segments /\ (s + 1) - 1 = s BY <1>2 DEF SegmentIds
  <2>2. DOMAIN rows = 1..config.segments /\ rows[s + 1] = Rows(scores, s) BY <2>1
  <2> HIDE DEF rows
  <2>3. chosen[s + 1] \in rows[s + 1] BY <2>1, <2>2, ProductIs
  <2> QED BY <2>2, <2>3 DEF At
<1> HIDE DEF rows
<1> DEFINE slots == [i \in 1..Budget |-> Filled(n, chosen, i - 1)]
<1>5. /\ kept = [i \in 1..Budget |-> kept[i]]
      /\ \A i \in 1..Budget : kept[i] \in Filled(n, chosen, i - 1)
  <2>1. kept \in Product(slots) BY <1>3 DEF Results
  <2>2. DOMAIN slots = 1..Budget
        /\ \A i \in 1..Budget : slots[i] = Filled(n, chosen, i - 1)
    OBVIOUS
  <2> HIDE DEF slots
  <2>3. DOMAIN kept = DOMAIN slots /\ \A i \in DOMAIN slots : kept[i] \in slots[i]
    BY <2>1, ProductIs
  <2>4. kept = [i \in DOMAIN slots |-> kept[i]] BY <2>1 DEF Product
  <2> QED BY <2>2, <2>3, <2>4
<1>7. ASSUME NEW i \in 1..Budget
      PROVE  /\ i <= config.prefix => kept[i] = i - 1
             /\ i > Budget - config.recent => kept[i] = i - 1 + n - Budget
             /\ \A s \in SegmentIds : Offset(n, s) < i /\ i <= Offset(n, s + 1) =>
                  /\ i - Offset(n, s) \in 1..Quota(n, s)
                  /\ kept[i] = At(chosen, s)[i - Offset(n, s)]
  <2>1. PICK t \in 0..Budget - 1 : t = i - 1 BY <1>2
  <2>2. kept[i] \in Filled(n, chosen, t) BY <1>5, <2>1
  <2>3. /\ t < config.prefix => Filled(n, chosen, t) = {t}
        /\ t >= Budget - config.recent => Filled(n, chosen, t) = {t + n - Budget}
        /\ \A s \in SegmentIds : Offset(n, s) <= t /\ t < Offset(n, s + 1) =>
             /\ t - Offset(n, s) + 1 \in 1..Quota(n, s)
             /\ Filled(n, chosen, t) = {At(chosen, s)[t - Offset(n, s) + 1]}
    BY FilledIs
  <2>4. i <= config.prefix => kept[i] = i - 1 BY <1>2, <2>1, <2>2, <2>3
  <2>5. i > Budget - config.recent => kept[i] = i - 1 + n - Budget
    BY <1>2, <2>1, <2>2, <2>3
  <2>6. ASSUME NEW s \in SegmentIds, Offset(n, s) < i, i <= Offset(n, s + 1)
        PROVE  /\ i - Offset(n, s) \in 1..Quota(n, s)
               /\ kept[i] = At(chosen, s)[i - Offset(n, s)]
    <3>1. s \in 0..config.segments /\ s + 1 \in 0..config.segments
      BY <1>2 DEF SegmentIds
    <3>2. Offset(n, s) \in Int /\ Offset(n, s + 1) \in Int BY <3>1, OffsetsGrow
    <3>3. Offset(n, s) <= t /\ t < Offset(n, s + 1) BY <2>1, <2>6, <3>2
    <3>4. t - Offset(n, s) + 1 = i - Offset(n, s) BY <2>1, <3>2
    <3>5. /\ t - Offset(n, s) + 1 \in 1..Quota(n, s)
          /\ Filled(n, chosen, t) = {At(chosen, s)[t - Offset(n, s) + 1]}
      BY <2>3, <3>3
    <3> QED BY <2>2, <3>4, <3>5
  <2> QED BY <2>4, <2>5, <2>6
<1> QED BY <1>4, <1>5, <1>7

(* A slot lies in a window or in the part of one segment, whose bounds hold *)
(* the token it is filled with; no later slot lies in an earlier part.      *)
LEMMA SlotParts ==
  ASSUME config \in Configs, NEW n \in Nat, n >= Threshold, NEW i \in 1..Budget
  PROVE  \/ i <= config.prefix
         \/ i > Budget - config.recent
         \/ \E s \in SegmentIds : Offset(n, s) < i /\ i <= Offset(n, s + 1)
<1>1. /\ config.prefix \in Nat /\ config.recent \in Nat /\ Budget \in Nat
      /\ config.segments \in Nat \ {0}
  BY Shape
<1> SUFFICES ASSUME ~ (i <= config.prefix), ~ (i > Budget - config.recent)
             PROVE  \E s \in SegmentIds : Offset(n, s) < i /\ i <= Offset(n, s + 1)
  OBVIOUS
<1>2. i - 1 \in config.prefix..Budget - config.recent - 1 BY <1>1
<1>3. PICK s \in SegmentIds : Offset(n, s) <= i - 1 /\ i - 1 < Offset(n, s + 1)
  BY <1>2, SlotOwner
<1>4. s \in 0..config.segments /\ s + 1 \in 0..config.segments BY <1>1 DEF SegmentIds
<1>5. Offset(n, s) \in Int /\ Offset(n, s + 1) \in Int BY <1>4, OffsetsGrow
<1>6. Offset(n, s) < i /\ i <= Offset(n, s + 1) BY <1>1, <1>3, <1>5
<1> QED BY <1>6

(* Of two slots of segments the later one is of the same or a later segment.*)
LEMMA SlotsFollow ==
  ASSUME config \in Configs, NEW n \in Nat, n >= Threshold,
         NEW i \in Int, NEW j \in Int, i < j, NEW s \in SegmentIds, NEW t \in SegmentIds,
         Offset(n, s) < i, j <= Offset(n, t + 1)
  PROVE  s <= t
<1>1. config.segments \in Nat BY Shape
<1> SUFFICES ASSUME t < s PROVE FALSE BY <1>1 DEF SegmentIds
<1>2. t + 1 \in 0..config.segments /\ s \in 0..config.segments /\ t + 1 <= s
  BY <1>1 DEF SegmentIds
<1>3. Offset(n, t + 1) <= Offset(n, s) BY <1>2, OffsetsGrow
<1>4. Offset(n, s) \in Int /\ Offset(n, t + 1) \in Int BY <1>2, OffsetsGrow
<1> QED BY <1>3, <1>4

(* Whatever the batched form keeps, the form segment by segment may keep;   *)
(* and it keeps it in order.                                                *)
LEMMA BatchedKeeps ==
  ASSUME config \in Configs, NEW n \in Nat, n >= Threshold, NEW scores \in [1..n -> Score],
         Batchable(n), NEW kept \in BatchedKept(scores)
  PROVE  Listed(n, kept) /\ ToSet(kept) \in V3Kept(scores)
<1>1. PICK chosen :
        /\ \A s \in SegmentIds : At(chosen, s) \in Rows(scores, s)
        /\ kept = [i \in 1..Budget |-> kept[i]]
        /\ \A i \in 1..Budget : i <= config.prefix => kept[i] = i - 1
        /\ \A i \in 1..Budget : i > Budget - config.recent => kept[i] = i - 1 + n - Budget
        /\ \A i \in 1..Budget, s \in SegmentIds :
             Offset(n, s) < i /\ i <= Offset(n, s + 1) =>
               /\ i - Offset(n, s) \in 1..Quota(n, s)
               /\ kept[i] = At(chosen, s)[i - Offset(n, s)]
  BY SlotsHold
<1>2. PICK p \in Nat : p = config.prefix BY Shape
<1>3. PICK z \in Nat : z = n - config.recent /\ p <= z /\ z <= n
  <2>1. /\ config.recent \in Nat /\ Budget \in Nat /\ p + config.recent <= Budget
        /\ Budget < n
    BY <1>2, Shape
  <2>2. n - config.recent \in Nat /\ p <= n - config.recent /\ n - config.recent <= n
    BY <2>1
  <2> QED BY <2>2
<1>4. /\ Budget \in Nat /\ config.recent \in Nat /\ config.recent = n - z
      /\ n - Budget \in Nat /\ config.segments \in Nat \ {0}
      /\ p + (n - z) <= Budget
  <2>1. /\ config.recent \in Nat /\ Budget \in Nat /\ config.segments \in Nat \ {0}
        /\ p + config.recent <= Budget /\ Budget < n
    BY <1>2, Shape
  <2>2. config.recent = n - z /\ n - Budget \in Nat BY <1>3, <2>1
  <2>3. p + (n - z) <= Budget BY ONLY <2>1, <2>2, Zenon
  <2> QED BY <2>1, <2>2, <2>3
<1>5. ASSUME NEW s \in SegmentIds
      PROVE  /\ Quota(n, s) \in Nat /\ Offset(n, s) \in Int
             /\ Offset(n, s + 1) = Offset(n, s) + Quota(n, s)
             /\ p <= Offset(n, s) /\ Offset(n, s + 1) <= Budget - (n - z)
             /\ \A r \in 1..Quota(n, s) : At(chosen, s)[r] \in Segment(n, s)
             /\ Increasing(At(chosen, s), Quota(n, s))
             /\ FirstOf(At(chosen, s), Quota(n, s)) \in SegmentKept(scores, s)
             /\ Segment(n, s) \subseteq p..z - 1
  <2>1. Quota(n, s) \in Nat /\ Quota(n, s) = KeepCount(n, s)
    <3>1. Quota(n, s) \in 1..Max(Quotas(n)) /\ Quota(n, s) = KeepCount(n, s)
      BY BatchShape
    <3> QED BY <3>1
  <2>2. /\ s \in 0..config.segments /\ s + 1 \in 0..config.segments
        /\ 0 <= s /\ s + 1 <= config.segments
        /\ 0 \in 0..config.segments /\ config.segments \in 0..config.segments
    BY <1>4 DEF SegmentIds
  <2>3. /\ Offset(n, s) \in Int /\ Offset(n, s + 1) = Offset(n, s) + Quota(n, s)
    BY <2>1, <2>2, OffsetsGrow
  <2>4. Offset(n, 0) <= Offset(n, s)
        /\ Offset(n, s + 1) <= Offset(n, config.segments)
    BY <2>2, OffsetsGrow
  <2>5. Offset(n, 0) = p /\ Offset(n, config.segments) = Budget - (n - z)
    BY <1>2, <1>4, OffsetsGrow
  <2>6. At(chosen, s) \in Rows(scores, s) BY <1>1
  <2>7. PICK k \in Nat : k = Quota(n, s) BY <2>1
  <2>8. /\ \A r \in 1..k : At(chosen, s)[r] \in Segment(n, s)
        /\ Increasing(At(chosen, s), k)
        /\ FirstOf(At(chosen, s), k) \in SegmentKept(scores, s)
    BY <2>6, <2>7, RowIs
  <2>9. Segment(n, s) \subseteq config.prefix..n - config.recent - 1 BY WindowsApart
  <2>10. Segment(n, s) \subseteq p..z - 1 BY <1>2, <1>3, <2>9
  <2>11. p <= Offset(n, s) /\ Offset(n, s + 1) <= Budget - (n - z)
    BY ONLY <2>4, <2>5, Zenon
  <2>12. /\ \A r \in 1..Quota(n, s) : At(chosen, s)[r] \in Segment(n, s)
         /\ Increasing(At(chosen, s), Quota(n, s))
         /\ FirstOf(At(chosen, s), Quota(n, s)) \in SegmentKept(scores, s)
    BY ONLY <2>7, <2>8
  <2> QED BY ONLY <2>1, <2>3, <2>10, <2>11, <2>12
<1> DEFINE Low(i) == i <= p
           High(i) == i > Budget - (n - z)
           In(s, i) == Offset(n, s) < i /\ i <= Offset(n, s + 1)
<1>6. \A i \in 1..Budget : Low(i) \/ High(i) \/ \E s \in SegmentIds : In(s, i)
  BY <1>2, <1>4, SlotParts
<1>7. \A i \in 1..Budget : Low(i) => kept[i] = i - 1 /\ kept[i] \in 0..p - 1
  BY <1>1, <1>2
<1>8. \A i \in 1..Budget : High(i) => kept[i] = i - 1 + n - Budget /\ kept[i] \in z..n - 1
  <2> SUFFICES ASSUME NEW i \in 1..Budget, High(i)
               PROVE  kept[i] = i - 1 + n - Budget /\ kept[i] \in z..n - 1
    OBVIOUS
  <2>1. kept[i] = i - 1 + n - Budget BY <1>1, <1>4
  <2> QED BY <1>3, <1>4, <2>1
<1>9. \A i \in 1..Budget, s \in SegmentIds : In(s, i) =>
        /\ i - Offset(n, s) \in 1..Quota(n, s)
        /\ kept[i] = At(chosen, s)[i - Offset(n, s)]
        /\ kept[i] \in Segment(n, s) /\ kept[i] \in p..z - 1
  <2> SUFFICES ASSUME NEW i \in 1..Budget, NEW s \in SegmentIds, In(s, i)
               PROVE  /\ i - Offset(n, s) \in 1..Quota(n, s)
                      /\ kept[i] = At(chosen, s)[i - Offset(n, s)]
                      /\ kept[i] \in Segment(n, s) /\ kept[i] \in p..z - 1
    OBVIOUS
  <2>1. /\ i - Offset(n, s) \in 1..Quota(n, s)
        /\ kept[i] = At(chosen, s)[i - Offset(n, s)]
    BY <1>1
  <2>2. At(chosen, s)[i - Offset(n, s)] \in Segment(n, s) BY <1>5, <2>1
  <2>3. kept[i] \in Segment(n, s) BY ONLY <2>1, <2>2, Zenon
  <2>4. Segment(n, s) \subseteq p..z - 1 BY <1>5
  <2> QED BY ONLY <2>1, <2>3, <2>4
<1>10. \A i \in 1..Budget : kept[i] \in 0..n - 1
  <2> SUFFICES ASSUME NEW i \in 1..Budget PROVE kept[i] \in 0..n - 1 OBVIOUS
  <2>1. 0..p - 1 \subseteq 0..n - 1 /\ z..n - 1 \subseteq 0..n - 1 /\ p..z - 1 \subseteq 0..n - 1
    BY <1>3
  <2> HIDE DEF Low, High, In
  <2> QED BY <1>6, <1>7, <1>8, <1>9, <2>1
<1>11. Increasing(kept, Budget)
  <2> SUFFICES ASSUME NEW i \in 1..Budget, NEW j \in 1..Budget, i < j
               PROVE  kept[i] < kept[j]
    BY DEF Increasing
  <2>1. i \in Int /\ j \in Int OBVIOUS
  <2>2. CASE Low(j)
    <3>1. Low(i) BY <2>1, <2>2
    <3> QED BY <1>7, <2>1, <2>2, <3>1
  <2>3. CASE ~ Low(j) /\ Low(i)
    <3>1. kept[i] \in 0..p - 1 BY <1>7, <2>3
    <3>2. kept[j] \in p..z - 1 \/ kept[j] \in z..n - 1
      <4> HIDE DEF Low, High, In
      <4> QED BY <1>6, <1>8, <1>9, <2>3
    <3> QED BY <1>3, <3>1, <3>2
  <2>4. CASE High(i)
    <3>1. High(j) BY <1>4, <2>1, <2>4
    <3>2. kept[i] = i - 1 + n - Budget /\ kept[j] = j - 1 + n - Budget
      BY <1>8, <2>4, <3>1
    <3> QED BY <1>4, <2>1, <3>2
  <2>5. CASE ~ Low(i) /\ ~ High(i) /\ High(j)
    <3>1. kept[j] \in z..n - 1 BY <1>8, <2>5
    <3>2. kept[i] \in p..z - 1
      <4> HIDE DEF Low, High, In
      <4> QED BY <1>6, <1>9, <2>5
    <3> QED BY <1>3, <3>1, <3>2
  <2>6. CASE ~ Low(i) /\ ~ High(i) /\ ~ High(j) /\ ~ Low(j)
    <3> HIDE DEF Low, High
    <3>1. PICK s \in SegmentIds : In(s, i) BY <1>6, <2>6
    <3>2. PICK t \in SegmentIds : In(t, j) BY <1>6, <2>6
    <3>3. s <= t BY <2>1, <3>1, <3>2, SlotsFollow
    <3>4. /\ i - Offset(n, s) \in 1..Quota(n, s)
          /\ kept[i] = At(chosen, s)[i - Offset(n, s)] /\ kept[i] \in Segment(n, s)
      BY <1>9, <3>1
    <3>5. /\ j - Offset(n, t) \in 1..Quota(n, t)
          /\ kept[j] = At(chosen, t)[j - Offset(n, t)] /\ kept[j] \in Segment(n, t)
      BY <1>9, <3>2
    <3>6. CASE s = t
      <4>1. j - Offset(n, s) \in 1..Quota(n, s) BY ONLY <3>5, <3>6, Zenon
      <4>2. i - Offset(n, s) < j - Offset(n, s)
        <5>1. Offset(n, s) \in Int BY <1>5
        <5> QED BY <2>1, <5>1
      <4>3. Increasing(At(chosen, s), Quota(n, s)) BY <1>5
      <4>4. At(chosen, s)[i - Offset(n, s)] < At(chosen, s)[j - Offset(n, s)]
        BY ONLY <3>4, <4>1, <4>2, <4>3, Zenon DEF Increasing
      <4> QED BY ONLY <3>4, <3>5, <3>6, <4>4, Zenon
    <3>7. CASE s # t
      <4>1. s + 1 \in 0..config.segments /\ t \in 0..config.segments /\ s + 1 <= t
        BY <1>4, <3>3, <3>7 DEF SegmentIds
      <4>2. Start(n, s + 1) <= Start(n, t) BY <4>1, SegmentsFollow
      <4>3. Start(n, s + 1) \in config.prefix..n - config.recent
            /\ Start(n, t) \in config.prefix..n - config.recent
        BY <4>1, SegmentsFollow
      <4>4. Start(n, s + 1) \in Int /\ Start(n, t) \in Int BY <1>2, <1>4, <4>3
      <4>5. kept[i] <= Start(n, s + 1) - 1 /\ Start(n, t) <= kept[j]
        BY ONLY <3>4, <3>5 DEF Segment
      <4>6. kept[i] \in Int /\ kept[j] \in Int BY ONLY <3>4, <3>5, <4>4 DEF Segment
      <4> QED BY ONLY <4>2, <4>4, <4>5, <4>6
    <3> QED BY <3>6, <3>7
  <2> HIDE DEF Low, High, In
  <2> QED BY <2>2, <2>3, <2>4, <2>5, <2>6
<1> DEFINE C == [s \in SegmentIds |-> FirstOf(At(chosen, s), Quota(n, s))]
<1>12. \A s \in SegmentIds : C[s] = FirstOf(At(chosen, s), Quota(n, s)) OBVIOUS
<1> HIDE DEF C
<1>13. DOMAIN kept = 1..Budget BY <1>1
<1>14. Range(kept) \subseteq ChoiceOf(n, C)
  <2> SUFFICES ASSUME NEW i \in 1..Budget PROVE kept[i] \in ChoiceOf(n, C)
    BY <1>13 DEF Range
  <2>1. CASE Low(i)
    <3>1. kept[i] \in Protected(n) BY <1>2, <1>7, <2>1 DEF Protected
    <3> QED BY <3>1 DEF ChoiceOf
  <2>2. CASE High(i)
    <3>1. kept[i] \in z..n - 1 BY <1>8, <2>2
    <3>2. kept[i] \in Protected(n) BY <1>3, <3>1 DEF Protected
    <3> QED BY <3>2 DEF ChoiceOf
  <2>3. ASSUME NEW s \in SegmentIds, In(s, i) PROVE kept[i] \in ChoiceOf(n, C)
    <3>1. /\ i - Offset(n, s) \in 1..Quota(n, s)
          /\ kept[i] = At(chosen, s)[i - Offset(n, s)]
      BY <1>9, <2>3
    <3>2. kept[i] \in C[s] BY <1>12, <3>1 DEF FirstOf
    <3> QED BY <3>2 DEF ChoiceOf
  <2> HIDE DEF Low, High, In
  <2> QED BY <1>6, <2>1, <2>2, <2>3
<1>15. ChoiceOf(n, C) \subseteq Range(kept)
  <2> SUFFICES ASSUME NEW v \in ChoiceOf(n, C) PROVE \E i \in 1..Budget : kept[i] = v
    BY <1>13 DEF Range
  <2>1. ASSUME v \in 0..p - 1 PROVE \E i \in 1..Budget : kept[i] = v
    <3>1. v + 1 \in 1..Budget /\ Low(v + 1) BY <1>3, <1>4, <2>1
    <3>2. kept[v + 1] = v BY <1>7, <2>1, <3>1
    <3> QED BY <3>1, <3>2
  <2>2. ASSUME v \in z..n - 1 PROVE \E i \in 1..Budget : kept[i] = v
    <3> DEFINE i == v + 1 - (n - Budget)
    <3>3. v \in Int /\ z <= v /\ v <= n - 1 BY <1>3, <2>2
    <3>4. /\ Budget \in Int /\ p \in Int /\ 0 <= p /\ p + (n - z) <= Budget
          /\ z \in Int /\ n \in Int
      BY <1>3, <1>4
    <3>5. i \in Int /\ 1 <= i /\ i <= Budget /\ i > Budget - (n - z)
          /\ i - 1 + n - Budget = v
      BY ONLY <3>3, <3>4
    <3>1. i \in 1..Budget /\ High(i) /\ i - 1 + n - Budget = v BY <3>4, <3>5
    <3> HIDE DEF i
    <3>2. kept[i] = v BY <1>8, <3>1
    <3> QED BY <3>1, <3>2
  <2>3. ASSUME NEW s \in SegmentIds, v \in C[s] PROVE \E i \in 1..Budget : kept[i] = v
    <3>1. PICK r \in 1..Quota(n, s) : At(chosen, s)[r] = v BY <1>12, <2>3 DEF FirstOf
    <3>2. /\ Quota(n, s) \in Nat /\ Offset(n, s) \in Int
          /\ Offset(n, s + 1) = Offset(n, s) + Quota(n, s)
          /\ p <= Offset(n, s) /\ Offset(n, s + 1) <= Budget - (n - z)
      BY <1>5
    <3>3. PICK i \in Int : i = Offset(n, s) + r BY <3>2
    <3>4. Offset(n, s) < i /\ i <= Offset(n, s + 1) /\ i - Offset(n, s) = r
      BY <3>2, <3>3
    <3>5. i \in 1..Budget
      <4>1. r \in Int /\ 1 <= r /\ r <= Quota(n, s) BY <3>2
      <4>2. 0 <= p /\ 0 <= n - z /\ n - z \in Int /\ Budget \in Int BY <1>3, <1>4
      <4> QED BY <3>2, <3>3, <4>1, <4>2
    <3>6. kept[i] = At(chosen, s)[i - Offset(n, s)] BY <1>9, <3>4, <3>5
    <3> QED BY <3>1, <3>4, <3>5, <3>6
  <2>4. v \in 0..p - 1 \/ v \in z..n - 1 \/ \E s \in SegmentIds : v \in C[s]
    BY <1>2, <1>3 DEF ChoiceOf, Protected
  <2> QED BY <2>1, <2>2, <2>3, <2>4
<1>16. Range(kept) = ChoiceOf(n, C) BY <1>14, <1>15
<1>17. \A s \in SegmentIds : C[s] \in SegmentKept(scores, s) BY <1>5, <1>12
<1>18. Range(kept) \in V3Kept(scores) BY <1>16, <1>17, V3KeptIs
<1>19. ToSet(kept) \in V3Kept(scores) BY <1>18 DEF ToSet, Range
<1>20. kept \in [1..Budget -> 0..n - 1] BY <1>1, <1>10
<1>21. Protected(n) \subseteq Range(kept) BY <1>16 DEF ChoiceOf
<1> QED BY <1>11, <1>19, <1>20, <1>21 DEF Listed

----------------------------------------------------------------------------
(* The invariant.                                                           *)

(* A cache of n of the first t tokens of the request, in order, with the    *)
(* windows at both ends; one shorter than the budget was never compressed.  *)
Holds(c, n, t) ==
  /\ c \in [1..n -> 0..t - 1] /\ Increasing(c, n)
  /\ \A i \in 1..n : i <= config.prefix => c[i] = i - 1
  /\ \A i \in 0..n - 1 : i < config.recent => c[n - i] = t - 1 - i
  /\ n < Budget => n = t

(* A compression of a cache of n entries kept a listing that the policy may *)
(* choose.                                                                  *)
KeptOf(scores, kept) ==
  \E n \in Nat :
    /\ n >= Threshold /\ scores \in [1..n -> Score] /\ Listed(n, kept)
    /\ config.policy = "v3" => ToSet(kept) \in V3Kept(scores)

(* InOrder alone is not preserved by a compression: the windows stay only   *)
(* because every selection lists them, and the tail of the cache ends with  *)
(* the request's in every state, compressed or not.  That a short cache was *)
(* never compressed is what makes the prefix grow with the prompt.          *)
IInv ==
  /\ config \in Configs /\ tokens \in 1..MaxTokens /\ ~raised
  /\ cache \in Seq(0..tokens - 1) /\ Holds(cache, Len(cache), tokens)
  /\ last # <<>> =>
       /\ Len(cache) = Budget
       /\ \E scores, kept : last = [scores |-> scores, kept |-> kept] /\ KeptOf(scores, kept)

(* Keeping the entries of a listing keeps the order and the windows.        *)
LEMMA KeepHolds ==
  ASSUME config \in Configs, NEW n \in Nat, n >= Threshold, NEW t \in Nat,
         NEW c, Holds(c, n, t), NEW kept, Listed(n, kept),
         NEW d, d = [i \in 1..Budget |-> c[kept[i] + 1]]
  PROVE  Holds(d, Budget, t)
<1>1. /\ config.prefix \in Nat /\ config.recent \in Nat /\ Budget \in Nat
      /\ config.prefix + config.recent <= Budget /\ Budget < n
  BY Shape
<1>2. /\ c \in [1..n -> 0..t - 1] /\ Increasing(c, n)
      /\ \A i \in 1..n : i <= config.prefix => c[i] = i - 1
      /\ \A i \in 0..n - 1 : i < config.recent => c[n - i] = t - 1 - i
  BY DEF Holds
<1>3. /\ kept \in [1..Budget -> 0..n - 1] /\ Increasing(kept, Budget)
      /\ Protected(n) \subseteq Range(kept)
  BY DEF Listed
<1>4. \A i \in 1..Budget : kept[i] \in 0..n - 1 /\ kept[i] + 1 \in 1..n
  BY <1>3
<1>5. \A i \in 1..Budget : d[i] = c[kept[i] + 1] /\ d[i] \in 0..t - 1
  BY <1>2, <1>4
<1>6. d \in [1..Budget -> 0..t - 1] BY <1>5
<1>7. Increasing(d, Budget)
  <2> SUFFICES ASSUME NEW i \in 1..Budget, NEW j \in 1..Budget, i < j
               PROVE  d[i] < d[j]
    BY DEF Increasing
  <2>1. kept[i] < kept[j] BY <1>3 DEF Increasing
  <2>2. kept[i] + 1 \in 1..n /\ kept[j] + 1 \in 1..n /\ kept[i] + 1 < kept[j] + 1
    BY <1>4, <2>1
  <2>3. c[kept[i] + 1] < c[kept[j] + 1] BY <1>2, <2>2 DEF Increasing
  <2> QED BY <1>5, <2>3
<1>8. \A i \in 1..config.prefix : i <= Budget /\ kept[i] = i - 1
  <2>1. kept \in [1..Budget -> Nat] BY <1>3
  <2>2. 0..config.prefix - 1 \subseteq Range(kept) BY <1>3 DEF Protected
  <2> QED BY <1>1, <1>3, <2>1, <2>2, FrontOf
<1>9. \A i \in 0..config.recent - 1 : i < Budget /\ kept[Budget - i] = n - 1 - i
  <2>1. PICK r \in Nat : r = config.recent BY <1>1
  <2>2. n - r..n - 1 \subseteq Range(kept) BY <1>3, <2>1 DEF Protected
  <2>3. r <= n BY <1>1, <2>1
  <2>4. \A i \in 0..r - 1 : i < Budget /\ kept[Budget - i] = n - 1 - i
    <3>1. PICK b \in Nat : b = Budget BY <1>1
    <3>2. kept \in [1..b -> 0..n - 1] /\ Increasing(kept, b) BY <1>3, <3>1
    <3>3. HasTail(kept, b, n, r) BY ONLY <2>2, <2>3, <3>2 DEF HasTail
    <3>4. \A i \in 0..r - 1 : i < b /\ kept[b - i] = n - 1 - i BY <3>3, BackOf
    <3> QED BY ONLY <3>1, <3>4
  <2> QED BY <2>1, <2>4
<1>10. \A i \in 1..Budget : i <= config.prefix => d[i] = i - 1
  <2> SUFFICES ASSUME NEW i \in 1..Budget, i <= config.prefix PROVE d[i] = i - 1
    OBVIOUS
  <2>1. kept[i] = i - 1 BY <1>1, <1>8
  <2>2. d[i] = c[kept[i] + 1] BY <1>5
  <2>3. kept[i] + 1 = i /\ i \in 1..n BY <1>1, <2>1
  <2> QED BY <1>2, <2>2, <2>3
<1>11. \A i \in 0..Budget - 1 : i < config.recent => d[Budget - i] = t - 1 - i
  <2> SUFFICES ASSUME NEW i \in 0..Budget - 1, i < config.recent
               PROVE  d[Budget - i] = t - 1 - i
    OBVIOUS
  <2>1. kept[Budget - i] = n - 1 - i BY <1>1, <1>9
  <2>2. Budget - i \in 1..Budget BY <1>1
  <2>3. d[Budget - i] = c[kept[Budget - i] + 1] BY <1>5, <2>2
  <2>4. kept[Budget - i] + 1 = n - i /\ i \in 0..n - 1 BY <1>1, <2>1
  <2> QED BY <1>2, <2>3, <2>4
<1>12. ~ (Budget < Budget) BY <1>1
<1> QED BY <1>6, <1>7, <1>10, <1>11, <1>12 DEF Holds

(* Append, for a cache that is a function.                                  *)
LEMMA AppendIs ==
  ASSUME NEW n \in Nat, NEW t \in Nat, NEW c \in [1..n -> 0..t - 1]
  PROVE  /\ Append(c, t) \in [1..n + 1 -> 0..t] /\ Len(Append(c, t)) = n + 1
         /\ Append(c, t)[n + 1] = t /\ \A i \in 1..n : Append(c, t)[i] = c[i]
<1>1. c \in [1..n -> 0..t] OBVIOUS
<1>2. c \in Seq(0..t) BY <1>1, IsASeq
<1>3. Len(c) = n BY <1>1, LenProperties, IsASeq
<1>4. t \in 0..t OBVIOUS
<1>5. /\ Append(c, t) \in Seq(0..t) /\ Len(Append(c, t)) = Len(c) + 1
      /\ \A i \in 1..Len(c) : Append(c, t)[i] = c[i] /\ Append(c, t)[Len(c) + 1] = t
  BY <1>2, <1>4, AppendProperties
<1>6. Append(c, t) \in [1..n + 1 -> 0..t] BY <1>3, <1>5, LenProperties
<1>7. Append(c, t)[n + 1] = t BY <1>2, <1>3, <1>4, AppendProperties
<1> QED BY <1>3, <1>5, <1>6, <1>7

(* The request's next token joins the cache behind its tail.                *)
LEMMA DecodeHolds ==
  ASSUME config \in Configs, NEW n \in Nat, NEW t \in Nat, NEW c, Holds(c, n, t),
         NEW d \in [1..n + 1 -> 0..t], d[n + 1] = t, \A i \in 1..n : d[i] = c[i]
  PROVE  Holds(d, n + 1, t + 1)
<1>1. config \in Config BY ConfigAssumption
<1>2. config.prefix \in Nat /\ config.recent \in Nat BY <1>1 DEF Config
<1>3. /\ c \in [1..n -> 0..t - 1] /\ Increasing(c, n)
      /\ \A i \in 1..n : i <= config.prefix => c[i] = i - 1
      /\ \A i \in 0..n - 1 : i < config.recent => c[n - i] = t - 1 - i
  BY DEF Holds
<1>4. n < Budget => n = t BY DEF Holds
<1>5. config.prefix <= Budget /\ Budget \in Nat
  BY <1>2, ConfigAssumption, BoundAssumption
<1>9. Increasing(d, n + 1)
  <2> SUFFICES ASSUME NEW i \in 1..n + 1, NEW j \in 1..n + 1, i < j PROVE d[i] < d[j]
    BY DEF Increasing
  <2>1. i \in 1..n /\ d[i] = c[i] /\ c[i] \in 0..t - 1 BY <1>3
  <2>2. CASE j \in 1..n
    <3>1. c[i] < c[j] BY <1>3, <2>1, <2>2 DEF Increasing
    <3> QED BY <2>1, <2>2, <3>1
  <2>3. CASE j = n + 1 BY <2>1, <2>3
  <2> QED BY <2>2, <2>3
<1>10. \A i \in 1..n + 1 : i <= config.prefix => d[i] = i - 1
  <2> SUFFICES ASSUME NEW i \in 1..n + 1, i <= config.prefix PROVE d[i] = i - 1
    OBVIOUS
  <2>1. CASE i \in 1..n BY <1>3, <2>1
  <2>2. CASE i = n + 1
    <3>1. n = t BY <1>2, <1>4, <1>5, <2>2
    <3> QED BY <2>2, <3>1
  <2> QED BY <2>1, <2>2
<1>11. \A i \in 0..n : i < config.recent => d[n + 1 - i] = t - i
  <2> SUFFICES ASSUME NEW i \in 0..n, i < config.recent PROVE d[n + 1 - i] = t - i
    OBVIOUS
  <2>1. CASE i = 0 BY <2>1
  <2>2. CASE i # 0
    <3>1. i - 1 \in 0..n - 1 /\ i - 1 < config.recent /\ n - (i - 1) = n + 1 - i
      BY <1>2, <2>2
    <3>2. c[n - (i - 1)] = t - 1 - (i - 1) BY <1>3, <3>1
    <3>3. n + 1 - i \in 1..n BY <2>2
    <3>4. d[n + 1 - i] = c[n + 1 - i] BY <3>3
    <3> QED BY <3>1, <3>2, <3>4
  <2> QED BY <2>1, <2>2
<1>12. n + 1 < Budget => n + 1 = t + 1 BY <1>4, <1>5
<1>13. t + 1 - 1 = t /\ n + 1 - 1 = n OBVIOUS
<1>14. d \in [1..n + 1 -> 0..t + 1 - 1] BY <1>13
<1>15. \A i \in 0..n + 1 - 1 : i < config.recent => d[n + 1 - i] = t + 1 - 1 - i
  BY <1>11, <1>13
<1> QED BY ONLY <1>9, <1>10, <1>12, <1>14, <1>15 DEF Holds

(* The policies follow from the configuration, which no step changes.       *)
LEMMA PolicyStays ==
  ASSUME config' = config, NEW n, NEW scores
  PROVE  /\ Protected(n)' = Protected(n)
         /\ V3Kept(scores)' = V3Kept(scores)
<1>1. \A i : Protected(i)' = Protected(i) BY DEF Protected
<1>2. SegmentIds' = SegmentIds BY DEF SegmentIds
<1>3. ASSUME NEW s PROVE SegmentKept(scores, s)' = SegmentKept(scores, s)
  <2> DEFINE m == Len(scores)
  <2>1. Middle(m)' = Middle(m) BY DEF Middle
  <2>2. \A i : Start(m, i)' = Start(m, i) BY <2>1 DEF Start
  <2>3. \A i : Segment(m, i)' = Segment(m, i) BY <2>2 DEF Segment
  <2>4. \A b : EvictedBefore(m, b)' = EvictedBefore(m, b) BY <2>1 DEF EvictedBefore
  <2>5. KeepCount(m, s)' = KeepCount(m, s) BY <2>2, <2>3, <2>4 DEF KeepCount
  <2> QED BY <2>3, <2>5 DEF SegmentKept
<1>4. {SegmentKept(scores, s) : s \in SegmentIds}' = {SegmentKept(scores, s) : s \in SegmentIds}
  BY <1>2, <1>3
<1>5. V3Kept(scores)' = V3Kept(scores) BY <1>1, <1>4 DEF V3Kept
<1> QED BY <1>1, <1>5

(* A prompt, of which nothing is compressed, satisfies it.                  *)
LEMMA InitIInv == Init => IInv
<1> SUFFICES ASSUME Init PROVE IInv OBVIOUS
<1>1. /\ config \in Configs /\ tokens \in 1..MaxPrompt
      /\ cache = [i \in 1..tokens |-> i - 1] /\ last = <<>> /\ raised = FALSE
  BY DEF Init
<1>2. tokens \in 1..MaxTokens /\ tokens \in Nat BY <1>1, BoundAssumption
<1>3. cache \in [1..tokens -> 0..tokens - 1] BY <1>1, <1>2
<1>4. Len(cache) = tokens BY <1>2, <1>3, LenProperties, IsASeq
<1>5. config.prefix \in Nat /\ config.recent \in Nat
  BY <1>1, ConfigAssumption DEF Config
<1>6. Increasing(cache, tokens) BY <1>1, <1>2 DEF Increasing
<1>7. \A i \in 1..tokens : i <= config.prefix => cache[i] = i - 1 BY <1>1
<1>8. \A i \in 0..tokens - 1 : i < config.recent => cache[tokens - i] = tokens - 1 - i
  <2> SUFFICES ASSUME NEW i \in 0..tokens - 1 PROVE cache[tokens - i] = tokens - 1 - i
    OBVIOUS
  <2>1. tokens - i \in 1..tokens BY <1>2
  <2>2. cache[tokens - i] = tokens - i - 1 BY <1>1, <2>1
  <2> QED BY <1>2, <2>2
<1>9. Holds(cache, Len(cache), tokens) BY <1>3, <1>4, <1>6, <1>7, <1>8 DEF Holds
<1>10. cache \in Seq(0..tokens - 1) BY <1>2, <1>3, IsASeq
<1> QED BY <1>1, <1>2, <1>9, <1>10 DEF IInv

(* What the policy may choose is the same in every state.                   *)
LEMMA KeptStays ==
  ASSUME config' = config, NEW scores, NEW kept, KeptOf(scores, kept)
  PROVE  KeptOf(scores, kept)'
<1>1. PICK n \in Nat :
        /\ n >= Threshold /\ scores \in [1..n -> Score] /\ Listed(n, kept)
        /\ config.policy = "v3" => ToSet(kept) \in V3Kept(scores)
  BY DEF KeptOf
<1>2. Protected(n)' = Protected(n) /\ V3Kept(scores)' = V3Kept(scores) BY PolicyStays
<1>3. Listed(n, kept)' BY <1>1, <1>2 DEF Listed
<1>4. config'.policy = "v3" => ToSet(kept) \in V3Kept(scores)' BY <1>1, <1>2
<1>5. n \in Nat /\ n >= Threshold /\ scores \in [1..n -> Score] BY <1>1
<1> QED BY ONLY <1>3, <1>4, <1>5 DEF KeptOf

(* A step that keeps a listing of a policy's choice.                        *)
LEMMA KeepIInv ==
  ASSUME IInv, NEW n \in Nat, n = Len(cache), n >= Threshold,
         NEW scores \in [1..n -> Score], NEW kept, Listed(n, kept),
         config.policy = "v3" => ToSet(kept) \in V3Kept(scores),
         Keep(scores, kept), config' = config, tokens' = tokens
  PROVE  IInv'
<1>1. /\ config \in Configs /\ tokens \in 1..MaxTokens /\ ~raised
      /\ Holds(cache, n, tokens)
  BY DEF IInv
<1>2. Budget \in Nat BY BoundAssumption
<1>3. kept \in [1..Budget -> 0..n - 1] BY DEF Listed
<1>4. Len(kept) = Budget BY <1>2, <1>3, LenProperties, IsASeq
<1>5. cache' = [i \in 1..Budget |-> cache[kept[i] + 1]] BY <1>4 DEF Keep, At
<1>6. PICK t \in Nat : t = tokens BY <1>1
<1>7. PICK d : d = [i \in 1..Budget |-> cache[kept[i] + 1]] OBVIOUS
<1>8. PICK c : c = cache OBVIOUS
<1>9. Holds(d, Budget, t)
  <2>1. Holds(c, n, t) BY <1>1, <1>6, <1>8
  <2>2. d = [i \in 1..Budget |-> c[kept[i] + 1]] BY <1>7, <1>8
  <2> QED BY <1>1, <2>1, <2>2, KeepHolds
<1>10. cache' = d BY <1>5, <1>7
<1>11. Len(d) = Budget
  <2>1. d \in [1..Budget -> 0..t - 1] BY <1>9 DEF Holds
  <2> QED BY <1>2, <2>1, LenProperties, IsASeq
<1>12. Holds(cache, Len(cache), tokens)'
  BY <1>6, <1>9, <1>10, <1>11 DEF Holds
<1>13. last' = [scores |-> scores, kept |-> kept] /\ raised' = raised BY DEF Keep
<1>14. KeptOf(scores, kept)'
  <2>1. KeptOf(scores, kept) BY DEF KeptOf
  <2> QED BY <2>1, KeptStays
<1>15. Budget \in Nat /\ d \in Seq(0..t - 1)
  <2>1. d \in [1..Budget -> 0..t - 1] BY <1>9 DEF Holds
  <2> QED BY <1>2, <2>1, IsASeq
<1>16. (cache \in Seq(0..tokens - 1))' BY <1>6, <1>10, <1>15
<1>17. (config \in Configs /\ tokens \in 1..MaxTokens /\ ~raised)' BY <1>1, <1>13
<1>18. Len(cache') = Budget BY <1>10, <1>11
<1> QED BY <1>12, <1>13, <1>14, <1>16, <1>17, <1>18 DEF IInv

(* Whichever policy and path: what is kept is a listing.                    *)
LEMMA CompressIInv ==
  ASSUME IInv, Compress
  PROVE  IInv'
<1>1. config \in Configs /\ ~raised /\ cache \in Seq(0..tokens - 1) BY DEF IInv
<1>2. PICK n \in Nat : n = Len(cache) /\ n >= Threshold
  <2>1. Len(cache) >= Threshold BY DEF Compress
  <2>2. Len(cache) \in Nat BY <1>1, LenProperties
  <2> QED BY <2>1, <2>2
<1>3. PICK scores \in [1..n -> Score] :
        CompressGlobal(scores) \/ CompressBatched(scores) \/ CompressV3(scores)
  BY <1>2 DEF Compress, Scores
<1>4. config' = config /\ tokens' = tokens BY DEF Compress
<1>5. Len(scores) = n BY LenProperties, IsASeq
<1>6. CASE CompressGlobal(scores)
  <2>1. PICK K \in GlobalKept(scores) : Keep(scores, Sorted(K))
    BY <1>6 DEF CompressGlobal
  <2>2. /\ IsFiniteSet(K) /\ K \subseteq 0..n - 1 /\ Cardinality(K) = Budget
        /\ Protected(n) \subseteq K
    BY <1>1, <1>2, GlobalKeeps
  <2>3. Listed(n, Sorted(K)) BY <2>2, SortedListed
  <2>4. config.policy # "v3" BY <1>6 DEF CompressGlobal
  <2>5. PICK kept : kept = Sorted(K) OBVIOUS
  <2>6. Listed(n, kept) /\ Keep(scores, kept) BY <2>1, <2>3, <2>5
  <2> QED BY <1>2, <1>4, <2>4, <2>6, KeepIInv
<1>7. CASE CompressBatched(scores)
  <2>1. Batchable(n) BY <1>5, <1>7 DEF CompressBatched, Batched
  <2>2. PICK kept \in BatchedKept(scores) : Keep(scores, kept)
    BY <1>7 DEF CompressBatched
  <2>3. Listed(n, kept) /\ ToSet(kept) \in V3Kept(scores)
    BY <1>1, <1>2, <2>1, BatchedKeeps
  <2> QED BY <1>2, <1>4, <2>2, <2>3, KeepIInv
<1>8. CASE CompressV3(scores)
  <2>1. PICK K \in V3Kept(scores) :
          IF n - Budget <= Middle(n) /\ Cardinality(K) = Budget
          THEN Keep(scores, Sorted(K))
          ELSE raised' = TRUE /\ UNCHANGED <<cache, last>>
    BY <1>5, <1>8 DEF CompressV3
  <2>2. /\ IsFiniteSet(K) /\ K \subseteq 0..n - 1 /\ Cardinality(K) = Budget
        /\ Protected(n) \subseteq K
    BY <1>1, <1>2, V3Keeps
  <2>3. n - Budget <= Middle(n)
    <3>1. n - Budget \in 1..Middle(n) /\ Middle(n) \in Nat BY <1>1, <1>2, Shape
    <3> QED BY <3>1
  <2>4. Listed(n, Sorted(K)) /\ ToSet(Sorted(K)) = K BY <2>2, SortedListed
  <2>5. PICK kept : kept = Sorted(K) OBVIOUS
  <2>6. Listed(n, kept) /\ Keep(scores, kept) /\ ToSet(kept) \in V3Kept(scores)
    BY <2>1, <2>2, <2>3, <2>4, <2>5
  <2> QED BY <1>2, <1>4, <2>6, KeepIInv
<1> QED BY <1>3, <1>6, <1>7, <1>8

(* A decoded token keeps the order, and the tail of the cache that of the   *)
(* request.                                                                 *)
LEMMA DecodeIInv ==
  ASSUME IInv, Decode
  PROVE  IInv'
<1>1. /\ config \in Configs /\ tokens \in 1..MaxTokens /\ ~raised
      /\ cache \in Seq(0..tokens - 1) /\ Holds(cache, Len(cache), tokens)
  BY DEF IInv
<1>2. /\ tokens < MaxTokens /\ tokens' = tokens + 1 /\ cache' = Append(cache, tokens)
      /\ last' = <<>> /\ config' = config /\ raised' = raised
  BY DEF Decode
<1>3. PICK t \in Nat : t = tokens BY <1>1
<1>4. PICK c : c = cache OBVIOUS
<1>5. PICK n \in Nat : n = Len(c) BY <1>1, <1>4, LenProperties
<1>6. Holds(c, n, t) BY <1>1, <1>3, <1>4, <1>5
<1>7. PICK d : d = Append(c, t) OBVIOUS
<1>8. /\ d \in [1..n + 1 -> 0..t] /\ Len(d) = n + 1
      /\ d[n + 1] = t /\ \A i \in 1..n : d[i] = c[i]
  <2>1. c \in [1..n -> 0..t - 1] BY <1>6 DEF Holds
  <2>2. /\ Append(c, t) \in [1..n + 1 -> 0..t] /\ Len(Append(c, t)) = n + 1
        /\ Append(c, t)[n + 1] = t /\ \A i \in 1..n : Append(c, t)[i] = c[i]
    BY <2>1, AppendIs
  <2> QED BY ONLY <1>7, <2>2, Zenon
<1>9. Holds(d, n + 1, t + 1) BY <1>1, <1>6, <1>8, DecodeHolds
<1>10. cache' = d /\ Len(cache') = n + 1 /\ tokens' = t + 1
  BY <1>2, <1>3, <1>4, <1>7, <1>8
<1>11. Holds(cache, Len(cache), tokens)' BY <1>2, <1>9, <1>10 DEF Holds
<1>12. (config \in Configs /\ tokens \in 1..MaxTokens /\ ~raised)'
  BY <1>1, <1>2, BoundAssumption
<1>13. (cache \in Seq(0..tokens - 1))'
  <2>1. d \in Seq(0..t) /\ t + 1 - 1 = t BY <1>8, IsASeq
  <2> QED BY <1>10, <2>1
<1> QED BY <1>2, <1>11, <1>12, <1>13 DEF IInv

(* No step disturbs the invariant.                                          *)
LEMMA NextIInv == IInv /\ [Next]_vars => IInv'
<1> SUFFICES ASSUME IInv, [Next]_vars PROVE IInv' OBVIOUS
<1>1. CASE Decode BY <1>1, DecodeIInv
<1>2. CASE Compress BY <1>2, CompressIInv
<1>3. CASE UNCHANGED vars
  <2>1. /\ config' = config /\ tokens' = tokens /\ cache' = cache /\ last' = last
        /\ raised' = raised
    BY <1>3 DEF vars
  <2>2. Holds(cache, Len(cache), tokens)' BY <2>1 DEF IInv, Holds
  <2>3. ASSUME last' # <<>>
        PROVE  \E scores, kept : last' = [scores |-> scores, kept |-> kept]
                                /\ KeptOf(scores, kept)'
    <3>1. PICK scores, kept : last = [scores |-> scores, kept |-> kept]
                              /\ KeptOf(scores, kept)
      BY <2>1, <2>3 DEF IInv
    <3>2. KeptOf(scores, kept)' BY <2>1, <3>1, KeptStays
    <3> QED BY <2>1, <3>1, <3>2
  <2>4. (cache \in Seq(0..tokens - 1))' /\ (last # <<>> => Len(cache) = Budget)'
    BY <2>1 DEF IInv
  <2>5. (config \in Configs /\ tokens \in 1..MaxTokens /\ ~raised)' BY <2>1 DEF IInv
  <2> QED BY <2>2, <2>3, <2>4, <2>5 DEF IInv
<1>4. CASE Done BY <1>3, <1>4 DEF Done
<1> QED BY <1>1, <1>2, <1>3, <1>4 DEF Next

(* So it holds in every state.                                              *)
LEMMA SpecIInv == Spec => []IInv
<1> QED BY InitIInv, NextIInv, PTL DEF Spec

----------------------------------------------------------------------------
(* The properties.                                                          *)

(* The types, and the conjunct that matters among them: the quotas of the   *)
(* segments add up to the budget for every configuration and length, so     *)
(* that select_keep_indices never raises.                                   *)
THEOREM TypeCorrect == Spec => []TypeOK
<1>1. ASSUME IInv PROVE TypeOK
  <2>1. /\ config \in Configs /\ tokens \in 1..MaxTokens /\ ~raised
        /\ cache \in Seq(0..tokens - 1)
    BY <1>1 DEF IInv
  <2>2. ASSUME last # <<>> PROVE Len(last.kept) = Budget
    <3>1. PICK scores, kept : last = [scores |-> scores, kept |-> kept]
                              /\ KeptOf(scores, kept)
      BY <1>1, <2>2 DEF IInv
    <3>2. PICK n \in Nat : Listed(n, kept) BY <3>1 DEF KeptOf
    <3>3. kept \in [1..Budget -> 0..n - 1] BY <3>2 DEF Listed
    <3>4. Budget \in Nat BY BoundAssumption
    <3>5. Len(kept) = Budget BY <3>3, <3>4, LenProperties, IsASeq
    <3> QED BY <3>1, <3>5
  <2> QED BY <2>1, <2>2 DEF TypeOK
<1> QED BY <1>1, SpecIInv, PTL

(* Whatever was compressed, and by whichever path, the cache holds distinct *)
(* tokens in the order of the request: select_keep_indices returns sorted   *)
(* indices, and materialize_token_slots reads them in that order.           *)
THEOREM OrderKept == Spec => []InOrder
<1>1. ASSUME IInv PROVE InOrder
  <2>1. /\ cache \in Seq(0..tokens - 1) /\ tokens \in 1..MaxTokens
        /\ Increasing(cache, Len(cache))
        /\ last # <<>> => Len(cache) = Budget
    BY <1>1 DEF IInv, Holds
  <2>2. PICK n \in Nat : n = Len(cache) BY <2>1, LenProperties
  <2>3. cache \in [1..n -> Int]
    <3>1. cache \in [1..n -> 0..tokens - 1] BY <2>1, <2>2, LenProperties
    <3> QED BY <3>1
  <2>4. PICK c : c = cache OBVIOUS
  <2>5. Ascending(c)
    <3>1. c \in [1..n -> Int] /\ Increasing(c, n) BY <2>1, <2>2, <2>3, <2>4
    <3> QED BY <3>1, AscendingIncreases
  <2> QED BY <2>1, <2>4, <2>5 DEF InOrder
<1> QED BY <1>1, SpecIInv, PTL

(* The protected windows: the first tokens are in the cache for as long as  *)
(* the request runs, the most recent ones whenever it was just compressed.  *)
THEOREM WindowsKept == Spec => []WindowsStay
<1>1. ASSUME IInv PROVE WindowsStay
  <2>1. /\ config \in Configs /\ cache \in Seq(0..tokens - 1)
        /\ \A i \in 1..Len(cache) : i <= config.prefix => cache[i] = i - 1
        /\ \A i \in 0..Len(cache) - 1 : i < config.recent =>
             cache[Len(cache) - i] = tokens - 1 - i
        /\ last # <<>> => Len(cache) = Budget
    BY <1>1 DEF IInv, Holds
  <2>2. PICK n \in Nat : n = Len(cache) BY <2>1, LenProperties
  <2>3. /\ config.prefix \in Nat /\ config.recent \in Nat /\ Budget \in Nat
        /\ config.recent <= Budget
    <3>1. config \in Config /\ config.prefix + config.recent <= Budget
      BY <2>1, ConfigAssumption
    <3>2. config.prefix \in Nat /\ config.recent \in Nat BY <3>1 DEF Config
    <3> QED BY <3>1, <3>2, BoundAssumption
  <2>4. ASSUME NEW i \in 1..Min({config.prefix, Len(cache)}) PROVE cache[i] = i - 1
    <3>1. PICK p \in Nat : p = config.prefix BY <2>3
    <3>2. Min({p, n}) \in {p, n} /\ Min({p, n}) <= p /\ Min({p, n}) <= n
      <4>1. {p, n} \subseteq 0..p + n /\ {p, n} # {} /\ p + n \in Nat OBVIOUS
      <4>2. Min({p, n}) \in {p, n} /\ \A x \in {p, n} : Min({p, n}) <= x
        BY <4>1, ExtremesOf
      <4> QED BY <4>2
    <3>3. i \in 1..Min({p, n}) BY <2>2, <3>1
    <3>4. i \in 1..n /\ i <= p BY <3>2, <3>3
    <3> QED BY <2>1, <2>2, <3>1, <3>4
  <2>5. ASSUME last # <<>>, NEW i \in 0..config.recent - 1
        PROVE  cache[Budget - i] = tokens - 1 - i
    <3>1. Len(cache) = Budget BY <2>1, <2>5
    <3>2. i \in 0..Budget - 1 /\ i < config.recent BY <2>3
    <3> QED BY <2>1, <3>1, <3>2
  <2> QED BY <2>4, <2>5 DEF WindowsStay
<1> QED BY <1>1, SpecIInv, PTL

(* The batched form of the NPU - one topk for all segments, sorting before  *)
(* it truncates, a scatter whose slot 0 takes the writes that are too many -*)
(* keeps nothing that the form segment by segment may not keep.             *)
THEOREM BatchedRefines == Spec => []BatchedAgrees
<1>1. ASSUME IInv PROVE BatchedAgrees
  <2> SUFFICES ASSUME last # <<>>, config.policy = "v3"
               PROVE  ToSet(last.kept) \in V3Kept(last.scores)
    BY DEF BatchedAgrees
  <2>1. PICK scores, kept : last = [scores |-> scores, kept |-> kept]
                            /\ KeptOf(scores, kept)
    BY <1>1 DEF IInv
  <2>2. ToSet(kept) \in V3Kept(scores) BY <2>1 DEF KeptOf
  <2>3. last.scores = scores /\ last.kept = kept BY <2>1
  <2> QED BY <2>2, <2>3
<1> QED BY <1>1, SpecIInv, PTL

(* The evictions are shared out in proportion: what a segment loses is less *)
(* than one token away from its share, for every budget and every number of *)
(* segments, because the quotas are differences of one rounded-down sum.    *)
THEOREM EvictionsShared == Spec => []Proportional
<1>1. ASSUME IInv PROVE Proportional
  <2> SUFFICES ASSUME last # <<>>, config.policy = "v3",
                      NEW s \in SegmentIds
               PROVE  Cardinality(Segment(Len(last.scores), s) \ ToSet(last.kept))
                          * Middle(Len(last.scores))
                        - (Len(last.scores) - Budget) * Cardinality(Segment(Len(last.scores), s))
                        \in 1 - Middle(Len(last.scores))..Middle(Len(last.scores)) - 1
    BY DEF Proportional
  <2>1. PICK scores, kept : last = [scores |-> scores, kept |-> kept]
                            /\ KeptOf(scores, kept)
    BY <1>1 DEF IInv
  <2>2. PICK n \in Nat : /\ n >= Threshold /\ scores \in [1..n -> Score]
                         /\ ToSet(kept) \in V3Kept(scores)
    BY <2>1 DEF KeptOf
  <2>3. last.scores = scores /\ last.kept = kept BY <2>1
  <2>4. Len(last.scores) = n
    <3>1. Len(scores) = n BY <2>2, LenProperties, IsASeq
    <3> QED BY <2>3, <3>1
  <2>5. config \in Configs BY <1>1 DEF IInv
  <2>6. PICK K \in V3Kept(scores) : K = ToSet(last.kept) BY <2>2, <2>3
  <2>7. /\ IsFiniteSet(K \cap Segment(n, s))
        /\ Cardinality(K \cap Segment(n, s)) = KeepCount(n, s)
    BY <2>2, <2>5, V3Keeps
  <2>8. PICK a \in Int, b \in Int : /\ a = Start(n, s) /\ b = Start(n, s + 1)
    <3>1. s \in 0..config.segments /\ s + 1 \in 0..config.segments /\ config.segments \in Nat
          /\ config.prefix \in Nat /\ config.recent \in Nat
      BY <2>2, <2>5, Shape DEF SegmentIds
    <3>2. Start(n, s) \in config.prefix..n - config.recent
          /\ Start(n, s + 1) \in config.prefix..n - config.recent
      BY <2>2, <2>5, <3>1, SegmentsFollow
    <3> QED BY <3>1, <3>2
  <2>9. /\ a \in config.prefix..b /\ b \in a..n - config.recent
        /\ IsFiniteSet(Segment(n, s)) /\ Cardinality(Segment(n, s)) = b - a
        /\ KeepCount(n, s) = b - a - (EvictedBefore(n, b) - EvictedBefore(n, a))
    BY <2>2, <2>5, <2>8, QuotaFits
  <2>10. Cardinality(Segment(n, s) \ K) = Cardinality(Segment(n, s)) - KeepCount(n, s)
    <3>1. Cardinality(Segment(n, s) \ K)
            = Cardinality(Segment(n, s)) - Cardinality(Segment(n, s) \cap K)
      BY <2>9, FS_Difference
    <3>2. Segment(n, s) \cap K = K \cap Segment(n, s) OBVIOUS
    <3> QED BY <2>7, <3>1, <3>2
  <2>11. a \in config.prefix..n - config.recent /\ b \in config.prefix..n - config.recent
         /\ a <= b
    <3>1. config.prefix \in Nat /\ config.recent \in Nat BY <2>2, <2>5, Shape
    <3> QED BY <2>9, <3>1
  <2>12. /\ EvictedBefore(n, a) \in Int /\ EvictedBefore(n, b) \in Int
         /\ (EvictedBefore(n, b) - EvictedBefore(n, a)) * Middle(n)
              - (n - Budget) * (b - a) \in 1 - Middle(n)..Middle(n) - 1
    BY <2>2, <2>5, <2>11, EvictedGrows
  <2>13. Cardinality(Segment(n, s) \ K) = EvictedBefore(n, b) - EvictedBefore(n, a)
    BY <2>9, <2>10, <2>12
  <2>14. Cardinality(Segment(n, s) \ K) * Middle(n)
           - (n - Budget) * Cardinality(Segment(n, s)) \in 1 - Middle(n)..Middle(n) - 1
    BY ONLY <2>9, <2>12, <2>13, Zenon
  <2> QED BY ONLY <2>4, <2>6, <2>14, Zenon
<1> QED BY <1>1, SpecIInv, PTL
=============================================================================
