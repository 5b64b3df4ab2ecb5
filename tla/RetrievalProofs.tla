--------------------------- MODULE RetrievalProofs ---------------------------
(***************************************************************************)
(* What a retrieval does to its results, proved for lists of every length: *)
(* the searches are merged (SearchesMerged), the relations are filtered    *)
(* and reranked (RelationsKept), and chunks, reports and pictures fit the  *)
(* context (ContextFits).                                                  *)
(*                                                                         *)
(* Selections and sorted lists are told by the number of elements that     *)
(* come before one; folds go through a run of states.                      *)
(***************************************************************************)
EXTENDS Algorithms, FiniteSetTheorems, SequenceTheorems, TLAPS

\* a set of numbers has a least one: there are as many below it as it says
LEMMA Least ==
  ASSUME NEW I \in SUBSET Nat, I # {}
  PROVE  \E i \in I : \A j \in I : i <= j
<1>1. PICK n \in I : TRUE
  OBVIOUS
<1> DEFINE Below == {m \in 0 .. n : \A i \in I : m < i}
           c == Cardinality(Below)
<1>2. /\ IsFiniteSet(Below) /\ c \in Nat
  <2>1. IsFiniteSet(0 .. n)
    BY FS_Interval
  <2>2. Below \subseteq 0 .. n
    OBVIOUS
  <2>3. QED  BY <2>1, <2>2, FS_Subset, FS_CardinalityType
<1>3. \A j \in I : c <= j
  <2> SUFFICES ASSUME NEW j \in I PROVE c <= j
    OBVIOUS
  <2>1. Below \subseteq 0 .. j - 1
    OBVIOUS
  <2>2. IsFiniteSet(0 .. j - 1) /\ Cardinality(0 .. j - 1) = j
    BY FS_Interval
  <2>3. QED  BY <2>1, <2>2, FS_Subset
<1>4. c \in I
  <2>1. ASSUME c \notin I PROVE FALSE
    <3>1. c <= n
      BY <1>3
    <3>2. \A i \in I : c < i
      BY <1>2, <1>3, <2>1
    <3>3. 0 .. c \subseteq Below
      BY <1>2, <3>1, <3>2
    <3>4. Cardinality(0 .. c) = c + 1
      BY <1>2, FS_Interval
    <3>5. Cardinality(0 .. c) <= c
      BY <1>2, <3>3, FS_Subset
    <3>6. QED  BY <1>2, <3>4, <3>5
  <2>2. QED  BY <2>1
<1>5. QED  BY <1>3, <1>4

(***************************************************************************)
(* Lists.  A finite set with a strict total order is arranged: what comes  *)
(* at place k has k - 1 elements before it.                                *)
(***************************************************************************)
Orders(before, S) ==
    /\ \A x \in S : <<x, x>> \notin before
    /\ \A x, y, z \in S : <<x, y>> \in before /\ <<y, z>> \in before => <<x, z>> \in before
    /\ \A x, y \in S : x = y \/ <<x, y>> \in before \/ <<y, x>> \in before

Before(S, before, x) == {y \in S : <<y, x>> \in before}

\* what comes before x has fewer elements before it than x
LEMMA FewerBefore ==
  ASSUME NEW S, IsFiniteSet(S), NEW before, Orders(before, S), NEW x \in S, NEW y \in S,
         <<x, y>> \in before
  PROVE  Cardinality(Before(S, before, x)) < Cardinality(Before(S, before, y))
<1> DEFINE X == Before(S, before, x)
           Y == Before(S, before, y)
<1>1. X \subseteq S /\ Y \subseteq S
  BY DEF Before
<1>2. x \notin X /\ X \cup {x} \subseteq Y
  BY DEF Before, Orders
<1>3. IsFiniteSet(X) /\ IsFiniteSet(Y) /\ Cardinality(X) \in Nat /\ Cardinality(Y) \in Nat
  BY <1>1, FS_Subset, FS_CardinalityType
<1> HIDE DEF X, Y
<1>4. Cardinality(X \cup {x}) = Cardinality(X) + 1
  BY <1>2, <1>3, FS_AddElement
<1>5. Cardinality(X \cup {x}) <= Cardinality(Y)
  BY <1>2, <1>3, FS_Subset
<1>6. QED
  BY <1>3, <1>4, <1>5 DEF X, Y

\* an earlier element has fewer elements before it
LEMMA BeforeIsLess ==
  ASSUME NEW S, IsFiniteSet(S), NEW before, Orders(before, S), NEW x \in S
  PROVE  /\ Cardinality(Before(S, before, x)) + 1 \in 1 .. Cardinality(S)
         /\ Cardinality(Before(S, before, x)) \in Nat
         /\ Cardinality(S) \in Nat
<1> DEFINE X == Before(S, before, x)
<1>1. X \subseteq S \ {x}
  BY DEF Before, Orders
<1>2. /\ IsFiniteSet(S \ {x}) /\ Cardinality(S) \in Nat
      /\ Cardinality(S \ {x}) = Cardinality(S) - 1
  BY FS_RemoveElement, FS_CardinalityType
<1>3. IsFiniteSet(X) /\ Cardinality(X) <= Cardinality(S) - 1 /\ Cardinality(X) \in Nat
  BY <1>1, <1>2, FS_Subset, FS_CardinalityType
<1>4. QED
  BY <1>2, <1>3

Arranges(a, S, before) ==
    LET n == Cardinality(S)
    IN /\ n \in Nat
       /\ a \in [1 .. n -> S]
       /\ \A x \in S : \E k \in 1 .. n : a[k] = x
       /\ \A j, k \in 1 .. n : j < k => <<a[j], a[k]>> \in before
       /\ \A k \in 1 .. n : Cardinality(Before(S, before, a[k])) = k - 1

\* Arranged puts each element once, at the place its predecessors say
LEMMA ArrangedIs ==
  ASSUME NEW S, IsFiniteSet(S), NEW before, Orders(before, S)
  PROVE  Arranges(Arranged(S, before), S, before)
<1> DEFINE n == Cardinality(S)
           rank == [x \in S |-> Cardinality(Before(S, before, x)) + 1]
           a == Arranged(S, before)
<1>1. n \in Nat /\ IsFiniteSet(1 .. n) /\ Cardinality(1 .. n) = n
  BY FS_CardinalityType, FS_Interval
<1>2. rank \in [S -> 1 .. n]
  BY BeforeIsLess
<1>3. \A x, y \in S : <<x, y>> \in before => rank[x] < rank[y]
  BY FewerBefore, BeforeIsLess
<1>4. \A x \in S : rank[x] \in Nat
  BY <1>1, <1>2
<1>5. ASSUME NEW x \in S, NEW y \in S, rank[x] = rank[y] PROVE x = y
  <2>1. ~ (rank[x] < rank[y]) /\ ~ (rank[y] < rank[x])
    BY <1>4, <1>5
  <2>2. QED
    BY <2>1, <1>3 DEF Orders
<1>6. \A k \in 1 .. n : \E x \in S : rank[x] = k
  <2>1. rank \in Injection(S, 1 .. n)
    BY <1>2, <1>5 DEF Injection, IsInjective
  <2>2. rank \in Surjection(S, 1 .. n)
    BY <2>1, <1>1, FS_Injection
  <2>3. QED
    BY <2>2 DEF Surjection
<1>7. \A k \in 1 .. n : a[k] \in S /\ Cardinality(Before(S, before, a[k])) = k - 1
  <2> SUFFICES ASSUME NEW k \in 1 .. n
               PROVE  a[k] \in S /\ Cardinality(Before(S, before, a[k])) = k - 1
    OBVIOUS
  <2>1. a[k] = CHOOSE x \in S : Cardinality(Before(S, before, x)) = k - 1
    BY DEF Arranged, Before
  <2>2. PICK x \in S : rank[x] = k
    BY <1>6
  <2>3. Cardinality(Before(S, before, x)) = k - 1
    BY <2>2, <1>1, BeforeIsLess
  <2> HIDE DEF a
  <2>4. QED
    BY <2>1, <2>3
<1>8. a \in [1 .. n -> S]
  <2> DEFINE c(k) == CHOOSE x \in S : Cardinality(Before(S, before, x)) = k - 1
  <2>1. a = [k \in 1 .. n |-> c(k)]
    BY DEF Arranged, Before
  <2>2. \A k \in 1 .. n : c(k) \in S
    <3> HIDE DEF a
    <3>1. \A k \in 1 .. n : a[k] = c(k)
      <4> HIDE DEF c
      <4>1. QED
        BY <2>1
    <3> HIDE DEF c
    <3>2. QED
      BY <3>1, <1>7
  <2> HIDE DEF a, c
  <2>3. QED
    BY <2>1, <2>2
<1>9. \A k \in 1 .. n : rank[a[k]] = k
  <2> HIDE DEF a
  <2>1. QED
    BY <1>7, <1>1
<1> HIDE DEF a, rank
<1>10. \A x \in S : \E k \in 1 .. n : a[k] = x
  BY <1>2, <1>5, <1>7, <1>9
<1>11. \A j, k \in 1 .. n : j < k => <<a[j], a[k]>> \in before
  <2> SUFFICES ASSUME NEW j \in 1 .. n, NEW k \in 1 .. n, j < k PROVE <<a[j], a[k]>> \in before
    OBVIOUS
  <2>1. a[j] \in S /\ a[k] \in S /\ rank[a[j]] = j /\ rank[a[k]] = k
    BY <1>7, <1>9
  <2>2. a[j] # a[k] /\ ~ (rank[a[k]] < rank[a[j]])
    BY <2>1, <1>1
  <2>3. QED
    BY <2>1, <2>2, <1>3 DEF Orders
<1>12. QED
  BY <1>1, <1>7, <1>8, <1>10, <1>11 DEF Arranges, a

(***************************************************************************)
(* A selection goes through the places in their order, and gets no place   *)
(* further back than it was.                                               *)
(***************************************************************************)
Picks(f, at, list, out) ==
    LET n == Cardinality(at)
    IN /\ n \in Nat
       /\ f \in [1 .. n -> at]
       /\ \A i \in at : \E k \in 1 .. n : f[k] = i
       /\ \A j, k \in 1 .. n : j < k => f[j] < f[k]
       /\ \A k \in 1 .. n : k <= f[k]
       /\ out = [k \in 1 .. n |-> list[f[k]]]

\* Select takes what the list holds at the places, in the order of the list
LEMMA SelectIs ==
  ASSUME NEW n \in Nat, NEW at \in SUBSET (1 .. n), NEW list
  PROVE  \E f : Picks(f, at, list, Select(list, at))
<1> DEFINE before == {p \in at \X at : p[1] < p[2]}
           f == Arranged(at, before)
           m == Cardinality(at)
<1>1. IsFiniteSet(at)
  <2>1. IsFiniteSet(1 .. n)
    BY FS_Interval
  <2>2. QED
    BY <2>1, FS_Subset
<1>2. \A x, y \in at : <<x, y>> \in before <=> x < y
  OBVIOUS
<1>3. Orders(before, at)
  <2>1. at \subseteq Int
    OBVIOUS
  <2> HIDE DEF before
  <2>2. QED
    BY <1>2, <2>1 DEF Orders
<1> HIDE DEF before
<1>4. Arranges(f, at, before)
  BY <1>1, <1>3, ArrangedIs
<1> HIDE DEF f
<1>5. /\ m \in Nat
      /\ f \in [1 .. m -> at]
      /\ \A i \in at : \E k \in 1 .. m : f[k] = i
      /\ \A j, k \in 1 .. m : j < k => <<f[j], f[k]>> \in before
      /\ \A k \in 1 .. m : Cardinality(Before(at, before, f[k])) = k - 1
  BY <1>4 DEF Arranges
<1> HIDE DEF m
<1>6. \A j, k \in 1 .. m : j < k => f[j] < f[k]
  BY <1>5, <1>2
<1>7. \A k \in 1 .. m : k <= f[k]
  <2> SUFFICES ASSUME NEW k \in 1 .. m PROVE k <= f[k]
    OBVIOUS
  <2>1. f[k] \in at /\ Cardinality(Before(at, before, f[k])) = k - 1
    BY <1>5
  <2>2. PICK x \in at : x = f[k] /\ Cardinality(Before(at, before, x)) = k - 1
    BY <2>1
  <2>3. x \in Nat /\ x >= 1
    OBVIOUS
  <2>4. Before(at, before, x) \subseteq 1 .. x - 1
    <3>1. ASSUME NEW y \in Before(at, before, x) PROVE y \in 1 .. x - 1
      <4>1. y \in at /\ <<y, x>> \in before
        BY DEF Before
      <4>2. y < x
        BY <4>1, <1>2
      <4>3. y \in 1 .. n
        BY <4>1
      <4>4. QED
        BY <4>2, <4>3, <2>3
    <3>2. QED
      BY <3>1
  <2>5. IsFiniteSet(1 .. x - 1) /\ Cardinality(1 .. x - 1) = x - 1
    BY <2>3, FS_Interval
  <2>6. Cardinality(Before(at, before, x)) <= x - 1
    BY <2>4, <2>5, FS_Subset
  <2>7. QED
    BY <2>2, <2>3, <2>6, <1>5
<1>8. Select(list, at) = [k \in 1 .. m |-> list[f[k]]]
  <2>1. Select(list, at) = [k \in DOMAIN f |-> list[f[k]]]
    BY DEF Select, f, before
  <2>2. DOMAIN f = 1 .. m
    BY <1>5
  <2>3. QED
    BY <2>1, <2>2
<1>9. QED
  BY <1>5, <1>6, <1>7, <1>8 DEF Picks, m

\* out holds what list holds at some places, none further back
Keeps(out, list, at) ==
    /\ Len(out) \in Nat /\ DOMAIN out = 1 .. Len(out) /\ Len(out) = Cardinality(at)
    /\ Range(out) = {list[i] : i \in at}
    /\ \A i \in at : \E k \in DOMAIN out : k <= i /\ out[k] = list[i]

\* so nothing moves to the back
LEMMA SelectKeeps ==
  ASSUME NEW n \in Nat, NEW at \in SUBSET (1 .. n), NEW list, NEW V,
         \A i \in at : list[i] \in V
  PROVE  Select(list, at) \in Seq(V) /\ Keeps(Select(list, at), list, at)
<1> DEFINE out == Select(list, at)
           m == Cardinality(at)
<1>1. PICK f : Picks(f, at, list, out)
  BY SelectIs
<1>2. /\ m \in Nat
      /\ f \in [1 .. m -> at]
      /\ \A i \in at : \E k \in 1 .. m : f[k] = i
      /\ \A k \in 1 .. m : k <= f[k]
      /\ out = [k \in 1 .. m |-> list[f[k]]]
  BY <1>1 DEF Picks
<1> HIDE DEF out, m
<1>3. out \in Seq(V) /\ Len(out) = m /\ DOMAIN out = 1 .. m /\ \A k \in 1 .. m : out[k] = list[f[k]]
  <2>1. out \in [1 .. m -> V]
    BY <1>2
  <2>2. QED
    BY <2>1, <1>2
<1>4. Range(out) = {list[i] : i \in at}
  <2>1. ASSUME NEW x \in Range(out) PROVE x \in {list[i] : i \in at}
    <3>1. PICK k \in 1 .. m : x = out[k]
      BY <1>3 DEF Range
    <3>2. x = list[f[k]] /\ f[k] \in at
      BY <3>1, <1>2, <1>3
    <3>3. QED
      BY <3>2
  <2>2. ASSUME NEW i \in at PROVE list[i] \in Range(out)
    <3>1. PICK k \in 1 .. m : f[k] = i
      BY <1>2
    <3>2. out[k] = list[i] /\ k \in DOMAIN out
      BY <3>1, <1>3
    <3>3. QED
      BY <3>2 DEF Range
  <2>3. QED
    BY <2>1, <2>2
<1>5. ASSUME NEW i \in at PROVE \E k \in DOMAIN out : k <= i /\ out[k] = list[i]
  <2>1. PICK k \in 1 .. m : f[k] = i
    BY <1>2
  <2>2. k <= i /\ out[k] = list[i] /\ k \in DOMAIN out
    BY <2>1, <1>2, <1>3
  <2>3. QED
    BY <2>2
<1>6. QED
  BY <1>2, <1>3, <1>4, <1>5 DEF Keeps, out, m

\* the places where a key comes for the first time
Firsts(list, K) == {i \in DOMAIN list : \A j \in 1 .. i - 1 : K[list[j]] # K[list[i]]}

\* out has no key twice, and each key of list no further back than it was
KeepsFirsts(out, list, V, K) ==
    /\ out \in Seq(V) /\ Range(out) \subseteq Range(list)
    /\ \A i, j \in DOMAIN out : i # j => K[out[i]] # K[out[j]]
    /\ \A i \in DOMAIN list : \E k \in DOMAIN out : k <= i /\ K[out[k]] = K[list[i]]

\* FirstOfEach: every key once, none further back than it was
LEMMA FirstsKeep ==
  ASSUME NEW V, NEW list \in Seq(V), NEW K
  PROVE  KeepsFirsts(Select(list, Firsts(list, K)), list, V, K)
<1> DEFINE n == Len(list)
           at == Firsts(list, K)
           out == Select(list, at)
           m == Cardinality(at)
<1>1. n \in Nat /\ DOMAIN list = 1 .. n /\ \A i \in 1 .. n : list[i] \in V
  OBVIOUS
<1>2. at = {i \in 1 .. n : \A j \in 1 .. i - 1 : K[list[j]] # K[list[i]]}
  BY <1>1 DEF Firsts
<1> HIDE DEF n, at
<1>3. at \in SUBSET (1 .. n) /\ \A i \in at : list[i] \in V
  BY <1>1, <1>2
<1>4. out \in Seq(V) /\ Keeps(out, list, at)
  BY <1>1, <1>3, SelectKeeps
<1>5. PICK f : Picks(f, at, list, out)
  BY <1>1, <1>3, SelectIs
<1>6. /\ m \in Nat
      /\ f \in [1 .. m -> at]
      /\ \A j, k \in 1 .. m : j < k => f[j] < f[k]
      /\ out = [k \in 1 .. m |-> list[f[k]]]
  BY <1>5 DEF Picks
<1> HIDE DEF m, out
<1>7. DOMAIN out = 1 .. m /\ \A k \in 1 .. m : out[k] = list[f[k]] /\ f[k] \in at
  BY <1>6
<1>8. ASSUME NEW j \in 1 .. m, NEW k \in 1 .. m, j < k PROVE K[out[j]] # K[out[k]]
  <2>1. f[j] \in at /\ f[k] \in at /\ f[j] < f[k]
    BY <1>6, <1>8
  <2>2. f[j] \in 1 .. f[k] - 1
    <3>1. \A x, y \in at : x < y => x \in 1 .. y - 1
      BY <1>1, <1>3
    <3>2. QED
      BY <2>1, <3>1
  <2>3. K[list[f[j]]] # K[list[f[k]]]
    BY <2>1, <2>2, <1>2
  <2>4. QED
    BY <2>3, <1>7
<1>9. \A i, j \in DOMAIN out : i # j => K[out[i]] # K[out[j]]
  <2> SUFFICES ASSUME NEW i \in 1 .. m, NEW j \in 1 .. m, i # j PROVE K[out[i]] # K[out[j]]
    BY <1>7
  <2>1. i < j \/ j < i
    BY <1>6
  <2>2. QED
    BY <2>1, <1>8
<1>10. ASSUME NEW i \in 1 .. n PROVE \E k \in DOMAIN out : k <= i /\ K[out[k]] = K[list[i]]
  <2> DEFINE I == {j \in 1 .. n : K[list[j]] = K[list[i]]}
  <2>1. I \in SUBSET Nat /\ i \in I
    BY <1>1
  <2>2. PICK j \in I : \A h \in I : j <= h
    BY <2>1, Least
  <2>3. j \in 1 .. n /\ K[list[j]] = K[list[i]] /\ j <= i
    BY <2>1, <2>2
  <2>4. ASSUME NEW h \in 1 .. j - 1 PROVE K[list[h]] # K[list[j]]
    <3>1. h \in 1 .. n /\ ~ (j <= h)
      BY <2>3, <1>1
    <3>2. h \notin I
      BY <3>1, <2>2
    <3>3. QED
      BY <3>1, <3>2, <2>3
  <2>5. j \in at
    BY <2>3, <2>4, <1>2
  <2>6. PICK k \in DOMAIN out : k <= j /\ out[k] = list[j]
    BY <2>5, <1>4 DEF Keeps
  <2>7. k \in Nat
    BY <1>7
  <2>8. k <= i
    BY <2>3, <2>6, <2>7
  <2>9. QED
    BY <2>3, <2>6, <2>8
<1>11. Range(out) \subseteq Range(list)
  <2>1. Range(out) = {list[i] : i \in at}
    BY <1>4 DEF Keeps
  <2>2. QED
    BY <2>1, <1>1, <1>3 DEF Range
<1>12. QED
  BY <1>1, <1>4, <1>9, <1>10, <1>11 DEF out, at, KeepsFirsts

(***************************************************************************)
(* Two lists in turn: an item is at twice its place at worst.              *)
(***************************************************************************)
LEMMA AlternateKeeps ==
  ASSUME NEW V, NEW a \in Seq(V), NEW b \in Seq(V)
  PROVE  LET all == Alternate(a, b)
         IN /\ all \in Seq(V) /\ Range(all) = Range(a) \cup Range(b)
            /\ \A l \in {a, b} : \A i \in DOMAIN l : \E k \in DOMAIN all :
                  k <= 2 * i /\ all[k] = l[i]
<1> DEFINE m == IF Len(a) > Len(b) THEN Len(a) ELSE Len(b)
           list(k) == IF k % 2 = 1 THEN a ELSE b
           turns == {k \in 1 .. 2 * m : (k + 1) \div 2 <= Len(list(k))}
           both == [k \in turns |-> list(k)[(k + 1) \div 2]]
           all == Alternate(a, b)
<1>1. all = Select(both, turns)
  BY DEF Alternate
<1>2. /\ Len(a) \in Nat /\ DOMAIN a = 1 .. Len(a) /\ \A i \in 1 .. Len(a) : a[i] \in V
      /\ Len(b) \in Nat /\ DOMAIN b = 1 .. Len(b) /\ \A i \in 1 .. Len(b) : b[i] \in V
  OBVIOUS
<1>3. m \in Nat /\ Len(a) <= m /\ Len(b) <= m
  BY <1>2
<1>4. turns \in SUBSET (1 .. 2 * m) /\ 2 * m \in Nat
  BY <1>3
<1>5. ASSUME NEW k \in turns
      PROVE  LET i == (k + 1) \div 2
             IN i \in DOMAIN list(k) /\ both[k] = list(k)[i] /\ list(k) \in {a, b}
  <2>1. k \in Nat /\ k >= 1
    BY <1>3
  <2>2. (k + 1) \div 2 \in Nat /\ (k + 1) \div 2 >= 1
    BY <2>1
  <2>3. QED
    BY <2>2, <1>2
<1>6. ASSUME NEW i \in DOMAIN a PROVE 2 * i - 1 \in turns /\ both[2 * i - 1] = a[i]
  <2>1. i \in Nat /\ i >= 1 /\ i <= Len(a)
    BY <1>2
  <2>2. (2 * i - 1) % 2 = 1 /\ ((2 * i - 1) + 1) \div 2 = i
    BY <2>1
  <2>3. 2 * i - 1 \in 1 .. 2 * m
    BY <2>1, <1>2, <1>3
  <2> HIDE DEF m
  <2>4. QED
    BY <2>1, <2>2, <2>3
<1>7. ASSUME NEW i \in DOMAIN b PROVE 2 * i \in turns /\ both[2 * i] = b[i]
  <2>1. i \in Nat /\ i >= 1 /\ i <= Len(b)
    BY <1>2
  <2>2. (2 * i) % 2 # 1 /\ ((2 * i) + 1) \div 2 = i
    BY <2>1
  <2>3. 2 * i \in 1 .. 2 * m
    BY <2>1, <1>2, <1>3
  <2> HIDE DEF m
  <2>4. QED
    BY <2>1, <2>2, <2>3
<1>8. \A k \in turns : both[k] \in V
  BY <1>2, <1>5
<1> HIDE DEF m, turns, both, all
<1>9. all \in Seq(V) /\ Keeps(all, both, turns)
  BY <1>1, <1>4, <1>8, SelectKeeps
<1>10. Range(all) = {both[k] : k \in turns}
  BY <1>9 DEF Keeps
<1>11. Range(all) = Range(a) \cup Range(b)
  <2>1. ASSUME NEW k \in turns PROVE both[k] \in Range(a) \cup Range(b)
    BY <1>5 DEF Range
  <2>2. \A i \in DOMAIN a : a[i] \in Range(all)
    BY <1>6, <1>10
  <2>3. \A i \in DOMAIN b : b[i] \in Range(all)
    BY <1>7, <1>10
  <2>4. QED
    BY <2>1, <2>2, <2>3, <1>10 DEF Range
<1>12. ASSUME NEW k \in turns PROVE \E j \in DOMAIN all : j <= k /\ all[j] = both[k]
  BY <1>9 DEF Keeps
<1>13. DOMAIN all = 1 .. Len(all) /\ Len(all) \in Nat
  BY <1>9 DEF Keeps
<1>14. ASSUME NEW i \in DOMAIN a PROVE \E k \in DOMAIN all : k <= 2 * i /\ all[k] = a[i]
  <2>1. PICK k \in DOMAIN all : k <= 2 * i - 1 /\ all[k] = a[i]
    BY <1>6, <1>12
  <2>2. QED
    BY <2>1, <1>2, <1>13
<1>15. ASSUME NEW i \in DOMAIN b PROVE \E k \in DOMAIN all : k <= 2 * i /\ all[k] = b[i]
  BY <1>7, <1>12
<1>16. QED
  BY <1>9, <1>11, <1>14, <1>15 DEF all

-----------------------------------------------------------------------------
(***************************************************************************)
(* Merging the results of the searches: _parallel_perform_kg_search embeds *)
(* the texts it needs in one call and takes the answer apart by position;  *)
(* entities and relations of the two searches come in turn, each once.     *)
(***************************************************************************)

\* Min of a set of numbers is one of them, and the least
LEMMA MinIs ==
  ASSUME NEW I \in SUBSET Nat, NEW i \in I
  PROVE  Min(I) \in I /\ Min(I) <= i
<1>1. PICK m \in I : \A x \in I : m <= x
  BY Least
<1>2. Min(I) \in I /\ \A x \in I : Min(I) =< x
  BY <1>1 DEF Min
<1>3. QED
  BY <1>2

\* what an item's key finds first is at its own place at worst
LEMMA FirstIs ==
  ASSUME NEW V, NEW merged \in Seq(V), NEW k \in DOMAIN merged, NEW bound \in Nat, k <= bound,
         NEW I, I = {i \in DOMAIN merged : merged[i] = merged[k]}
  PROVE  Min(I) <= bound
<1>1. k \in I /\ I \in SUBSET Nat
  OBVIOUS
<1>2. Min(I) \in Nat /\ Min(I) <= k /\ k \in Nat
  BY <1>1, MinIs
<1>3. QED
  BY <1>2

-----------------------------------------------------------------------------

\* what the provers need to know of a list
LEMMA SeqIs ==
  ASSUME NEW V, NEW s \in Seq(V)
  PROVE  /\ Len(s) \in Nat /\ DOMAIN s = 1 .. Len(s)
         /\ \A i \in DOMAIN s : i \in Nat /\ s[i] \in V
         /\ \A i \in DOMAIN s : \A j \in 1 .. i - 1 : j \in DOMAIN s
         /\ Range(s) \subseteq V
  BY DEF Range

\* a list has a value at each of its places
LEMMA ListIs ==
  ASSUME NEW V, NEW s \in Seq(V)
  PROVE  Len(s) \in Nat /\ DOMAIN s = 1 .. Len(s) /\ \A i \in 1 .. Len(s) : s[i] \in V
OBVIOUS

PartNames == <<"query", "ll", "hl">>

Wanted(ask, p) ==
    CASE p = "query" -> ask.query # "" /\ (ask.byVector \/ ask.vdb)
      [] p = "ll"    -> ask.ll # "" /\ ask.mode \in {"local", "hybrid", "mix"}
      [] p = "hl"    -> ask.hl # "" /\ ask.mode \in {"global", "hybrid", "mix"}

\* the three texts a search may embed, in their order
LEMMA PartNamesAre ==
  /\ DOMAIN PartNames = 1 .. 3
  /\ \A i \in 1 .. 3 : PartNames[i] \in {"query", "ll", "hl"}
  /\ \A p \in {"query", "ll", "hl"} : \E i \in 1 .. 3 : PartNames[i] = p
<1>1. PartNames[1] = "query" /\ PartNames[2] = "ll" /\ PartNames[3] = "hl" /\ DOMAIN PartNames = 1 .. 3
  BY DEF PartNames
<1>2. QED
  BY <1>1

\* the texts that are embedded: each once, and those that are wanted
LEMMA ToEmbedIs ==
  ASSUME NEW ask
  PROVE  /\ ToEmbed(ask) \in Seq({"query", "ll", "hl"})
         /\ \A p \in {"query", "ll", "hl"} : Wanted(ask, p) => Contains(ToEmbed(ask), p)
<1> DEFINE te == ToEmbed(ask)
           W == {i \in DOMAIN PartNames : Wanted(ask, PartNames[i])}
<1>1. te = Select(PartNames, W)
  BY DEF ToEmbed, PartNames, Wanted
<1>2. W \in SUBSET (1 .. 3)
  BY PartNamesAre
<1> HIDE DEF te
<1>3. te \in Seq({"query", "ll", "hl"}) /\ Keeps(te, PartNames, W)
  <2> HIDE DEF W
  <2>1. QED
    BY <1>1, <1>2, PartNamesAre, SelectKeeps
<1>4. ASSUME NEW p \in {"query", "ll", "hl"}, Wanted(ask, p) PROVE Contains(te, p)
  <2>1. PICK i \in 1 .. 3 : PartNames[i] = p
    BY PartNamesAre
  <2>2. i \in W
    BY <2>1, <1>4, PartNamesAre
  <2>3. PICK k \in DOMAIN te : te[k] = p
    BY <2>1, <2>2, <1>3 DEF Keeps
  <2>4. DOMAIN te = 1 .. Len(te)
    BY <1>3, SeqIs
  <2>5. QED
    BY <2>3, <2>4 DEF Contains
<1>5. QED
  BY <1>3, <1>4 DEF te

\* a text's vector is the one of that text, whichever others are embedded
LEMMA EmbeddingOf ==
  ASSUME NEW ask, NEW p \in {"query", "ll", "hl"}
  PROVE  Embeddings(ask)[p] = IF ask.embeds /\ Contains(ToEmbed(ask), p) THEN ask[p] ELSE ""
<1> DEFINE te == ToEmbed(ask)
<1>4. te \in Seq({"query", "ll", "hl"})
  BY ToEmbedIs
<1> DEFINE texts == [i \in DOMAIN te |-> ask[te[i]]]
           I == {i \in 1 .. Len(te) : te[i] = p}
<1>5. Embeddings(ask)[p] = IF ask.embeds /\ Contains(te, p)
                           THEN texts[SelectInSeq(te, LAMBDA x : x = p)] ELSE ""
  BY DEF Embeddings
<1> HIDE DEF te
<1>6. ASSUME Contains(te, p)
      PROVE  texts[SelectInSeq(te, LAMBDA x : x = p)] = ask[p]
  <2>1. PICK i \in 1 .. Len(te) : te[i] = p
    BY <1>6 DEF Contains
  <2>2. I \in SUBSET Nat /\ i \in I
    BY <1>4, <2>1
  <2>3. Min(I) \in I
    BY <2>2, MinIs
  <2>4. SelectInSeq(te, LAMBDA x : x = p) = Min(I)
    BY <2>2 DEF SelectInSeq
  <2> DEFINE j == Min(I)
  <2>5. j \in DOMAIN te /\ te[j] = p
    BY <2>3, <1>4
  <2> HIDE DEF j
  <2>6. texts[j] = ask[p]
    BY <2>5
  <2>7. QED
    BY <2>4, <2>6 DEF j
<1>7. QED
  BY <1>5, <1>6 DEF te

\* every search that runs has the vector of its own text, or none at all
LEMMA SearchesHaveTheirVectors ==
  ASSUME NEW ask, NEW s \in Searches(ask)
  PROVE  /\ SearchVector(ask, s) \in {"", SearchText(ask, s)}
         /\ ask.embeds /\ ask.mode \in {"hybrid", "mix", s} /\ ask.vdb
               => SearchVector(ask, s) = SearchText(ask, s)
<1>1. CASE s = "local"
  <2>1. SearchVector(ask, s) = Embeddings(ask)["ll"] /\ SearchText(ask, s) = ask["ll"]
    BY <1>1 DEF SearchVector, SearchText
  <2>2. ask["ll"] # ""
    BY <1>1 DEF Searches
  <2>3. ask.mode \in {"hybrid", "mix", s} => Contains(ToEmbed(ask), "ll")
    BY <1>1, <2>2, ToEmbedIs DEF Wanted
  <2>4. QED
    BY <2>1, <2>3, EmbeddingOf
<1>2. CASE s = "global"
  <2>1. SearchVector(ask, s) = Embeddings(ask)["hl"] /\ SearchText(ask, s) = ask["hl"]
    BY <1>2 DEF SearchVector, SearchText
  <2>2. ask["hl"] # ""
    BY <1>2 DEF Searches
  <2>3. ask.mode \in {"hybrid", "mix", s} => Contains(ToEmbed(ask), "hl")
    BY <1>2, <2>2, ToEmbedIs DEF Wanted
  <2>4. QED
    BY <2>1, <2>3, EmbeddingOf
<1>3. CASE s = "vector"
  <2>1. SearchVector(ask, s) = Embeddings(ask)["query"] /\ SearchText(ask, s) = ask["query"]
    BY <1>3 DEF SearchVector, SearchText
  <2>2. ASSUME ask.vdb, ask["query"] # "" PROVE Contains(ToEmbed(ask), "query")
    BY <2>2, ToEmbedIs DEF Wanted
  <2>4. QED
    BY <2>1, <2>2, EmbeddingOf
<1>4. s \in {"local", "global", "vector"}
  BY DEF Searches
<1>5. QED
  BY <1>1, <1>2, <1>3, <1>4

\* the entities of both searches, each once, none further back than two turns
LEMMA EntitiesAreMerged ==
  ASSUME NEW V, NEW a \in Seq(V), NEW b \in Seq(V)
  PROVE  LET merged == MergedEntities(a, b)
             key(x) == x
         IN /\ NoRepeats(merged, key)
            /\ Range(merged) = (Range(a) \cup Range(b)) \ {""}
            /\ \A l \in {a, b} : \A i \in DOMAIN l :
                  l[i] # "" => First(merged, key, l[i]) <= 2 * i
<1> DEFINE all == Alternate(a, b)
           at == {i \in DOMAIN all : all[i] # ""}
           named == Select(all, at)
           K == [x \in V |-> x]
           merged == Select(named, Firsts(named, K))
<1>1. /\ all \in Seq(V) /\ Range(all) = Range(a) \cup Range(b)
      /\ \A l \in {a, b} : \A i \in DOMAIN l : \E k \in DOMAIN all : k <= 2 * i /\ all[k] = l[i]
  BY AlternateKeeps
<1> HIDE DEF all
<1>2. /\ Len(all) \in Nat /\ DOMAIN all = 1 .. Len(all)
      /\ at \in SUBSET (1 .. Len(all)) /\ \A i \in at : all[i] \in V
  BY <1>1, SeqIs, Zenon
<1>3. /\ named \in Seq(V) /\ Range(named) = {all[i] : i \in at}
      /\ \A i \in at : \E k \in DOMAIN named : k <= i /\ named[k] = all[i]
  <2>1. named \in Seq(V) /\ Keeps(named, all, at)
    BY <1>2, SelectKeeps
  <2>2. QED
    BY <2>1 DEF Keeps
<1>4. MergedEntities(a, b) = merged
  <2>1. MergedEntities(a, b) = Select(named, {i \in DOMAIN named : \A j \in 1 .. i - 1 : named[j] # named[i]})
    BY DEF MergedEntities, FirstOfEach, all
  <2> HIDE DEF named
  <2>2. \A i \in DOMAIN named : named[i] \in V
    BY <1>3, SeqIs, Zenon
  <2>3. \A i \in DOMAIN named : \A j \in 1 .. i - 1 : j \in DOMAIN named
    BY <1>3, SeqIs, Zenon
  <2>4. Firsts(named, K) = {i \in DOMAIN named : \A j \in 1 .. i - 1 : named[j] # named[i]}
    <3>1. \A x \in V : K[x] = x
      OBVIOUS
    <3> HIDE DEF K
    <3>2. QED
      BY <2>2, <2>3, <3>1 DEF Firsts
  <2>5. QED
    BY <2>1, <2>4
<1> HIDE DEF named
<1>5. /\ merged \in Seq(V) /\ Range(merged) \subseteq Range(named)
      /\ \A i, j \in DOMAIN merged : i # j => K[merged[i]] # K[merged[j]]
      /\ \A i \in DOMAIN named : \E k \in DOMAIN merged : k <= i /\ K[merged[k]] = K[named[i]]
  <2> HIDE DEF K
  <2>1. KeepsFirsts(merged, named, V, K)
    BY <1>3, FirstsKeep
  <2> HIDE DEF merged
  <2>2. QED
    BY <2>1 DEF KeepsFirsts
<1> HIDE DEF merged
<1>6. /\ \A i \in DOMAIN merged : merged[i] \in V /\ K[merged[i]] = merged[i]
      /\ \A i \in DOMAIN named : named[i] \in V /\ K[named[i]] = named[i]
  <2>1. \A x \in V : K[x] = x
    OBVIOUS
  <2> HIDE DEF K
  <2>2. QED
    BY <1>3, <1>5, <2>1, SeqIs, Zenon
<1> HIDE DEF K
<1>7. \A i, j \in DOMAIN merged : i # j => merged[i] # merged[j]
  BY <1>5, <1>6
<1>8. \A i \in DOMAIN named : \E k \in DOMAIN merged : k <= i /\ merged[k] = named[i]
  BY <1>5, <1>6
<1>9. Range(merged) = Range(named)
  <2>1. Range(named) \subseteq Range(merged)
    BY <1>8 DEF Range
  <2>2. QED
    BY <2>1, <1>5
<1>10. Range(named) = Range(all) \ {""}
  BY <1>3 DEF Range
<1>11. ASSUME NEW l \in {a, b}, NEW i \in DOMAIN l, l[i] # ""
       PROVE  Min({h \in DOMAIN merged : merged[h] = l[i]}) <= 2 * i
  <2>1. PICK k \in DOMAIN all : k <= 2 * i /\ all[k] = l[i]
    BY <1>1
  <2>2. PICK j \in DOMAIN named : j <= k /\ named[j] = all[k]
    BY <2>1, <1>3, <1>11
  <2>3. PICK h \in DOMAIN merged : h <= j /\ merged[h] = named[j]
    BY <1>8
  <2>4. h \in Nat /\ j \in Nat /\ k \in Nat /\ i \in Nat /\ 2 * i \in Nat
    <3>1. l \in Seq(V)
      OBVIOUS
    <3>2. h \in Nat /\ j \in Nat /\ k \in Nat /\ i \in Nat
      BY <1>1, <1>3, <1>5, <3>1, SeqIs, Zenon
    <3>3. QED
      BY <3>2
  <2>5. h <= 2 * i /\ merged[h] = l[i]
    BY <2>1, <2>2, <2>3, <2>4
  <2>6. QED
    BY <2>4, <2>5, <1>5, FirstIs
<1>12. QED
  BY <1>1, <1>4, <1>7, <1>9, <1>10, <1>11 DEF NoRepeats, First

\* and the relations, whichever way round their ends are
LEMMA RelationsAreMerged ==
  ASSUME NEW V, NEW a \in Seq(V), NEW b \in Seq(V)
  PROVE  FairMerge(MergedRelations(a, b), {a, b}, LAMBDA r : {r[1], r[2]})
<1> DEFINE all == Alternate(a, b)
           K == [x \in V |-> {x[1], x[2]}]
           merged == Select(all, Firsts(all, K))
<1>1. /\ all \in Seq(V) /\ Range(all) = Range(a) \cup Range(b)
      /\ \A l \in {a, b} : \A i \in DOMAIN l : \E k \in DOMAIN all : k <= 2 * i /\ all[k] = l[i]
  BY AlternateKeeps
<1> HIDE DEF all
<1>4. MergedRelations(a, b) = merged
  <2>1. MergedRelations(a, b) =
          Select(all, {i \in DOMAIN all : \A j \in 1 .. i - 1 : {all[j][1], all[j][2]} # {all[i][1], all[i][2]}})
    BY DEF MergedRelations, FirstOfEach, EdgeKey, all
  <2>2. \A i \in DOMAIN all : all[i] \in V /\ K[all[i]] = {all[i][1], all[i][2]}
    BY <1>1
  <2>3. \A i \in DOMAIN all : \A j \in 1 .. i - 1 : j \in DOMAIN all
    BY <1>1
  <2>4. Firsts(all, K) = {i \in DOMAIN all : \A j \in 1 .. i - 1 : {all[j][1], all[j][2]} # {all[i][1], all[i][2]}}
    <3> HIDE DEF K
    <3>1. QED
      BY <2>2, <2>3 DEF Firsts
  <2>5. QED
    BY <2>1, <2>4
<1>5. /\ merged \in Seq(V) /\ Range(merged) \subseteq Range(all)
      /\ \A i, j \in DOMAIN merged : i # j => K[merged[i]] # K[merged[j]]
      /\ \A i \in DOMAIN all : \E k \in DOMAIN merged : k <= i /\ K[merged[k]] = K[all[i]]
  <2> HIDE DEF K
  <2>1. KeepsFirsts(merged, all, V, K)
    BY <1>1, FirstsKeep
  <2> HIDE DEF merged
  <2>2. QED
    BY <2>1 DEF KeepsFirsts
<1> HIDE DEF merged
<1>6. /\ \A i \in DOMAIN merged : merged[i] \in V
      /\ \A x \in V : K[x] = {x[1], x[2]}
      /\ \A l \in {a, b} : \A i \in DOMAIN l : l[i] \in V
  BY <1>5
<1> HIDE DEF K
<1>7. ASSUME NEW i \in DOMAIN merged, NEW j \in DOMAIN merged, i # j
      PROVE  {merged[i][1], merged[i][2]} # {merged[j][1], merged[j][2]}
  <2>1. K[merged[i]] # K[merged[j]]
    BY <1>5, <1>7
  <2>2. K[merged[i]] = {merged[i][1], merged[i][2]} /\ K[merged[j]] = {merged[j][1], merged[j][2]}
    BY <1>6, Zenon
  <2>3. QED
    BY <2>1, <2>2, Zenon
<1>8. ASSUME NEW l \in {a, b}, NEW i \in DOMAIN l
      PROVE  \E h \in DOMAIN merged : h <= 2 * i /\ K[merged[h]] = K[l[i]]
  <2>1. PICK k \in DOMAIN all : k <= 2 * i /\ all[k] = l[i]
    BY <1>1
  <2>2. PICK h \in DOMAIN merged : h <= k /\ K[merged[h]] = K[all[k]]
    BY <1>5
  <2>3. h \in Nat /\ k \in Nat /\ i \in Nat
    <3>1. l \in Seq(V)
      OBVIOUS
    <3>2. QED
      BY <1>1, <1>5, <3>1
  <2>4. QED
    BY <2>1, <2>2, <2>3
<1>9. {K[x] : x \in Range(merged)} = UNION {{K[x] : x \in Range(l)} : l \in {a, b}}
  <2>1. \A x \in Range(merged) : x \in Range(a) \cup Range(b)
    BY <1>1, <1>5
  <2>2. ASSUME NEW l \in {a, b}, NEW x \in Range(l) PROVE \E y \in Range(merged) : K[y] = K[x]
    BY <1>8 DEF Range
  <2>3. QED
    BY <2>1, <2>2
<1>10. {{x[1], x[2]} : x \in Range(merged)} = UNION {{{x[1], x[2]} : x \in Range(l)} : l \in {a, b}}
  <2>1. Range(merged) \subseteq V /\ Range(a) \subseteq V /\ Range(b) \subseteq V
    BY <1>5 DEF Range
  <2>2. \A x \in Range(merged) : K[x] = {x[1], x[2]}
    BY <2>1, <1>6
  <2>3. \A l \in {a, b} : \A x \in Range(l) : K[x] = {x[1], x[2]}
    BY <2>1, <1>6
  <2> DEFINE E(x) == {x[1], x[2]}
  <2>4. /\ \A x \in Range(merged) : K[x] = E(x)
        /\ \A l \in {a, b} : \A x \in Range(l) : K[x] = E(x)
    BY <2>2, <2>3
  <2> HIDE DEF E
  <2>5. {E(x) : x \in Range(merged)} = {K[x] : x \in Range(merged)}
    BY <2>4
  <2>6. UNION {{E(x) : x \in Range(l)} : l \in {a, b}} = UNION {{K[x] : x \in Range(l)} : l \in {a, b}}
    BY <2>4
  <2>7. {E(x) : x \in Range(merged)} = UNION {{E(x) : x \in Range(l)} : l \in {a, b}}
    BY <2>5, <2>6, <1>9
  <2>8. QED
    BY <2>7 DEF E
<1>11. ASSUME NEW l \in {a, b}, NEW i \in DOMAIN l
       PROVE  Min({h \in DOMAIN merged : {merged[h][1], merged[h][2]} = {l[i][1], l[i][2]}}) <= 2 * i
  <2> DEFINE I == {h \in DOMAIN merged : {merged[h][1], merged[h][2]} = {l[i][1], l[i][2]}}
  <2>1. PICK h \in DOMAIN merged : h <= 2 * i /\ K[merged[h]] = K[l[i]]
    BY <1>8
  <2>2. h \in I /\ I \in SUBSET Nat
    <3>1. K[merged[h]] = {merged[h][1], merged[h][2]} /\ K[l[i]] = {l[i][1], l[i][2]}
      BY <1>6, Zenon
    <3>2. \A j \in DOMAIN merged : j \in Nat
      BY <1>5, SeqIs, Zenon
    <3>3. {merged[h][1], merged[h][2]} = {l[i][1], l[i][2]}
      BY <2>1, <3>1, Zenon
    <3>4. QED
      BY <3>2, <3>3
  <2> HIDE DEF I
  <2>3. Min(I) \in Nat /\ Min(I) <= h /\ h \in Nat
    BY <2>2, MinIs
  <2>4. i \in Nat
    <3>1. l \in Seq(V)
      OBVIOUS
    <3>2. QED
      BY <3>1
  <2>5. QED
    BY <2>1, <2>3, <2>4 DEF I
<1>12. QED
  BY <1>4, <1>7, <1>10, <1>11 DEF FairMerge, NoRepeats, First

-----------------------------------------------------------------------------

(***************************************************************************)
(* A case stays one of those that were started.                            *)
(***************************************************************************)
CasesInv ==
    /\ "kind" \in DOMAIN sample
    /\ sample.kind = "entities" => sample.local \in EntityLists /\ sample.global \in EntityLists
    /\ sample.kind = "relations" => sample.local \in EdgeLists /\ sample.global \in EdgeLists
    /\ sample.kind = "filter" =>
          /\ sample.relations \in RelationLists /\ sample.backend \in Backends
          /\ sample.embedding \in BOOLEAN /\ sample.lim \in FilterLimits
    /\ sample.kind = "trim" =>
          /\ sample.chunks \in ChunkLists /\ sample.count \in 1 .. MaxCount
          /\ sample.max \in 1 .. MaxBudget
    /\ sample.kind = "render" =>
          /\ sample.costs \in CostLists /\ sample.max \in 0 .. MaxBudget
          /\ sample.least \in 1 .. MaxCount
    /\ sample.kind = "communities" =>
          /\ sample.edges \in Graphs /\ sample.groups \in Groupings /\ sample.size \in 2 .. 3
    /\ sample.kind = "graphs" => sample.one \in Graphs /\ sample.other \in Graphs
    /\ sample.kind = "resolution" =>
          /\ sample.count \in [1 .. Top2 - 1 -> Nat]
          /\ \E n \in 0 .. 2 * Cardinality(Nodes) + 1 :
                sample.target = TargetCount(n, 2, 1, Cardinality(Nodes))
    /\ sample.kind = "rank" =>
          sample.gold \in Golds /\ sample.ranked \in Rankings /\ sample.match \in Matches
    /\ sample.kind = "chunks" =>
          /\ sample.gold \in Golds /\ sample.ids \in Golds /\ sample.sources \in Golds
          /\ sample.match \in Matches /\ sample.sourceMatch \in SourceMatches
    /\ sample.kind = "bags" => sample.predicted \in Rankings /\ sample.gold \in Rankings
    /\ sample.kind = "multihop" => sample.near \subseteq Nodes
    /\ sample.kind = "report" => sample.rows \in SeqsUpTo(Rows, MaxCount)
    /\ sample.kind = "telemetry" => sample.bundles \in SeqsUpTo(Bundles, MaxCount)

OneStepKinds ==
    {"entities", "relations", "filter", "trim", "render", "communities", "graphs", "resolution",
     "rank", "chunks", "bags", "multihop", "report", "telemetry"}

\* the number of communities that are large enough is one
LEMMA CountIsNumber ==
  ASSUME NEW V, NEW groups \in Seq(V), NEW size
  PROVE  CountSummarizable(groups, size) \in Nat
<1>1. DOMAIN groups = 1 .. Len(groups) /\ Len(groups) \in Nat
  OBVIOUS
<1> DEFINE large == {i \in DOMAIN groups : Cardinality(groups[i]) >= size}
<1>2. IsFiniteSet(large)
  <2>1. IsFiniteSet(1 .. Len(groups)) /\ large \subseteq 1 .. Len(groups)
    BY <1>1, FS_Interval
  <2>2. QED
    BY <2>1, FS_Subset
<1>3. QED
  BY <1>2, FS_CardinalityType DEF CountSummarizable

\* a case never changes once it was started, unless it has steps of its own
LEMMA CasesStep == CasesInv /\ [Next]_vars => CasesInv'
<1> SUFFICES ASSUME CasesInv, [Next]_vars PROVE CasesInv'
  OBVIOUS
<1>1. ASSUME "kind" \in DOMAIN sample', sample'.kind \notin OneStepKinds PROVE CasesInv'
  BY <1>1 DEF CasesInv, OneStepKinds
<1>2. CASE MergeEntities    BY <1>2 DEF MergeEntities, CasesInv
<1>3. CASE MergeRelations   BY <1>3 DEF MergeRelations, CasesInv
<1>4. CASE FilterRelations
  <2>1. PICK r \in RelationLists, b \in Backends, e \in BOOLEAN, lim \in FilterLimits :
          sample' = [kind |-> "filter", relations |-> r, backend |-> b, embedding |-> e, lim |-> lim]
    BY <1>4 DEF FilterRelations
  <2>2. QED  BY <2>1 DEF CasesInv
<1>5. CASE TrimChunks
  <2>1. PICK c \in ChunkLists, n \in 1 .. MaxCount, max \in 1 .. MaxBudget :
          sample' = [kind |-> "trim", chunks |-> c, count |-> n, max |-> max]
    BY <1>5 DEF TrimChunks
  <2>2. QED  BY <2>1 DEF CasesInv
<1>6. CASE RenderReports
  <2>1. PICK c \in CostLists, max \in 0 .. MaxBudget, least \in 1 .. MaxCount :
          sample' = [kind |-> "render", costs |-> c, max |-> max, least |-> least]
    BY <1>6 DEF RenderReports
  <2>2. QED  BY <2>1 DEF CasesInv
<1>7. CASE Search           BY <1>1, <1>7 DEF Search, OneStepKinds
<1>8. CASE MergeCommunities
  <2>1. PICK e \in Graphs, g \in Groupings, size \in 2 .. 3 :
          sample' = [kind |-> "communities", edges |-> e, groups |-> g, size |-> size]
    BY <1>8 DEF MergeCommunities
  <2>2. QED  BY <2>1 DEF CasesInv
<1>9. CASE CompareGraphs
  <2>1. PICK e \in Graphs, f \in Graphs : sample' = [kind |-> "graphs", one |-> e, other |-> f]
    BY <1>9 DEF CompareGraphs
  <2>2. QED  BY <2>1 DEF CasesInv
<1>10. CASE Resolve
  <2>1. PICK f \in Splits, size \in 1 .. 3, n \in 0 .. 2 * Cardinality(Nodes) + 1 :
          sample' = [kind |-> "resolution",
                     count |-> [r \in 1 .. Top2 - 1 |-> CountSummarizable(f[r], size)],
                     target |-> TargetCount(n, 2, 1, Cardinality(Nodes))]
    BY <1>10 DEF Resolve
  <2> DEFINE c == [r \in 1 .. Top2 - 1 |-> CountSummarizable(f[r], size)]
  <2>2. c \in [1 .. Top2 - 1 -> Nat]
    <3>1. ASSUME NEW r \in 1 .. Top2 - 1 PROVE CountSummarizable(f[r], size) \in Nat
      <4>1. f[r] \in Seq((SUBSET Nodes) \ {{}})
        BY GraphsAssumption
      <4>2. QED
        BY <4>1, CountIsNumber
    <3>2. QED
      BY <3>1
  <2> HIDE DEF c
  <2>3. /\ sample'.kind = "resolution" /\ "kind" \in DOMAIN sample' /\ sample'.count = c
        /\ sample'.target = TargetCount(n, 2, 1, Cardinality(Nodes))
    BY <2>1 DEF c
  <2>4. QED  BY <2>2, <2>3 DEF CasesInv
<1>11. CASE Rank
  <2>1. PICK g \in Golds, r \in Rankings, m \in Matches :
          sample' = [kind |-> "rank", gold |-> g, ranked |-> r, match |-> m]
    BY <1>11 DEF Rank
  <2>2. QED  BY <2>1 DEF CasesInv
<1>12. CASE RankChunks
  <2>1. PICK g \in Golds, i \in Golds, s \in Golds, m \in Matches, sm \in SourceMatches :
          sample' = [kind |-> "chunks", gold |-> g, ids |-> i, sources |-> s,
                     match |-> m, sourceMatch |-> sm]
    BY <1>12 DEF RankChunks
  <2>2. QED  BY <2>1 DEF CasesInv
<1>13. CASE Compare
  <2>1. PICK p \in Rankings, g \in Rankings : sample' = [kind |-> "bags", predicted |-> p, gold |-> g]
    BY <1>13 DEF Compare
  <2>2. QED  BY <2>1 DEF CasesInv
<1>14. CASE JudgeMultihop
  <2>1. PICK near \in SUBSET Nodes, bullets \in SUBSET Nodes, aliases \in SUBSET Nodes,
             long \in SUBSET Nodes, s \in SeqsUpTo({1, 2}, MaxCount) :
          sample' = [kind |-> "multihop", near |-> near, bullets |-> bullets, sentences |-> s,
                     aliases |-> aliases, long |-> long]
    BY <1>14 DEF JudgeMultihop
  <2>2. QED  BY <2>1 DEF CasesInv
<1>15. CASE Evaluate
  <2>1. PICK rows \in SeqsUpTo(Rows, MaxCount), batch \in BOOLEAN :
           sample' = [kind |-> "report", rows |-> rows, batch |-> batch]
    BY <1>15 DEF Evaluate
  <2>2. QED  BY <2>1 DEF CasesInv
<1>16. CASE Observe
  <2>1. PICK b \in SeqsUpTo(Bundles, MaxCount) : sample' = [kind |-> "telemetry", bundles |-> b]
    BY <1>16 DEF Observe
  <2>2. QED  BY <2>1 DEF CasesInv
<1>17. CASE StartStream     BY <1>1, <1>17 DEF StartStream, OneStepKinds
<1>18. CASE StartBucket     BY <1>1, <1>18 DEF StartBucket, OneStepKinds
<1>19. CASE StartWindow     BY <1>1, <1>19 DEF StartWindow, OneStepKinds
<1>20. CASE StartCalls      BY <1>1, <1>20 DEF StartCalls, OneStepKinds
<1>21. "kind" \in DOMAIN sample
  BY DEF CasesInv
<1>22. CASE NextChunk       BY <1>1, <1>21, <1>22 DEF NextChunk, OneStepKinds
<1>23. CASE Tick            BY <1>1, <1>21, <1>23 DEF Tick, OneStepKinds
<1>24. CASE AskBucket       BY <1>1, <1>21, <1>24 DEF AskBucket, OneStepKinds
<1>25. CASE AskShared       BY <1>1, <1>21, <1>25 DEF AskShared, OneStepKinds
<1>26. CASE Enter           BY <1>1, <1>21, <1>26 DEF Enter, OneStepKinds
<1>27. CASE Take            BY <1>1, <1>21, <1>27 DEF Take, OneStepKinds
<1>28. CASE End             BY <1>1, <1>21, <1>28 DEF End, OneStepKinds
<1>29. CASE Again           BY <1>1, <1>21, <1>29 DEF Again, OneStepKinds
<1>30. CASE UNCHANGED vars  BY <1>30 DEF vars, CasesInv
<1>31. QED
  BY <1>2, <1>3, <1>4, <1>5, <1>6, <1>7, <1>8, <1>9, <1>10, <1>11, <1>12, <1>13, <1>14,
     <1>15, <1>16, <1>17, <1>18, <1>19, <1>20, <1>22, <1>23, <1>24, <1>25, <1>26, <1>27,
     <1>28, <1>29, <1>30 DEF Next

\* so it is one of those that were started
LEMMA CasesAlways == Spec => []CasesInv
<1>1. Init => CasesInv
  BY DEF Init, CasesInv
<1>2. QED
  BY <1>1, CasesStep, PTL DEF Spec

(***************************************************************************)
(* Every search of _parallel_perform_kg_search that runs is given the      *)
(* vector of its own text, whichever texts were embedded; and the entities *)
(* and relations of the two searches are merged to a list in which         *)
(* everything found is there once, no further back than twice its place.   *)
(***************************************************************************)
THEOREM SearchesAreMerged == Spec => []SearchesMerged
<1>1. CasesInv => SearchesMerged
  <2> SUFFICES ASSUME CasesInv PROVE SearchesMerged
    OBVIOUS
  <2>1. ASSUME sample.kind = "entities"
        PROVE  LET merged == MergedEntities(sample.local, sample.global)
                   key(x) == x
               IN /\ NoRepeats(merged, key)
                  /\ Range(merged) = (Range(sample.local) \cup Range(sample.global)) \ {""}
                  /\ \A l \in {sample.local, sample.global} : \A i \in DOMAIN l :
                        l[i] # "" => First(merged, key, l[i]) <= 2 * i
    <3>1. sample.local \in Seq(STRING) /\ sample.global \in Seq(STRING)
      BY <2>1, ResultsAssumption DEF CasesInv
    <3>2. QED
      BY <3>1, EntitiesAreMerged
  <2>2. ASSUME sample.kind = "relations"
        PROVE  FairMerge(MergedRelations(sample.local, sample.global),
                         {sample.local, sample.global}, LAMBDA r : {r[1], r[2]})
    <3>1. sample.local \in Seq(STRING \X STRING) /\ sample.global \in Seq(STRING \X STRING)
      BY <2>2, ResultsAssumption DEF CasesInv
    <3>2. QED
      BY <3>1, RelationsAreMerged
  <2>3. ASSUME NEW s \in Searches(sample.ask)
        PROVE  /\ SearchVector(sample.ask, s) \in {"", SearchText(sample.ask, s)}
               /\ sample.ask.embeds /\ sample.ask.mode \in {"hybrid", "mix", s} /\ sample.ask.vdb
                     => SearchVector(sample.ask, s) = SearchText(sample.ask, s)
    BY SearchesHaveTheirVectors
  <2>4. QED
    BY <2>1, <2>2, <2>3 DEF SearchesMerged
<1>2. QED
  BY <1>1, CasesAlways, PTL

-----------------------------------------------------------------------------
(***************************************************************************)
(* A fold over a list.  The library defines it by recursion on the sets of *)
(* places; induction here is a matter of sets of numbers, each of which    *)
(* has a least one.  So a fold is shown to go through a run of states, and *)
(* what holds of a state after k items is shown for every k.               *)
(***************************************************************************)

\* induction over numbers, as a statement about a set
LEMMA NatInd ==
  ASSUME NEW S, 0 \in S, \A n \in Nat : n \in S => n + 1 \in S
  PROVE  Nat \subseteq S
<1> SUFFICES ASSUME Nat \ S # {} PROVE FALSE
  OBVIOUS
<1>1. PICK m \in Nat \ S : \A x \in Nat \ S : m <= x
  BY Least
<1>2. m # 0 /\ m \in Nat
  OBVIOUS
<1>3. m - 1 \in Nat /\ m - 1 \in S
  BY <1>1, <1>2
<1>4. (m - 1) + 1 = m
  BY <1>2
<1>5. QED
  BY <1>1, <1>3, <1>4

\* the greatest of 1 .. n
LEMMA MaxOf ==
  ASSUME NEW n \in Nat, NEW s \in SUBSET (1 .. n), n \in s
  PROVE  Max(s) = n
<1>1. n \in s /\ \A y \in s : n >= y
  OBVIOUS
<1>2. \A x \in s : (\A y \in s : x >= y) => x = n
  OBVIOUS
<1>3. QED
  BY <1>1, <1>2 DEF Max

\* the greatest of some of 1 .. n
LEMMA MaxIn ==
  ASSUME NEW n \in Nat, NEW s \in SUBSET (1 .. n), s # {}
  PROVE  Max(s) \in s /\ s \ {Max(s)} \in SUBSET (1 .. Max(s) - 1)
<1> DEFINE I == {m \in 0 .. n : \A y \in s : n - m >= y}
<1>1. 0 \in I /\ I \in SUBSET Nat
  OBVIOUS
<1> DEFINE J == {i \in Nat : n - i \in s}
<1>2. J \in SUBSET Nat /\ J # {}
  <2>1. PICK x \in s : TRUE
    OBVIOUS
  <2>2. n - x \in Nat /\ n - (n - x) = x
    BY <2>1
  <2>3. QED
    BY <2>1, <2>2
<1>3. PICK j \in J : \A i \in J : j <= i
  BY <1>2, Least
<1>4. n - j \in s /\ j \in Nat
  OBVIOUS
<1>5. ASSUME NEW y \in s PROVE y <= n - j
  <2>1. n - y \in Nat /\ n - (n - y) = y
    OBVIOUS
  <2>2. n - y \in J
    BY <2>1
  <2>3. QED
    BY <1>3, <1>4, <2>1, <2>2
<1>6. Max(s) \in s /\ \A y \in s : Max(s) >= y
  BY <1>4, <1>5 DEF Max
<1>7. ASSUME NEW m, m \in s, \A y \in s : m >= y PROVE s \ {m} \in SUBSET (1 .. m - 1)
  BY <1>7
<1>8. QED
  BY <1>6, <1>7

(* iterations over the subsets of 1 .. n exist *)
Iteration(n, V, base, F, it) ==
  /\ it \in [SUBSET (1 .. n) -> V]
  /\ it[{}] = base
  /\ \A m \in 1 .. n : \A s \in SUBSET (1 .. m - 1) : it[s \cup {m}] = F[<<it[s], m>>]

\* there is a function that takes the places of a set from the last
LEMMA IterationExists ==
  ASSUME NEW N \in Nat, NEW V, NEW base \in V, NEW F \in [V \X (1 .. N) -> V]
  PROVE  \E it : Iteration(N, V, base, F, it)
<1> DEFINE P == {n \in Nat : n <= N => \E it : Iteration(n, V, base, F, it)}
<1>1. 0 \in P
  <2>1. SUBSET (1 .. 0) = {{}}
    OBVIOUS
  <2> DEFINE it == [s \in {{}} |-> base]
  <2>2. Iteration(0, V, base, F, it)
    BY <2>1 DEF Iteration
  <2>3. QED
    BY <2>2
<1>2. ASSUME NEW n \in Nat, n \in P, n + 1 <= N
      PROVE  \E it : Iteration(n + 1, V, base, F, it)
  <2>1. PICK old : Iteration(n, V, base, F, old)
    BY <1>2
  <2> DEFINE it == [s \in SUBSET (1 .. n + 1) |->
                      IF n + 1 \in s THEN F[<<old[s \ {n + 1}], n + 1>>] ELSE old[s]]
  <2>2. ASSUME NEW s \in SUBSET (1 .. n + 1)
        PROVE  /\ n + 1 \notin s => s \in SUBSET (1 .. n)
               /\ s \ {n + 1} \in SUBSET (1 .. n)
    OBVIOUS
  <2>3. n + 1 \in 1 .. N
    BY <1>2
  <2>4. old \in [SUBSET (1 .. n) -> V] /\ old[{}] = base
    BY <2>1 DEF Iteration
  <2>5. it \in [SUBSET (1 .. n + 1) -> V]
    <3> SUFFICES ASSUME NEW s \in SUBSET (1 .. n + 1) PROVE it[s] \in V
      OBVIOUS
    <3>1. CASE n + 1 \in s
      <4>1. old[s \ {n + 1}] \in V
        BY <2>2, <2>4
      <4>2. QED
        BY <4>1, <3>1, <2>3
    <3>2. CASE n + 1 \notin s
      BY <3>2, <2>2, <2>4
    <3>3. QED
      BY <3>1, <3>2
  <2>6. it[{}] = base
    BY <2>4
  <2>7. ASSUME NEW m \in 1 .. n + 1, NEW s \in SUBSET (1 .. m - 1)
        PROVE  it[s \cup {m}] = F[<<it[s], m>>]
    <3>1. s \in SUBSET (1 .. n + 1) /\ s \cup {m} \in SUBSET (1 .. n + 1) /\ n + 1 \notin s
      OBVIOUS
    <3>2. it[s] = old[s]
      BY <3>1
    <3>3. CASE m = n + 1
      <4>1. (s \cup {m}) \ {n + 1} = s
        BY <3>1, <3>3
      <4>2. QED
        BY <4>1, <3>1, <3>2, <3>3
    <3>4. CASE m # n + 1
      <4>1. m \in 1 .. n /\ n + 1 \notin s \cup {m}
        BY <3>1, <3>4
      <4>2. old[s \cup {m}] = F[<<old[s], m>>]
        BY <4>1, <2>1 DEF Iteration
      <4>3. QED
        BY <4>1, <4>2, <3>1, <3>2
    <3>5. QED
      BY <3>3, <3>4
  <2> HIDE DEF it
  <2>8. QED
    BY <2>5, <2>6, <2>7 DEF Iteration
<1>3. \A n \in Nat : n \in P => n + 1 \in P
  BY <1>2
<1> HIDE DEF P
<1>4. N \in P
  BY <1>1, <1>3, NatInd
<1>5. QED
  BY <1>4 DEF P

\* a function on the sets of places that takes the last place last
Recurs(it, N, base, F) ==
  /\ it[{}] = base
  /\ \A s \in SUBSET (1 .. N) : s # {} => it[s] = F[<<it[s \ {Max(s)}], Max(s)>>]

\* the states a fold goes through
Steps(st, N, V, base, F, last) ==
  /\ st \in [0 .. N -> V]
  /\ st[0] = base
  /\ \A k \in 1 .. N : st[k] = F[<<st[k - 1], k>>]
  /\ last = st[N]

RecursTyped(it, N, V, base, F) ==
  /\ it[{}] = base
  /\ \A s \in SUBSET (1 .. N) : s # {} /\ it[s \ {Max(s)}] \in V
             => it[s] = F[<<it[s \ {Max(s)}], Max(s)>>]

\* such a function goes through the places from the first to the last
LEMMA FoldRun ==
  ASSUME NEW N \in Nat, NEW V, NEW base \in V, NEW F \in [V \X (1 .. N) -> V], NEW iter,
         RecursTyped(iter, N, V, base, F)
  PROVE  \E st : Steps(st, N, V, base, F, iter[1 .. N])
<1>0. /\ iter[{}] = base
      /\ \A s \in SUBSET (1 .. N) : s # {} /\ iter[s \ {Max(s)}] \in V
             => iter[s] = F[<<iter[s \ {Max(s)}], Max(s)>>]
  BY DEF RecursTyped
<1>1. ASSUME NEW k \in 1 .. N, iter[1 .. k - 1] \in V
      PROVE  iter[1 .. k] = F[<<iter[1 .. k - 1], k>>] /\ iter[1 .. k] \in V
  <2>1. Max(1 .. k) = k
    BY MaxOf
  <2>2. (1 .. k) \ {k} = 1 .. k - 1 /\ 1 .. k # {} /\ 1 .. k \in SUBSET (1 .. N)
    OBVIOUS
  <2>3. iter[1 .. k] = F[<<iter[1 .. k - 1], k>>]
    BY <2>1, <2>2, <1>0, <1>1
  <2>4. QED
    BY <2>3, <1>1
<1> DEFINE P == {n \in Nat : n <= N => iter[1 .. n] \in V}
<1>2. 0 \in P
  <2>1. 1 .. 0 = {}
    OBVIOUS
  <2>2. QED
    BY <2>1, <1>0
<1>3. ASSUME NEW n \in Nat, n \in P PROVE n + 1 \in P
  <2>1. SUFFICES ASSUME n + 1 <= N PROVE iter[1 .. n + 1] \in V
    OBVIOUS
  <2>2. n + 1 \in 1 .. N /\ (n + 1) - 1 = n /\ iter[1 .. n] \in V
    BY <2>1, <1>3
  <2>3. QED
    BY <2>2, <1>1
<1> HIDE DEF P
<1>4. Nat \subseteq P
  BY <1>2, <1>3, NatInd
<1>5. \A n \in 0 .. N : iter[1 .. n] \in V
  BY <1>4 DEF P
<1> DEFINE st == [k \in 0 .. N |-> iter[1 .. k]]
<1>6. st \in [0 .. N -> V]
  BY <1>5
<1>7. st[0] = base
  <2>1. 1 .. 0 = {}
    OBVIOUS
  <2>2. QED
    BY <2>1, <1>0
<1>8. \A k \in 1 .. N : st[k] = F[<<st[k - 1], k>>]
  BY <1>1, <1>5
<1>9. iter[1 .. N] = st[N]
  OBVIOUS
<1> HIDE DEF st
<1>10. QED
  BY <1>6, <1>7, <1>8, <1>9 DEF Steps

\* the library's fold over a list is such a function
LEMMA IterationIs ==
  ASSUME NEW N \in Nat, NEW V, NEW base \in V, NEW F \in [V \X (1 .. N) -> V]
  PROVE  \E it \in [SUBSET (1 .. N) -> V] : Recurs(it, N, base, F)
<1>1. PICK it : Iteration(N, V, base, F, it)
  BY IterationExists
<1>2. it \in [SUBSET (1 .. N) -> V] /\ it[{}] = base
  BY <1>1 DEF Iteration
<1>3. ASSUME NEW s \in SUBSET (1 .. N), s # {}
      PROVE  it[s] = F[<<it[s \ {Max(s)}], Max(s)>>]
  <2>1. Max(s) \in s /\ s \ {Max(s)} \in SUBSET (1 .. Max(s) - 1)
    BY <1>3, MaxIn
  <2>2. Max(s) \in 1 .. N /\ (s \ {Max(s)}) \cup {Max(s)} = s
    BY <2>1
  <2>3. QED
    BY <2>1, <2>2, <1>1 DEF Iteration
<1>4. QED
  BY <1>2, <1>3 DEF Recurs

-----------------------------------------------------------------------------
(***************************************************************************)
(* Sums of a function over a finite set of numbers, whichever way they are *)
(* added up.                                                               *)
(***************************************************************************)

\* what holds of the empty set and of a set with one element more
LEMMA SetInd ==
  ASSUME NEW S, IsFiniteSet(S), NEW Q, {} \in Q,
         \A T \in SUBSET S : \A x \in S \ T : T \in Q => T \cup {x} \in Q
  PROVE  \A T \in SUBSET S : T \in Q
<1> DEFINE P == {n \in Nat : \A T \in SUBSET S : Cardinality(T) = n => T \in Q}
<1>1. \A T \in SUBSET S : IsFiniteSet(T) /\ Cardinality(T) \in Nat
  BY FS_Subset, FS_CardinalityType
<1>2. 0 \in P
  <2>1. \A T \in SUBSET S : Cardinality(T) = 0 => T = {}
    BY <1>1, FS_EmptySet
  <2>2. QED
    BY <2>1
<1>3. ASSUME NEW n \in Nat, n \in P PROVE n + 1 \in P
  <2> SUFFICES ASSUME NEW T \in SUBSET S, Cardinality(T) = n + 1 PROVE T \in Q
    OBVIOUS
  <2>1. PICK x \in T : TRUE
    <3>1. T # {}
      <4>1. Cardinality({}) = 0 /\ n + 1 # 0
        BY FS_EmptySet
      <4>2. QED
        BY <4>1
    <3>2. QED
      BY <3>1
  <2>2. Cardinality(T \ {x}) = n
    <3>1. IsFiniteSet(T)
      BY <1>1
    <3>2. Cardinality(T \ {x}) = Cardinality(T) - 1
      BY <3>1, FS_RemoveElement
    <3>3. QED
      BY <3>2
  <2>3. T \ {x} \in Q
    BY <2>2, <1>3
  <2>4. (T \ {x}) \cup {x} = T /\ x \in S \ (T \ {x})
    OBVIOUS
  <2>5. QED
    BY <2>3, <2>4
<1> HIDE DEF P
<1>4. Nat \subseteq P
  BY <1>2, <1>3, NatInd
<1>5. QED
  BY <1>1, <1>4 DEF P

Chosen(s) == CHOOSE x \in s : TRUE

\* what FoldFunction chooses
Summing(it, T, w) == it = [s \in SUBSET T |-> IF s = {} THEN 0 ELSE w[Chosen(s)] + it[s \ {Chosen(s)}]]

\* there is a function that adds up any part of a finite set, one chosen element at a time
LEMMA SummingExists ==
  ASSUME NEW T, IsFiniteSet(T), NEW w, \A x \in T : w[x] \in Nat
  PROVE  \E it : it \in [SUBSET T -> Nat] /\ Summing(it, T, w)
<1> DEFINE Small(n) == {s \in SUBSET T : Cardinality(s) <= n}
           Ok(it, n) == /\ it \in [Small(n) -> Nat]
                        /\ \A s \in Small(n) :
                              it[s] = IF s = {} THEN 0 ELSE w[Chosen(s)] + it[s \ {Chosen(s)}]
           P == {n \in Nat : \E it : Ok(it, n)}
<1>1. \A s \in SUBSET T : IsFiniteSet(s) /\ Cardinality(s) \in Nat
  BY FS_Subset, FS_CardinalityType
<1>2. \A s \in SUBSET T : s # {} => Chosen(s) \in s
  BY DEF Chosen
<1>3. \A s \in SUBSET T : s # {} =>
         /\ s \ {Chosen(s)} \in SUBSET T
         /\ Cardinality(s \ {Chosen(s)}) = Cardinality(s) - 1
         /\ w[Chosen(s)] \in Nat
  <2> SUFFICES ASSUME NEW s \in SUBSET T, s # {}
               PROVE  /\ s \ {Chosen(s)} \in SUBSET T
                      /\ Cardinality(s \ {Chosen(s)}) = Cardinality(s) - 1
                      /\ w[Chosen(s)] \in Nat
    OBVIOUS
  <2>1. Chosen(s) \in s
    BY <1>2
  <2>2. Cardinality(s \ {Chosen(s)}) = Cardinality(s) - 1
    BY <2>1, <1>1, FS_RemoveElement
  <2>3. QED
    BY <2>1, <2>2
<1>4. \A s \in SUBSET T : Cardinality(s) <= 0 <=> s = {}
  BY <1>1, FS_EmptySet
<1>5. 0 \in P
  <2> DEFINE it == [s \in Small(0) |-> 0]
  <2>1. Ok(it, 0)
    BY <1>4
  <2>2. QED
    BY <2>1
<1>6. ASSUME NEW n \in Nat, n \in P PROVE n + 1 \in P
  <2>1. PICK old : Ok(old, n)
    BY <1>6
  <2> DEFINE it == [s \in Small(n + 1) |-> IF s = {} THEN 0 ELSE w[Chosen(s)] + old[s \ {Chosen(s)}]]
  <2>2. \A s \in Small(n + 1) : s # {} => s \ {Chosen(s)} \in Small(n)
    BY <1>1, <1>3
  <2>3. \A s \in Small(n) : s \in Small(n + 1)
    BY <1>1
  <2>4. it \in [Small(n + 1) -> Nat]
    BY <2>1, <2>2, <1>3
  <2>5. \A s \in Small(n) : it[s] = old[s]
    BY <2>1, <2>3
  <2>6. \A s \in Small(n + 1) : it[s] = IF s = {} THEN 0 ELSE w[Chosen(s)] + it[s \ {Chosen(s)}]
    BY <2>2, <2>5
  <2> HIDE DEF it
  <2>7. Ok(it, n + 1)
    BY <2>4, <2>6
  <2> HIDE DEF Ok
  <2>8. QED
    BY <2>7
<1> HIDE DEF P
<1>7. Nat \subseteq P
  BY <1>5, <1>6, NatInd
<1>8. Cardinality(T) \in P
  BY <1>1, <1>7
<1>9. PICK it : Ok(it, Cardinality(T))
  BY <1>8 DEF P
<1>10. Small(Cardinality(T)) = SUBSET T
  <2>1. \A s \in SUBSET T : Cardinality(s) <= Cardinality(T)
    BY FS_Subset
  <2>2. QED
    BY <2>1
<1>11. /\ it \in [SUBSET T -> Nat]
       /\ \A s \in SUBSET T : it[s] = IF s = {} THEN 0 ELSE w[Chosen(s)] + it[s \ {Chosen(s)}]
  BY <1>9, <1>10
<1>12. QED
  BY <1>11 DEF Summing

\* a sum is that of any one number and the sum of the others
SumsOf(sums, T, w) ==
    /\ sums \in [SUBSET T -> Nat]
    /\ sums[{}] = 0
    /\ \A s \in SUBSET T : \A x \in s : sums[s] = w[x] + sums[s \ {x}]

\* which element comes first makes no difference to it
LEMMA SummingTakes ==
  ASSUME NEW T, IsFiniteSet(T), NEW w, \A x \in T : w[x] \in Nat,
         NEW it \in [SUBSET T -> Nat], Summing(it, T, w)
  PROVE  SumsOf(it, T, w)
<1>1. \A s \in SUBSET T : IsFiniteSet(s) /\ Cardinality(s) \in Nat
  BY FS_Subset, FS_CardinalityType
<1>2. \A s \in SUBSET T : it[s] = IF s = {} THEN 0 ELSE w[Chosen(s)] + it[s \ {Chosen(s)}]
  BY DEF Summing
<1> DEFINE Good(s) == \A x \in s : it[s] = w[x] + it[s \ {x}]
           P == {n \in Nat : \A s \in SUBSET T : Cardinality(s) = n => Good(s)}
<1>3. ASSUME NEW s \in SUBSET T, NEW x \in s
      PROVE  Cardinality(s \ {x}) = Cardinality(s) - 1 /\ s \ {x} \in SUBSET T
  <2>1. IsFiniteSet(s)
    BY <1>1
  <2>2. Cardinality(s \ {x}) = Cardinality(s) - 1
    BY <2>1, FS_RemoveElement
  <2>3. QED
    BY <2>2
<1>4. 0 \in P
  <2>1. \A s \in SUBSET T : Cardinality(s) = 0 => s = {}
    BY <1>1, FS_EmptySet
  <2>2. QED
    BY <2>1
<1>5. ASSUME NEW n \in Nat, n \in P PROVE n + 1 \in P
  <2> SUFFICES ASSUME NEW s \in SUBSET T, Cardinality(s) = n + 1, NEW x \in s
               PROVE  it[s] = w[x] + it[s \ {x}]
    OBVIOUS
  <2> DEFINE c == Chosen(s)
  <2>1. c \in s
    BY DEF Chosen
  <2>2. it[s] = w[c] + it[s \ {c}]
    BY <1>2, <2>1
  <2>3. CASE x = c
    BY <2>2, <2>3
  <2>4. CASE x # c
    <3> HIDE DEF c
    <3> DEFINE a == s \ {c}
               b == s \ {x}
               d == s \ {c, x}
    <3>1. a \in SUBSET T /\ b \in SUBSET T /\ d \in SUBSET T
      BY <2>1
    <3>2. a \ {x} = d /\ b \ {c} = d /\ x \in a /\ c \in b
      BY <2>1, <2>4
    <3>3. Cardinality(a) = n /\ Cardinality(b) = n
      BY <2>1, <1>3
    <3>4. Good(a) /\ Good(b)
      BY <3>1, <3>3, <1>5
    <3> HIDE DEF a, b, d
    <3>5. it[a] = w[x] + it[d] /\ it[b] = w[c] + it[d]
      BY <3>2, <3>4
    <3>6. it[s] = w[c] + it[a]
      BY <2>2 DEF a
    <3>7. w[c] \in Nat /\ w[x] \in Nat /\ it[d] \in Nat
      BY <2>1, <3>1
    <3>8. it[s] = w[x] + it[b]
      BY <3>5, <3>6, <3>7
    <3>9. QED
      BY <3>8 DEF b
  <2>5. QED
    BY <2>3, <2>4
<1> HIDE DEF P
<1>6. Nat \subseteq P
  BY <1>4, <1>5, NatInd
<1>7. \A s \in SUBSET T : Good(s)
  BY <1>1, <1>6 DEF P
<1>8. it[{}] = 0
  BY <1>2
<1>9. QED
  BY <1>7, <1>8 DEF SumsOf

\* and its sums are numbers
LEMMA SummingTyped ==
  ASSUME NEW T, IsFiniteSet(T), NEW w, \A x \in T : w[x] \in Nat, NEW it, Summing(it, T, w)
  PROVE  it \in [SUBSET T -> Nat]
<1>1. \A s \in SUBSET T : IsFiniteSet(s) /\ Cardinality(s) \in Nat
  BY FS_Subset, FS_CardinalityType
<1>2. \A s \in SUBSET T : it[s] = IF s = {} THEN 0 ELSE w[Chosen(s)] + it[s \ {Chosen(s)}]
  BY DEF Summing
<1> DEFINE P == {n \in Nat : \A s \in SUBSET T : Cardinality(s) = n => it[s] \in Nat}
<1>3. 0 \in P
  <2>1. \A s \in SUBSET T : Cardinality(s) = 0 => s = {}
    BY <1>1, FS_EmptySet
  <2>2. QED
    BY <2>1, <1>2
<1>4. ASSUME NEW n \in Nat, n \in P PROVE n + 1 \in P
  <2> SUFFICES ASSUME NEW s \in SUBSET T, Cardinality(s) = n + 1, s # {} PROVE it[s] \in Nat
    BY <1>2
  <2> DEFINE c == Chosen(s)
  <2>1. c \in s /\ IsFiniteSet(s)
    BY <1>1 DEF Chosen
  <2>2. Cardinality(s \ {c}) = Cardinality(s) - 1
    BY <2>1, FS_RemoveElement
  <2>3. it[s \ {c}] \in Nat
    BY <2>2, <1>4
  <2>4. it[s] = w[c] + it[s \ {c}]
    BY <1>2
  <2>5. QED
    BY <2>1, <2>3, <2>4
<1> HIDE DEF P
<1>5. Nat \subseteq P
  BY <1>3, <1>4, NatInd
<1>6. \A s \in SUBSET T : it[s] \in Nat
  BY <1>1, <1>5 DEF P
<1>7. QED
  BY <1>6 DEF Summing

\* Total is the sum of such a function
LEMMA TotalIsSummed ==
  ASSUME NEW T, IsFiniteSet(T), NEW w \in [T -> Nat]
  PROVE  \E it : SumsOf(it, T, w) /\ Total(w) = it[T]
<1> DEFINE I == CHOOSE it : Summing(it, T, w)
<1>1. Total(w) = I[T]
  BY DEF I, Summing, Chosen, Total, FoldFunction, FoldFunctionOnSet, MapThenFoldSet
<1>2. \E it : Summing(it, T, w)
  BY SummingExists
<1>3. Summing(I, T, w)
  BY <1>2 DEF I
<1> HIDE DEF I
<1>4. I \in [SUBSET T -> Nat]
  BY <1>3, SummingTyped
<1>5. SumsOf(I, T, w)
  BY <1>3, <1>4, SummingTakes
<1>6. QED
  BY <1>1, <1>5

\* sums of subsets are the sums of what is left of the function
LEMMA TotalOfParts ==
  ASSUME NEW T, IsFiniteSet(T), NEW w, \A x \in T : w[x] \in Nat
  PROVE  \E sums : SumsOf(sums, T, w) /\ \A s \in SUBSET T : Total(Restrict(w, s)) = sums[s]
<1>1. Restrict(w, T) \in [T -> Nat]
  BY DEF Restrict
<1>2. PICK sums : SumsOf(sums, T, Restrict(w, T))
  BY <1>1, TotalIsSummed
<1>3. SumsOf(sums, T, w)
  BY <1>2 DEF SumsOf, Restrict
<1>4. ASSUME NEW s \in SUBSET T PROVE Total(Restrict(w, s)) = sums[s]
  <2>1. IsFiniteSet(s) /\ Restrict(w, s) \in [s -> Nat]
    BY FS_Subset DEF Restrict
  <2>2. PICK it : SumsOf(it, s, Restrict(w, s)) /\ Total(Restrict(w, s)) = it[s]
    BY <2>1, TotalIsSummed
  <2> DEFINE Q == {t \in SUBSET s : it[t] = sums[t]}
  <2>3. {} \in Q
    BY <2>2, <1>3 DEF SumsOf
  <2>4. ASSUME NEW t \in SUBSET s, NEW x \in s \ t, t \in Q PROVE t \cup {x} \in Q
    <3>1. (t \cup {x}) \ {x} = t /\ t \cup {x} \in SUBSET s /\ t \cup {x} \in SUBSET T /\ x \in t \cup {x}
      BY <2>4
    <3>2. it[t \cup {x}] = Restrict(w, s)[x] + it[t]
      BY <3>1, <2>2 DEF SumsOf
    <3>3. sums[t \cup {x}] = w[x] + sums[t]
      BY <3>1, <1>3 DEF SumsOf
    <3>4. Restrict(w, s)[x] = w[x]
      BY DEF Restrict
    <3>5. QED
      BY <3>1, <3>2, <3>3, <3>4, <2>4
  <2> HIDE DEF Q
  <2>5. s \in Q
    BY <2>1, <2>3, <2>4, SetInd
  <2>6. QED
    BY <2>2, <2>5 DEF Q
<1>5. QED
  BY <1>3, <1>4

\* one element less is its value less
LEMMA TotalTakes ==
  ASSUME NEW T, IsFiniteSet(T), NEW w \in [T -> Nat]
  PROVE  /\ Total(w) \in Nat
         /\ T = {} => Total(w) = 0
         /\ \A x \in T : /\ Total(Restrict(w, T \ {x})) \in Nat
                         /\ Total(w) = w[x] + Total(Restrict(w, T \ {x}))
<1>1. PICK sums : SumsOf(sums, T, w) /\ \A s \in SUBSET T : Total(Restrict(w, s)) = sums[s]
  BY TotalOfParts
<1>2. Restrict(w, T) = w
  BY DEF Restrict
<1>3. Total(w) = sums[T] /\ sums[T] \in Nat
  <2>1. T \in SUBSET T
    OBVIOUS
  <2>2. QED
    BY <2>1, <1>1, <1>2 DEF SumsOf
<1>4. T = {} => Total(w) = 0
  BY <1>1, <1>3 DEF SumsOf
<1>5. ASSUME NEW x \in T
      PROVE  /\ Total(Restrict(w, T \ {x})) \in Nat
             /\ Total(w) = w[x] + Total(Restrict(w, T \ {x}))
  <2>1. T \ {x} \in SUBSET T /\ T \in SUBSET T
    OBVIOUS
  <2>2. Total(Restrict(w, T \ {x})) = sums[T \ {x}] /\ sums[T \ {x}] \in Nat
    BY <2>1, <1>1 DEF SumsOf
  <2>3. sums[T] = w[x] + sums[T \ {x}]
    BY <2>1, <1>1 DEF SumsOf
  <2>4. QED
    BY <2>2, <2>3, <1>3
<1>6. QED
  BY <1>3, <1>4, <1>5

\* one element more is its value more
LEMMA SumsTake ==
  ASSUME NEW T, NEW w, NEW a, SumsOf(a, T, w), NEW s \in SUBSET T, NEW x \in T \ s
  PROVE  s \cup {x} \in SUBSET T /\ a[s \cup {x}] = w[x] + a[s]
<1>1. (s \cup {x}) \ {x} = s /\ s \cup {x} \in SUBSET T /\ x \in s \cup {x}
  OBVIOUS
<1>2. \A u \in SUBSET T : \A y \in u : a[u] = w[y] + a[u \ {y}]
  BY DEF SumsOf
<1>3. a[s \cup {x}] = w[x] + a[(s \cup {x}) \ {x}]
  BY <1>1, <1>2, Zenon
<1>4. QED
  BY <1>1, <1>3

\* larger numbers have a larger sum
LEMMA TotalGrows ==
  ASSUME NEW T, IsFiniteSet(T), NEW v \in [T -> Nat], NEW w \in [T -> Nat],
         \A x \in T : v[x] <= w[x]
  PROVE  Total(v) <= Total(w)
<1>1. PICK a : SumsOf(a, T, v) /\ \A s \in SUBSET T : Total(Restrict(v, s)) = a[s]
  BY TotalOfParts
<1>2. PICK b : SumsOf(b, T, w) /\ \A s \in SUBSET T : Total(Restrict(w, s)) = b[s]
  BY TotalOfParts
<1> DEFINE Q == {s \in SUBSET T : a[s] <= b[s]}
<1>3. {} \in Q
  BY <1>1, <1>2 DEF SumsOf
<1>4. ASSUME NEW s \in SUBSET T, NEW x \in T \ s, s \in Q PROVE s \cup {x} \in Q
  <2>1. s \cup {x} \in SUBSET T /\ a[s \cup {x}] = v[x] + a[s]
    <3>1. SumsOf(a, T, v)
      BY <1>1
    <3>2. QED
      BY <3>1, <1>4, SumsTake
  <2>2. b[s \cup {x}] = w[x] + b[s]
    <3>1. SumsOf(b, T, w)
      BY <1>2
    <3>2. QED
      BY <3>1, <1>4, SumsTake
  <2>3. a[s] \in Nat /\ b[s] \in Nat /\ v[x] \in Nat /\ w[x] \in Nat /\ a[s] <= b[s] /\ v[x] <= w[x]
    BY <1>1, <1>2, <1>4 DEF SumsOf
  <2>4. QED
    BY <2>1, <2>2, <2>3
<1> HIDE DEF Q
<1>5. T \in Q
  BY <1>3, <1>4, SetInd
<1>6. Restrict(v, T) = v /\ Restrict(w, T) = w
  BY DEF Restrict
<1>7. QED
  BY <1>1, <1>2, <1>5, <1>6 DEF Q

\* part of a sum
LEMMA TotalOfSome ==
  ASSUME NEW T, IsFiniteSet(T), NEW w \in [T -> Nat], NEW s \in SUBSET T
  PROVE  Total(Restrict(w, s)) \in Nat /\ Total(Restrict(w, s)) <= Total(w)
<1>1. PICK sums : SumsOf(sums, T, w) /\ \A u \in SUBSET T : Total(Restrict(w, u)) = sums[u]
  BY TotalOfParts
<1> DEFINE Q == {u \in SUBSET T : sums[s] <= sums[s \cup u]}
<1>2. {} \in Q
  <2>1. s \cup {} = s /\ sums[s] \in Nat
    BY <1>1 DEF SumsOf
  <2>2. QED
    BY <2>1
<1>3. ASSUME NEW u \in SUBSET T, NEW x \in T \ u, u \in Q PROVE u \cup {x} \in Q
  <2>1. CASE x \in s
    <3>1. s \cup (u \cup {x}) = s \cup u
      BY <2>1
    <3>2. QED
      BY <3>1, <1>3
  <2>2. CASE x \notin s
    <3> DEFINE a == s \cup u
               b == s \cup (u \cup {x})
    <3>1. a \in SUBSET T /\ b \in SUBSET T /\ x \in b /\ b \ {x} = a
      BY <1>3, <2>2
    <3>2. sums[a] \in Nat /\ sums[b] = w[x] + sums[a] /\ w[x] \in Nat /\ sums[s] \in Nat /\ sums[s] <= sums[a]
      BY <3>1, <1>1, <1>3 DEF SumsOf
    <3>3. sums[s] <= sums[b]
      BY <3>2
    <3>4. QED
      BY <3>3, <1>3
  <2>3. QED
    BY <2>1, <2>2
<1> HIDE DEF Q
<1>4. T \in Q
  BY <1>2, <1>3, SetInd
<1>5. s \cup T = T /\ Restrict(w, T) = w
  BY DEF Restrict
<1>6. sums[s] <= sums[T]
  BY <1>4, <1>5 DEF Q
<1>7. T \in SUBSET T /\ sums[s] \in Nat
  BY <1>1 DEF SumsOf
<1>8. Total(Restrict(w, s)) = sums[s] /\ Total(w) = sums[T]
  BY <1>1, <1>5, <1>7
<1>9. QED
  BY <1>6, <1>7, <1>8

\* the order in which numbers come does not matter
OneToOne(p, S, T) ==
    /\ p \in [S -> T]
    /\ \A x, y \in S : x # y => p[x] # p[y]
    /\ \A y \in T : \E x \in S : p[x] = y

Moved(v, w, p, S) == v = [x \in S |-> w[p[x]]]

\* a sum does not change if its values are moved
LEMMA TotalMoves ==
  ASSUME NEW S, NEW T, IsFiniteSet(S), NEW w, w \in [T -> Nat], NEW p, OneToOne(p, S, T),
         NEW v, Moved(v, w, p, S)
  PROVE  Total(v) = Total(w)
<1> USE DEF OneToOne, Moved
<1>1. IsFiniteSet(T)
  <2>1. p \in Surjection(S, T)
    BY DEF Surjection
  <2>2. QED
    BY <2>1, FS_Surjection
<1> DEFINE Im(s) == {p[x] : x \in s}
<1>2. v \in [S -> Nat]
  OBVIOUS
<1>3. PICK a : SumsOf(a, S, v) /\ \A s \in SUBSET S : Total(Restrict(v, s)) = a[s]
  BY <1>2, TotalOfParts
<1>4. PICK b : SumsOf(b, T, w) /\ \A s \in SUBSET T : Total(Restrict(w, s)) = b[s]
  BY <1>1, TotalOfParts
<1> DEFINE Q == {s \in SUBSET S : a[s] = b[Im(s)]}
<1>5. {} \in Q
  <2>1. Im({}) = {}
    OBVIOUS
  <2>2. QED
    BY <2>1, <1>3, <1>4 DEF SumsOf
<1>6. ASSUME NEW s \in SUBSET S, NEW x \in S \ s, s \in Q PROVE s \cup {x} \in Q
  <2> DEFINE t == s \cup {x}
  <2>1. t \in SUBSET S /\ x \in t /\ t \ {x} = s
    BY <1>6
  <2>2. Im(t) \in SUBSET T /\ p[x] \in Im(t)
    BY <2>1
  <2>3. Im(t) \ {p[x]} = Im(s)
    BY <2>1
  <2>6. v[x] = w[p[x]] /\ a[s] = b[Im(s)]
    BY <1>6
  <2> DEFINE it == Im(t)
             is == Im(s)
  <2>9. it \in SUBSET T /\ p[x] \in it /\ it \ {p[x]} = is
    BY <2>2, <2>3
  <2> HIDE DEF t, it, is
  <2>4. a[t] = v[x] + a[s]
    BY <2>1, <1>3 DEF SumsOf
  <2>5. b[it] = w[p[x]] + b[is]
    BY <2>9, <1>4 DEF SumsOf
  <2>7. a[t] = b[it]
    BY <2>4, <2>5, <2>6 DEF is
  <2>8. QED
    BY <2>1, <2>7 DEF t, it
<1> HIDE DEF Q
<1>7. S \in Q
  BY <1>5, <1>6, SetInd
<1>8. Im(S) = T
  OBVIOUS
<1>9. Restrict(v, S) = v /\ Restrict(w, T) = w
  BY DEF Restrict
<1>10. Total(v) = a[S] /\ Total(w) = b[T]
  BY <1>3, <1>4, <1>9
<1>11. QED
  BY <1>7, <1>8, <1>10 DEF Q

-----------------------------------------------------------------------------
(***************************************************************************)
(* Sums, and where a selection puts what it takes.                         *)
(***************************************************************************)

\* the sums of the beginnings of a list
Sums(st, seq) ==
    /\ st \in [0 .. Len(seq) -> Nat]
    /\ st[0] = 0
    /\ \A k \in 1 .. Len(seq) : st[k] = st[k - 1] + seq[k]
    /\ Total(seq) = st[Len(seq)]

\* it does, and they are numbers
LEMMA TotalIs ==
  ASSUME NEW seq \in Seq(Nat)
  PROVE  Total(seq) \in Nat /\ \E st : Sums(st, seq)
<1> DEFINE n == Len(seq)
           T == 1 .. n
<1>1. n \in Nat /\ seq \in [T -> Nat] /\ IsFiniteSet(T)
  <2>1. n \in Nat /\ seq \in [T -> Nat]
    BY SeqIs
  <2> HIDE DEF n
  <2>2. IsFiniteSet(1 .. n)
    BY <2>1, FS_Interval
  <2>3. QED
    BY <2>1, <2>2
<1> HIDE DEF T
<1>2. PICK sums : SumsOf(sums, T, seq) /\ \A s \in SUBSET T : Total(Restrict(seq, s)) = sums[s]
  <2>1. \A x \in T : seq[x] \in Nat
    BY <1>1
  <2>2. QED
    BY <2>1, <1>1, TotalOfParts
<1>3. Restrict(seq, T) = seq
  BY <1>1 DEF Restrict
<1> USE DEF T
<1> DEFINE st == [k \in 0 .. n |-> sums[1 .. k]]
<1> HIDE DEF n
<1>4. \A k \in 0 .. n : 1 .. k \in SUBSET T
  BY <1>1
<1>5. st \in [0 .. n -> Nat]
  BY <1>2, <1>4 DEF SumsOf
<1>6. st[0] = 0
  <2>1. 1 .. 0 = {} /\ 0 \in 0 .. n
    BY <1>1
  <2>2. QED
    BY <2>1, <1>2 DEF SumsOf
<1>7. ASSUME NEW k \in 1 .. n PROVE st[k] = st[k - 1] + seq[k]
  <2>1. /\ k \in 0 .. n /\ k - 1 \in 0 .. n
        /\ k \in 1 .. k /\ (1 .. k) \ {k} = 1 .. k - 1 /\ 1 .. k \in SUBSET T
    BY <1>1
  <2>2. sums[1 .. k] = seq[k] + sums[1 .. k - 1]
    <3>1. \A s \in SUBSET T : \A x \in s : sums[s] = seq[x] + sums[s \ {x}]
      BY <1>2 DEF SumsOf
    <3>2. sums[1 .. k] = seq[k] + sums[(1 .. k) \ {k}]
      BY <2>1, <3>1
    <3>3. QED
      BY <2>1, <3>2
  <2>3. sums[1 .. k - 1] \in Nat /\ seq[k] \in Nat
    BY <2>1, <1>1, <1>2, <1>4 DEF SumsOf
  <2>4. QED
    BY <2>1, <2>2, <2>3
<1>8. Total(seq) = st[n] /\ Total(seq) \in Nat
  <2>1. n \in 0 .. n /\ T \in SUBSET T
    BY <1>1
  <2>2. Total(seq) = sums[T]
    BY <2>1, <1>2, <1>3
  <2>3. QED
    BY <2>1, <2>2, <1>5
<1> HIDE DEF st
<1>9. Sums(st, seq)
  BY <1>5, <1>6, <1>7, <1>8 DEF Sums, n
<1>10. QED
  BY <1>8, <1>9

\* an empty list has the sum 0
LEMMA TotalOfNone == Total(<<>>) = 0
<1>1. <<>> \in Seq(Nat) /\ Len(<<>>) = 0
  OBVIOUS
<1>2. PICK st : Sums(st, <<>>)
  BY <1>1, TotalIs
<1>3. QED
  BY <1>1, <1>2 DEF Sums

\* one more number is added to the sum
LEMMA TotalAppend ==
  ASSUME NEW seq \in Seq(Nat), NEW x \in Nat
  PROVE  Total(Append(seq, x)) = Total(seq) + x
<1> DEFINE n == Len(seq)
           more == Append(seq, x)
<1>1. /\ n \in Nat /\ more \in Seq(Nat) /\ Len(more) = n + 1 /\ more[n + 1] = x
      /\ \A k \in 1 .. n : more[k] = seq[k]
  OBVIOUS
<1>2. PICK s : Sums(s, seq)
  BY TotalIs
<1>3. PICK t : Sums(t, more)
  BY <1>1, TotalIs
<1> HIDE DEF n, more
<1>4. /\ s[0] = 0 /\ \A k \in 1 .. n : s[k] = s[k - 1] + seq[k]
      /\ Total(seq) = s[n]
  BY <1>2 DEF Sums, n
<1>5. /\ t[0] = 0 /\ \A k \in 1 .. n + 1 : t[k] = t[k - 1] + more[k]
      /\ Total(more) = t[n + 1]
  BY <1>1, <1>3 DEF Sums
<1> DEFINE P == {k \in Nat : k <= n => t[k] = s[k]}
<1>6. 0 \in P
  BY <1>4, <1>5
<1>7. ASSUME NEW k \in Nat, k \in P PROVE k + 1 \in P
  <2>1. SUFFICES ASSUME k + 1 <= n PROVE t[k + 1] = s[k + 1]
    OBVIOUS
  <2>2. k + 1 \in 1 .. n /\ k + 1 \in 1 .. n + 1 /\ (k + 1) - 1 = k /\ t[k] = s[k]
    BY <1>1, <1>7, <2>1
  <2>3. QED
    BY <2>2, <1>1, <1>4, <1>5
<1> HIDE DEF P
<1>8. Nat \subseteq P
  BY <1>6, <1>7, NatInd
<1>9. t[n] = s[n]
  BY <1>1, <1>8 DEF P
<1>10. t[n + 1] = t[n] + x
  <2>1. n + 1 \in 1 .. n + 1 /\ (n + 1) - 1 = n
    BY <1>1
  <2>2. QED
    BY <2>1, <1>1, <1>5
<1>11. QED
  BY <1>4, <1>5, <1>9, <1>10 DEF more

\* what is at a place of the list is as far on in the selection as there are
\* places before it
LEMMA SelectedAt ==
  ASSUME NEW n \in Nat, NEW at \in SUBSET (1 .. n), NEW list, NEW V, \A j \in at : list[j] \in V,
         NEW i \in at
  PROVE  LET r == Cardinality(at \cap (1 .. i - 1)) + 1
         IN /\ r \in 1 .. Len(Select(list, at)) /\ Select(list, at)[r] = list[i]
            /\ Cardinality(at \cap (1 .. i)) = r
<1> DEFINE before == {p \in at \X at : p[1] < p[2]}
           f == Arranged(at, before)
           m == Cardinality(at)
           A == at \cap (1 .. i - 1)
<1>1. IsFiniteSet(at)
  <2>1. IsFiniteSet(1 .. n)
    BY FS_Interval
  <2>2. QED
    BY <2>1, FS_Subset
<1>2. \A x, y \in at : <<x, y>> \in before <=> x < y
  OBVIOUS
<1>3. Orders(before, at)
  <2>1. at \subseteq Int
    OBVIOUS
  <2> HIDE DEF before
  <2>2. QED
    BY <1>2, <2>1 DEF Orders
<1>4. Before(at, before, i) = A
  <2>1. \A x \in at : x \in 1 .. i - 1 <=> x < i
    OBVIOUS
  <2>2. \A x \in at : <<x, i>> \in before <=> x < i
    BY <1>2
  <2> HIDE DEF before
  <2>3. QED
    BY <2>1, <2>2 DEF Before
<1>5. Select(list, at) = [k \in DOMAIN f |-> list[f[k]]]
  BY DEF Select
<1> HIDE DEF before
<1>6. Arranges(f, at, before)
  BY <1>1, <1>3, ArrangedIs
<1> HIDE DEF f
<1>7. /\ m \in Nat
      /\ f \in [1 .. m -> at]
      /\ \A x \in at : \E k \in 1 .. m : f[k] = x
      /\ \A k \in 1 .. m : Cardinality(Before(at, before, f[k])) = k - 1
  BY <1>6 DEF Arranges
<1> HIDE DEF m
<1>8. PICK k \in 1 .. m : f[k] = i
  BY <1>7
<1>9. Cardinality(A) + 1 = k
  <2>1. Cardinality(Before(at, before, i)) = k - 1
    BY <1>7, <1>8
  <2> HIDE DEF A
  <2>2. Cardinality(A) = k - 1 /\ k \in Nat
    BY <2>1, <1>4, <1>7
  <2>3. QED
    BY <2>2
<1>10. Select(list, at)[k] = list[i] /\ Len(Select(list, at)) = m
  <2>1. DOMAIN f = 1 .. m
    BY <1>7
  <2>2. Select(list, at) \in [1 .. m -> V]
    BY <1>5, <1>7, <2>1
  <2>3. QED
    BY <1>5, <1>7, <1>8, <2>1, <2>2
<1>11. Cardinality(at \cap (1 .. i)) = k
  <2>1. at \cap (1 .. i) = A \cup {i}
    OBVIOUS
  <2>2. i \notin A
    OBVIOUS
  <2>3. IsFiniteSet(A)
    BY <1>1, FS_Subset
  <2> HIDE DEF A
  <2>4. QED
    BY <2>1, <2>2, <2>3, <1>9, FS_AddElement
<1>12. QED
  BY <1>7, <1>8, <1>9, <1>10, <1>11

\* a place that is not selected changes nothing
LEMMA NotSelected ==
  ASSUME NEW i \in Nat \ {0}, NEW at, i \notin at
  PROVE  at \cap (1 .. i) = at \cap (1 .. i - 1)
OBVIOUS

\* the first n, or all
LEMMA TopIs ==
  ASSUME NEW V, NEW s \in Seq(V), NEW n \in Nat
  PROVE  LET t == Top(s, n)
         IN /\ t \in Seq(V) /\ Len(t) <= n /\ Len(t) <= Len(s)
            /\ Len(t) = IF n < Len(s) THEN n ELSE Len(s)
            /\ \A i \in 1 .. Len(t) : t[i] = s[i]
            /\ Range(t) \subseteq Range(s)
<1>1. Len(s) \in Nat
  OBVIOUS
<1>2. PICK m \in Nat : m = (IF n < Len(s) THEN n ELSE Len(s)) /\ m <= n /\ m <= Len(s)
  BY <1>1
<1>3. Top(s, n) = SubSeq(s, 1, m)
  BY <1>2 DEF Top
<1>4. SubSeq(s, 1, m) \in Seq(V) /\ Len(SubSeq(s, 1, m)) = m /\ \A i \in 1 .. m : SubSeq(s, 1, m)[i] = s[i]
  BY <1>2
<1>5. Range(SubSeq(s, 1, m)) \subseteq Range(s)
  BY <1>2, <1>4 DEF Range
<1>6. QED
  BY <1>2, <1>3, <1>4, <1>5

-----------------------------------------------------------------------------
(***************************************************************************)
(* render_reports: blocks until the budget is spent, the last one cut.     *)
(***************************************************************************)

RenderStates == [blocks : Seq(Nat), used : Nat, stop : BOOLEAN]

\* what a block adds
RendersBlock(new, out, cost, maxTokens, least) ==
    LET left == maxTokens - out.used - Separator(out)
    IN \/ out.stop /\ new = out
       \/ /\ ~ out.stop /\ cost <= left /\ ~ new.stop
          /\ new.blocks = Append(out.blocks, cost) /\ new.used = out.used + cost + Separator(out)
       \/ /\ ~ out.stop /\ cost > left /\ left > least /\ new.stop
          /\ new.blocks = Append(out.blocks, left) /\ new.used = maxTokens
       \/ /\ ~ out.stop /\ cost > left /\ new.stop
          /\ new.blocks = out.blocks /\ new.used = out.used

\* a block leads from one state to another
LEMMA RenderTyped ==
  ASSUME NEW out \in RenderStates, NEW cost \in Nat, NEW maxTokens \in Nat, NEW least \in Nat
  PROVE  /\ RenderBlock(out, cost, maxTokens, least) \in RenderStates
         /\ RendersBlock(RenderBlock(out, cost, maxTokens, least), out, cost, maxTokens, least)
<1> DEFINE left == maxTokens - out.used - Separator(out)
           new == RenderBlock(out, cost, maxTokens, least)
<1>1. out.blocks \in Seq(Nat) /\ out.used \in Nat /\ out.stop \in BOOLEAN
  BY DEF RenderStates
<1>2. Separator(out) \in {0, 2} /\ left \in Int
  BY <1>1 DEF Separator
<1>3. CASE out.stop
  BY <1>3 DEF RenderBlock, RendersBlock
<1>4. CASE ~ out.stop /\ cost <= left
  <2>1. new = [out EXCEPT !.blocks = Append(@, cost), !.used = @ + cost + Separator(out)]
    BY <1>4 DEF RenderBlock
  <2>2. out.used + cost + Separator(out) \in Nat /\ Append(out.blocks, cost) \in Seq(Nat)
    BY <1>1, <1>2
  <2>3. new \in RenderStates
    BY <2>1, <2>2 DEF RenderStates
  <2>4. /\ new.blocks = Append(out.blocks, cost) /\ new.used = out.used + cost + Separator(out)
        /\ new.stop = out.stop
    BY <2>1 DEF RenderStates
  <2> HIDE DEF new
  <2>5. RendersBlock(new, out, cost, maxTokens, least)
    BY <2>4, <1>4 DEF RendersBlock
  <2>6. QED
    BY <2>3, <2>5 DEF new
<1>5. CASE ~ out.stop /\ ~ (cost <= left) /\ left > least
  <2>1. new = [blocks |-> Append(out.blocks, left), used |-> maxTokens, stop |-> TRUE]
    BY <1>5 DEF RenderBlock
  <2>2. left \in Nat /\ Append(out.blocks, left) \in Seq(Nat) /\ cost > left
    BY <1>1, <1>2, <1>5
  <2>3. new \in RenderStates
    BY <2>1, <2>2 DEF RenderStates
  <2>4. /\ new.blocks = Append(out.blocks, left) /\ new.used = maxTokens /\ new.stop
    BY <2>1
  <2> HIDE DEF new
  <2>5. RendersBlock(new, out, cost, maxTokens, least)
    BY <2>2, <2>4, <1>5 DEF RendersBlock
  <2>6. QED
    BY <2>3, <2>5 DEF new
<1>6. CASE ~ out.stop /\ ~ (cost <= left) /\ ~ (left > least)
  <2>1. new = [out EXCEPT !.stop = TRUE]
    BY <1>6 DEF RenderBlock
  <2>2. cost > left
    BY <1>1, <1>2, <1>6
  <2>3. new \in RenderStates
    BY <2>1 DEF RenderStates
  <2>4. /\ new.blocks = out.blocks /\ new.used = out.used /\ new.stop
    BY <2>1 DEF RenderStates
  <2> HIDE DEF new
  <2>5. RendersBlock(new, out, cost, maxTokens, least)
    BY <2>2, <2>4, <1>6 DEF RendersBlock
  <2>6. QED
    BY <2>3, <2>5 DEF new
<1>7. QED
  BY <1>1, <1>3, <1>4, <1>5, <1>6

NothingRendered == [blocks |-> <<>>, used |-> 0, stop |-> FALSE]

\* one block after another
Rendering(st, costs, maxTokens, least) ==
    /\ st \in [0 .. Len(costs) -> RenderStates]
    /\ st[0] = NothingRendered
    /\ \A k \in 1 .. Len(costs) :
          RendersBlock(st[k], st[k - 1], costs[k], maxTokens, least)
    /\ Rendered(costs, maxTokens, least) = st[Len(costs)].blocks

\* render_reports goes through such states, to the blocks it returns
LEMMA RenderedIs ==
  ASSUME NEW costs \in Seq(Nat), NEW maxTokens \in Nat \ {0}, NEW least \in Nat
  PROVE  \E st : Rendering(st, costs, maxTokens, least)
<1> DEFINE n == Len(costs)
           V == RenderStates
           base == NothingRendered
           op(a, c) == RenderBlock(a, c, maxTokens, least)
           F == [p \in V \X (1 .. n) |-> op(p[1], costs[p[2]])]
           Eq(iter) == iter = [s \in SUBSET DOMAIN costs |->
                IF s = {} THEN base ELSE op(iter[s \ {Max(s)}], costs[Max(s)])]
           I == CHOOSE iter : Eq(iter)
<1>1. n \in Nat /\ DOMAIN costs = 1 .. n /\ \A i \in 1 .. n : costs[i] \in Nat
  BY LenProperties
<1>2. Rendered(costs, maxTokens, least) = I[DOMAIN costs].blocks
  BY DEF I, Eq, FoldLeft, MapThenFoldSet, Rendered, NothingRendered
<1>3. base \in V
  BY DEF NothingRendered, RenderStates
<1>4. \A a \in V, k \in 1 .. n : op(a, costs[k]) \in V
  BY <1>1, RenderTyped
<1>5. F \in [V \X (1 .. n) -> V] /\ \A a \in V, k \in 1 .. n : F[<<a, k>>] = op(a, costs[k])
  <2> HIDE DEF op, V, n
  <2>1. QED
    BY <1>4
<1> HIDE DEF n, F, Eq, I, op, base, V
<1>6. PICK it \in [SUBSET (1 .. n) -> V] : Recurs(it, n, base, F)
  <2>1. n \in Nat /\ F \in [V \X (1 .. n) -> V]
    BY <1>1, <1>5
  <2>2. QED
    BY <2>1, <1>3, IterationIs, Zenon
<1>7. \A s \in SUBSET (1 .. n) : s # {} => Max(s) \in 1 .. n /\ s \ {Max(s)} \in SUBSET (1 .. n)
  BY <1>1, MaxIn
<1>8. Eq(it)
  <2>1. ASSUME NEW s \in SUBSET (1 .. n)
        PROVE  it[s] = IF s = {} THEN base ELSE op(it[s \ {Max(s)}], costs[Max(s)])
    BY <1>5, <1>6, <1>7 DEF Recurs
  <2>2. QED
    BY <2>1, <1>1, <1>6 DEF Eq
<1>9. Eq(I)
  BY <1>8 DEF I
<1>10. /\ I[{}] = base
       /\ \A s \in SUBSET (1 .. n) : s # {} => I[s] = op(I[s \ {Max(s)}], costs[Max(s)])
  BY <1>9, <1>1 DEF Eq
<1>11. RecursTyped(I, n, V, base, F)
  BY <1>5, <1>7, <1>10 DEF RecursTyped
<1>12. PICK st : Steps(st, n, V, base, F, I[1 .. n])
  <2>1. n \in Nat /\ F \in [V \X (1 .. n) -> V]
    BY <1>1, <1>5
  <2>2. QED
    BY <2>1, <1>3, <1>11, FoldRun, Zenon
<1>13. ASSUME NEW k \in 1 .. n PROVE RendersBlock(st[k], st[k - 1], costs[k], maxTokens, least)
  <2>1. k - 1 \in 0 .. n /\ st[k - 1] \in V
    BY <1>1, <1>12 DEF Steps
  <2>2. st[k] = op(st[k - 1], costs[k])
    BY <1>5, <1>12, <2>1 DEF Steps
  <2>3. st[k - 1] \in RenderStates /\ costs[k] \in Nat
    BY <2>1, <1>1 DEF V
  <2>4. RendersBlock(RenderBlock(st[k - 1], costs[k], maxTokens, least),
                     st[k - 1], costs[k], maxTokens, least)
    BY <2>3, RenderTyped, Zenon
  <2>5. st[k] = RenderBlock(st[k - 1], costs[k], maxTokens, least)
    BY <2>2 DEF op
  <2>6. QED
    BY <2>4, <2>5, Zenon
<1>14. st \in [0 .. n -> V] /\ st[0] = base /\ I[1 .. n] = st[n]
  BY <1>12 DEF Steps
<1>15. QED
  BY <1>1, <1>2, <1>13, <1>14 DEF Rendering, V, base, n

\* one more block costs its tokens and those of the blank line before it
LEMMA TextTokensAppend ==
  ASSUME NEW b \in Seq(Nat), NEW x \in Nat
  PROVE  /\ TextTokens(b) \in Nat
         /\ TextTokens(Append(b, x)) = TextTokens(b) + x + (IF b = <<>> THEN 0 ELSE 2)
<1>1. Total(b) \in Nat /\ Total(Append(b, x)) = Total(b) + x
  BY TotalIs, TotalAppend
<1>2. Append(b, x) # <<>> /\ Len(Append(b, x)) = Len(b) + 1 /\ Len(b) \in Nat
  OBVIOUS
<1>3. CASE b = <<>>
  BY <1>1, <1>2, <1>3, TotalOfNone DEF TextTokens
<1>4. CASE b # <<>>
  <2>1. Len(b) >= 1
    BY <1>4
  <2>2. QED
    BY <2>1, <1>1, <1>2, <1>4 DEF TextTokens
<1>5. QED
  BY <1>3, <1>4

\* the tokens of the first blocks with the lines between them
TokensTo(costs, i) == TextTokens(SubSeq(costs, 1, i))

\* and so for the blocks that are given
LEMMA TokensNext ==
  ASSUME NEW costs \in Seq(Nat), NEW i \in 1 .. Len(costs)
  PROVE  /\ TokensTo(costs, i - 1) \in Nat /\ costs[i] \in Nat
         /\ TokensTo(costs, i) =
               TokensTo(costs, i - 1) + costs[i] + (IF i = 1 THEN 0 ELSE 2)
         /\ SubSeq(costs, 1, i) = Append(SubSeq(costs, 1, i - 1), costs[i])
<1> DEFINE b == SubSeq(costs, 1, i - 1)
<1>1. Len(costs) \in Nat /\ costs[i] \in Nat
  OBVIOUS
<1>2. /\ b \in Seq(Nat) /\ Len(b) = i - 1
      /\ \A j \in 1 .. i - 1 : b[j] = costs[j]
  BY <1>1
<1>3. SubSeq(costs, 1, i) = Append(b, costs[i])
  <2>1. /\ SubSeq(costs, 1, i) \in Seq(Nat) /\ Len(SubSeq(costs, 1, i)) = i
        /\ \A j \in 1 .. i : SubSeq(costs, 1, i)[j] = costs[j]
    BY <1>1
  <2>2. /\ Append(b, costs[i]) \in Seq(Nat) /\ Len(Append(b, costs[i])) = i
        /\ \A j \in 1 .. i : Append(b, costs[i])[j] = costs[j]
    BY <1>1, <1>2
  <2> DEFINE p == SubSeq(costs, 1, i)
             q == Append(b, costs[i])
  <2>3. /\ p \in Seq(Nat) /\ q \in Seq(Nat) /\ Len(p) = Len(q)
        /\ \A j \in 1 .. Len(p) : p[j] = q[j]
    BY <2>1, <2>2
  <2> HIDE DEF p, q
  <2>4. p = q
    BY <2>3, SeqEqual
  <2>5. QED
    BY <2>4 DEF p, q
<1>4. b = <<>> <=> i = 1
  BY <1>2
<1> HIDE DEF b
<1>5. TextTokens(b) \in Nat /\ TextTokens(Append(b, costs[i]))
         = TextTokens(b) + costs[i] + (IF b = <<>> THEN 0 ELSE 2)
  BY <1>1, <1>2, TextTokensAppend
<1>6. QED
  BY <1>1, <1>3, <1>4, <1>5 DEF TokensTo, b

\* what has been rendered of the first k blocks
RenderedTo(k, out, costs, maxTokens, least) ==
    /\ out.used = TextTokens(out.blocks) /\ out.used <= maxTokens
    /\ ~ out.stop => out.blocks = SubSeq(costs, 1, k)
    /\ out.stop => \E m \in 1 .. k :
          /\ TokensTo(costs, m) > maxTokens
          /\ Len(out.blocks) \in {m - 1, m}
          /\ \A i \in 1 .. m - 1 : out.blocks[i] = costs[i]
          /\ Len(out.blocks) = m => out.blocks[m] \in least + 1 .. costs[m] - 1

\* the next block: as long as nothing is cut, all blocks so far are there
LEMMA RenderedStep ==
  ASSUME NEW costs \in Seq(Nat), NEW maxTokens \in Nat, NEW least \in Nat,
         NEW k \in 1 .. Len(costs), NEW out \in RenderStates, NEW new \in RenderStates,
         RenderedTo(k - 1, out, costs, maxTokens, least),
         RendersBlock(new, out, costs[k], maxTokens, least)
  PROVE  RenderedTo(k, new, costs, maxTokens, least)
<1> DEFINE b == out.blocks
           left == maxTokens - out.used - Separator(out)
<1>1. /\ b \in Seq(Nat) /\ out.used \in Nat /\ out.stop \in BOOLEAN /\ new.stop \in BOOLEAN
      /\ Len(costs) \in Nat /\ costs[k] \in Nat
  BY DEF RenderStates
<1>2. /\ out.used = TextTokens(b) /\ out.used <= maxTokens
      /\ ~ out.stop => b = SubSeq(costs, 1, k - 1)
  BY DEF RenderedTo
<1>3. Separator(out) = (IF b = <<>> THEN 0 ELSE 2)
  BY DEF Separator
<1>4. \A x \in Nat : TextTokens(Append(b, x)) = out.used + x + Separator(out)
  BY <1>1, <1>2, <1>3, TextTokensAppend
<1>5. CASE out.stop
  <2>1. new = out
    BY <1>5 DEF RendersBlock
  <2>2. PICK m \in 1 .. k - 1 :
          /\ TokensTo(costs, m) > maxTokens
          /\ Len(out.blocks) \in {m - 1, m}
          /\ \A i \in 1 .. m - 1 : out.blocks[i] = costs[i]
          /\ Len(out.blocks) = m => out.blocks[m] \in least + 1 .. costs[m] - 1
    BY <1>5 DEF RenderedTo
  <2>3. m \in 1 .. k
    OBVIOUS
  <2> HIDE DEF b, left
  <2>4. QED
    BY <2>1, <2>2, <2>3, <1>2, <1>5 DEF RenderedTo, b
<1>6. CASE ~ out.stop
  <2>1. b = SubSeq(costs, 1, k - 1) /\ Len(b) = k - 1 /\ \A i \in 1 .. k - 1 : b[i] = costs[i]
    <3>1. b = SubSeq(costs, 1, k - 1)
      BY <1>2, <1>6
    <3> HIDE DEF b
    <3>2. k - 1 \in 0 .. Len(costs)
      BY <1>1
    <3>3. \A j \in 0 .. Len(costs) : Len(SubSeq(costs, 1, j)) = j
                                     /\ \A i \in 1 .. j : SubSeq(costs, 1, j)[i] = costs[i]
      BY <1>1
    <3>4. QED
      BY <3>1, <3>2, <3>3
  <2>2. /\ TokensTo(costs, k) = out.used + costs[k] + Separator(out)
        /\ SubSeq(costs, 1, k) = Append(b, costs[k])
    <3>1. b = <<>> <=> k = 1
      BY <1>1, <2>1
    <3>2. TokensTo(costs, k - 1) = out.used
      BY <2>1, <1>2 DEF TokensTo
    <3> HIDE DEF b
    <3>3. QED
      BY <3>1, <3>2, <2>1, <1>3, TokensNext
  <2>3. Separator(out) \in {0, 2}
    BY <1>3
  <2>4. CASE /\ costs[k] <= left /\ ~ new.stop
             /\ new.blocks = Append(b, costs[k]) /\ new.used = out.used + costs[k] + Separator(out)
    <3>1. new.used = TextTokens(new.blocks) /\ new.used <= maxTokens
      <4>1. TextTokens(Append(b, costs[k])) = out.used + costs[k] + Separator(out)
        BY <1>1, <1>4
      <4>2. out.used + costs[k] + Separator(out) <= maxTokens
        BY <2>3, <2>4, <1>1
      <4>3. QED
        BY <4>1, <4>2, <2>4
    <3>2. new.blocks = SubSeq(costs, 1, k)
      BY <2>2, <2>4
    <3>3. QED
      BY <3>1, <3>2, <2>4 DEF RenderedTo
  <2>5. CASE /\ costs[k] > left /\ left > least /\ new.stop
             /\ new.blocks = Append(b, left) /\ new.used = maxTokens
    <3>1. left \in Nat
      BY <2>3, <2>5, <1>1
    <3>2. TextTokens(Append(b, left)) = out.used + left + Separator(out)
      BY <3>1, <1>4
    <3>3. TextTokens(new.blocks) = maxTokens
      BY <3>2, <2>3, <2>5, <1>1
    <3>4. /\ Len(new.blocks) = k /\ new.blocks[k] = left
          /\ \A i \in 1 .. k - 1 : new.blocks[i] = costs[i]
      <4> HIDE DEF left
      <4>1. Append(b, left)[k] = left /\ Len(Append(b, left)) = k
        BY <3>1, <2>1, <1>1
      <4>2. \A i \in 1 .. k - 1 : Append(b, left)[i] = b[i]
        BY <3>1, <2>1, <1>1
      <4>3. QED
        BY <4>1, <4>2, <2>1, <2>5
    <3>5. left \in least + 1 .. costs[k] - 1 /\ k \in 1 .. k
      BY <3>1, <2>5, <1>1
    <3>6. TokensTo(costs, k) > maxTokens
      BY <2>2, <2>3, <2>5, <1>1
    <3> HIDE DEF left, b
    <3>7. \E m \in 1 .. k :
              /\ TokensTo(costs, m) > maxTokens
              /\ Len(new.blocks) \in {m - 1, m}
              /\ \A i \in 1 .. m - 1 : new.blocks[i] = costs[i]
              /\ Len(new.blocks) = m => new.blocks[m] \in least + 1 .. costs[m] - 1
      BY <3>4, <3>5, <3>6
    <3>8. new.used = TextTokens(new.blocks) /\ new.used <= maxTokens /\ new.stop
      BY <3>3, <2>5
    <3>9. QED
      BY <3>7, <3>8 DEF RenderedTo
  <2>6. CASE /\ costs[k] > left /\ new.stop /\ new.blocks = b /\ new.used = out.used
    <3>1. TokensTo(costs, k) > maxTokens
      BY <2>2, <2>3, <2>6, <1>1
    <3>2. Len(new.blocks) = k - 1 /\ \A i \in 1 .. k - 1 : new.blocks[i] = costs[i]
      BY <2>1, <2>6
    <3>3. k \in 1 .. k /\ Len(new.blocks) # k
      BY <3>2, <1>1
    <3>4. new.used = TextTokens(new.blocks) /\ new.used <= maxTokens
      BY <2>6, <1>2
    <3> HIDE DEF left, b
    <3>5. QED
      BY <3>1, <3>2, <3>3, <3>4, <2>6 DEF RenderedTo
  <2>7. QED
    BY <1>6, <2>4, <2>5, <2>6 DEF RendersBlock
<1>7. QED
  BY <1>5, <1>6

\* the blocks fit the budget; if they all would, they all are there
LEMMA RenderedFits ==
  ASSUME NEW costs \in Seq(Nat \ {0}), NEW maxTokens \in Nat, NEW least \in Nat
  PROVE  LET out == Rendered(costs, maxTokens, least)
         IN /\ TextTokens(out) <= maxTokens
            /\ \A i \in DOMAIN out :
                  \/ out[i] = costs[i]
                  \/ i = Len(out) /\ out[i] \in least + 1 .. costs[i] - 1
            /\ \A i \in DOMAIN costs :
                  TextTokens(SubSeq(costs, 1, i)) <= maxTokens => Len(out) >= i
<1> DEFINE out == Rendered(costs, maxTokens, least)
           n == Len(costs)
<1>1. costs \in Seq(Nat) /\ n \in Nat /\ DOMAIN costs = 1 .. n /\ \A i \in 1 .. n : costs[i] \in Nat \ {0}
  OBVIOUS
<1>2. \A i \in 1 .. n : TokensTo(costs, i) \in Nat /\ TokensTo(costs, i) >= TokensTo(costs, i - 1) + 1
  <2>1. ASSUME NEW i \in 1 .. n PROVE TokensTo(costs, i) \in Nat /\ TokensTo(costs, i) >= TokensTo(costs, i - 1) + 1
    <3>1. /\ TokensTo(costs, i - 1) \in Nat /\ costs[i] \in Nat
          /\ TokensTo(costs, i) = TokensTo(costs, i - 1) + costs[i] + (IF i = 1 THEN 0 ELSE 2)
      BY <1>1, TokensNext
    <3>2. costs[i] >= 1
      BY <1>1
    <3>3. QED
      BY <3>1, <3>2
  <2>2. QED
    BY <2>1
<1>3. TokensTo(costs, 0) = 0
  <2>1. SubSeq(costs, 1, 0) = <<>>
    OBVIOUS
  <2>2. TextTokens(<<>>) = 0
    BY TotalOfNone DEF TextTokens
  <2>3. QED
    BY <2>1, <2>2 DEF TokensTo
\* more blocks have more tokens
<1>4. \A m, i \in 1 .. n : m <= i => TokensTo(costs, m) <= TokensTo(costs, i)
  <2> SUFFICES ASSUME NEW m \in 1 .. n
               PROVE  \A i \in 1 .. n : m <= i => TokensTo(costs, m) <= TokensTo(costs, i)
    OBVIOUS
  <2> DEFINE P == {i \in Nat : m <= i /\ i <= n => TokensTo(costs, m) <= TokensTo(costs, i)}
  <2>1. 0 \in P
    BY <1>1
  <2>2. ASSUME NEW i \in Nat, i \in P PROVE i + 1 \in P
    <3> HIDE DEF n
    <3>1. CASE m <= i /\ i + 1 <= n
      <4>1. i \in 1 .. n /\ i + 1 \in 1 .. n /\ (i + 1) - 1 = i
        BY <3>1, <1>1
      <4>2. TokensTo(costs, i + 1) \in Nat /\ TokensTo(costs, i) \in Nat /\ TokensTo(costs, m) \in Nat
            /\ TokensTo(costs, i + 1) >= TokensTo(costs, i) + 1
        BY <4>1, <1>2
      <4>3. TokensTo(costs, m) <= TokensTo(costs, i)
        BY <3>1, <2>2, <1>1
      <4>4. QED
        BY <4>2, <4>3
    <3>2. CASE m = i + 1
      <4>1. TokensTo(costs, m) \in Nat
        BY <1>2
      <4>2. QED
        BY <3>2, <4>1
    <3>3. CASE ~ (m <= i + 1 /\ i + 1 <= n)
      BY <3>3
    <3>4. m \in Nat
      BY <1>1
    <3>5. QED
      BY <3>1, <3>2, <3>3, <3>4, <1>1
  <2> HIDE DEF P
  <2>3. Nat \subseteq P
    BY <2>1, <2>2, NatInd
  <2>4. QED
    BY <2>3, <1>1 DEF P
<1>5. CASE maxTokens = 0
  <2>1. out = <<>>
    BY <1>5 DEF Rendered
  <2>2. TextTokens(<<>>) = 0
    BY TotalOfNone DEF TextTokens
  <2>3. ASSUME NEW i \in 1 .. n PROVE TokensTo(costs, i) > 0
    <3>1. i = 1 \/ i - 1 \in 1 .. n
      BY <1>1
    <3>2. TokensTo(costs, i - 1) \in Nat
      BY <3>1, <1>2, <1>3
    <3>3. QED
      BY <3>2, <1>2
  <2>4. \A i \in 1 .. n : TokensTo(costs, i) \in Nat /\ ~ (TokensTo(costs, i) <= maxTokens)
    BY <2>3, <1>2, <1>5
  <2> HIDE DEF n
  <2>5. QED
    BY <2>1, <2>2, <2>4, <1>1, <1>5 DEF TokensTo
<1>6. CASE maxTokens # 0
  <2>1. PICK st : Rendering(st, costs, maxTokens, least)
    BY <1>1, <1>6, RenderedIs
  <2>2. /\ st \in [0 .. n -> RenderStates] /\ st[0] = NothingRendered
        /\ \A k \in 1 .. n : RendersBlock(st[k], st[k - 1], costs[k], maxTokens, least)
        /\ out = st[n].blocks
    BY <2>1 DEF Rendering
  <2> HIDE DEF n, out
  <2> DEFINE P == {k \in Nat : k <= n => RenderedTo(k, st[k], costs, maxTokens, least)}
  <2>3. 0 \in P
    <3>1. SubSeq(costs, 1, 0) = <<>>
      OBVIOUS
    <3>2. TextTokens(<<>>) = 0
      BY TotalOfNone DEF TextTokens
    <3>3. /\ st[0].blocks = <<>> /\ st[0].used = 0 /\ ~ st[0].stop
      BY <2>2 DEF NothingRendered
    <3>4. RenderedTo(0, st[0], costs, maxTokens, least)
      BY <3>1, <3>2, <3>3 DEF RenderedTo
    <3>5. QED
      BY <3>4
  <2>4. ASSUME NEW k \in Nat, k \in P PROVE k + 1 \in P
    <3>1. SUFFICES ASSUME k + 1 <= n PROVE RenderedTo(k + 1, st[k + 1], costs, maxTokens, least)
      OBVIOUS
    <3>2. k + 1 \in 1 .. n /\ (k + 1) - 1 = k /\ k \in 0 .. n /\ k + 1 \in 0 .. n
      BY <3>1, <1>1
    <3>3. RenderedTo(k, st[k], costs, maxTokens, least)
      BY <3>2, <2>4
    <3>4. RendersBlock(st[k + 1], st[k], costs[k + 1], maxTokens, least)
      BY <3>2, <2>2
    <3>5. st[k] \in RenderStates /\ st[k + 1] \in RenderStates
      BY <3>2, <2>2
    <3> DEFINE j == k + 1
    <3>6. j \in 1 .. Len(costs) /\ j - 1 = k
      BY <3>2 DEF n
    <3>7. RenderedTo(j - 1, st[k], costs, maxTokens, least) /\ RendersBlock(st[j], st[k], costs[j], maxTokens, least)
      BY <3>3, <3>4, <3>6
    <3> HIDE DEF j
    <3>8. st[j] \in RenderStates
      BY <3>5 DEF j
    <3>9. RenderedTo(j, st[j], costs, maxTokens, least)
      BY <3>5, <3>6, <3>7, <3>8, <1>1, RenderedStep
    <3>10. QED
      BY <3>9 DEF j
  <2> HIDE DEF P
  <2>5. Nat \subseteq P
    BY <2>3, <2>4, NatInd
  <2> DEFINE o == st[n]
  <2>6. RenderedTo(n, o, costs, maxTokens, least) /\ o \in RenderStates /\ out = o.blocks
    BY <2>2, <2>5, <1>1 DEF P
  <2> HIDE DEF o
  <2>7. /\ TextTokens(out) <= maxTokens /\ out \in Seq(Nat) /\ o.stop \in BOOLEAN
        /\ Len(out) \in Nat /\ DOMAIN out = 1 .. Len(out)
    BY <2>6 DEF RenderedTo, RenderStates
  <2>8. CASE ~ o.stop
    <3>1. out = SubSeq(costs, 1, n)
      BY <2>6, <2>8 DEF RenderedTo
    <3>2. Len(out) = n /\ \A i \in 1 .. n : out[i] = costs[i]
      BY <3>1, <1>1 DEF n
    <3>3. \A i \in 1 .. n : n >= i
      BY <1>1
    <3>4. QED
      BY <3>2, <3>3, <2>7, <1>1 DEF out
  <2>9. CASE o.stop
    <3>1. PICK m \in 1 .. n :
          /\ TokensTo(costs, m) > maxTokens
          /\ Len(out) \in {m - 1, m}
          /\ \A i \in 1 .. m - 1 : out[i] = costs[i]
          /\ Len(out) = m => out[m] \in least + 1 .. costs[m] - 1
      BY <2>6, <2>9 DEF RenderedTo
    <3>2. ASSUME NEW i \in DOMAIN out
          PROVE  out[i] = costs[i] \/ (i = Len(out) /\ out[i] \in least + 1 .. costs[i] - 1)
      <4>1. i \in 1 .. m - 1 \/ (i = m /\ Len(out) = m)
        <5>1. m \in Nat /\ m >= 1 /\ Len(out) \in {m - 1, m} /\ i \in 1 .. Len(out)
          <6> HIDE DEF n, out
          <6>1. m \in Nat /\ m >= 1
            BY <1>1
          <6>2. i \in 1 .. Len(out)
            BY <2>7
          <6>3. QED
            BY <6>1, <6>2, <3>1
        <5> HIDE DEF n, out
        <5>2. QED
          BY <5>1
      <4>2. QED
        BY <4>1, <3>1
    <3>3. ASSUME NEW i \in 1 .. n, TokensTo(costs, i) <= maxTokens PROVE Len(out) >= i
      <4>1. ~ (m <= i)
        <5>1. ASSUME m <= i PROVE FALSE
          <6>1. TokensTo(costs, m) <= TokensTo(costs, i) /\ TokensTo(costs, m) \in Nat /\ TokensTo(costs, i) \in Nat
            BY <5>1, <1>2, <1>4
          <6>2. QED
            BY <6>1, <3>1, <3>3
        <5>2. QED
          BY <5>1
      <4>2. i <= m - 1
        BY <4>1, <1>1
      <4>3. m \in Nat /\ i \in Nat /\ Len(out) \in {m - 1, m}
        BY <3>1, <1>1
      <4>4. QED
        BY <4>2, <4>3
    <3>4. QED
      BY <3>2, <3>3, <2>7, <1>1 DEF out, TokensTo
  <2>10. QED
    BY <2>7, <2>8, <2>9
<1>7. QED
  BY <1>5, <1>6

-----------------------------------------------------------------------------
(***************************************************************************)
(* _trim_chunks_for_reference: chunks until the characters are spent, of   *)
(* which only a first one is cut.                                          *)
(***************************************************************************)

Chunk == [len : Nat, path : BOOLEAN, refs : Seq(STRING)]

\* one more chunk adds its length
LEMMA TextLenAppend ==
  ASSUME NEW cs \in Seq(Chunk), NEW c \in Chunk
  PROVE  TextLen(cs) \in Nat /\ TextLen(Append(cs, c)) = TextLen(cs) + c.len
<1> DEFINE n == Len(cs)
           more == Append(cs, c)
           p == [i \in DOMAIN cs |-> cs[i].len]
           q == [i \in DOMAIN more |-> more[i].len]
<1>1. n \in Nat /\ DOMAIN cs = 1 .. n /\ \A i \in 1 .. n : cs[i] \in Chunk
  BY LenProperties
<1>2. /\ more \in Seq(Chunk) /\ Len(more) = n + 1 /\ DOMAIN more = 1 .. n + 1 /\ more[n + 1] = c
      /\ \A i \in 1 .. n : more[i] = cs[i]
  OBVIOUS
<1>3. c.len \in Nat /\ \A i \in 1 .. n : cs[i].len \in Nat
  BY <1>1 DEF Chunk
<1> HIDE DEF n, more
<1>4. p \in Seq(Nat) /\ Len(p) = n /\ \A i \in 1 .. n : p[i] = cs[i].len
  BY <1>1, <1>3
<1>5. \A i \in 1 .. n + 1 : more[i].len \in Nat
  BY <1>1, <1>2, <1>3
<1>6. q \in Seq(Nat) /\ Len(q) = n + 1 /\ \A i \in 1 .. n + 1 : q[i] = more[i].len
  BY <1>1, <1>2, <1>5
<1>7. q[n + 1] = c.len /\ \A i \in 1 .. n : q[i] = p[i]
  BY <1>1, <1>2, <1>4, <1>6
<1>9. TextLen(cs) = Total(p) /\ TextLen(more) = Total(q)
  BY DEF TextLen
<1> HIDE DEF p, q
<1>8. q = Append(p, c.len)
  <2> DEFINE a == Append(p, c.len)
  <2>1. a \in Seq(Nat) /\ Len(a) = n + 1 /\ a[n + 1] = c.len /\ \A i \in 1 .. n : a[i] = p[i]
    BY <1>1, <1>3, <1>4
  <2> HIDE DEF a
  <2>2. \A i \in 1 .. n + 1 : a[i] = q[i]
    BY <2>1, <1>1, <1>7
  <2>3. a = q
    BY <2>1, <2>2, <1>6, SeqEqual
  <2>4. QED
    BY <2>3 DEF a
<1>10. QED
  BY <1>3, <1>4, <1>8, <1>9, TotalIs, TotalAppend DEF more

\* no chunks, no text
LEMMA TextLenOfNone == TextLen(<<>>) = 0
<1>1. [i \in DOMAIN <<>> |-> <<>>[i].len] = <<>>
  OBVIOUS
<1>2. QED
  BY <1>1, TotalOfNone DEF TextLen

TrimStates == [chunks : Seq(Chunk), total : Nat, stop : BOOLEAN]

\* whether a chunk has a text or a path
Holds(c) == c.len > 0 \/ c.path

\* what a chunk adds
TrimsChunk(new, out, c, maxChars) ==
    \/ (out.stop \/ ~ Holds(c)) /\ new = out
    \/ /\ ~ out.stop /\ Holds(c) /\ c.len > maxChars /\ out.chunks = <<>> /\ new.stop
       /\ Len(new.chunks) = 1 /\ new.chunks[1] \in Chunk /\ new.chunks[1].len = maxChars
       /\ new.total = maxChars /\ new.chunks = Append(<<>>, new.chunks[1])
       /\ new.chunks[1].refs = c.refs
    \/ /\ ~ out.stop /\ Holds(c) /\ ~ (c.len > maxChars /\ out.chunks = <<>>)
       /\ out.total + c.len > maxChars
       /\ new.chunks = out.chunks /\ new.total = out.total /\ new.stop
    \/ /\ ~ out.stop /\ Holds(c) /\ out.total + c.len <= maxChars
       /\ new.chunks = Append(out.chunks, c) /\ new.total = out.total + c.len /\ ~ new.stop

\* a chunk leads from one state to another
LEMMA TrimTyped ==
  ASSUME NEW out \in TrimStates, NEW c \in Chunk, NEW maxChars \in Nat
  PROVE  /\ TrimChunk(out, c, maxChars) \in TrimStates
         /\ TrimsChunk(TrimChunk(out, c, maxChars), out, c, maxChars)
<1> DEFINE new == TrimChunk(out, c, maxChars)
<1>1. /\ out.chunks \in Seq(Chunk) /\ out.total \in Nat /\ out.stop \in BOOLEAN
      /\ c.len \in Nat /\ c.path \in BOOLEAN
  BY DEF TrimStates, Chunk
<1>2. CutsFirst(out) <=> out.chunks = <<>>
  BY DEF CutsFirst
<1>3. Holds(c) <=> ~ (c.len = 0 /\ ~ c.path)
  BY <1>1 DEF Holds
<1>4. CASE out.stop \/ ~ Holds(c)
  <2>1. new = out
    BY <1>3, <1>4 DEF TrimChunk
  <2> HIDE DEF new
  <2>2. QED
    BY <2>1, <1>4 DEF TrimsChunk, new
<1>5. CASE ~ out.stop /\ Holds(c) /\ c.len > maxChars /\ out.chunks = <<>>
  <2> DEFINE cut == [c EXCEPT !.len = maxChars]
  <2>1. new = [chunks |-> <<cut>>, total |-> maxChars, stop |-> TRUE]
    BY <1>2, <1>3, <1>5 DEF TrimChunk
  <2>2. cut \in Chunk /\ cut.len = maxChars /\ cut.refs = c.refs
    BY DEF Chunk
  <2> HIDE DEF cut
  <2>3. new \in TrimStates
    BY <2>1, <2>2 DEF TrimStates
  <2>4. /\ new.chunks = <<cut>> /\ new.total = maxChars /\ new.stop
    BY <2>1
  <2>5. <<cut>> = Append(<<>>, cut) /\ Len(<<cut>>) = 1 /\ <<cut>>[1] = cut
    OBVIOUS
  <2> HIDE DEF new
  <2>6. TrimsChunk(new, out, c, maxChars)
    BY <2>2, <2>4, <2>5, <1>5 DEF TrimsChunk
  <2>7. QED
    BY <2>3, <2>6 DEF new
<1>6. CASE ~ out.stop /\ Holds(c) /\ ~ (c.len > maxChars /\ out.chunks = <<>>) /\ out.total + c.len > maxChars
  <2>1. new = [out EXCEPT !.stop = TRUE]
    BY <1>2, <1>3, <1>6 DEF TrimChunk
  <2>2. new \in TrimStates
    BY <2>1 DEF TrimStates
  <2>3. new.chunks = out.chunks /\ new.total = out.total /\ new.stop
    BY <2>1 DEF TrimStates
  <2> HIDE DEF new
  <2>4. TrimsChunk(new, out, c, maxChars)
    BY <2>3, <1>6 DEF TrimsChunk
  <2>5. QED
    BY <2>2, <2>4 DEF new
<1>7. CASE ~ out.stop /\ Holds(c) /\ ~ (c.len > maxChars /\ out.chunks = <<>>) /\ ~ (out.total + c.len > maxChars)
  <2>1. new = [out EXCEPT !.chunks = Append(@, c), !.total = @ + c.len]
    BY <1>2, <1>3, <1>7 DEF TrimChunk
  <2>2. out.total + c.len \in Nat /\ Append(out.chunks, c) \in Seq(Chunk)
    BY <1>1
  <2>3. new \in TrimStates
    BY <2>1, <2>2 DEF TrimStates
  <2>4. new.chunks = Append(out.chunks, c) /\ new.total = out.total + c.len /\ new.stop = out.stop
    BY <2>1 DEF TrimStates
  <2>5. out.total + c.len <= maxChars
    BY <1>1, <1>7
  <2> HIDE DEF new
  <2>6. TrimsChunk(new, out, c, maxChars)
    BY <2>4, <2>5, <1>7 DEF TrimsChunk
  <2>7. QED
    BY <2>3, <2>6 DEF new
<1>8. QED
  BY <1>1, <1>4, <1>5, <1>6, <1>7

NothingTrimmed == [chunks |-> <<>>, total |-> 0, stop |-> FALSE]

\* one chunk after another
Trimming(st, top, maxChars, out) ==
    /\ st \in [0 .. Len(top) -> TrimStates]
    /\ st[0] = NothingTrimmed
    /\ \A k \in 1 .. Len(top) : TrimsChunk(st[k], st[k - 1], top[k], maxChars)
    /\ out = st[Len(top)].chunks

\* trimming goes through such states, to the chunks it returns
LEMMA TrimmedIs ==
  ASSUME NEW chunks, NEW maxCount, Top(chunks, maxCount) \in Seq(Chunk), NEW maxChars \in Nat
  PROVE  \E st : Trimming(st, Top(chunks, maxCount), maxChars, Trimmed(chunks, maxCount, maxChars))
<1> DEFINE top == Top(chunks, maxCount)
           n == Len(top)
           V == TrimStates
           base == NothingTrimmed
           op(a, c) == TrimChunk(a, c, maxChars)
           F == [p \in V \X (1 .. n) |-> op(p[1], top[p[2]])]
           Eq(iter) == iter = [s \in SUBSET DOMAIN top |->
                IF s = {} THEN base ELSE op(iter[s \ {Max(s)}], top[Max(s)])]
           I == CHOOSE iter : Eq(iter)
<1>1. n \in Nat /\ DOMAIN top = 1 .. n /\ \A i \in 1 .. n : top[i] \in Chunk
  BY LenProperties
<1>2. Trimmed(chunks, maxCount, maxChars) = I[DOMAIN top].chunks
  BY DEF I, Eq, FoldLeft, MapThenFoldSet, Trimmed, NothingTrimmed
<1> HIDE DEF top
<1>3. base \in V
  BY DEF NothingTrimmed, TrimStates
<1>4. \A a \in V, k \in 1 .. n : op(a, top[k]) \in V
  BY <1>1, TrimTyped
<1>5. F \in [V \X (1 .. n) -> V] /\ \A a \in V, k \in 1 .. n : F[<<a, k>>] = op(a, top[k])
  <2> HIDE DEF op, V, n
  <2>1. QED
    BY <1>4
<1> HIDE DEF n, F, Eq, I, op, base, V
<1>6. PICK it \in [SUBSET (1 .. n) -> V] : Recurs(it, n, base, F)
  <2>1. n \in Nat /\ F \in [V \X (1 .. n) -> V]
    BY <1>1, <1>5
  <2>2. QED
    BY <2>1, <1>3, IterationIs, Zenon
<1>7. \A s \in SUBSET (1 .. n) : s # {} => Max(s) \in 1 .. n /\ s \ {Max(s)} \in SUBSET (1 .. n)
  BY <1>1, MaxIn
<1>8. Eq(it)
  <2>1. ASSUME NEW s \in SUBSET (1 .. n)
        PROVE  it[s] = IF s = {} THEN base ELSE op(it[s \ {Max(s)}], top[Max(s)])
    BY <1>5, <1>6, <1>7 DEF Recurs
  <2>2. QED
    BY <2>1, <1>1, <1>6 DEF Eq
<1>9. Eq(I)
  BY <1>8 DEF I
<1>10. /\ I[{}] = base
       /\ \A s \in SUBSET (1 .. n) : s # {} => I[s] = op(I[s \ {Max(s)}], top[Max(s)])
  BY <1>9, <1>1 DEF Eq
<1>11. RecursTyped(I, n, V, base, F)
  BY <1>5, <1>7, <1>10 DEF RecursTyped
<1>12. PICK st : Steps(st, n, V, base, F, I[1 .. n])
  <2>1. n \in Nat /\ F \in [V \X (1 .. n) -> V]
    BY <1>1, <1>5
  <2>2. QED
    BY <2>1, <1>3, <1>11, FoldRun, Zenon
<1>13. ASSUME NEW k \in 1 .. n PROVE TrimsChunk(st[k], st[k - 1], top[k], maxChars)
  <2>1. k - 1 \in 0 .. n /\ st[k - 1] \in V
    BY <1>1, <1>12 DEF Steps
  <2>2. st[k] = op(st[k - 1], top[k])
    BY <1>5, <1>12, <2>1 DEF Steps
  <2>3. st[k - 1] \in TrimStates /\ top[k] \in Chunk
    BY <2>1, <1>1 DEF V
  <2>4. TrimsChunk(TrimChunk(st[k - 1], top[k], maxChars), st[k - 1], top[k], maxChars)
    BY <2>3, TrimTyped, Zenon
  <2>5. st[k] = TrimChunk(st[k - 1], top[k], maxChars)
    BY <2>2 DEF op
  <2>6. QED
    BY <2>4, <2>5, Zenon
<1>14. st \in [0 .. n -> V] /\ st[0] = base /\ I[1 .. n] = st[n]
  BY <1>12 DEF Steps
<1>15. QED
  BY <1>1, <1>2, <1>13, <1>14 DEF Trimming, V, base, n, top

Held(top) == {i \in DOMAIN top : top[i].len > 0 \/ top[i].path}

Given(top) == Select(top, Held(top))

HeldTo(top, k) == Cardinality(Held(top) \cap (1 .. k))

\* a chunk with something in it comes after as many as are before it
LEMMA GivenAt ==
  ASSUME NEW top \in Seq(Chunk), NEW k \in 1 .. Len(top)
  PROVE  /\ HeldTo(top, k - 1) \in Nat
         /\ Holds(top[k]) => /\ HeldTo(top, k - 1) + 1 \in 1 .. Len(Given(top))
                             /\ Given(top)[HeldTo(top, k - 1) + 1] = top[k]
                             /\ HeldTo(top, k) = HeldTo(top, k - 1) + 1
         /\ ~ Holds(top[k]) => HeldTo(top, k) = HeldTo(top, k - 1)
<1> DEFINE n == Len(top)
           at == Held(top)
<1>1. n \in Nat /\ at \in SUBSET (1 .. n) /\ \A j \in at : top[j] \in Chunk
  BY LenProperties DEF Held
<1>2. k \in at <=> Holds(top[k])
  BY DEF Held, Holds
<1>3. HeldTo(top, k - 1) \in Nat
  <2>1. IsFiniteSet(1 .. n)
    BY <1>1, FS_Interval
  <2>2. IsFiniteSet(at \cap (1 .. k - 1))
    BY <2>1, <1>1, FS_Subset
  <2>3. QED
    BY <2>2, FS_CardinalityType DEF HeldTo
<1> HIDE DEF n, at
<1>4. CASE k \in at
  <2> DEFINE r == Cardinality(at \cap (1 .. k - 1)) + 1
  <2>1. /\ r \in 1 .. Len(Select(top, at)) /\ Select(top, at)[r] = top[k]
        /\ Cardinality(at \cap (1 .. k)) = r
    BY <1>1, <1>4, SelectedAt
  <2>2. HeldTo(top, k - 1) + 1 = r /\ HeldTo(top, k) = Cardinality(at \cap (1 .. k))
    BY DEF HeldTo, at
  <2>3. Given(top) = Select(top, at)
    BY DEF Given, at
  <2> HIDE DEF r
  <2>4. QED
    BY <2>1, <2>2, <2>3, <1>2, <1>3, <1>4
<1>5. CASE k \notin at
  <2>1. k \in Nat \ {0}
    BY <1>1
  <2>2. at \cap (1 .. k) = at \cap (1 .. k - 1)
    BY <2>1, <1>5, NotSelected, Zenon
  <2>3. QED
    BY <2>2, <1>2, <1>3, <1>5 DEF HeldTo, at
<1>6. QED
  BY <1>4, <1>5

\* what has been kept of the first k chunks
TrimmedTo(k, out, top, maxChars) ==
    /\ out.total = TextLen(out.chunks) /\ out.total <= maxChars
    /\ out.stop => Len(out.chunks) > 0
    /\ \/ /\ Len(out.chunks) <= HeldTo(top, k)
          /\ ~ out.stop => Len(out.chunks) = HeldTo(top, k)
          /\ Len(out.chunks) <= Len(Given(top))
          /\ \A i \in 1 .. Len(out.chunks) : out.chunks[i] = Given(top)[i]
       \/ /\ out.stop /\ Len(out.chunks) = 1 /\ out.chunks[1].len = maxChars
          /\ Len(Given(top)) >= 1 /\ Given(top)[1].len > maxChars

\* the next chunk with something in it lengthens the text by its own
LEMMA GivenLen ==
  ASSUME NEW top \in Seq(Chunk)
  PROVE  /\ Given(top) \in Seq(Chunk) /\ Len(Given(top)) \in Nat
         /\ Len(Given(top)) = HeldTo(top, Len(top))
         /\ HeldTo(top, 0) = 0
<1> DEFINE n == Len(top)
           at == Held(top)
<1>1. n \in Nat /\ at \in SUBSET (1 .. n) /\ \A j \in at : top[j] \in Chunk
  BY LenProperties DEF Held
<1>2. at \cap (1 .. n) = at /\ at \cap (1 .. 0) = {}
  BY <1>1
<1> HIDE DEF n, at
<1>3. Select(top, at) \in Seq(Chunk) /\ Keeps(Select(top, at), top, at)
  BY <1>1, SelectKeeps
<1>4. QED
  BY <1>2, <1>3, FS_EmptySet DEF Keeps, HeldTo, Given, at, n

\* the next chunk: as long as nothing is cut, all chunks so far are there
LEMMA TrimmedStep ==
  ASSUME NEW top \in Seq(Chunk), NEW maxChars \in Nat \ {0},
         NEW k \in 1 .. Len(top), NEW out \in TrimStates, NEW new \in TrimStates,
         TrimmedTo(k - 1, out, top, maxChars),
         TrimsChunk(new, out, top[k], maxChars)
  PROVE  TrimmedTo(k, new, top, maxChars)
<1> DEFINE cs == out.chunks
           c == top[k]
           given == Given(top)
           h == HeldTo(top, k - 1)
<1>1. /\ cs \in Seq(Chunk) /\ Len(cs) \in Nat /\ out.total \in Nat
      /\ out.stop \in BOOLEAN /\ new.stop \in BOOLEAN
      /\ c \in Chunk /\ c.len \in Nat /\ maxChars \in Nat /\ maxChars >= 1
  <2>1. /\ cs \in Seq(Chunk) /\ out.total \in Nat
        /\ out.stop \in BOOLEAN /\ new.stop \in BOOLEAN
    BY DEF TrimStates
  <2>2. c \in Chunk
    <3> HIDE DEF c
    <3>1. \A i \in 1 .. Len(top) : top[i] \in Chunk
      BY LenProperties
    <3>2. QED
      BY <3>1 DEF c
  <2> HIDE DEF c, cs
  <2>3. c.len \in Nat
    BY <2>2 DEF Chunk
  <2>4. Len(cs) \in Nat
    BY <2>1
  <2>5. QED
    BY <2>1, <2>2, <2>3, <2>4
<1>2. /\ h \in Nat
      /\ Holds(c) => /\ h + 1 \in 1 .. Len(given) /\ given[h + 1] = c
                     /\ HeldTo(top, k) = h + 1
      /\ ~ Holds(c) => HeldTo(top, k) = h
  BY GivenAt
<1>3. Len(given) \in Nat
  BY GivenLen
<1>4. /\ out.total = TextLen(cs) /\ out.total <= maxChars
      /\ out.stop => Len(cs) > 0
      /\ \/ /\ Len(cs) <= h /\ (~ out.stop => Len(cs) = h) /\ Len(cs) <= Len(given)
            /\ \A i \in 1 .. Len(cs) : cs[i] = given[i]
         \/ /\ out.stop /\ Len(cs) = 1 /\ cs[1].len = maxChars
            /\ Len(given) >= 1 /\ given[1].len > maxChars
  BY DEF TrimmedTo
<1>5. HeldTo(top, k) \in Nat /\ h <= HeldTo(top, k)
  BY <1>2
<1> DEFINE to == HeldTo(top, k)
<1>g. to \in Nat /\ (Holds(c) => to = h + 1) /\ (~ Holds(c) => to = h)
  BY <1>2
<1>h. (TrimmedTo(k, new, top, maxChars)) <=>
        /\ new.total = TextLen(new.chunks) /\ new.total <= maxChars
        /\ new.stop => Len(new.chunks) > 0
        /\ \/ /\ Len(new.chunks) <= to
              /\ ~ new.stop => Len(new.chunks) = to
              /\ Len(new.chunks) <= Len(given)
              /\ \A i \in 1 .. Len(new.chunks) : new.chunks[i] = given[i]
           \/ /\ new.stop /\ Len(new.chunks) = 1 /\ new.chunks[1].len = maxChars
              /\ Len(given) >= 1 /\ given[1].len > maxChars
  BY DEF TrimmedTo
<1>6. CASE (out.stop \/ ~ Holds(c)) /\ new = out
  <2>1. Len(cs) <= h => Len(cs) <= to
    BY <1>1, <1>2, <1>5
  <2>2. ~ out.stop => to = h
    BY <1>2, <1>6
  <2> HIDE DEF cs, given, h, to, c
  <2>3. QED
    BY <2>1, <2>2, <1>4, <1>6, <1>h DEF cs
<1>7. CASE /\ ~ out.stop /\ Holds(c) /\ c.len > maxChars /\ cs = <<>> /\ new.stop
           /\ Len(new.chunks) = 1 /\ new.chunks[1] \in Chunk /\ new.chunks[1].len = maxChars
           /\ new.total = maxChars /\ new.chunks = Append(<<>>, new.chunks[1])
  <2>1. Len(cs) = 0 /\ h = 0
    BY <1>1, <1>2, <1>4, <1>7
  <2>2. given[1] = c /\ Len(given) >= 1
    BY <2>1, <1>2, <1>3, <1>7
  <2>3. TextLen(new.chunks) = TextLen(<<>>) + new.chunks[1].len
    <3>1. <<>> \in Seq(Chunk) /\ new.chunks[1] \in Chunk
      BY <1>7
    <3> DEFINE x == new.chunks[1]
    <3>2. TextLen(Append(<<>>, x)) = TextLen(<<>>) + x.len
      <4> HIDE DEF x
      <4>1. x \in Chunk
        BY <3>1 DEF x
      <4>2. QED
        BY <4>1, <3>1, TextLenAppend
    <3>3. QED
      BY <3>2, <1>7
  <2>4. TextLen(new.chunks) = maxChars
    BY <2>3, <1>1, <1>7, TextLenOfNone
  <2> HIDE DEF cs, given, h, to
  <2>5. QED
    BY <2>2, <2>4, <1>1, <1>7, <1>h
<1>8. CASE /\ ~ out.stop /\ Holds(c) /\ ~ (c.len > maxChars /\ cs = <<>>)
           /\ out.total + c.len > maxChars
           /\ new.chunks = cs /\ new.total = out.total /\ new.stop
  <2>1. Len(cs) > 0
    <3>1. CASE cs = <<>>
      BY <3>1, <1>1, <1>4, <1>8, TextLenOfNone
    <3>2. CASE cs # <<>>
      BY <3>2, <1>1
    <3>3. QED
      BY <3>1, <3>2
  <2>2. Len(cs) <= to
    BY <1>1, <1>4, <1>8, <1>g, <1>2
  <2> HIDE DEF cs, given, h, to, c
  <2>3. QED
    BY <2>1, <2>2, <1>4, <1>8, <1>h
<1>9. CASE /\ ~ out.stop /\ Holds(c) /\ out.total + c.len <= maxChars
           /\ new.chunks = Append(cs, c) /\ new.total = out.total + c.len /\ ~ new.stop
  <2>1. TextLen(new.chunks) = out.total + c.len
    BY <1>1, <1>4, <1>9, TextLenAppend
  <2>2. Len(cs) = h /\ to = h + 1 /\ h + 1 <= Len(given) /\ given[h + 1] = c
    BY <1>2, <1>4, <1>9, <1>3
  <2>3. \A i \in 1 .. Len(cs) : cs[i] = given[i]
    BY <1>4, <1>9
  <2>4. Len(new.chunks) = h + 1 /\ \A i \in 1 .. h + 1 : new.chunks[i] = given[i]
    <3> DEFINE a == Append(cs, c)
    <3> HIDE DEF c, given, h, to
    <3>1. Len(a) = h + 1 /\ a[h + 1] = c /\ \A i \in 1 .. h : a[i] = cs[i]
      BY <2>2, <1>1
    <3> HIDE DEF cs, a
    <3>2. \A i \in 1 .. h + 1 : i \in 1 .. h \/ i = h + 1
      BY <1>2
    <3>3. \A i \in 1 .. h + 1 : a[i] = given[i]
      BY <3>1, <3>2, <2>2, <2>3
    <3>4. QED
      BY <3>1, <3>3, <1>9 DEF a
  <2>5. new.total <= maxChars
    BY <1>9
  <2> HIDE DEF cs, given, h, to, c
  <2>6. Len(new.chunks) <= to
    BY <2>2, <2>4, <1>2
  <2>7. QED
    BY <2>1, <2>2, <2>4, <2>5, <2>6, <1>9, <1>h
<1>10. QED
  BY <1>6, <1>7, <1>8, <1>9 DEF TrimsChunk

\* the chunks fit; the first is there, and all of them if they would fit
LEMMA TrimmedFits ==
  ASSUME NEW chunks \in Seq(Chunk), NEW maxCount \in Nat, NEW maxChars \in Nat \ {0}
  PROVE  LET out   == Trimmed(chunks, maxCount, maxChars)
             top   == Top(chunks, maxCount)
             given == Select(top, {i \in DOMAIN top : top[i].len > 0 \/ top[i].path})
         IN /\ out \in Seq(Chunk) /\ TextLen(out) <= maxChars
            /\ \/ IsPrefix(out, given)
               \/ Len(out) = 1 /\ out[1].len = maxChars /\ given[1].len > maxChars
            /\ given # <<>> /\ given[1].len > 0 => Pieces(out) # {}
<1> DEFINE out == Trimmed(chunks, maxCount, maxChars)
           top == Top(chunks, maxCount)
           given == Given(top)
           n == Len(top)
<1>1. top \in Seq(Chunk)
  BY TopIs
<1>2. PICK st : Trimming(st, top, maxChars, out)
  BY <1>1, TrimmedIs
<1>3. given = Select(top, {i \in DOMAIN top : top[i].len > 0 \/ top[i].path})
  BY DEF Given, Held
<1>4. /\ st \in [0 .. n -> TrimStates] /\ st[0] = NothingTrimmed
      /\ \A k \in 1 .. n : TrimsChunk(st[k], st[k - 1], top[k], maxChars)
      /\ out = st[n].chunks
  BY <1>2 DEF Trimming
<1>5. n \in Nat
  BY <1>1
<1> HIDE DEF top, n, out
<1> DEFINE P == {k \in Nat : k <= n => TrimmedTo(k, st[k], top, maxChars)}
<1>6. 0 \in P
  <2>1. st[0].chunks = <<>> /\ st[0].total = 0 /\ ~ st[0].stop /\ Len(st[0].chunks) = 0
    BY <1>4 DEF NothingTrimmed
  <2>2. HeldTo(top, 0) = 0 /\ Len(Given(top)) \in Nat
    BY <1>1, GivenLen
  <2>3. TrimmedTo(0, st[0], top, maxChars)
    BY <2>1, <2>2, TextLenOfNone DEF TrimmedTo
  <2>4. QED
    BY <2>3
<1>7. ASSUME NEW k \in Nat, k \in P PROVE k + 1 \in P
  <2>1. SUFFICES ASSUME k + 1 <= n PROVE TrimmedTo(k + 1, st[k + 1], top, maxChars)
    OBVIOUS
  <2>2. k + 1 \in 1 .. n /\ (k + 1) - 1 = k /\ k \in 0 .. n /\ k + 1 \in 0 .. n
    BY <2>1, <1>5
  <2>3. TrimmedTo(k, st[k], top, maxChars)
    BY <2>2, <1>7
  <2>4. TrimsChunk(st[k + 1], st[k], top[k + 1], maxChars)
    BY <2>2, <1>4
  <2>5. st[k] \in TrimStates /\ st[k + 1] \in TrimStates
    BY <2>2, <1>4
  <2> DEFINE j == k + 1
  <2>6. j \in 1 .. Len(top) /\ j - 1 = k
    BY <2>2 DEF n
  <2>7. TrimmedTo(j - 1, st[k], top, maxChars) /\ TrimsChunk(st[j], st[k], top[j], maxChars)
    BY <2>3, <2>4, <2>6
  <2> HIDE DEF j
  <2>8. st[j] \in TrimStates
    BY <2>5 DEF j
  <2>9. TrimmedTo(j, st[j], top, maxChars)
    BY <1>1, <2>5, <2>6, <2>7, <2>8, TrimmedStep
  <2>10. QED
    BY <2>9 DEF j
<1> HIDE DEF P
<1>8. Nat \subseteq P
  BY <1>6, <1>7, NatInd
<1> DEFINE o == st[n]
<1>9. TrimmedTo(n, o, top, maxChars) /\ o \in TrimStates /\ out = o.chunks
  BY <1>4, <1>5, <1>8 DEF P
<1>10. given \in Seq(Chunk) /\ Len(given) \in Nat /\ Len(given) = HeldTo(top, n)
  BY <1>1, GivenLen DEF n
<1> HIDE DEF o, given
<1>11. /\ out \in Seq(Chunk) /\ o.stop \in BOOLEAN /\ Len(out) \in Nat /\ DOMAIN out = 1 .. Len(out)
  BY <1>9 DEF TrimStates
<1>12. /\ TextLen(out) <= maxChars /\ (o.stop => Len(out) > 0)
       /\ \/ /\ Len(out) <= Len(given) /\ (~ o.stop => Len(out) = Len(given))
             /\ \A i \in 1 .. Len(out) : out[i] = given[i]
          \/ /\ o.stop /\ Len(out) = 1 /\ out[1].len = maxChars
             /\ Len(given) >= 1 /\ given[1].len > maxChars
  BY <1>9, <1>10 DEF TrimmedTo, given
<1>13. IsPrefix(out, given) \/ (Len(out) = 1 /\ out[1].len = maxChars /\ given[1].len > maxChars)
  <2>1. CASE Len(out) <= Len(given) /\ \A i \in 1 .. Len(out) : out[i] = given[i]
    <3> DEFINE p == SubSeq(out, 1, Len(out))
               q == SubSeq(given, 1, Len(out))
    <3>1. p \in Seq(Chunk) /\ Len(p) = Len(out) /\ \A i \in 1 .. Len(out) : p[i] = out[i]
      BY <1>11
    <3>2. q \in Seq(Chunk) /\ Len(q) = Len(out) /\ \A i \in 1 .. Len(out) : q[i] = given[i]
      BY <2>1, <1>10, <1>11
    <3> HIDE DEF p, q
    <3>3. p = q
      BY <3>1, <3>2, <2>1, SeqEqual
    <3>4. QED
      BY <3>3, <2>1 DEF IsPrefix, p, q
  <2>2. QED
    BY <2>1, <1>12
<1>14. ASSUME given # <<>>, given[1].len > 0 PROVE Pieces(out) # {}
  <2>1. Len(given) >= 1
    BY <1>10, <1>14
  <2>2. Len(out) >= 1
    BY <2>1, <1>10, <1>11, <1>12
  <2>3. 1 \in 1 .. Len(out) /\ 1 \in DOMAIN out
    BY <2>2, <1>11
  <2>4. out[1].len > 0
    BY <2>3, <1>12, <1>14
  <2>5. QED
    BY <2>3, <2>4 DEF Pieces
<1>15. QED
  BY <1>3, <1>11, <1>12, <1>13, <1>14 DEF out, top

-----------------------------------------------------------------------------
(***************************************************************************)
(* _collect_local_image_paths: so many pictures at most, each one once, of *)
(* the chunks that were kept.                                              *)
(***************************************************************************)

Unrepeated(s) == \A i, j \in DOMAIN s : i # j => s[i] # s[j]

\* the first of each: nothing new, nothing twice
LEMMA FirstsOf ==
  ASSUME NEW V, NEW list \in Seq(V)
  PROVE  LET out == FirstOfEach(list, LAMBDA x : x)
         IN out \in Seq(V) /\ Range(out) \subseteq Range(list) /\ Unrepeated(out)
<1> DEFINE K == [x \in V |-> x]
           out == Select(list, Firsts(list, K))
<1>1. \A x \in V : K[x] = x
  OBVIOUS
<1>2. \A i \in DOMAIN list : list[i] \in V /\ \A j \in 1 .. i - 1 : j \in DOMAIN list
  BY SeqIs, Zenon
<1> HIDE DEF K
<1>3. Firsts(list, K) = {i \in DOMAIN list : \A j \in 1 .. i - 1 : list[j] # list[i]}
  BY <1>1, <1>2 DEF Firsts
<1>4. out = FirstOfEach(list, LAMBDA x : x)
  BY <1>3 DEF FirstOfEach
<1>5. KeepsFirsts(out, list, V, K)
  BY FirstsKeep
<1> HIDE DEF out
<1>6. /\ out \in Seq(V) /\ Range(out) \subseteq Range(list)
      /\ \A i, j \in DOMAIN out : i # j => K[out[i]] # K[out[j]]
  BY <1>5 DEF KeepsFirsts
<1>7. \A i \in DOMAIN out : K[out[i]] = out[i]
  <2>1. \A i \in DOMAIN out : out[i] \in V
    BY <1>6, SeqIs, Zenon
  <2>2. QED
    BY <2>1, <1>1
<1>8. Unrepeated(out)
  BY <1>6, <1>7 DEF Unrepeated
<1>9. QED
  BY <1>4, <1>6, <1>8

\* the references of a chunk: so many at most, no URL, none twice
LEMMA ImageRefsAre ==
  ASSUME NEW refs \in Seq(STRING), NEW max \in Nat
  PROVE  LET t == ImageRefs(refs, max)
         IN /\ t \in Seq(STRING) /\ Len(t) <= max /\ Unrepeated(t)
            /\ Range(t) \subseteq Range(refs) \ {"url"}
<1> DEFINE at == {i \in DOMAIN refs : refs[i] # "url"}
           local == Select(refs, at)
           each == FirstOfEach(local, LAMBDA r : r)
           t == Top(each, max)
<1>1. ImageRefs(refs, max) = t
  BY DEF ImageRefs
<1>2. /\ Len(refs) \in Nat /\ DOMAIN refs = 1 .. Len(refs)
      /\ \A i \in at : refs[i] \in STRING
  BY SeqIs
<1>3. at \in SUBSET (1 .. Len(refs)) /\ \A i \in at : refs[i] # "url"
  BY <1>2
<1> HIDE DEF at
<1>4. local \in Seq(STRING) /\ Range(local) = {refs[i] : i \in at}
  BY <1>2, <1>3, SelectKeeps DEF Keeps
<1>5. Range(local) \subseteq Range(refs) \ {"url"}
  <2> HIDE DEF local
  <2>1. \A x \in Range(local) : \E i \in at : x = refs[i]
    BY <1>4
  <2>2. \A i \in at : refs[i] \in Range(refs) /\ refs[i] # "url"
    BY <1>2, <1>3 DEF Range
  <2>3. QED
    BY <2>1, <2>2
<1> HIDE DEF local
<1>6. each \in Seq(STRING) /\ Range(each) \subseteq Range(local) /\ Unrepeated(each)
  BY <1>4, FirstsOf
<1> HIDE DEF each
<1>7. /\ t \in Seq(STRING) /\ Len(t) <= max /\ Len(t) <= Len(each)
      /\ \A i \in 1 .. Len(t) : t[i] = each[i]
      /\ Range(t) \subseteq Range(each)
  BY <1>6, TopIs
<1> HIDE DEF t
<1>8. Unrepeated(t)
  <2>1. DOMAIN t = 1 .. Len(t) /\ DOMAIN each = 1 .. Len(each) /\ Len(t) \in Nat /\ Len(each) \in Nat
    BY <1>6, <1>7, SeqIs, Zenon
  <2>2. \A i \in DOMAIN t : i \in DOMAIN each /\ t[i] = each[i]
    BY <2>1, <1>7
  <2>3. QED
    BY <2>2, <1>6 DEF Unrepeated
<1>9. QED
  BY <1>1, <1>5, <1>6, <1>7, <1>8

\* pictures of some chunks: so many at most, each one once, all of which can
\* be read
Collected(out, chunks, max) ==
    /\ out \in Seq(STRING) /\ Len(out) <= max /\ Unrepeated(out)
    /\ \A r \in Range(out) :
          r \notin {"url", "missing"} /\ \E c \in Range(chunks) : Contains(c.refs, r)

\* the pictures of one more chunk
LEMMA CollectedMore ==
  ASSUME NEW chunks \in Seq(Chunk), NEW max \in Nat, NEW c \in Range(chunks),
         NEW out, Collected(out, chunks, max)
  PROVE  Collected(CollectFrom(out, c, max), chunks, max)
<1> DEFINE left == max - Len(out)
           refs == ImageRefs(c.refs, left)
           at == {i \in DOMAIN refs : refs[i] \notin {"missing", "big"} /\ ~ Contains(out, refs[i])}
           more == Select(refs, at)
           new == out \o more
<1>1. CollectFrom(out, c, max) = new
  BY DEF CollectFrom
<1>2. /\ out \in Seq(STRING) /\ Len(out) <= max /\ Unrepeated(out)
      /\ \A r \in Range(out) :
            r \notin {"url", "missing"} /\ \E d \in Range(chunks) : Contains(d.refs, r)
  BY DEF Collected
<1>3. Len(out) \in Nat /\ DOMAIN out = 1 .. Len(out) /\ left \in Nat
  BY <1>2
<1>4. c.refs \in Seq(STRING)
  <2>1. c \in Chunk
    BY SeqIs
  <2>2. QED
    BY <2>1 DEF Chunk
<1>5. /\ refs \in Seq(STRING) /\ Len(refs) <= left /\ Unrepeated(refs)
      /\ Range(refs) \subseteq Range(c.refs) \ {"url"}
  BY <1>3, <1>4, ImageRefsAre
<1> HIDE DEF refs, left
<1>6. Len(refs) \in Nat /\ DOMAIN refs = 1 .. Len(refs) /\ \A i \in DOMAIN refs : refs[i] \in STRING
  BY <1>5, SeqIs, Zenon
<1>7. /\ at \in SUBSET (1 .. Len(refs)) /\ \A i \in at : refs[i] \in STRING
      /\ \A i \in at : refs[i] \notin {"missing", "big"} /\ ~ Contains(out, refs[i])
  BY <1>6
<1> HIDE DEF at
<1>8. more \in Seq(STRING) /\ Keeps(more, refs, at)
  BY <1>6, <1>7, SelectKeeps
<1>9. PICK f : Picks(f, at, refs, more)
  BY <1>6, <1>7, SelectIs
<1>10. /\ Len(more) \in Nat /\ DOMAIN more = 1 .. Len(more) /\ Len(more) = Cardinality(at)
       /\ Range(more) = {refs[i] : i \in at}
  BY <1>8 DEF Keeps
<1>11. /\ f \in [1 .. Len(more) -> at]
       /\ \A j, k \in 1 .. Len(more) : j < k => f[j] < f[k]
       /\ \A k \in 1 .. Len(more) : more[k] = refs[f[k]]
  <2> HIDE DEF more
  <2>1. /\ f \in [1 .. Cardinality(at) -> at]
        /\ \A j, k \in 1 .. Cardinality(at) : j < k => f[j] < f[k]
        /\ more = [k \in 1 .. Cardinality(at) |-> refs[f[k]]]
    BY <1>9 DEF Picks
  <2>2. QED
    BY <2>1, <1>10
<1>12. Len(more) <= Len(refs)
  <2>1. IsFiniteSet(1 .. Len(refs)) /\ Cardinality(1 .. Len(refs)) = Len(refs)
    <3>1. PICK m \in Nat : m = Len(refs)
      BY <1>6
    <3>2. IsFiniteSet(1 .. m) /\ Cardinality(1 .. m) = m
      BY FS_Interval
    <3>3. QED
      BY <3>1, <3>2
  <2>2. Cardinality(at) <= Cardinality(1 .. Len(refs))
    BY <2>1, <1>7, FS_Subset
  <2>3. QED
    BY <2>1, <2>2, <1>10
<1> HIDE DEF more
<1>13. Unrepeated(more)
  <2>1. ASSUME NEW j \in 1 .. Len(more), NEW k \in 1 .. Len(more), j < k PROVE more[j] # more[k]
    <3>1. f[j] \in at /\ f[k] \in at /\ f[j] < f[k]
      BY <1>11, <2>1
    <3>2. f[j] \in DOMAIN refs /\ f[k] \in DOMAIN refs /\ f[j] # f[k]
      <4>1. \A x, y \in at : x < y => x # y
        BY <1>7
      <4>2. QED
        BY <4>1, <3>1, <1>6, <1>7
    <3>3. QED
      BY <3>2, <1>5, <1>11 DEF Unrepeated
  <2>2. ASSUME NEW i \in 1 .. Len(more), NEW j \in 1 .. Len(more), i # j PROVE more[i] # more[j]
    <3>1. i < j \/ j < i
      BY <2>2
    <3>2. QED
      BY <3>1, <2>1
  <2>3. QED
    BY <2>2, <1>10 DEF Unrepeated
<1>14. \A x \in Range(more) : /\ x \in Range(c.refs) \ {"url"} /\ x # "missing"
                              /\ ~ Contains(out, x)
  <2>1. \A i \in at : refs[i] \in Range(refs)
    BY <1>6, <1>7 DEF Range
  <2>2. \A x \in Range(more) : \E i \in at : x = refs[i]
    BY <1>10
  <2>3. QED
    BY <2>1, <2>2, <1>5, <1>7
<1>15. /\ new \in Seq(STRING) /\ Len(new) = Len(out) + Len(more) /\ DOMAIN new = 1 .. Len(new)
       /\ \A i \in 1 .. Len(out) : new[i] = out[i]
       /\ \A i \in 1 .. Len(more) : new[Len(out) + i] = more[i]
  BY <1>2, <1>8
<1>16. Len(new) <= max
  BY <1>3, <1>5, <1>6, <1>10, <1>12, <1>15 DEF left
<1> HIDE DEF new
<1>17. ASSUME NEW i \in DOMAIN new
       PROVE  i \in 1 .. Len(out) \/ \E k \in 1 .. Len(more) : i = Len(out) + k
  <2>1. i \in Nat /\ i >= 1 /\ i <= Len(out) + Len(more)
    BY <1>3, <1>10, <1>15
  <2>2. CASE i <= Len(out)
    BY <2>1, <2>2, <1>3
  <2>3. CASE i > Len(out)
    <3>1. i - Len(out) \in 1 .. Len(more) /\ i = Len(out) + (i - Len(out))
      BY <2>1, <2>3, <1>3, <1>10
    <3>2. QED
      BY <3>1
  <2>4. QED
    BY <2>1, <2>2, <2>3, <1>3
<1>18. \A i \in 1 .. Len(out), k \in 1 .. Len(more) : out[i] # more[k]
  <2>1. \A k \in 1 .. Len(more) : more[k] \in Range(more)
    BY <1>10 DEF Range
  <2>2. QED
    BY <2>1, <1>14 DEF Contains
<1>19. Unrepeated(new)
  <2> SUFFICES ASSUME NEW i \in DOMAIN new, NEW j \in DOMAIN new, i # j PROVE new[i] # new[j]
    BY DEF Unrepeated
  <2>1. CASE i \in 1 .. Len(out) /\ j \in 1 .. Len(out)
    BY <2>1, <1>2, <1>3, <1>15 DEF Unrepeated
  <2>2. CASE i \in 1 .. Len(out) /\ \E k \in 1 .. Len(more) : j = Len(out) + k
    BY <2>2, <1>15, <1>18
  <2>3. CASE j \in 1 .. Len(out) /\ \E k \in 1 .. Len(more) : i = Len(out) + k
    BY <2>3, <1>15, <1>18
  <2>4. ASSUME NEW k \in 1 .. Len(more), NEW h \in 1 .. Len(more), i = Len(out) + k, j = Len(out) + h
        PROVE  new[i] # new[j]
    <3>1. k # h /\ k \in DOMAIN more /\ h \in DOMAIN more
      BY <2>4, <1>10
    <3>2. QED
      BY <3>1, <2>4, <1>13, <1>15 DEF Unrepeated
  <2>5. QED
    BY <2>1, <2>2, <2>3, <2>4, <1>17
<1>20. Range(new) \subseteq Range(out) \cup Range(more)
  <2>1. \A i \in DOMAIN new : new[i] \in Range(out) \cup Range(more)
    <3>1. (\A k \in 1 .. Len(out) : out[k] \in Range(out))
          /\ (\A k \in 1 .. Len(more) : more[k] \in Range(more))
      BY <1>3, <1>10 DEF Range
    <3>2. QED
      BY <3>1, <1>15, <1>17
  <2>2. QED
    BY <2>1 DEF Range
<1>21. ASSUME NEW r \in Range(more) PROVE Contains(c.refs, r)
  <2>1. r \in Range(c.refs)
    BY <1>14
  <2>2. DOMAIN c.refs = 1 .. Len(c.refs)
    BY <1>4
  <2>3. QED
    BY <2>1, <2>2 DEF Range, Contains
<1>22. \A r \in Range(new) :
          r \notin {"url", "missing"} /\ \E d \in Range(chunks) : Contains(d.refs, r)
  BY <1>2, <1>14, <1>20, <1>21
<1>23. QED
  BY <1>1, <1>15, <1>16, <1>19, <1>22 DEF Collected

\* the pictures of all of them
LEMMA ImagesCollected ==
  ASSUME NEW chunks \in Seq(Chunk), NEW max \in Nat
  PROVE  Collected(CollectImages(chunks, max), chunks, max)
<1> DEFINE n == Len(chunks)
           V == {s \in Seq(STRING) : Collected(s, chunks, max)}
           base == <<>>
           op(a, c) == CollectFrom(a, c, max)
           F == [p \in V \X (1 .. n) |-> op(p[1], chunks[p[2]])]
           Eq(iter) == iter = [s \in SUBSET DOMAIN chunks |->
                IF s = {} THEN base ELSE op(iter[s \ {Max(s)}], chunks[Max(s)])]
           I == CHOOSE iter : Eq(iter)
<1>1. n \in Nat /\ DOMAIN chunks = 1 .. n /\ \A i \in 1 .. n : chunks[i] \in Range(chunks)
  BY LenProperties DEF Range
<1>2. CollectImages(chunks, max) = I[DOMAIN chunks]
  BY DEF I, Eq, FoldLeft, MapThenFoldSet, CollectImages
<1>3. base \in V
  <2>1. base \in Seq(STRING) /\ Len(base) = 0 /\ DOMAIN base = {}
    OBVIOUS
  <2> HIDE DEF base
  <2>2. Collected(base, chunks, max)
    BY <2>1 DEF Collected, Unrepeated, Range
  <2>3. QED
    BY <2>1, <2>2
<1>4. \A a \in V, k \in 1 .. n : op(a, chunks[k]) \in V
  <2>1. ASSUME NEW a \in V, NEW k \in 1 .. n PROVE op(a, chunks[k]) \in V
    <3>1. Collected(a, chunks, max) /\ chunks[k] \in Range(chunks)
      BY <1>1
    <3>2. Collected(op(a, chunks[k]), chunks, max)
      BY <3>1, CollectedMore
    <3> HIDE DEF op
    <3>3. QED
      BY <3>2 DEF Collected
  <2>2. QED
    BY <2>1
<1>5. F \in [V \X (1 .. n) -> V] /\ \A a \in V, k \in 1 .. n : F[<<a, k>>] = op(a, chunks[k])
  <2> HIDE DEF op, V, n
  <2>1. QED
    BY <1>4
<1> HIDE DEF n, F, Eq, I, op, base, V
<1>6. PICK it \in [SUBSET (1 .. n) -> V] : Recurs(it, n, base, F)
  <2>1. n \in Nat /\ F \in [V \X (1 .. n) -> V]
    BY <1>1, <1>5
  <2>2. QED
    BY <2>1, <1>3, IterationIs, Zenon
<1>7. \A s \in SUBSET (1 .. n) : s # {} => Max(s) \in 1 .. n /\ s \ {Max(s)} \in SUBSET (1 .. n)
  BY <1>1, MaxIn
<1>8. Eq(it)
  <2>1. ASSUME NEW s \in SUBSET (1 .. n)
        PROVE  it[s] = IF s = {} THEN base ELSE op(it[s \ {Max(s)}], chunks[Max(s)])
    BY <1>5, <1>6, <1>7 DEF Recurs
  <2>2. QED
    BY <2>1, <1>1, <1>6 DEF Eq
<1>9. Eq(I)
  BY <1>8 DEF I
<1>10. /\ I[{}] = base
       /\ \A s \in SUBSET (1 .. n) : s # {} => I[s] = op(I[s \ {Max(s)}], chunks[Max(s)])
  BY <1>9, <1>1 DEF Eq
<1>11. RecursTyped(I, n, V, base, F)
  BY <1>5, <1>7, <1>10 DEF RecursTyped
<1>12. PICK st : Steps(st, n, V, base, F, I[1 .. n])
  <2>1. n \in Nat /\ F \in [V \X (1 .. n) -> V]
    BY <1>1, <1>5
  <2>2. QED
    BY <2>1, <1>3, <1>11, FoldRun, Zenon
<1>13. I[1 .. n] \in V
  <2>1. n \in 0 .. n
    BY <1>1
  <2>2. QED
    BY <2>1, <1>12 DEF Steps
<1>14. QED
  BY <1>1, <1>2, <1>13 DEF V

(***************************************************************************)
(* What a model is given fits: _trim_chunks_for_reference returns at most  *)
(* maxCount chunks of at most maxChars characters and none of them empty,  *)
(* render_reports at most max tokens of text, _collect_local_image_paths   *)
(* at most so many different pictures; and nothing is left out that would  *)
(* have fitted.                                                            *)
(***************************************************************************)
THEOREM ContextAlwaysFits == Spec => []ContextFits
<1>1. CasesInv => ContextFits
  <2> SUFFICES ASSUME CasesInv PROVE ContextFits
    OBVIOUS
  <2>1. ASSUME sample.kind = "trim"
        PROVE  LET out    == Trimmed(sample.chunks, sample.count, sample.max)
                   top    == Top(sample.chunks, sample.count)
                   given  == Select(top, {i \in DOMAIN top : top[i].len > 0 \/ top[i].path})
                   images == CollectImages(out, sample.count)
               IN /\ TextLen(out) <= sample.max
                  /\ \/ IsPrefix(out, given)
                     \/ Len(out) = 1 /\ out[1].len = sample.max /\ given[1].len > sample.max
                  /\ given # <<>> /\ given[1].len > 0 => Pieces(out) # {}
                  /\ Len(images) <= sample.count /\ NoRepeats(images, LAMBDA r : r)
                  /\ \A r \in Range(images) :
                        r \notin {"url", "missing"} /\ \E c \in Range(out) : Contains(c.refs, r)
    <3> DEFINE chunks == sample.chunks
               count == sample.count
               max == sample.max
    <3>1. chunks \in Seq(Chunk) /\ count \in Nat /\ max \in Nat \ {0}
      BY <2>1, ResultsAssumption DEF CasesInv, Chunk
    <3> HIDE DEF chunks, count, max
    <3> DEFINE out    == Trimmed(chunks, count, max)
               top    == Top(chunks, count)
               given  == Select(top, {i \in DOMAIN top : top[i].len > 0 \/ top[i].path})
               images == CollectImages(out, count)
    <3>2. /\ out \in Seq(Chunk) /\ TextLen(out) <= max
          /\ \/ IsPrefix(out, given)
             \/ Len(out) = 1 /\ out[1].len = max /\ given[1].len > max
          /\ given # <<>> /\ given[1].len > 0 => Pieces(out) # {}
      BY <3>1, TrimmedFits
    <3>3. Collected(images, out, count)
      BY <3>1, <3>2, ImagesCollected
    <3> HIDE DEF out, top, given, images
    <3>4. /\ Len(images) <= count /\ NoRepeats(images, LAMBDA r : r)
          /\ \A r \in Range(images) :
                r \notin {"url", "missing"} /\ \E c \in Range(out) : Contains(c.refs, r)
      BY <3>3 DEF Collected, Unrepeated, NoRepeats
    <3>5. QED
      BY <3>2, <3>4 DEF out, top, given, images, chunks, count, max
  <2>2. ASSUME sample.kind = "render"
        PROVE  LET out == Rendered(sample.costs, sample.max, sample.least)
               IN /\ TextTokens(out) <= sample.max
                  /\ \A i \in DOMAIN out :
                        \/ out[i] = sample.costs[i]
                        \/ i = Len(out) /\ out[i] \in sample.least + 1 .. sample.costs[i] - 1
                  /\ \A i \in DOMAIN sample.costs :
                        TextTokens(SubSeq(sample.costs, 1, i)) <= sample.max => Len(out) >= i
    <3>1. /\ sample.costs \in Seq(Nat \ {0}) /\ sample.max \in Nat /\ sample.least \in Nat
      BY <2>2, ResultsAssumption DEF CasesInv
    <3>2. QED
      BY <3>1, RenderedFits
  <2>3. QED
    BY <2>1, <2>2 DEF ContextFits
<1>2. QED
  BY <1>1, CasesAlways, PTL

-----------------------------------------------------------------------------
(***************************************************************************)
(* filter_relationships: remote_rerank and bge_rerank sort by scores that  *)
(* were stretched to 0 .. 1; what has enough keywords and a good enough    *)
(* score is kept.                                                          *)
(***************************************************************************)

\* a bounded set of numbers has a greatest one
LEMMA Greatest ==
  ASSUME NEW b \in Nat, NEW I \in SUBSET (0 .. b), I # {}
  PROVE  \E i \in I : \A j \in I : i >= j
<1> DEFINE J == {b - i : i \in I}
<1>1. J \in SUBSET Nat /\ J # {}
  <2>1. \A i \in I : b - i \in Nat
    OBVIOUS
  <2> DEFINE f(i) == b - i
  <2>2. \A i \in I : f(i) \in Nat
    BY <2>1
  <2> HIDE DEF f
  <2>3. {f(i) : i \in I} \in SUBSET Nat /\ {f(i) : i \in I} # {}
    BY <2>2
  <2>4. QED
    BY <2>3 DEF f
<1>2. PICK m \in J : \A j \in J : m <= j
  BY <1>1, Least
<1>3. PICK i \in I : m = b - i
  BY <1>2
<1>4. \A j \in I : b - j \in J
  OBVIOUS
<1>5. \A j \in I : b - i <= b - j
  BY <1>2, <1>3, <1>4
<1>6. \A j \in I : i >= j
  BY <1>5
<1>7. QED
  BY <1>6

\* stretching differences of at most 100 to 100 keeps them apart
LEMMA Stretched ==
  ASSUME NEW d \in 1 .. 100, NEW x \in Nat, NEW y \in Nat, x < y
  PROVE  (x * 100) \div d < (y * 100) \div d
<1> DEFINE p == (x * 100) \div d
           q == (y * 100) \div d
<1>1. \A n \in Nat : n \div d \in Nat /\ (n \div d) * d <= n /\ n < (n \div d) * d + d
  OBVIOUS
<1>2. p \in Nat /\ p * d <= x * 100
  BY <1>1
<1>3. q \in Nat /\ y * 100 < q * d + d
  BY <1>1
<1> HIDE DEF p, q
<1>4. ASSUME q <= p PROVE FALSE
  <2>1. q * d <= p * d
    <3>1. \A a, b, c \in Nat : a <= b => a * c <= b * c
      OBVIOUS
    <3>2. QED
      BY <3>1, <1>2, <1>3, <1>4
  <2>2. p * d \in Nat /\ q * d \in Nat
    BY <1>2, <1>3
  <2>3. y * 100 < x * 100 + d
    BY <2>1, <2>2, <1>2, <1>3
  <2>4. QED
    BY <2>3
<1>5. QED
  BY <1>2, <1>3, <1>4 DEF p, q

\* normalized scores are in the same order, the best is 100
LEMMA NormalizedIs ==
  ASSUME NEW v \in Seq(0 .. 100), v # <<>>
  PROVE  LET w == Normalized(v)
         IN /\ w \in Seq(Nat) /\ Len(w) = Len(v)
            /\ \A i, j \in DOMAIN v : v[i] < v[j] => w[i] < w[j]
            /\ \E i \in DOMAIN v : w[i] = 100
<1> DEFINE R == Range(v)
           lo == CHOOSE x \in R : \A y \in R : x <= y
           hi == CHOOSE x \in R : \A y \in R : x >= y
           w == Normalized(v)
           n == Len(v)
<1>1. n \in Nat /\ n >= 1 /\ DOMAIN v = 1 .. n /\ \A i \in 1 .. n : v[i] \in 0 .. 100
  <2>1. n \in Nat /\ DOMAIN v = 1 .. n /\ \A i \in 1 .. n : v[i] \in 0 .. 100
    BY ListIs, Zenon
  <2>2. n # 0
    BY EmptySeq
  <2> HIDE DEF n
  <2>3. QED
    BY <2>1, <2>2
<1>2. R \in SUBSET (0 .. 100) /\ R \in SUBSET Nat /\ R # {} /\ \A i \in 1 .. n : v[i] \in R
  <2>1. R = {v[i] : i \in 1 .. n} /\ 1 \in 1 .. n
    BY <1>1 DEF Range
  <2> HIDE DEF R, n
  <2>2. \A i \in 1 .. n : v[i] \in 0 .. 100 /\ v[i] \in R
    BY <2>1, <1>1
  <2>3. \A x \in R : x \in 0 .. 100
    BY <2>1, <1>1
  <2>4. v[1] \in R
    BY <2>1, <2>2
  <2>5. R # {}
    BY <2>4
  <2>6. R \in SUBSET (0 .. 100)
    BY <2>3
  <2>7. R \in SUBSET Nat
    BY <2>6
  <2>8. QED
    BY <2>2, <2>5, <2>6, <2>7
<1>3. lo \in R /\ \A y \in R : lo <= y
  <2>1. \E x \in R : \A y \in R : x <= y
    BY <1>2, Least
  <2> HIDE DEF R
  <2>2. QED
    BY <2>1
<1>4. hi \in R /\ \A y \in R : hi >= y
  <2>1. \E x \in R : \A y \in R : x >= y
    BY <1>2, Greatest
  <2> HIDE DEF R
  <2>2. QED
    BY <2>1
<1>5. w = [i \in DOMAIN v |-> IF hi = lo THEN 100 ELSE ((v[i] - lo) * 100) \div (hi - lo)]
  BY DEF Normalized
<1>6. PICK best \in 1 .. n : v[best] = hi
  BY <1>1, <1>4 DEF Range
<1> HIDE DEF R, lo, hi, w, n
<1>7. lo \in 0 .. 100 /\ hi \in 0 .. 100 /\ \A i \in 1 .. n : lo <= v[i] /\ v[i] <= hi
  BY <1>2, <1>3, <1>4
<1>v. \A i \in 1 .. n : v[i] \in Int /\ v[i] <= 100
  <2>1. \A a \in 0 .. 100 : a \in Int /\ a <= 100
    OBVIOUS
  <2>2. QED
    BY <2>1, <1>1
<1>8. CASE hi = lo
  <2>1. w = [i \in 1 .. n |-> 100]
    BY <1>1, <1>5, <1>8
  <2>2. w \in Seq(Nat) /\ Len(w) = n /\ \A i \in 1 .. n : w[i] = 100
    BY <2>1, <1>1
  <2>3. \A i, j \in 1 .. n : ~ (v[i] < v[j])
    <3>1. ASSUME NEW i \in 1 .. n, NEW j \in 1 .. n PROVE ~ (v[i] < v[j])
      <4>1. v[i] \in Int /\ v[j] \in Int /\ lo \in Int /\ lo <= v[i] /\ v[j] <= lo
        BY <1>7, <1>8, <1>v
      <4>2. QED
        BY <4>1
    <3>2. QED
      BY <3>1
  <2>4. QED
    BY <2>2, <2>3, <1>1, <1>6 DEF w, n
<1>9. CASE hi # lo
  <2> DEFINE d == hi - lo
             x(i) == v[i] - lo
  <2>1. d \in 1 .. 100 /\ \A i \in 1 .. n : x(i) \in Nat
    <3>1. lo \in 0 .. 100 /\ hi \in 0 .. 100 /\ lo <= hi
      <4>1. v[best] \in Int /\ lo <= v[best]
        BY <1>6, <1>7, <1>v
      <4>2. QED
        BY <4>1, <1>6, <1>7
    <3>2. \A a, b \in 0 .. 100 : a <= b /\ b # a => b - a \in 1 .. 100
      OBVIOUS
    <3>3. d \in 1 .. 100
      BY <3>1, <3>2, <1>9
    <3>4. ASSUME NEW i \in 1 .. n PROVE v[i] - lo \in Nat
      <4>1. v[i] \in Int /\ lo \in Int /\ lo <= v[i]
        BY <1>7, <1>v
      <4>2. QED
        BY <4>1
    <3>5. QED
      BY <3>3, <3>4
  <2>2. w = [i \in 1 .. n |-> (x(i) * 100) \div d]
    BY <1>1, <1>5, <1>9
  <2>3. \A m \in Nat : m \div d \in Nat
    <3>1. \A c \in 1 .. 100 : \A m \in Nat : m \div c \in Nat
      OBVIOUS
    <3> HIDE DEF d
    <3>2. QED
      BY <2>1, <3>1
  <2>4. \A i \in 1 .. n : x(i) * 100 \in Nat
    BY <2>1
  <2>5. \A i, j \in 1 .. n : v[i] < v[j] => x(i) < x(j)
    <3>1. \A a, b, c \in Int : a < b => a - c < b - c
      OBVIOUS
    <3>2. lo \in Int
      BY <1>7
    <3>3. QED
      BY <3>1, <3>2, <1>v
  <2>6. x(best) = d
    BY <1>6
  <2>7. (d * 100) \div d = 100
    <3>1. \A c \in 1 .. 100 : (c * 100) \div c = 100
      OBVIOUS
    <3> HIDE DEF d
    <3>2. QED
      BY <2>1, <3>1
  <2> HIDE DEF x, d
  <2>8. w \in Seq(Nat) /\ Len(w) = n /\ \A i \in 1 .. n : w[i] = (x(i) * 100) \div d
    <3> DEFINE y(i) == (x(i) * 100) \div d
    <3>1. \A i \in 1 .. n : y(i) \in Nat
      BY <2>3, <2>4
    <3>2. w = [i \in 1 .. n |-> y(i)]
      BY <2>2
    <3> HIDE DEF y
    <3>3. w \in Seq(Nat) /\ Len(w) = n /\ \A i \in 1 .. n : w[i] = y(i)
      BY <3>1, <3>2, <1>1
    <3>4. QED
      BY <3>3 DEF y
  <2>9. \A i, j \in 1 .. n : v[i] < v[j] => w[i] < w[j]
    <3> SUFFICES ASSUME NEW i \in 1 .. n, NEW j \in 1 .. n, v[i] < v[j] PROVE w[i] < w[j]
      OBVIOUS
    <3>1. x(i) \in Nat /\ x(j) \in Nat /\ x(i) < x(j)
      BY <2>1, <2>5
    <3>2. (x(i) * 100) \div d < (x(j) * 100) \div d
      BY <3>1, <2>1, Stretched
    <3>3. QED
      BY <3>2, <2>8
  <2>10. w[best] = 100
    BY <2>6, <2>7, <2>8
  <2>11. /\ w \in Seq(Nat) /\ Len(w) = n
         /\ \A i, j \in DOMAIN v : v[i] < v[j] => w[i] < w[j]
         /\ \E i \in DOMAIN v : w[i] = 100
    <3>1. best \in DOMAIN v /\ w[best] = 100
      BY <2>10, <1>1, <1>6
    <3>2. \A i, j \in DOMAIN v : v[i] < v[j] => w[i] < w[j]
      BY <2>9, <1>1
    <3>3. QED
      BY <2>8, <3>1, <3>2, Zenon
  <2>12. QED
    BY <2>11 DEF w, n
<1>10. QED
  BY <1>8, <1>9

\* places of a list from the best to the worst
Ranks(rk, v) ==
    LET n == Len(v)
    IN /\ rk \in Seq(1 .. n) /\ Len(rk) = n /\ DOMAIN rk = 1 .. n
       /\ \A p \in 1 .. n : \E k \in 1 .. n : rk[k] = p
       /\ \A j, k \in 1 .. n : j < k => v[rk[j]] >= v[rk[k]] /\ rk[j] # rk[k]

\* Ranked is a permutation of the places, from the best to the worst
LEMMA RankedIs ==
  ASSUME NEW v \in Seq(Nat)
  PROVE  Ranks(Ranked(v), v)
<1> DEFINE n == Len(v)
           S == 1 .. n
           before == {p \in S \X S : v[p[1]] > v[p[2]] \/ (v[p[1]] = v[p[2]] /\ p[1] < p[2])}
           rk == Arranged(S, before)
<1>1. n \in Nat /\ DOMAIN v = S /\ \A i \in S : v[i] \in Nat
  OBVIOUS
<1>2. Ranked(v) = rk
  BY <1>1 DEF Ranked
<1>3. IsFiniteSet(S) /\ Cardinality(S) = n
  <2>1. PICK m \in Nat : m = n
    BY <1>1
  <2>2. IsFiniteSet(1 .. m) /\ Cardinality(1 .. m) = m
    BY FS_Interval
  <2>3. QED
    BY <2>1, <2>2
<1>4. \A x, y \in S : <<x, y>> \in before <=> v[x] > v[y] \/ (v[x] = v[y] /\ x < y)
  OBVIOUS
<1>5. S \subseteq Nat
  OBVIOUS
<1> HIDE DEF before, S, n
<1>6. Orders(before, S)
  BY <1>1, <1>4, <1>5 DEF Orders
<1>7. Arranges(rk, S, before)
  BY <1>3, <1>6, ArrangedIs
<1> HIDE DEF rk
<1>8. /\ rk \in [1 .. n -> S]
      /\ \A x \in S : \E k \in 1 .. n : rk[k] = x
      /\ \A j, k \in 1 .. n : j < k => <<rk[j], rk[k]>> \in before
  BY <1>3, <1>7 DEF Arranges
<1>9. rk \in Seq(S) /\ Len(rk) = n /\ DOMAIN rk = 1 .. n
  BY <1>1, <1>8
<1>10. ASSUME NEW j \in 1 .. n, NEW k \in 1 .. n, j < k PROVE v[rk[j]] >= v[rk[k]] /\ rk[j] # rk[k]
  <2>1. rk[j] \in S /\ rk[k] \in S /\ <<rk[j], rk[k]>> \in before
    BY <1>8, <1>10
  <2>2. \A x, y \in S : <<x, y>> \in before => v[x] >= v[y] /\ x # y
    BY <1>1, <1>4, <1>5
  <2>3. QED
    BY <2>1, <2>2
<1>11. QED
  BY <1>2, <1>8, <1>9, <1>10 DEF Ranks, n, S

\* g tells which item of list each item of out is
Pulls(g, out, list) ==
    /\ g \in [DOMAIN out -> DOMAIN list]
    /\ \A i, j \in DOMAIN out : i # j => g[i] # g[j]
    /\ \A i \in DOMAIN out : out[i] = list[g[i]]

Keyed(s, K) == \A i, j \in DOMAIN s : i # j => K[s[i]] # K[s[j]]

\* items from different places have different keys if the list's have
LEMMA PulledIs ==
  ASSUME NEW g, NEW out, NEW list, Pulls(g, out, list), NEW K, Keyed(list, K)
  PROVE  Keyed(out, K) /\ Range(out) \subseteq Range(list)
<1>1. /\ g \in [DOMAIN out -> DOMAIN list]
      /\ \A i, j \in DOMAIN out : i # j => g[i] # g[j]
      /\ \A i \in DOMAIN out : out[i] = list[g[i]]
  BY DEF Pulls
<1>2. Keyed(out, K)
  BY <1>1 DEF Keyed
<1>3. \A i \in DOMAIN out : out[i] \in Range(list)
  BY <1>1 DEF Range
<1>4. Range(out) \subseteq Range(list)
  BY <1>3 DEF Range
<1>5. QED
  BY <1>2, <1>4

\* f goes through the places that are selected
Chooses(f, at, list, out, V) ==
    /\ out \in Seq(V)
    /\ f \in [DOMAIN out -> at]
    /\ \A i \in at : \E k \in DOMAIN out : f[k] = i
    /\ \A j, k \in DOMAIN out : j < k => f[j] < f[k] /\ f[j] # f[k]
    /\ \A k \in DOMAIN out : out[k] = list[f[k]]
    /\ Pulls(f, out, list)

\* Select goes through the places that are selected
LEMMA SelectChooses ==
  ASSUME NEW V, NEW list \in Seq(V), NEW at \in SUBSET DOMAIN list
  PROVE  \E f : Chooses(f, at, list, Select(list, at), V)
<1> DEFINE out == Select(list, at)
           n == Len(list)
<1>1. n \in Nat /\ DOMAIN list = 1 .. n /\ \A i \in DOMAIN list : list[i] \in V
  BY ListIs, Zenon
<1>2. at \in SUBSET (1 .. n) /\ \A i \in at : list[i] \in V /\ i \in Nat
  BY <1>1
<1> HIDE DEF n
<1>3. out \in Seq(V) /\ Keeps(out, list, at)
  BY <1>1, <1>2, SelectKeeps
<1>4. PICK f : Picks(f, at, list, out)
  BY <1>1, <1>2, SelectIs
<1> HIDE DEF out
<1>5. DOMAIN out = 1 .. Cardinality(at) /\ DOMAIN out \subseteq Nat
  <2>1. DOMAIN out = 1 .. Len(out) /\ Len(out) = Cardinality(at)
    BY <1>3 DEF Keeps
  <2>2. QED
    BY <2>1
<1>6. /\ f \in [DOMAIN out -> at]
      /\ \A i \in at : \E k \in DOMAIN out : f[k] = i
      /\ \A j, k \in DOMAIN out : j < k => f[j] < f[k]
      /\ \A k \in DOMAIN out : out[k] = list[f[k]]
  <2>1. /\ f \in [1 .. Cardinality(at) -> at]
        /\ \A i \in at : \E k \in 1 .. Cardinality(at) : f[k] = i
        /\ \A j, k \in 1 .. Cardinality(at) : j < k => f[j] < f[k]
        /\ out = [k \in 1 .. Cardinality(at) |-> list[f[k]]]
    BY <1>4 DEF Picks
  <2>2. QED
    BY <2>1, <1>5
<1>7. \A x, y \in at : x < y => x # y
  BY <1>2
<1>8. \A j, k \in DOMAIN out : j < k => f[j] < f[k] /\ f[j] # f[k]
  BY <1>6, <1>7
<1>9. ASSUME NEW i \in DOMAIN out, NEW j \in DOMAIN out, i # j PROVE f[i] # f[j]
  <2>1. i < j \/ j < i
    BY <1>5, <1>9
  <2>2. QED
    BY <2>1, <1>8
<1>10. f \in [DOMAIN out -> DOMAIN list]
  BY <1>6
<1>11. Pulls(f, out, list)
  BY <1>6, <1>9, <1>10 DEF Pulls
<1>12. QED
  BY <1>3, <1>6, <1>8, <1>11 DEF Chooses, out

-----------------------------------------------------------------------------

Relation == [edge : STRING \X STRING, hits : Nat, score : 0 .. 100]

EndsIn == [r \in Relation |-> {r.edge[1], r.edge[2]}]

\* the ends of a relation, as a key
LEMMA EndsInAre == \A r \in Relation : EndsIn[r] = {r.edge[1], r.edge[2]}
BY DEF EndsIn

\* the relations with two ends, each once
LEMMA DistinctAre ==
  ASSUME NEW rels \in Seq(Relation)
  PROVE  LET found == Select(rels, WithEnds(rels))
             d     == Distinct(rels)
         IN /\ found \in Seq(Relation) /\ d \in Seq(Relation) /\ Range(d) \subseteq Range(found)
            /\ Keyed(d, EndsIn) /\ (found # <<>> => d # <<>>)
<1> DEFINE found == Select(rels, WithEnds(rels))
           d == Select(found, Firsts(found, EndsIn))
<1>1. Len(rels) \in Nat /\ DOMAIN rels = 1 .. Len(rels) /\ \A i \in DOMAIN rels : rels[i] \in Relation
  BY ListIs, Zenon
<1>2. WithEnds(rels) \in SUBSET (1 .. Len(rels)) /\ \A i \in WithEnds(rels) : rels[i] \in Relation
  BY <1>1 DEF WithEnds
<1>3. found \in Seq(Relation)
  BY <1>1, <1>2, SelectKeeps
<1> HIDE DEF found
<1>4. \A i \in DOMAIN found : found[i] \in Relation /\ \A j \in 1 .. i - 1 : j \in DOMAIN found
  BY <1>3, SeqIs, Zenon
<1>5. \A i \in DOMAIN found : EdgeKey(found[i].edge) = EndsIn[found[i]]
  BY <1>4, EndsInAre DEF EdgeKey
<1>6. Firsts(found, EndsIn) =
        {i \in DOMAIN found : \A j \in 1 .. i - 1 : EdgeKey(found[j].edge) # EdgeKey(found[i].edge)}
  BY <1>4, <1>5 DEF Firsts
<1>7. Distinct(rels) = d
  BY <1>6 DEF Distinct, FirstOfEach, found
<1>8. KeepsFirsts(d, found, Relation, EndsIn)
  BY <1>3, FirstsKeep
<1> HIDE DEF d
<1>9. /\ d \in Seq(Relation) /\ Range(d) \subseteq Range(found)
      /\ \A i, j \in DOMAIN d : i # j => EndsIn[d[i]] # EndsIn[d[j]]
      /\ \A i \in DOMAIN found : \E k \in DOMAIN d : TRUE
  BY <1>8 DEF KeepsFirsts
<1>10. ASSUME found # <<>> PROVE d # <<>>
  <2>1. 1 \in DOMAIN found
    <3>1. Len(found) \in Nat /\ DOMAIN found = 1 .. Len(found) /\ Len(found) # 0
      BY <1>3, <1>10, EmptySeq
    <3>2. QED
      BY <3>1
  <2>2. PICK k \in DOMAIN d : TRUE
    BY <2>1, <1>9
  <2>3. DOMAIN <<>> = {}
    OBVIOUS
  <2>4. QED
    BY <2>2, <2>3
<1>11. Keyed(d, EndsIn)
  BY <1>9 DEF Keyed
<1>12. QED
  BY <1>3, <1>7, <1>9, <1>10, <1>11 DEF found

Limit == [minHits : Nat, minScore : 0 .. 100, topK : Nat \ {0}]

\* those with enough keywords, or the best without
HasHits(d, lim) == {r \in Range(d) : r.hits >= lim.minHits}

KeptByHits(b, d, lim) ==
    /\ b \in Seq(Relation) /\ Keyed(b, EndsIn) /\ Range(b) \subseteq Range(d)
    /\ d # <<>> => b # <<>>
    /\ HasHits(d, lim) \subseteq Range(b)
    /\ HasHits(d, lim) # {} => Range(b) = HasHits(d, lim)

\* by keywords: those with enough of them, or the best if there are none
LEMMA HitsKeep ==
  ASSUME NEW d \in Seq(Relation), Keyed(d, EndsIn), NEW lim \in Limit
  PROVE  KeptByHits(ByKeywords(d, lim), d, lim)
<1> DEFINE at == EnoughHits(d, lim)
           kept == Select(d, at)
           hits == [i \in DOMAIN d |-> d[i].hits]
           best == Top(Ranked(hits), lim.topK)
           stand == [i \in DOMAIN best |-> d[best[i]]]
           b == ByKeywords(d, lim)
           n == Len(d)
<1>1. n \in Nat /\ DOMAIN d = 1 .. n /\ \A i \in DOMAIN d : d[i] \in Relation
  BY ListIs, Zenon
<1>2. \A i \in DOMAIN d : d[i].hits \in Nat
  BY <1>1 DEF Relation
<1>3. lim.minHits \in Nat /\ lim.topK \in Nat /\ lim.topK >= 1
  BY DEF Limit
<1>4. at \in SUBSET DOMAIN d /\ \A i \in DOMAIN d : i \in at <=> d[i].hits >= lim.minHits
  BY DEF EnoughHits
<1>5. b = IF kept # <<>> THEN kept ELSE stand
  BY DEF ByKeywords
<1> HIDE DEF at, n
<1>6. PICK f : Chooses(f, at, d, kept, Relation)
  BY <1>4, SelectChooses
<1> HIDE DEF kept
<1>7. /\ kept \in Seq(Relation) /\ f \in [DOMAIN kept -> at] /\ Pulls(f, kept, d)
      /\ \A i \in at : \E k \in DOMAIN kept : f[k] = i
      /\ \A k \in DOMAIN kept : kept[k] = d[f[k]]
  BY <1>6 DEF Chooses
<1>8. Range(kept) = HasHits(d, lim)
  <2>1. Range(kept) \subseteq HasHits(d, lim)
    <3>1. \A k \in DOMAIN kept : kept[k] \in Range(d) /\ kept[k].hits >= lim.minHits
      BY <1>4, <1>7 DEF Range
    <3>2. QED
      BY <3>1 DEF HasHits, Range
  <2>2. ASSUME NEW r \in HasHits(d, lim) PROVE r \in Range(kept)
    <3>1. PICK i \in DOMAIN d : d[i] = r /\ d[i].hits >= lim.minHits
      BY DEF HasHits, Range
    <3>2. i \in at
      BY <3>1, <1>4
    <3>3. PICK k \in DOMAIN kept : f[k] = i
      BY <3>2, <1>7
    <3>4. QED
      BY <3>1, <3>3, <1>7 DEF Range
  <2>3. QED
    BY <2>1, <2>2
<1>9. CASE kept # <<>>
  <2>1. Keyed(kept, EndsIn) /\ Range(kept) \subseteq Range(d)
    BY <1>7, PulledIs
  <2>2. QED
    BY <2>1, <1>5, <1>7, <1>8, <1>9 DEF KeptByHits
<1>10. CASE kept = <<>>
  <2>1. HasHits(d, lim) = {}
    <3>1. Range(<<>>) = {}
      BY DEF Range
    <3>2. QED
      BY <3>1, <1>8, <1>10
  <2>2. hits \in Seq(Nat) /\ Len(hits) = n
    BY <1>1, <1>2
  <2> HIDE DEF hits
  <2>3. Ranks(Ranked(hits), hits)
    BY <2>2, RankedIs
  <2> DEFINE rk == Ranked(hits)
  <2>4. /\ rk \in Seq(1 .. n) /\ Len(rk) = n /\ DOMAIN rk = 1 .. n
        /\ \A j, k \in 1 .. n : j < k => rk[j] # rk[k]
    BY <2>2, <2>3 DEF Ranks
  <2> HIDE DEF rk
  <2>5. /\ Top(rk, lim.topK) \in Seq(1 .. n) /\ Len(Top(rk, lim.topK)) <= n
        /\ Len(Top(rk, lim.topK)) = IF lim.topK < n THEN lim.topK ELSE n
        /\ \A i \in 1 .. Len(Top(rk, lim.topK)) : Top(rk, lim.topK)[i] = rk[i]
    BY <2>4, <1>3, TopIs
  <2>6. best = Top(rk, lim.topK)
    BY DEF rk
  <2> HIDE DEF best
  <2>7. /\ best \in Seq(1 .. n) /\ Len(best) \in Nat /\ Len(best) <= n /\ DOMAIN best = 1 .. Len(best)
        /\ \A i \in 1 .. Len(best) : best[i] = rk[i] /\ best[i] \in DOMAIN d /\ i \in 1 .. n
        /\ (n # 0 => Len(best) # 0)
    <3>1. best \in Seq(1 .. n) /\ Len(best) = (IF lim.topK < n THEN lim.topK ELSE n) /\ Len(best) <= n
          /\ \A i \in 1 .. Len(best) : best[i] = rk[i]
      BY <2>5, <2>6
    <3>2. Len(best) \in Nat /\ DOMAIN best = 1 .. Len(best) /\ \A i \in 1 .. Len(best) : best[i] \in 1 .. n
      BY <3>1, SeqIs, Zenon
    <3>3. n # 0 => Len(best) # 0
      BY <3>1, <1>1, <1>3
    <3>4. \A i \in 1 .. Len(best) : i \in 1 .. n
      BY <3>1, <3>2, <1>1
    <3>5. QED
      BY <3>1, <3>2, <3>3, <3>4, <1>1
  <2>8. stand \in Seq(Relation) /\ Len(stand) = Len(best) /\ DOMAIN stand = 1 .. Len(best)
        /\ \A i \in 1 .. Len(best) : stand[i] = d[best[i]]
    <3>1. \A i \in 1 .. Len(best) : d[best[i]] \in Relation
      BY <2>7, <1>1
    <3>2. QED
      BY <3>1, <2>7
  <2> HIDE DEF stand
  <2>9. ASSUME NEW i \in 1 .. Len(best), NEW j \in 1 .. Len(best), i # j PROVE best[i] # best[j]
    <3>1. i < j \/ j < i
      BY <2>7, <2>9
    <3>2. QED
      BY <3>1, <2>4, <2>7
  <2>10. Pulls(best, stand, d)
    <3>1. best \in [DOMAIN stand -> DOMAIN d]
      BY <2>7, <2>8, <1>1
    <3>2. QED
      BY <3>1, <2>8, <2>9 DEF Pulls
  <2>11. Keyed(stand, EndsIn) /\ Range(stand) \subseteq Range(d)
    BY <2>10, PulledIs
  <2>12. d # <<>> => stand # <<>>
    <3>1. d # <<>> => n # 0
      BY EmptySeq DEF n
    <3>2. Len(stand) # 0 => stand # <<>>
      OBVIOUS
    <3>3. QED
      BY <3>1, <3>2, <2>7, <2>8
  <2>13. QED
    BY <2>1, <2>8, <2>11, <2>12, <1>5, <1>10 DEF KeptByHits
<1>11. QED
  BY <1>9, <1>10

Results(n) == [index : 1 .. n, score : Nat]

\* every place once
EachOnce(all, n) ==
    /\ all \in Seq(Results(n))
    /\ \A i, j \in DOMAIN all : i # j => all[i].index # all[j].index

\* from the best to the worst, and none better than those is left out
InOrder(all, scores) ==
    LET n == Len(scores)
    IN /\ \A p \in 1 .. n : \/ \E i \in DOMAIN all : all[i].index = p
                           \/ \A i \in DOMAIN all : scores[p] <= scores[all[i].index]
       /\ \A i, j \in DOMAIN all : i < j => all[i].score >= all[j].score
       /\ \A i, j \in DOMAIN all :
             all[i].score >= all[j].score => scores[all[i].index] >= scores[all[j].index]

\* ranked by score: all of them, from the best, which gets 100
LEMMA OrderIs ==
  ASSUME NEW scores \in Seq(0 .. 100), scores # <<>>
  PROVE  LET all == Order(scores, Len(scores))
         IN /\ EachOnce(all, Len(scores)) /\ InOrder(all, scores)
            /\ \E i \in DOMAIN all : all[i].score = 100
<1> DEFINE n == Len(scores)
           norm == Normalized(scores)
           rk == Ranked(norm)
           all == Order(scores, n)
<1>1. n \in Nat /\ DOMAIN scores = 1 .. n /\ \A i \in 1 .. n : scores[i] \in 0 .. 100
  BY ListIs, Zenon
<1>2. /\ norm \in Seq(Nat) /\ Len(norm) = n
      /\ \A i, j \in DOMAIN scores : scores[i] < scores[j] => norm[i] < norm[j]
      /\ \E i \in DOMAIN scores : norm[i] = 100
  BY NormalizedIs
<1>3. all = [i \in DOMAIN Top(rk, n) |-> [index |-> rk[i], score |-> norm[rk[i]]]]
  BY DEF Order
<1> HIDE DEF all, norm
<1>4. Ranks(rk, norm)
  BY <1>2, RankedIs
<1> HIDE DEF rk, n
<1>5. /\ rk \in Seq(1 .. n) /\ Len(rk) = n /\ DOMAIN rk = 1 .. n
      /\ \A p \in 1 .. n : \E k \in 1 .. n : rk[k] = p
      /\ \A j, k \in 1 .. n : j < k => norm[rk[j]] >= norm[rk[k]] /\ rk[j] # rk[k]
  BY <1>2, <1>4 DEF Ranks
<1>6. \A i \in 1 .. n : rk[i] \in 1 .. n
  BY <1>5, SeqIs, Zenon
<1>7. \A i \in 1 .. n : norm[i] \in Nat
  BY <1>2
<1>8. DOMAIN Top(rk, n) = 1 .. n
  <2>1. Top(rk, n) \in Seq(1 .. n) /\ Len(Top(rk, n)) = IF n < Len(rk) THEN n ELSE Len(rk)
    <3>1. n \in Nat /\ rk \in Seq(1 .. n)
      BY <1>1, <1>5
    <3>2. QED
      BY <3>1, TopIs
  <2>2. Len(Top(rk, n)) = n
    BY <2>1, <1>1, <1>5
  <2>3. QED
    BY <2>1, <2>2, SeqIs
<1>9. all = [i \in 1 .. n |-> [index |-> rk[i], score |-> norm[rk[i]]]]
  BY <1>3, <1>8
<1>10. /\ all \in Seq(Results(n)) /\ DOMAIN all = 1 .. n
       /\ \A i \in 1 .. n : all[i].index = rk[i] /\ all[i].score = norm[rk[i]]
  <2>1. \A i \in 1 .. n : [index |-> rk[i], score |-> norm[rk[i]]] \in Results(n)
    BY <1>6, <1>7 DEF Results
  <2>2. all \in [1 .. n -> Results(n)]
    BY <2>1, <1>9
  <2>3. all \in Seq(Results(n)) /\ DOMAIN all = 1 .. n
    BY <2>2, <1>1
  <2>4. QED
    BY <2>3, <1>9
<1>11. ASSUME NEW i \in 1 .. n, NEW j \in 1 .. n, i # j PROVE rk[i] # rk[j]
  <2>1. i < j \/ j < i
    BY <1>1, <1>11
  <2>2. QED
    BY <2>1, <1>5
<1>12. EachOnce(all, n)
  BY <1>10, <1>11 DEF EachOnce
<1>13. ASSUME NEW i \in 1 .. n, NEW j \in 1 .. n, norm[rk[i]] >= norm[rk[j]]
       PROVE  scores[rk[i]] >= scores[rk[j]]
  <2>1. rk[i] \in 1 .. n /\ rk[j] \in 1 .. n
    BY <1>6
  <2>2. ~ (norm[rk[i]] < norm[rk[j]])
    <3>1. norm[rk[i]] \in Nat /\ norm[rk[j]] \in Nat
      BY <2>1, <1>7
    <3>2. QED
      BY <3>1, <1>13
  <2>3. ~ (scores[rk[i]] < scores[rk[j]])
    BY <2>1, <2>2, <1>1, <1>2
  <2>4. scores[rk[i]] \in 0 .. 100 /\ scores[rk[j]] \in 0 .. 100
    BY <2>1, <1>1
  <2>5. QED
    <3>1. \A x, y \in 0 .. 100 : ~ (x < y) => x >= y
      OBVIOUS
    <3>2. QED
      BY <2>3, <2>4, <3>1
<1>14. InOrder(all, scores)
  <2>1. \A p \in 1 .. n : \E i \in DOMAIN all : all[i].index = p
    <3>1. ASSUME NEW p \in 1 .. n PROVE \E i \in DOMAIN all : all[i].index = p
      <4>1. PICK k \in 1 .. n : rk[k] = p
        BY <1>5
      <4>2. k \in DOMAIN all /\ all[k].index = p
        BY <4>1, <1>10
      <4>3. QED
        BY <4>2
    <3>2. QED
      BY <3>1
  <2>2. \A i, j \in DOMAIN all : i < j => all[i].score >= all[j].score
    <3>1. ASSUME NEW i \in 1 .. n, NEW j \in 1 .. n, i < j PROVE all[i].score >= all[j].score
      <4>1. norm[rk[i]] >= norm[rk[j]]
        BY <3>1, <1>5
      <4>2. QED
        BY <4>1, <1>10
    <3>2. QED
      BY <3>1, <1>10
  <2>3. \A i, j \in DOMAIN all :
           all[i].score >= all[j].score => scores[all[i].index] >= scores[all[j].index]
    BY <1>10, <1>13
  <2>4. QED
    BY <2>1, <2>2, <2>3 DEF InOrder, n
<1>15. \E i \in DOMAIN all : all[i].score = 100
  <2>1. PICK p \in 1 .. n : norm[p] = 100
    BY <1>1, <1>2
  <2>2. PICK k \in 1 .. n : rk[k] = p
    BY <1>5
  <2>3. QED
    BY <2>1, <2>2, <1>10
<1>16. QED
  BY <1>12, <1>14, <1>15 DEF all, n

\* the results of a ranking: each once, in order, and the best among them
RanksBest(all, scores) ==
    /\ EachOnce(all, Len(scores)) /\ InOrder(all, scores)
    /\ \E i \in DOMAIN all : all[i].score = 100

\* so it is for the cap best ones
LEMMA AnsweredIs ==
  ASSUME NEW scores \in Seq(0 .. 100), scores # <<>>, NEW cap \in Nat \ {0}
  PROVE  RanksBest(Answered(scores, cap), scores)
<1> DEFINE n == Len(scores)
           rk == Ranked(scores)
           best == Top(rk, cap)
           m == Len(best)
           got == [i \in DOMAIN best |-> scores[best[i]]]
           order == Order(got, m)
           all == Answered(scores, cap)
<1>1. n \in Nat /\ DOMAIN scores = 1 .. n /\ \A i \in 1 .. n : scores[i] \in 0 .. 100
  BY ListIs, Zenon
<1>2. n # 0
  BY EmptySeq
<1>3. all = [i \in DOMAIN order |-> [index |-> best[order[i].index], score |-> order[i].score]]
  BY DEF Answered
<1> HIDE DEF all
<1>4. Ranks(rk, scores)
  <2>1. \A x \in 0 .. 100 : x \in Nat
    OBVIOUS
  <2>2. 0 .. 100 \subseteq Nat
    BY <2>1
  <2>3. scores \in Seq(Nat)
    BY <2>2, SeqMonotonic, Zenon
  <2>4. QED
    BY <2>3, RankedIs
<1> HIDE DEF rk, n
<1>5. /\ rk \in Seq(1 .. n) /\ Len(rk) = n /\ DOMAIN rk = 1 .. n
      /\ \A p \in 1 .. n : \E k \in 1 .. n : rk[k] = p
      /\ \A j, k \in 1 .. n : j < k => scores[rk[j]] >= scores[rk[k]] /\ rk[j] # rk[k]
  BY <1>4 DEF Ranks, n
<1>6. /\ best \in Seq(1 .. n) /\ m = (IF cap < n THEN cap ELSE n)
      /\ \A i \in 1 .. m : best[i] = rk[i]
  <2>1. cap \in Nat /\ rk \in Seq(1 .. n)
    BY <1>5
  <2>2. /\ best \in Seq(1 .. n) /\ Len(best) = (IF cap < Len(rk) THEN cap ELSE Len(rk))
        /\ \A i \in 1 .. Len(best) : best[i] = rk[i]
    BY <2>1, TopIs
  <2>3. QED
    BY <2>2, <1>5
<1>7. m \in Nat /\ m # 0 /\ m <= n
  BY <1>1, <1>2, <1>6
<1>8. DOMAIN best = 1 .. m /\ \A i \in 1 .. m : best[i] \in 1 .. n
  BY <1>6, SeqIs, Zenon
<1> HIDE DEF best, m
<1>9. /\ got \in Seq(0 .. 100) /\ Len(got) = m /\ DOMAIN got = 1 .. m /\ got # <<>>
      /\ \A i \in 1 .. m : got[i] = scores[best[i]]
  <2>1. got \in [1 .. m -> 0 .. 100] /\ \A i \in 1 .. m : got[i] = scores[best[i]]
    BY <1>1, <1>8
  <2> HIDE DEF got
  <2>2. got \in Seq(0 .. 100) /\ Len(got) = m /\ DOMAIN got = 1 .. m
    BY <2>1, <1>7
  <2>3. got # <<>>
    BY <2>2, <1>7
  <2>4. QED
    BY <2>1, <2>2, <2>3
<1> HIDE DEF got
<1>10. /\ EachOnce(order, m) /\ InOrder(order, got)
       /\ \E i \in DOMAIN order : order[i].score = 100
  <2>1. /\ EachOnce(Order(got, Len(got)), Len(got)) /\ InOrder(Order(got, Len(got)), got)
        /\ \E i \in DOMAIN Order(got, Len(got)) : Order(got, Len(got))[i].score = 100
    BY <1>9, OrderIs
  <2>2. QED
    BY <2>1, <1>9
<1> HIDE DEF order
<1>11. /\ order \in Seq(Results(m))
       /\ \A i, j \in DOMAIN order : i # j => order[i].index # order[j].index
       /\ \A p \in 1 .. m : \/ \E i \in DOMAIN order : order[i].index = p
                           \/ \A i \in DOMAIN order : got[p] <= got[order[i].index]
       /\ \A i, j \in DOMAIN order : i < j => order[i].score >= order[j].score
       /\ \A i, j \in DOMAIN order :
             order[i].score >= order[j].score => got[order[i].index] >= got[order[j].index]
  BY <1>9, <1>10 DEF EachOnce, InOrder
<1> DEFINE l == Len(order)
<1>12. l \in Nat /\ DOMAIN order = 1 .. l
       /\ \A i \in 1 .. l : order[i].index \in 1 .. m /\ order[i].score \in Nat
  <2>1. l \in Nat /\ DOMAIN order = 1 .. l /\ \A i \in 1 .. l : order[i] \in Results(m)
    BY <1>11, SeqIs, Zenon
  <2>2. QED
    BY <2>1 DEF Results
<1> HIDE DEF l
<1>13. /\ all \in Seq(Results(n)) /\ DOMAIN all = 1 .. l
       /\ \A i \in 1 .. l : all[i].index = best[order[i].index] /\ all[i].score = order[i].score
  <2>1. \A i \in 1 .. l : [index |-> best[order[i].index], score |-> order[i].score] \in Results(n)
    BY <1>8, <1>12 DEF Results
  <2>2. all \in [1 .. l -> Results(n)]
    BY <2>1, <1>3, <1>12
  <2>3. all \in Seq(Results(n)) /\ DOMAIN all = 1 .. l
    BY <2>2, <1>12
  <2>4. QED
    BY <2>3, <1>3, <1>12
<1>14. \A i, j \in 1 .. m : i # j => best[i] # best[j]
  <2>1. ASSUME NEW i \in 1 .. m, NEW j \in 1 .. m, i # j PROVE rk[i] # rk[j]
    <3>1. i \in 1 .. n /\ j \in 1 .. n /\ (i < j \/ j < i)
      BY <2>1, <1>1, <1>7
    <3>2. QED
      BY <3>1, <1>5
  <2>2. QED
    BY <2>1, <1>6
<1>15. EachOnce(all, n)
  <2>1. \A i, j \in DOMAIN all : i # j => all[i].index # all[j].index
    <3>1. ASSUME NEW i \in 1 .. l, NEW j \in 1 .. l, i # j PROVE all[i].index # all[j].index
      <4>1. order[i].index # order[j].index /\ order[i].index \in 1 .. m /\ order[j].index \in 1 .. m
        BY <3>1, <1>11, <1>12
      <4>2. best[order[i].index] # best[order[j].index]
        BY <4>1, <1>14
      <4>3. QED
        BY <4>2, <1>13
    <3>2. QED
      BY <3>1, <1>13
  <2>2. QED
    BY <2>1, <1>13 DEF EachOnce
<1>16. \A i \in 1 .. l : got[order[i].index] = scores[all[i].index]
  BY <1>9, <1>12, <1>13
<1>17. InOrder(all, scores)
  <2>1. ASSUME NEW p \in 1 .. n, NEW i \in 1 .. l, \A j \in 1 .. l : all[j].index # p
        PROVE  scores[p] <= scores[all[i].index]
    <3>1. PICK k \in 1 .. n : rk[k] = p
      BY <1>5
    <3> DEFINE h == order[i].index
    <3>2. h \in 1 .. m /\ all[i].index = rk[h] /\ h \in 1 .. n
      BY <1>1, <1>6, <1>7, <1>12, <1>13
    <3> HIDE DEF h
    <3>3. \A x \in 1 .. n : rk[x] \in 1 .. n
      BY <1>5, SeqIs, Zenon
    <3>4. rk[h] \in 1 .. n /\ scores[p] \in 0 .. 100 /\ scores[rk[h]] \in 0 .. 100
      BY <3>2, <3>3, <1>1
    <3>5. CASE k \in 1 .. m
      <4>1. got[k] = scores[p]
        BY <3>1, <3>5, <1>6, <1>9
      <4>2. ~ \E j \in DOMAIN order : order[j].index = k
        <5>1. ASSUME NEW j \in 1 .. l, order[j].index = k PROVE FALSE
          <6>1. all[j].index = best[k]
            BY <5>1, <1>13
          <6>2. best[k] = p
            BY <3>1, <3>5, <1>6
          <6>3. QED
            BY <6>1, <6>2, <2>1
        <5>2. QED
          BY <5>1, <1>12
      <4>3. got[k] <= got[order[i].index]
        BY <3>5, <4>2, <1>11, <1>12
      <4>4. QED
        BY <4>1, <4>3, <1>16
    <3>6. CASE k \notin 1 .. m
      <4>1. h < k
        BY <3>1, <3>2, <3>6, <1>1, <1>7
      <4>2. scores[rk[h]] >= scores[rk[k]]
        BY <3>1, <3>2, <4>1, <1>5
      <4>3. QED
        BY <3>1, <3>2, <3>4, <4>2
    <3>7. QED
      BY <3>5, <3>6
  <2>2. \A p \in 1 .. n : \/ \E i \in DOMAIN all : all[i].index = p
                         \/ \A i \in DOMAIN all : scores[p] <= scores[all[i].index]
    BY <2>1, <1>13
  <2>3. \A i, j \in DOMAIN all : i < j => all[i].score >= all[j].score
    BY <1>11, <1>12, <1>13
  <2>4. \A i, j \in DOMAIN all :
           all[i].score >= all[j].score => scores[all[i].index] >= scores[all[j].index]
    <3>1. ASSUME NEW i \in 1 .. l, NEW j \in 1 .. l, all[i].score >= all[j].score
          PROVE  scores[all[i].index] >= scores[all[j].index]
      <4>1. got[order[i].index] >= got[order[j].index]
        BY <3>1, <1>11, <1>12, <1>13
      <4>2. QED
        BY <4>1, <1>16
    <3>2. QED
      BY <3>1, <1>13
  <2>5. QED
    BY <2>2, <2>3, <2>4 DEF InOrder, n
<1>18. \E i \in DOMAIN all : all[i].score = 100
  BY <1>10, <1>12, <1>13
<1>19. QED
  BY <1>15, <1>17, <1>18 DEF all, n, RanksBest

\* what is left of b, with the reranker it was ranked by
LeftOf(left, b, backend) ==
    /\ left \in Seq(Relation) /\ left # <<>>
    /\ \E g : Pulls(g, left, b)
    /\ backend \in {"api", "capped", "local"} =>
          /\ \A i, j \in DOMAIN left : i < j => left[i].score >= left[j].score
          /\ \A p \in DOMAIN b :
                \/ \E j \in DOMAIN left : left[j] = b[p]
                \/ \A i \in DOMAIN left : b[p].score <= left[i].score

\* by rank: those with a good score, the best first
LEMMA RankKeeps ==
  ASSUME NEW b \in Seq(Relation), b # <<>>, NEW backend \in {"api", "capped", "local", "broken"},
         NEW embedding, NEW lim \in Limit
  PROVE  LeftOf(ByRank(b, backend, embedding, lim), b, backend)
<1> DEFINE n == Len(b)
           scores == [i \in DOMAIN b |-> b[i].score]
           all == Rerank(backend, scores, embedding)
           at == {i \in DOMAIN all : all[i].score >= lim.minScore}
           results == Select(all, at)
           left == [i \in DOMAIN results |-> b[results[i].index]]
<1>1. n \in Nat /\ DOMAIN b = 1 .. n /\ \A i \in 1 .. n : b[i] \in Relation
  BY ListIs, Zenon
<1>2. n # 0
  BY EmptySeq
<1>3. lim.minScore \in Nat /\ 100 >= lim.minScore
  <2>1. \A x \in 0 .. 100 : x \in Nat /\ 100 >= x
    OBVIOUS
  <2>2. lim.minScore \in 0 .. 100
    BY DEF Limit
  <2>3. QED
    BY <2>1, <2>2
<1>4. \A i \in 1 .. n : b[i].score \in 0 .. 100
  BY <1>1 DEF Relation
<1>5. ByRank(b, backend, embedding, lim) = left
  BY DEF ByRank
<1> HIDE DEF n
<1>6. scores \in Seq(0 .. 100) /\ Len(scores) = n /\ DOMAIN scores = 1 .. n
      /\ (\A i \in 1 .. n : scores[i] = b[i].score) /\ scores # <<>>
  <2>1. scores \in [1 .. n -> 0 .. 100] /\ \A i \in 1 .. n : scores[i] = b[i].score
    BY <1>1, <1>4
  <2> HIDE DEF scores
  <2>2. scores \in Seq(0 .. 100) /\ Len(scores) = n /\ DOMAIN scores = 1 .. n
    BY <2>1, <1>1
  <2>3. scores # <<>>
    BY <2>2, <1>2
  <2>4. QED
    BY <2>1, <2>2, <2>3
<1> HIDE DEF scores
<1>7. /\ EachOnce(all, n)
      /\ \E i \in DOMAIN all : all[i].score = 100
      /\ backend \in {"api", "capped", "local"} => InOrder(all, scores)
  <2>1. CASE backend = "broken"
    <3>1. all = [i \in 1 .. n |-> [index |-> i, score |-> 100]]
      BY <2>1, <1>6 DEF Rerank
    <3> HIDE DEF all
    <3>2. all \in Seq(Results(n)) /\ DOMAIN all = 1 .. n
          /\ \A i \in 1 .. n : all[i].index = i /\ all[i].score = 100
      <4>1. \A i \in 1 .. n : [index |-> i, score |-> 100] \in Results(n)
        BY DEF Results
      <4>2. all \in [1 .. n -> Results(n)]
        BY <4>1, <3>1
      <4>3. QED
        BY <4>2, <3>1, <1>1
    <3>3. EachOnce(all, n)
      BY <3>2 DEF EachOnce
    <3>4. 1 \in DOMAIN all
      BY <3>2, <1>1, <1>2
    <3>5. QED
      BY <3>2, <3>3, <3>4, <2>1
  <2>2. CASE backend = "capped"
    <3>1. all = Answered(scores, ApiCap)
      BY <2>2, <1>6 DEF Rerank
    <3>2. ApiCap \in Nat \ {0}
      BY DEF ApiCap
    <3>3. RanksBest(Answered(scores, ApiCap), scores)
      BY <3>2, <1>6, AnsweredIs
    <3> HIDE DEF all
    <3>4. QED
      BY <3>1, <3>3, <1>6 DEF RanksBest
  <2>3. CASE backend \in {"api", "local"}
    <3>1. all = Order(scores, Len(scores))
      BY <2>3, <1>6 DEF Rerank
    <3>2. /\ EachOnce(Order(scores, Len(scores)), Len(scores)) /\ InOrder(Order(scores, Len(scores)), scores)
          /\ \E i \in DOMAIN Order(scores, Len(scores)) : Order(scores, Len(scores))[i].score = 100
      BY <1>6, OrderIs
    <3> HIDE DEF all
    <3>3. QED
      BY <3>1, <3>2, <1>6
  <2>4. QED
    BY <2>1, <2>2, <2>3
<1> HIDE DEF all
<1>8. /\ all \in Seq(Results(n))
      /\ \A i, j \in DOMAIN all : i # j => all[i].index # all[j].index
  BY <1>7 DEF EachOnce
<1>9. \A i \in DOMAIN all : all[i].index \in 1 .. n /\ all[i].score \in Nat
  <2>1. \A i \in DOMAIN all : all[i] \in Results(n)
    BY <1>8, SeqIs, Zenon
  <2>2. QED
    BY <2>1 DEF Results
<1>10. at \in SUBSET DOMAIN all /\ \A i \in DOMAIN all : i \in at <=> all[i].score >= lim.minScore
  OBVIOUS
<1> HIDE DEF at
<1>11. PICK f : Chooses(f, at, all, results, Results(n))
  BY <1>8, <1>10, SelectChooses
<1> HIDE DEF results
<1>12. /\ results \in Seq(Results(n)) /\ f \in [DOMAIN results -> at]
       /\ \A i \in at : \E k \in DOMAIN results : f[k] = i
       /\ \A j, k \in DOMAIN results : j < k => f[j] < f[k] /\ f[j] # f[k]
       /\ \A k \in DOMAIN results : results[k] = all[f[k]]
       /\ Pulls(f, results, all)
  BY <1>11 DEF Chooses
<1>13. /\ Len(results) \in Nat /\ DOMAIN results = 1 .. Len(results)
       /\ \A k \in DOMAIN results : f[k] \in at /\ f[k] \in DOMAIN all
  BY <1>10, <1>12, SeqIs
<1> DEFINE g == [k \in DOMAIN results |-> all[f[k]].index]
<1>14. g \in [DOMAIN results -> 1 .. n] /\ \A k \in DOMAIN results : g[k] = all[f[k]].index
  BY <1>9, <1>13
<1>15. left = [k \in DOMAIN results |-> b[g[k]]]
  BY <1>12
<1> HIDE DEF g, left
<1>16. left \in Seq(Relation) /\ DOMAIN left = DOMAIN results /\ \A k \in DOMAIN left : left[k] = b[g[k]]
  <2>1. left \in [1 .. Len(results) -> Relation]
    BY <1>1, <1>13, <1>14, <1>15
  <2>2. left \in Seq(Relation) /\ DOMAIN left = DOMAIN results
    BY <2>1, <1>13
  <2>3. QED
    BY <2>2, <1>15
<1>17. Pulls(g, left, b)
  <2>1. ASSUME NEW i \in DOMAIN results, NEW j \in DOMAIN results, i # j PROVE g[i] # g[j]
    <3>1. f[i] # f[j]
      BY <2>1, <1>12 DEF Pulls
    <3>2. QED
      BY <3>1, <1>8, <1>13, <1>14
  <2>2. g \in [DOMAIN left -> DOMAIN b]
    BY <1>1, <1>14, <1>16
  <2>3. QED
    BY <2>1, <2>2, <1>16 DEF Pulls
<1>18. left # <<>>
  <2>1. PICK i \in DOMAIN all : all[i].score = 100
    BY <1>7
  <2>2. i \in at
    <3>1. 100 >= lim.minScore
      BY <1>3
    <3>2. QED
      BY <2>1, <3>1, <1>10
  <2>3. PICK k \in DOMAIN results : f[k] = i
    BY <2>2, <1>12
  <2>4. k \in DOMAIN left
    BY <1>16
  <2>5. DOMAIN <<>> = {}
    OBVIOUS
  <2>6. QED
    BY <2>4, <2>5
<1>19. ASSUME backend \in {"api", "capped", "local"}
       PROVE  /\ \A i, j \in DOMAIN left : i < j => left[i].score >= left[j].score
              /\ \A p \in DOMAIN b :
                    \/ \E j \in DOMAIN left : left[j] = b[p]
                    \/ \A i \in DOMAIN left : b[p].score <= left[i].score
  <2>1. /\ \A p \in 1 .. n : \/ \E i \in DOMAIN all : all[i].index = p
                            \/ \A i \in DOMAIN all : scores[p] <= scores[all[i].index]
        /\ \A i, j \in DOMAIN all : i < j => all[i].score >= all[j].score
        /\ \A i, j \in DOMAIN all :
              all[i].score >= all[j].score => scores[all[i].index] >= scores[all[j].index]
    BY <1>6, <1>7, <1>19 DEF InOrder
  <2>2. \A k \in DOMAIN left : left[k].score = scores[all[f[k]].index]
    BY <1>6, <1>14, <1>16
  <2>3. ASSUME NEW i \in DOMAIN left, NEW j \in DOMAIN left, i < j PROVE left[i].score >= left[j].score
    <3>1. f[i] < f[j] /\ f[i] \in DOMAIN all /\ f[j] \in DOMAIN all
      BY <2>3, <1>12, <1>13, <1>16
    <3>2. QED
      BY <3>1, <2>1, <2>2
  <2>4. ASSUME NEW p \in DOMAIN b, ~ \E j \in DOMAIN left : left[j] = b[p], NEW i \in DOMAIN left
        PROVE  b[p].score <= left[i].score
    <3>3. f[i] \in at /\ f[i] \in DOMAIN all
      BY <1>13, <1>16
    <3>4. ASSUME NEW q \in DOMAIN all, all[q].index = p PROVE scores[all[f[i]].index] >= scores[p]
      <4>1. q \notin at
        <5>1. ASSUME q \in at PROVE FALSE
          <6>1. PICK k \in DOMAIN results : f[k] = q
            BY <5>1, <1>12
          <6>2. k \in DOMAIN left /\ left[k] = b[p]
            BY <6>1, <3>4, <1>14, <1>16
          <6>3. QED
            BY <6>2, <2>4
        <5>2. QED
          BY <5>1
      <4>2. all[f[i]].score >= all[q].score
        <5>1. all[f[i]].score >= lim.minScore /\ ~ (all[q].score >= lim.minScore)
          BY <4>1, <3>3, <1>10
        <5>2. all[f[i]].score \in Nat /\ all[q].score \in Nat /\ lim.minScore \in Nat
          <6>1. lim.minScore \in Nat
            BY <1>3
          <6>2. QED
            BY <3>3, <6>1, <1>9
        <5>3. QED
          BY <5>1, <5>2
      <4>3. QED
        BY <3>3, <3>4, <4>2, <2>1
    <3>5. scores[p] <= scores[all[f[i]].index]
      <4>1. CASE \E q \in DOMAIN all : all[q].index = p
        <5>1. scores[all[f[i]].index] >= scores[p]
          BY <4>1, <3>4
        <5>2. scores[all[f[i]].index] \in 0 .. 100 /\ scores[p] \in 0 .. 100
          BY <3>3, <1>1, <1>4, <1>6, <1>9
        <5>3. QED
          BY <5>1, <5>2
      <4>2. CASE ~ \E q \in DOMAIN all : all[q].index = p
        BY <4>2, <3>3, <2>1, <1>1
      <4>3. QED
        BY <4>1, <4>2
    <3>6. scores[p] = b[p].score /\ scores[p] \in Nat /\ left[i].score = scores[all[f[i]].index]
          /\ scores[all[f[i]].index] \in Nat
      <4>1. p \in 1 .. n /\ all[f[i]].index \in 1 .. n
        BY <3>3, <1>1, <1>9
      <4>2. QED
        <5>1. \A x \in 1 .. n : scores[x] = b[x].score /\ scores[x] \in Nat
        <6>1. \A x \in 0 .. 100 : x \in Nat
          OBVIOUS
        <6>2. QED
          BY <6>1, <1>4, <1>6
      <5>2. QED
        BY <4>1, <5>1, <2>2
    <3>7. QED
      BY <3>5, <3>6
  <2>5. QED
    BY <2>3, <2>4
<1>20. LeftOf(left, b, backend)
  BY <1>16, <1>17, <1>18, <1>19 DEF LeftOf
<1>21. QED
  BY <1>5, <1>20 DEF left

\* what filter_relationships returns
LEMMA FilteredAre ==
  ASSUME NEW rels \in Seq(Relation), NEW backend \in {"none", "api", "capped", "local", "broken"},
         NEW embedding, NEW lim \in Limit
  PROVE  LET found == Select(rels, WithEnds(rels))
             d     == Distinct(rels)
             kept  == Filtered(rels, backend, embedding, lim)
             good  == HasHits(d, lim)
         IN /\ kept \in Seq(Relation)
            /\ found # <<>> => kept # <<>>
            /\ Len(kept) <= lim.topK /\ Range(kept) \subseteq Range(found)
            /\ Keyed(kept, EndsIn)
            /\ good # {} => Range(kept) \subseteq good
            /\ backend \in {"api", "capped", "local"} =>
                  /\ \A i, j \in DOMAIN kept : i < j => kept[i].score >= kept[j].score
                  /\ \A r \in good \ Range(kept), k \in Range(kept) : r.score <= k.score
<1> DEFINE found == Select(rels, WithEnds(rels))
           d     == Distinct(rels)
           b     == ByKeywords(d, lim)
           left  == IF backend = "none" \/ b = <<>> THEN b ELSE ByRank(b, backend, embedding, lim)
           kept  == Filtered(rels, backend, embedding, lim)
           good  == HasHits(d, lim)
<1>1. /\ d \in Seq(Relation) /\ Range(d) \subseteq Range(found)
      /\ Keyed(d, EndsIn) /\ (found # <<>> => d # <<>>)
  BY DistinctAre
<1>2. kept = Top(left, lim.topK)
  BY DEF Filtered
<1> HIDE DEF found, d, kept
<1>3. KeptByHits(b, d, lim)
  BY <1>1, HitsKeep
<1>4. /\ b \in Seq(Relation) /\ Keyed(b, EndsIn) /\ Range(b) \subseteq Range(d)
      /\ d # <<>> => b # <<>>
      /\ good \subseteq Range(b)
      /\ good # {} => Range(b) = good
  BY <1>3 DEF KeptByHits
<1>5. lim.topK \in Nat /\ lim.topK >= 1
  BY DEF Limit
<1> HIDE DEF b, good
<1>6. /\ left \in Seq(Relation) /\ Keyed(left, EndsIn) /\ Range(left) \subseteq Range(b)
      /\ b # <<>> => left # <<>>
      /\ backend \in {"api", "capped", "local"} =>
            /\ \A i, j \in DOMAIN left : i < j => left[i].score >= left[j].score
            /\ \A r \in Range(b) : \/ \E j \in DOMAIN left : left[j] = r
                                   \/ \A i \in DOMAIN left : r.score <= left[i].score
  <2>1. CASE b = <<>>
    <3>1. left = b /\ DOMAIN b = {} /\ Range(b) = {}
      BY <2>1 DEF Range
    <3> HIDE DEF left
    <3>2. QED
      BY <3>1, <2>1, <1>4
  <2>2. CASE b # <<>> /\ backend = "none"
    <3>1. left = b
      BY <2>2
    <3> HIDE DEF left
    <3>2. QED
      BY <3>1, <2>2, <1>4
  <2>3. CASE b # <<>> /\ backend \in {"api", "capped", "local", "broken"}
    <3>1. left = ByRank(b, backend, embedding, lim)
      BY <2>3
    <3>2. LeftOf(ByRank(b, backend, embedding, lim), b, backend)
      BY <2>3, <1>4, RankKeeps
    <3> HIDE DEF left
    <3>3. LeftOf(left, b, backend)
      BY <3>1, <3>2
    <3>4. PICK g : Pulls(g, left, b)
      BY <3>3 DEF LeftOf
    <3>5. Keyed(left, EndsIn) /\ Range(left) \subseteq Range(b)
      BY <3>4, <1>4, PulledIs
    <3>6. ASSUME backend \in {"api", "capped", "local"}, NEW r \in Range(b)
          PROVE  \/ \E j \in DOMAIN left : left[j] = r
                 \/ \A i \in DOMAIN left : r.score <= left[i].score
      <4>1. PICK p \in DOMAIN b : r = b[p]
        BY DEF Range
      <4>2. QED
        BY <4>1, <3>3, <3>6 DEF LeftOf
    <3>7. QED
      BY <3>3, <3>5, <3>6 DEF LeftOf
  <2>4. QED
    BY <2>1, <2>2, <2>3
<1> HIDE DEF left
<1>7. /\ kept \in Seq(Relation) /\ Len(kept) <= lim.topK /\ Len(kept) <= Len(left)
      /\ Len(kept) = IF lim.topK < Len(left) THEN lim.topK ELSE Len(left)
      /\ \A i \in 1 .. Len(kept) : kept[i] = left[i]
      /\ Range(kept) \subseteq Range(left)
  BY <1>2, <1>5, <1>6, TopIs
<1>8. /\ Len(kept) \in Nat /\ DOMAIN kept = 1 .. Len(kept)
      /\ Len(left) \in Nat /\ DOMAIN left = 1 .. Len(left)
      /\ \A i \in DOMAIN left : left[i] \in Relation
  BY <1>6, <1>7, SeqIs, Zenon
<1>9. \A i \in DOMAIN kept : i \in DOMAIN left /\ kept[i] = left[i]
  BY <1>7, <1>8
<1>10. Keyed(kept, EndsIn)
  BY <1>6, <1>9 DEF Keyed
<1>11. found # <<>> => kept # <<>>
  <2>1. ASSUME found # <<>> PROVE kept # <<>>
    <3>1. left # <<>>
      BY <2>1, <1>1, <1>4, <1>6
    <3>2. Len(left) # 0
      BY <3>1, <1>6, EmptySeq
    <3>3. Len(kept) # 0
      BY <3>2, <1>5, <1>7, <1>8
    <3>4. QED
      BY <3>3
  <2>2. QED
    BY <2>1
<1>12. ASSUME backend \in {"api", "capped", "local"}, NEW r \in good \ Range(kept), NEW k \in Range(kept)
       PROVE  r.score <= k.score
  <2>1. r \in Range(b)
    BY <1>4
  <2>2. PICK i \in DOMAIN kept : k = kept[i]
    BY DEF Range
  <2>3. i \in DOMAIN left /\ k = left[i] /\ i \in Nat /\ i <= Len(kept)
    BY <2>2, <1>8, <1>9
  <2>4. CASE \A h \in DOMAIN left : r.score <= left[h].score
    BY <2>3, <2>4
  <2>5. CASE \E j \in DOMAIN left : left[j] = r
    <3>1. PICK j \in DOMAIN left : left[j] = r
      BY <2>5
    <3>2. j \notin DOMAIN kept
      BY <3>1, <1>9 DEF Range
    <3>3. j \in Nat /\ j > Len(kept)
      BY <3>1, <3>2, <1>8
    <3>4. i < j
      BY <2>3, <3>3, <1>8
    <3>5. left[i].score >= left[j].score
      BY <2>3, <3>1, <3>4, <1>6, <1>12
    <3>6. left[i].score \in Nat /\ left[j].score \in Nat
      <4>1. left[i].score \in 0 .. 100 /\ left[j].score \in 0 .. 100
        BY <2>3, <3>1, <1>8 DEF Relation
      <4>2. \A x \in 0 .. 100 : x \in Nat
        OBVIOUS
      <4>3. QED
        BY <4>1, <4>2
    <3>7. QED
      BY <2>3, <3>1, <3>5, <3>6
  <2>6. QED
    BY <2>1, <2>4, <2>5, <1>6, <1>12
<1>13. \A i, j \in DOMAIN kept : backend \in {"api", "capped", "local"} /\ i < j => kept[i].score >= kept[j].score
  BY <1>6, <1>9
<1>14. Range(kept) \subseteq Range(found) /\ (good # {} => Range(kept) \subseteq good)
  BY <1>1, <1>4, <1>6, <1>7
<1>15. QED
  BY <1>7, <1>10, <1>11, <1>12, <1>13, <1>14 DEF found, d, kept, good

(***************************************************************************)
(* filter_relationships keeps each relation once and top_k at most; those  *)
(* with enough keywords before all others; never nothing where something   *)
(* was found, unless the reranking fails; and with a reranker, the best    *)
(* first of those it returned.                                             *)
(***************************************************************************)
THEOREM RelationsAreKept == Spec => []RelationsKept
<1>1. CasesInv => RelationsKept
  <2> SUFFICES ASSUME CasesInv, sample.kind = "filter", sample.backend # "outage"
               PROVE  RelationsKept
    BY DEF RelationsKept
  <2> DEFINE rels == sample.relations
             lim   == sample.lim
             backend == sample.backend
             embedding == sample.embedding
  <2>1. rels \in Seq(Relation) /\ lim \in Limit /\ backend \in {"none", "api", "capped", "local", "broken"}
    BY ResultsAssumption DEF CasesInv, Relation, Limit
  <2>r. RelationsKept <=>
          LET found == Select(rels, WithEnds(rels))
              kept  == Filtered(rels, backend, embedding, lim)
              good  == {r \in Range(Distinct(rels)) : r.hits >= lim.minHits}
          IN /\ found # <<>> => kept # <<>>
             /\ Len(kept) <= lim.topK /\ Range(kept) \subseteq Range(found)
             /\ NoRepeats(kept, LAMBDA r : {r.edge[1], r.edge[2]})
             /\ good # {} => Range(kept) \subseteq good
             /\ \A i, j \in DOMAIN kept :
                   i < j => Liking(sample, kept[i]) >= Liking(sample, kept[j])
             /\ \A r \in good \ Range(kept), k \in Range(kept) :
                   Liking(sample, r) <= Liking(sample, k)
    BY DEF RelationsKept
  <2>2. \A r : Liking(sample, r) = IF backend \in {"api", "capped", "local"} THEN r.score ELSE 0
    BY DEF Liking
  <2> HIDE DEF rels, lim, backend, embedding
  <2> DEFINE found == Select(rels, WithEnds(rels))
             kept  == Filtered(rels, backend, embedding, lim)
             good  == HasHits(Distinct(rels), lim)
  <2>3. /\ kept \in Seq(Relation)
        /\ found # <<>> => kept # <<>>
        /\ Len(kept) <= lim.topK /\ Range(kept) \subseteq Range(found)
        /\ Keyed(kept, EndsIn)
        /\ good # {} => Range(kept) \subseteq good
        /\ backend \in {"api", "capped", "local"} =>
              /\ \A i, j \in DOMAIN kept : i < j => kept[i].score >= kept[j].score
              /\ \A r \in good \ Range(kept), k \in Range(kept) : r.score <= k.score
    BY <2>1, FilteredAre
  <2> HIDE DEF found, kept
  <2>4. good = {r \in Range(Distinct(rels)) : r.hits >= lim.minHits}
    BY DEF HasHits
  <2> HIDE DEF good
  <2>5. NoRepeats(kept, LAMBDA r : {r.edge[1], r.edge[2]})
    <3>1. \A i \in DOMAIN kept : EndsIn[kept[i]] = {kept[i].edge[1], kept[i].edge[2]}
      <4>1. \A i \in DOMAIN kept : kept[i] \in Relation
        BY <2>3, SeqIs, Zenon
      <4>2. QED
        BY <4>1, EndsInAre
    <3>2. QED
      BY <3>1, <2>3 DEF NoRepeats, Keyed
  <2>6. /\ \A i, j \in DOMAIN kept : i < j => Liking(sample, kept[i]) >= Liking(sample, kept[j])
        /\ \A r \in good \ Range(kept), k \in Range(kept) : Liking(sample, r) <= Liking(sample, k)
    BY <2>2, <2>3
  <2>7. QED
    BY <2>3, <2>4, <2>5, <2>6, <2>r DEF found, kept
<1>2. QED
  BY <1>1, CasesAlways, PTL
=============================================================================
