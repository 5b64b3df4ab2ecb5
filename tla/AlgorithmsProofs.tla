-------------------------- MODULE AlgorithmsProofs --------------------------
(***************************************************************************)
(* Proofs about the algorithms that are not the retrieval's.  Communities  *)
(* (Partition): the resolution that is found is the closest one of those   *)
(* that were tried, merging keeps a partition, fingerprints tell graphs    *)
(* apart, and what is shown of a community is what counts most in it.  The *)
(* parts of Limits that go on over time: for all rates and capacities of a *)
(* token bucket, all windows, and any number of callers, tries and ticks,  *)
(* the limits hold; and for all texts, however they are cut into chunks,   *)
(* the filter shows the answer.  Metrics and Telemetry: the scores of the  *)
(* evaluation and the rates of the monitoring can be compared, for all     *)
(* rows, rankings and records.                                             *)
(***************************************************************************)
EXTENDS RetrievalProofs

-----------------------------------------------------------------------------
(***************************************************************************)
(* Communities.  The resolution is searched by halving: the tries go       *)
(* through states, and no try leads out of them.                           *)
(***************************************************************************)

SearchStates(top) == {s \in [lo : 0 .. top, hi : 0 .. top, best : 0 .. top, stop : BOOLEAN] : s.lo <= s.hi}

\* what a try leads to
Tries(new, s, count, target) ==
    LET mid == (s.lo + s.hi) \div 2
    IN /\ s.stop => new = s
       /\ ~ s.stop =>
             /\ new.best = (IF s.best = 0 \/ Distance(count[mid], target) < Distance(count[s.best], target)
                            THEN mid ELSE s.best)
             /\ new.stop <=> count[mid] = target
             /\ ~ new.stop => /\ count[mid] < target => new.lo = mid /\ new.hi = s.hi
                              /\ ~ (count[mid] < target) => new.lo = s.lo /\ new.hi = mid

\* a try leads from one state to another
LEMMA TryTyped ==
  ASSUME NEW top \in Nat, NEW s \in SearchStates(top), NEW count, NEW target
  PROVE  Try(s, count, target) \in SearchStates(top) /\ Tries(Try(s, count, target), s, count, target)
<1> DEFINE mid == (s.lo + s.hi) \div 2
           closer == s.best = 0 \/ Distance(count[mid], target) < Distance(count[s.best], target)
           kept == IF closer THEN [s EXCEPT !.best = mid] ELSE s
           new == Try(s, count, target)
<1>1. /\ s \in [lo : 0 .. top, hi : 0 .. top, best : 0 .. top, stop : BOOLEAN]
      /\ s.lo \in 0 .. top /\ s.hi \in 0 .. top /\ s.best \in 0 .. top /\ s.stop \in BOOLEAN /\ s.lo <= s.hi
  BY DEF SearchStates
<1>2. mid \in 0 .. top /\ s.lo <= mid /\ mid <= s.hi
  BY <1>1
<1>3. /\ kept \in [lo : 0 .. top, hi : 0 .. top, best : 0 .. top, stop : BOOLEAN]
      /\ kept.lo = s.lo /\ kept.hi = s.hi /\ kept.stop = s.stop
      /\ kept.best = IF closer THEN mid ELSE s.best
  <2> HIDE DEF mid, closer
  <2>1. CASE closer
    BY <2>1, <1>1, <1>2
  <2>2. CASE ~ closer
    BY <2>2, <1>1
  <2>3. QED
    BY <2>1, <2>2
<1>4. new = IF s.stop THEN s
            ELSE IF count[mid] = target THEN [kept EXCEPT !.stop = TRUE]
            ELSE IF count[mid] < target THEN [kept EXCEPT !.lo = mid] ELSE [kept EXCEPT !.hi = mid]
  BY DEF Try, Narrowed, Middle
<1> HIDE DEF kept, new, mid, closer
<1>5. CASE s.stop
  <2>1. new = s
    BY <1>4, <1>5
  <2>2. QED
    BY <2>1, <1>5 DEF new, Tries
<1>6. CASE ~ s.stop /\ count[mid] = target
  <2>1. new = [kept EXCEPT !.stop = TRUE]
    BY <1>4, <1>6
  <2>2. new \in SearchStates(top) /\ new.best = kept.best /\ new.stop
    BY <2>1, <1>1, <1>3 DEF SearchStates
  <2>3. Tries(new, s, count, target)
    BY <2>2, <1>3, <1>6 DEF Tries, mid, closer
  <2>4. QED
    BY <2>2, <2>3 DEF new
<1>7. CASE ~ s.stop /\ count[mid] # target /\ count[mid] < target
  <2>1. new = [kept EXCEPT !.lo = mid]
    BY <1>4, <1>7
  <2>2. /\ new \in SearchStates(top) /\ new.best = kept.best /\ new.stop = s.stop
        /\ new.lo = mid /\ new.hi = s.hi
    BY <2>1, <1>1, <1>2, <1>3 DEF SearchStates
  <2>3. Tries(new, s, count, target)
    BY <2>2, <1>3, <1>7 DEF Tries, mid, closer
  <2>4. QED
    BY <2>2, <2>3 DEF new
<1>8. CASE ~ s.stop /\ count[mid] # target /\ ~ (count[mid] < target)
  <2>1. new = [kept EXCEPT !.hi = mid]
    BY <1>4, <1>8
  <2>2. /\ new \in SearchStates(top) /\ new.best = kept.best /\ new.stop = s.stop
        /\ new.hi = mid /\ new.lo = s.lo
    BY <2>1, <1>1, <1>2, <1>3 DEF SearchStates
  <2>3. Tries(new, s, count, target)
    BY <2>2, <1>3, <1>8 DEF Tries, mid, closer
  <2>4. QED
    BY <2>2, <2>3 DEF new
<1>9. QED
  BY <1>5, <1>6, <1>7, <1>8

\* before the first try
NotSearched(top) == [lo |-> 0, hi |-> top, best |-> 0, stop |-> FALSE]

\* one try after another
Searching(st, count, target, top, n) ==
    /\ st \in [0 .. n -> SearchStates(top)]
    /\ st[0] = NotSearched(top)
    /\ \A k \in 1 .. n : st[k] = Try(st[k - 1], count, target)
    /\ st[n] = Searched(count, target, top, n)

\* the search goes through such states, to what it returns
LEMMA SearchedIs ==
  ASSUME NEW count, NEW target, NEW top \in Nat, NEW n \in Nat
  PROVE  \E st : Searching(st, count, target, top, n)
<1> DEFINE V == SearchStates(top)
           base == NotSearched(top)
           op(a) == Try(a, count, target)
           F == [p \in V \X (1 .. n) |-> op(p[1])]
           turns == [i \in 1 .. n |-> i]
           Eq(iter) == iter = [s \in SUBSET DOMAIN turns |->
                IF s = {} THEN base ELSE op(iter[s \ {Max(s)}])]
           I == CHOOSE iter : Eq(iter)
<1>2. Searched(count, target, top, n) = I[1 .. n]
  <2>1. Searched(count, target, top, n) = I[DOMAIN turns]
    BY DEF I, Eq, FoldLeft, MapThenFoldSet, Searched, NotSearched
  <2>2. QED
    BY <2>1
<1>3. base \in V
  BY DEF NotSearched, SearchStates
<1>4. \A a \in V : op(a) \in V
  BY TryTyped
<1>5. F \in [V \X (1 .. n) -> V] /\ \A a \in V, k \in 1 .. n : F[<<a, k>>] = op(a)
  <2> HIDE DEF op, V
  <2>1. QED
    BY <1>4
<1>55. DOMAIN turns = 1 .. n
  OBVIOUS
<1> HIDE DEF F, Eq, I, op, base, V, turns
<1>6. PICK it \in [SUBSET (1 .. n) -> V] : Recurs(it, n, base, F)
  BY <1>3, <1>5, IterationIs, Zenon
<1>7. \A s \in SUBSET (1 .. n) : s # {} => Max(s) \in 1 .. n /\ s \ {Max(s)} \in SUBSET (1 .. n)
  BY MaxIn
<1>8. Eq(it)
  <2>1. ASSUME NEW s \in SUBSET (1 .. n)
        PROVE  it[s] = IF s = {} THEN base ELSE op(it[s \ {Max(s)}])
    BY <1>5, <1>6, <1>7 DEF Recurs
  <2>2. QED
    BY <2>1, <1>6, <1>55 DEF Eq
<1>9. Eq(I)
  BY <1>8 DEF I
<1>10. /\ I[{}] = base
       /\ \A s \in SUBSET (1 .. n) : s # {} => I[s] = op(I[s \ {Max(s)}])
  BY <1>9, <1>55 DEF Eq
<1>11. RecursTyped(I, n, V, base, F)
  BY <1>5, <1>7, <1>10 DEF RecursTyped
<1>12. PICK st : Steps(st, n, V, base, F, I[1 .. n])
  BY <1>3, <1>5, <1>11, FoldRun, Zenon
<1>13. ASSUME NEW k \in 1 .. n PROVE st[k] = Try(st[k - 1], count, target)
  <2>1. k - 1 \in 0 .. n /\ st[k - 1] \in V
    BY <1>12 DEF Steps
  <2>2. st[k] = op(st[k - 1])
    BY <1>5, <1>12, <2>1 DEF Steps
  <2>3. QED
    BY <2>2 DEF op
<1>14. st \in [0 .. n -> V] /\ st[0] = base /\ I[1 .. n] = st[n]
  BY <1>12 DEF Steps
<1>15. QED
  BY <1>2, <1>13, <1>14 DEF Searching, V, base

\* so n + 1 tries are a try after n of them
LEMMA SearchedNext ==
  ASSUME NEW count, NEW target, NEW top \in Nat, NEW n \in Nat
  PROVE  /\ Searched(count, target, top, 0) = NotSearched(top)
         /\ Searched(count, target, top, n) \in SearchStates(top)
         /\ Searched(count, target, top, n + 1) = Try(Searched(count, target, top, n), count, target)
<1>1. PICK st : Searching(st, count, target, top, n)
  BY SearchedIs
<1>2. PICK more : Searching(more, count, target, top, n + 1)
  <2>1. n + 1 \in Nat
    OBVIOUS
  <2>2. QED
    BY <2>1, SearchedIs
<1>3. PICK none : Searching(none, count, target, top, 0)
  BY SearchedIs
<1>4. /\ st \in [0 .. n -> SearchStates(top)] /\ st[0] = NotSearched(top)
      /\ \A k \in 1 .. n : st[k] = Try(st[k - 1], count, target)
      /\ st[n] = Searched(count, target, top, n)
  BY <1>1 DEF Searching
<1>5. /\ more[0] = NotSearched(top)
      /\ \A k \in 1 .. n + 1 : more[k] = Try(more[k - 1], count, target)
      /\ more[n + 1] = Searched(count, target, top, n + 1)
  BY <1>2 DEF Searching
<1> DEFINE P == {k \in Nat : k <= n => more[k] = st[k]}
<1>6. 0 \in P
  BY <1>4, <1>5
<1>7. ASSUME NEW k \in Nat, k \in P PROVE k + 1 \in P
  <2> SUFFICES ASSUME k + 1 <= n PROVE more[k + 1] = st[k + 1]
    OBVIOUS
  <2>1. k <= n /\ k + 1 \in 1 .. n /\ k + 1 \in 1 .. n + 1 /\ (k + 1) - 1 = k
    OBVIOUS
  <2>2. more[k] = st[k]
    BY <2>1, <1>7
  <2>3. QED
    BY <2>1, <2>2, <1>4, <1>5
<1> HIDE DEF P
<1>8. n \in P
  BY <1>6, <1>7, NatInd
<1>9. more[n] = st[n]
  BY <1>8 DEF P
<1>10. n + 1 \in 1 .. n + 1 /\ (n + 1) - 1 = n /\ n \in 0 .. n
  OBVIOUS
<1>11. Searched(count, target, top, n + 1) = Try(Searched(count, target, top, n), count, target)
  BY <1>4, <1>5, <1>9, <1>10
<1>12. Searched(count, target, top, n) \in SearchStates(top)
  BY <1>4, <1>10
<1>13. Searched(count, target, top, 0) = NotSearched(top)
  BY <1>3 DEF Searching
<1>14. QED
  BY <1>11, <1>12, <1>13

-----------------------------------------------------------------------------
(***************************************************************************)
(* After k tries the numbers that are left are as many as k halvings leave *)
(* of all, and the best so far is no farther from the target than any that *)
(* was tried.  If the counts never fall, everything below was too few and  *)
(* everything above too many.                                              *)
(***************************************************************************)

\* top is 1 doubled n times
Doubles(d, n, top) ==
    /\ d \in [0 .. n -> 1 .. top] /\ d[0] = 1 /\ d[n] = top
    /\ \A i \in 1 .. n : d[i] = 2 * d[i - 1]

Closest(best, count, target, R) ==
    /\ best \in DOMAIN count
    /\ \A r \in R : Distance(count[best], target) <= Distance(count[r], target)

\* what is known after k tries
SearchedTo(k, s, count, target, top, width) ==
    IF s.stop THEN s.best \in 1 .. top - 1 /\ count[s.best] = target
    ELSE /\ s.hi = s.lo + width
         /\ k = 0 => s = NotSearched(top)
         /\ k > 0 => Closest(s.best, count, target, {r \in 1 .. top - 1 : r <= s.lo \/ r >= s.hi})

\* what is farther from the target on one side
LEMMA Farther ==
  ASSUME NEW a \in Nat, NEW b \in Nat, NEW target \in Int,
         (a <= b /\ b < target) \/ (b <= a /\ ~ (b < target))
  PROVE  Distance(b, target) <= Distance(a, target)
BY DEF Distance

\* one more try halves what is left
LEMMA SearchStep ==
  ASSUME NEW top \in Nat, NEW count \in [1 .. top - 1 -> Nat], NEW target \in Int,
         \A i, j \in 1 .. top - 1 : i <= j => count[i] <= count[j],
         NEW k \in Nat, NEW half \in Nat \ {0},
         NEW s \in SearchStates(top), SearchedTo(k, s, count, target, top, 2 * half),
         NEW new \in SearchStates(top), Tries(new, s, count, target)
  PROVE  SearchedTo(k + 1, new, count, target, top, half)
<1>1. /\ s.lo \in 0 .. top /\ s.hi \in 0 .. top /\ s.best \in 0 .. top /\ s.stop \in BOOLEAN
      /\ new.lo \in 0 .. top /\ new.hi \in 0 .. top /\ new.best \in 0 .. top /\ new.stop \in BOOLEAN
  BY DEF SearchStates
<1>2. CASE s.stop
  <2>1. new = s
    BY <1>2 DEF Tries
  <2>2. QED
    BY <2>1, <1>2 DEF SearchedTo
<1>3. CASE ~ s.stop
  <2> DEFINE mid == s.lo + half
  <2>1. s.hi = s.lo + 2 * half
    BY <1>3 DEF SearchedTo
  <2>2. (s.lo + s.hi) \div 2 = mid /\ mid \in 1 .. top - 1
    <3>0. \A a, b, h \in Nat : b = a + 2 * h => a + h \in Nat /\ a + b = 2 * (a + h)
      OBVIOUS
    <3>01. s.lo \in Nat /\ s.hi \in Nat /\ half \in Nat
      BY <1>1
    <3>1. mid \in Nat /\ s.lo + s.hi = 2 * mid
      BY <2>1, <3>0, <3>01
    <3>2. \A m \in Nat : (2 * m) \div 2 = m
      OBVIOUS
    <3>3. (s.lo + s.hi) \div 2 = mid
      BY <3>1, <3>2
    <3>4. s.lo \in Nat /\ s.hi \in Nat /\ s.hi <= top /\ half \in Nat /\ half >= 1
      BY <1>1
    <3>5. mid >= 1 /\ mid <= top - 1 /\ mid \in Int
      BY <2>1, <3>4
    <3>6. QED
      BY <3>3, <3>5
  <2>3. /\ new.best = (IF s.best = 0 \/ Distance(count[mid], target) < Distance(count[s.best], target)
                       THEN mid ELSE s.best)
        /\ new.stop <=> count[mid] = target
        /\ ~ new.stop => /\ count[mid] < target => new.lo = mid /\ new.hi = s.hi
                         /\ ~ (count[mid] < target) => new.lo = s.lo /\ new.hi = mid
    BY <2>2, <1>3 DEF Tries
  <2>4. \A r \in 1 .. top - 1 : count[r] \in Nat /\ Distance(count[r], target) \in Nat
    BY DEF Distance
  <2>5. k > 0 => Closest(s.best, count, target, {r \in 1 .. top - 1 : r <= s.lo \/ r >= s.hi})
    BY <1>3 DEF SearchedTo
  <2>6. k = 0 => s.lo = 0 /\ s.hi = top /\ s.best = 0
    BY <1>3 DEF SearchedTo, NotSearched
  <2> HIDE DEF mid
  <2>7. /\ new.best \in 1 .. top - 1
        /\ Distance(count[new.best], target) <= Distance(count[mid], target)
        /\ \A r \in 1 .. top - 1 : r <= s.lo \/ r >= s.hi =>
              Distance(count[new.best], target) <= Distance(count[r], target)
    <3>1. CASE k = 0
      <4>1. new.best = mid
        BY <3>1, <2>3, <2>6
      <4>2. \A r \in 1 .. top - 1 : ~ (r <= s.lo \/ r >= s.hi)
        BY <3>1, <2>6
      <4>3. QED
        BY <4>1, <4>2, <2>2, <2>4
    <3>2. CASE k > 0
      <4>1. /\ s.best \in 1 .. top - 1
            /\ \A r \in 1 .. top - 1 : r <= s.lo \/ r >= s.hi =>
                  Distance(count[s.best], target) <= Distance(count[r], target)
        BY <3>2, <2>5 DEF Closest
      <4>2. s.best # 0
        BY <4>1
      <4>3. CASE Distance(count[mid], target) < Distance(count[s.best], target)
        <5>1. new.best = mid
          BY <4>3, <2>3
        <5>2. ASSUME NEW r \in 1 .. top - 1, r <= s.lo \/ r >= s.hi
              PROVE  Distance(count[mid], target) <= Distance(count[r], target)
          <6>1. Distance(count[s.best], target) <= Distance(count[r], target)
            BY <5>2, <4>1
          <6>2. /\ Distance(count[s.best], target) \in Nat /\ Distance(count[mid], target) \in Nat
                /\ Distance(count[r], target) \in Nat
            BY <2>2, <2>4, <4>1
          <6>3. QED
            BY <6>1, <6>2, <4>3
        <5>3. Distance(count[mid], target) \in Nat
          BY <2>2, <2>4
        <5>4. QED
          BY <5>1, <5>2, <5>3, <2>2
      <4>4. CASE ~ (Distance(count[mid], target) < Distance(count[s.best], target))
        <5>1. new.best = s.best
          BY <4>2, <4>4, <2>3
        <5>2. QED
          BY <5>1, <4>1, <4>4, <2>2, <2>4
      <4>5. QED
        BY <4>3, <4>4
    <3>3. QED
      BY <3>1, <3>2
  <2>8. CASE new.stop
    <3>1. count[mid] = target
      BY <2>3, <2>8
    <3>2. Distance(count[mid], target) = 0
      BY <3>1, <2>2, <2>4 DEF Distance
    <3>3. count[new.best] \in Nat /\ Distance(count[new.best], target) = 0
      BY <3>2, <2>2, <2>4, <2>7
    <3>4. count[new.best] = target
      BY <3>3 DEF Distance
    <3>5. QED
      BY <3>4, <2>7, <2>8 DEF SearchedTo
  <2>9. CASE ~ new.stop /\ count[mid] < target
    <3>1. new.lo = mid /\ new.hi = s.hi
      BY <2>3, <2>9
    <3>2. new.hi = new.lo + half
      BY <3>1, <2>1, <1>1 DEF mid
    <3>3. ASSUME NEW r \in 1 .. top - 1, r <= mid
          PROVE  Distance(count[mid], target) <= Distance(count[r], target)
      <4>1. count[r] <= count[mid] /\ count[r] \in Nat /\ count[mid] \in Nat
        BY <3>3, <2>2
      <4>2. count[r] <= count[mid] /\ count[mid] < target
        BY <4>1, <2>9
      <4>3. QED
        BY <4>1, <4>2, Farther, Zenon
    <3>4. ASSUME NEW r \in 1 .. top - 1, r <= new.lo \/ r >= new.hi
          PROVE  Distance(count[new.best], target) <= Distance(count[r], target)
      <4>1. CASE r <= mid
        <5>1. Distance(count[mid], target) <= Distance(count[r], target)
          BY <4>1, <3>3
        <5>2. /\ Distance(count[new.best], target) \in Nat /\ Distance(count[mid], target) \in Nat
              /\ Distance(count[r], target) \in Nat
          BY <2>2, <2>4, <2>7
        <5>3. QED
          BY <5>1, <5>2, <2>7
      <4>2. CASE r >= s.hi
        BY <4>2, <2>7
      <4>3. QED
        BY <4>1, <4>2, <3>1, <3>4
    <3>5. Closest(new.best, count, target, {r \in 1 .. top - 1 : r <= new.lo \/ r >= new.hi})
      BY <3>4, <2>7 DEF Closest
    <3>6. QED
      BY <3>2, <3>5, <2>9 DEF SearchedTo
  <2>10. CASE ~ new.stop /\ ~ (count[mid] < target)
    <3>1. new.lo = s.lo /\ new.hi = mid
      BY <2>3, <2>10
    <3>2. new.hi = new.lo + half
      BY <3>1, <2>1, <1>1 DEF mid
    <3>3. ASSUME NEW r \in 1 .. top - 1, r >= mid
          PROVE  Distance(count[mid], target) <= Distance(count[r], target)
      <4>1. count[mid] <= count[r] /\ count[r] \in Nat /\ count[mid] \in Nat
        BY <3>3, <2>2
      <4>2. count[mid] <= count[r] /\ ~ (count[mid] < target)
        BY <4>1, <2>10
      <4>3. QED
        BY <4>1, <4>2, Farther, Zenon
    <3>4. ASSUME NEW r \in 1 .. top - 1, r <= new.lo \/ r >= new.hi
          PROVE  Distance(count[new.best], target) <= Distance(count[r], target)
      <4>1. CASE r >= mid
        <5>1. Distance(count[mid], target) <= Distance(count[r], target)
          BY <4>1, <3>3
        <5>2. /\ Distance(count[new.best], target) \in Nat /\ Distance(count[mid], target) \in Nat
              /\ Distance(count[r], target) \in Nat
          BY <2>2, <2>4, <2>7
        <5>3. QED
          BY <5>1, <5>2, <2>7
      <4>2. CASE r <= s.lo
        BY <4>2, <2>7
      <4>3. QED
        BY <4>1, <4>2, <3>1, <3>4
    <3>5. Closest(new.best, count, target, {r \in 1 .. top - 1 : r <= new.lo \/ r >= new.hi})
      BY <3>4, <2>7 DEF Closest
    <3>6. QED
      BY <3>2, <3>5, <2>10 DEF SearchedTo
  <2>11. QED
    BY <2>8, <2>9, <2>10
<1>4. QED
  BY <1>1, <1>2, <1>3

\* the states of a search, one more try after the other
SearchRun(at, count, target, top, n) ==
    /\ at \in [0 .. n -> SearchStates(top)]
    /\ at[0] = NotSearched(top)
    /\ \A k \in 1 .. n : Tries(at[k], at[k - 1], count, target)
    /\ \A k \in 0 .. n : at[k] = Searched(count, target, top, k)
    /\ SearchResolution(count, target, top, n) = at[n].best

\* the states that are reached after each number of tries are such a run
LEMMA SearchRuns ==
  ASSUME NEW count, NEW target, NEW top \in Nat, NEW n \in Nat \ {0}
  PROVE  SearchRun([k \in 0 .. n |-> Searched(count, target, top, k)], count, target, top, n)
<1> DEFINE at == [k \in 0 .. n |-> Searched(count, target, top, k)]
<1>1. \A k \in Nat : /\ Searched(count, target, top, 0) = NotSearched(top)
                     /\ Searched(count, target, top, k) \in SearchStates(top)
                     /\ Searched(count, target, top, k + 1) = Try(Searched(count, target, top, k), count, target)
  BY SearchedNext
<1>2. at \in [0 .. n -> SearchStates(top)] /\ at[0] = NotSearched(top)
  BY <1>1
<1>3. ASSUME NEW k \in 1 .. n PROVE Tries(at[k], at[k - 1], count, target)
  <2>1. k - 1 \in Nat /\ (k - 1) + 1 = k /\ k - 1 \in 0 .. n
    OBVIOUS
  <2>2. at[k] = Try(at[k - 1], count, target) /\ at[k - 1] \in SearchStates(top)
    <3>1. at[k] = Searched(count, target, top, k) /\ at[k - 1] = Searched(count, target, top, k - 1)
      BY <2>1
    <3>2. /\ Searched(count, target, top, (k - 1) + 1) = Try(Searched(count, target, top, k - 1), count, target)
          /\ Searched(count, target, top, k - 1) \in SearchStates(top)
      BY <2>1, <1>1
    <3> HIDE DEF at
    <3>3. QED
      BY <2>1, <3>1, <3>2
  <2>3. Tries(Try(at[k - 1], count, target), at[k - 1], count, target)
    BY <2>2, TryTyped, Zenon
  <2>4. QED
    BY <2>2, <2>3
<1>4. Max({1, n}) = n
  <2>1. {1, n} \in SUBSET (1 .. n) /\ {1, n} # {}
    OBVIOUS
  <2>2. Max({1, n}) \in {1, n} /\ {1, n} \ {Max({1, n})} \in SUBSET (1 .. Max({1, n}) - 1)
    BY <2>1, MaxIn
  <2>3. QED
    BY <2>2
<1>5. SearchResolution(count, target, top, n) = at[n].best
  BY <1>4 DEF SearchResolution
<1>6. QED
  BY <1>2, <1>3, <1>5 DEF SearchRun

\* what is known after k tries, however the counts grow
BestSoFar(k, at, count, target, top, width) ==
    /\ ~ at[k].stop => at[k].hi = at[k].lo + width
    /\ k > 0 => \E j \in 0 .. k - 1 : ~ at[j].stop /\ at[k].best = Middle(at[j])
    /\ \A j \in 0 .. k - 1 : ~ at[j].stop =>
          /\ Middle(at[j]) \in 1 .. top - 1
          /\ Distance(count[at[k].best], target) <= Distance(count[Middle(at[j])], target)

\* one more try halves what is left, and is the best if it is closer
LEMMA BestStep ==
  ASSUME NEW top \in Nat, NEW count \in [1 .. top - 1 -> Nat], NEW target \in Int,
         NEW n \in Nat \ {0}, NEW at, SearchRun(at, count, target, top, n),
         NEW k \in Nat, k + 1 <= n, NEW half \in Nat \ {0},
         BestSoFar(k, at, count, target, top, 2 * half)
  PROVE  BestSoFar(k + 1, at, count, target, top, half)
<1> DEFINE s == at[k]
           new == at[k + 1]
           mid == Middle(s)
<1>1. k \in 0 .. n /\ k + 1 \in 1 .. n /\ (k + 1) - 1 = k /\ 0 .. k = (0 .. k - 1) \cup {k}
  OBVIOUS
<1>2. /\ Tries(new, s, count, target) /\ s \in SearchStates(top) /\ new \in SearchStates(top)
      /\ at[0] = NotSearched(top)
  BY <1>1 DEF SearchRun
<1>3. /\ s.lo \in 0 .. top /\ s.hi \in 0 .. top /\ s.best \in 0 .. top /\ s.stop \in BOOLEAN
      /\ new.lo \in 0 .. top /\ new.hi \in 0 .. top /\ new.best \in 0 .. top /\ new.stop \in BOOLEAN
  BY <1>2 DEF SearchStates
<1>4. /\ ~ s.stop => s.hi = s.lo + 2 * half
      /\ k > 0 => \E j \in 0 .. k - 1 : ~ at[j].stop /\ s.best = Middle(at[j])
      /\ \A j \in 0 .. k - 1 : ~ at[j].stop =>
            /\ Middle(at[j]) \in 1 .. top - 1
            /\ Distance(count[s.best], target) <= Distance(count[Middle(at[j])], target)
  BY DEF BestSoFar
<1>5. k = 0 => ~ s.stop /\ s.best = 0
  BY <1>2 DEF NotSearched
<1>6. CASE s.stop
  <2>1. k > 0
    BY <1>5, <1>6
  <2>2. new = s
    BY <1>2, <1>6 DEF Tries
  <2>3. \E j \in 0 .. k : ~ at[j].stop /\ new.best = Middle(at[j])
    BY <2>1, <2>2, <1>1, <1>4
  <2>4. ASSUME NEW j \in 0 .. k, ~ at[j].stop
        PROVE  /\ Middle(at[j]) \in 1 .. top - 1
               /\ Distance(count[new.best], target) <= Distance(count[Middle(at[j])], target)
    <3>1. j \in 0 .. k - 1
      BY <2>4, <1>1, <1>6
    <3>2. QED
      BY <3>1, <2>2, <2>4, <1>4
  <2>5. new.stop
    BY <2>2, <1>6
  <2>6. QED
    BY <2>3, <2>4, <2>5, <1>1 DEF BestSoFar
<1>7. CASE ~ s.stop
  <2>1. s.hi = s.lo + 2 * half
    BY <1>4, <1>7
  <2>2. mid = s.lo + half /\ mid \in 1 .. top - 1
    <3>1. \A a, b, h \in Nat : b = a + 2 * h => a + h \in Nat /\ a + b = 2 * (a + h)
      OBVIOUS
    <3>2. s.lo \in Nat /\ s.hi \in Nat /\ half \in Nat
      BY <1>3
    <3>3. s.lo + half \in Nat /\ s.lo + s.hi = 2 * (s.lo + half)
      <4> DEFINE a == s.lo
                 b == s.hi
      <4>1. a \in Nat /\ b \in Nat /\ half \in Nat /\ b = a + 2 * half
        BY <2>1, <3>2
      <4> HIDE DEF a, b
      <4>2. a + half \in Nat /\ a + b = 2 * (a + half)
        BY <4>1
      <4>3. QED
        BY <4>2 DEF a, b
    <3>4. \A m \in Nat : (2 * m) \div 2 = m
      OBVIOUS
    <3>5. (s.lo + s.hi) \div 2 = s.lo + half
      BY <3>3, <3>4
    <3>6. s.lo \in Nat /\ s.hi \in Nat /\ s.hi <= top /\ half \in Nat /\ half >= 1
      BY <1>3
    <3>7. s.lo + half >= 1 /\ s.lo + half <= top - 1 /\ s.lo + half \in Int
      BY <2>1, <3>6
    <3>8. QED
      BY <3>5, <3>7 DEF Middle
  <2>3. /\ new.best = (IF s.best = 0 \/ Distance(count[mid], target) < Distance(count[s.best], target)
                       THEN mid ELSE s.best)
        /\ ~ new.stop => \/ new.lo = mid /\ new.hi = s.hi
                         \/ new.lo = s.lo /\ new.hi = mid
    BY <1>2, <1>7 DEF Tries, Middle
  <2>4. \A r \in 1 .. top - 1 : Distance(count[r], target) \in Nat
    <3>1. \A r \in 1 .. top - 1 : count[r] \in Nat
      OBVIOUS
    <3>2. QED
      BY <3>1 DEF Distance
  <2> HIDE DEF mid
  <2>5. ASSUME ~ new.stop PROVE new.hi = new.lo + half
    <3>1. \A a, b, h, m : a \in Nat /\ h \in Nat /\ b = a + 2 * h /\ m = a + h => b = m + h
      OBVIOUS
    <3>2. s.lo \in Nat /\ half \in Nat
      BY <1>3
    <3>3. s.hi = mid + half
      BY <2>1, <2>2, <3>1, <3>2
    <3>4. CASE new.lo = mid /\ new.hi = s.hi
      BY <3>3, <3>4
    <3>5. CASE new.lo = s.lo /\ new.hi = mid
      BY <2>2, <3>5
    <3>6. QED
      BY <2>3, <2>5, <3>4, <3>5
  <2>6. CASE s.best = 0 \/ Distance(count[mid], target) < Distance(count[s.best], target)
    <3>1. new.best = mid
      BY <2>3, <2>6
    <3>2. ASSUME NEW j \in 0 .. k - 1, ~ at[j].stop
          PROVE  Distance(count[mid], target) <= Distance(count[Middle(at[j])], target)
      <4>1. k > 0
        OBVIOUS
      <4>2. PICK i \in 0 .. k - 1 : ~ at[i].stop /\ s.best = Middle(at[i])
        BY <4>1, <1>4
      <4>3. s.best \in 1 .. top - 1
        BY <4>2, <1>4
      <4>4. Distance(count[mid], target) < Distance(count[s.best], target)
        BY <4>3, <2>6
      <4>5. /\ Middle(at[j]) \in 1 .. top - 1
            /\ Distance(count[s.best], target) <= Distance(count[Middle(at[j])], target)
        BY <3>2, <1>4
      <4>6. /\ Distance(count[mid], target) \in Nat /\ Distance(count[s.best], target) \in Nat
            /\ Distance(count[Middle(at[j])], target) \in Nat
        BY <4>3, <4>5, <2>2, <2>4
      <4>7. QED
        BY <4>4, <4>5, <4>6
    <3>3. Distance(count[mid], target) <= Distance(count[mid], target)
      BY <2>2, <2>4
    <3>4. QED
      BY <3>1, <3>2, <3>3, <2>2, <2>5, <1>1, <1>4, <1>7 DEF BestSoFar, mid
  <2>7. CASE ~ (s.best = 0 \/ Distance(count[mid], target) < Distance(count[s.best], target))
    <3>1. new.best = s.best /\ k > 0
      BY <2>3, <2>7, <1>5
    <3>2. PICK i \in 0 .. k - 1 : ~ at[i].stop /\ s.best = Middle(at[i])
      BY <3>1, <1>4
    <3>3. s.best \in 1 .. top - 1
      BY <3>2, <1>4
    <3>4. Distance(count[s.best], target) <= Distance(count[mid], target)
      <4> DEFINE x == Distance(count[mid], target)
                 y == Distance(count[s.best], target)
      <4>1. x \in Nat /\ y \in Nat
        BY <3>3, <2>2, <2>4
      <4>2. ~ (x < y)
        BY <2>7
      <4> HIDE DEF x, y
      <4>3. y <= x
        BY <4>1, <4>2
      <4>4. QED
        BY <4>3 DEF x, y
    <3>5. \E j \in 0 .. k : ~ at[j].stop /\ new.best = Middle(at[j])
      BY <3>1, <3>2, <1>1
    <3>6. QED
      BY <3>1, <3>4, <3>5, <2>2, <2>5, <1>1, <1>4, <1>7 DEF BestSoFar, mid
  <2>8. QED
    BY <2>6, <2>7
<1>8. QED
  BY <1>3, <1>6, <1>7

\* the best of those that were tried
LEMMA SearchTries ==
  ASSUME NEW top \in Nat, NEW n \in Nat \ {0}, NEW d, Doubles(d, n, top),
         NEW count \in [1 .. top - 1 -> Nat], NEW target \in Int,
         NEW at, SearchRun(at, count, target, top, n)
  PROVE  BestSoFar(n, at, count, target, top, 1)
<1>1. /\ d \in [0 .. n -> 1 .. top] /\ d[0] = 1 /\ d[n] = top
      /\ \A i \in 1 .. n : d[i] = 2 * d[i - 1]
  BY DEF Doubles
<1> DEFINE P == {k \in Nat : k <= n => BestSoFar(k, at, count, target, top, d[n - k])}
<1>2. 0 \in P
  <2>1. d[n - 0] = top /\ at[0] = NotSearched(top)
    BY <1>1 DEF SearchRun
  <2>2. QED
    BY <2>1 DEF BestSoFar, NotSearched
<1>3. ASSUME NEW k \in Nat, k \in P PROVE k + 1 \in P
  <2> SUFFICES ASSUME k + 1 <= n PROVE BestSoFar(k + 1, at, count, target, top, d[n - (k + 1)])
    OBVIOUS
  <2> DEFINE half == d[n - (k + 1)]
  <2>1. /\ k <= n
        /\ n - k \in 1 .. n /\ (n - k) - 1 = n - (k + 1) /\ n - (k + 1) \in 0 .. n
    OBVIOUS
  <2>2. d[n - k] = 2 * half /\ half \in Nat \ {0}
    BY <2>1, <1>1
  <2>3. BestSoFar(k, at, count, target, top, 2 * half)
    BY <2>1, <2>2, <1>3
  <2> HIDE DEF half
  <2>4. BestSoFar(k + 1, at, count, target, top, half)
    BY <2>2, <2>3, BestStep, Zenon
  <2>5. QED
    BY <2>4 DEF half
<1> HIDE DEF P
<1>4. n \in P
  BY <1>2, <1>3, NatInd
<1>5. n - n = 0
  OBVIOUS
<1>6. QED
  BY <1>1, <1>4, <1>5 DEF P

\* if counts never fall, nothing is closer to the target than the best try
LEMMA SearchFinds ==
  ASSUME NEW top \in Nat, NEW n \in Nat \ {0}, NEW d, Doubles(d, n, top),
         NEW count \in [1 .. top - 1 -> Nat], NEW target \in Int,
         \A i, j \in 1 .. top - 1 : i <= j => count[i] <= count[j]
  PROVE  Closest(SearchResolution(count, target, top, n), count, target, 1 .. top - 1)
<1> DEFINE st == [k \in 0 .. n |-> Searched(count, target, top, k)]
<1>1. SearchRun(st, count, target, top, n)
  BY SearchRuns
<1> HIDE DEF st
<1>2. /\ st \in [0 .. n -> SearchStates(top)] /\ st[0] = NotSearched(top)
      /\ \A k \in 1 .. n : Tries(st[k], st[k - 1], count, target)
      /\ SearchResolution(count, target, top, n) = st[n].best
  BY <1>1 DEF SearchRun
<1>3. /\ d \in [0 .. n -> 1 .. top] /\ d[0] = 1 /\ d[n] = top
      /\ \A i \in 1 .. n : d[i] = 2 * d[i - 1]
  BY DEF Doubles
<1> DEFINE P == {k \in Nat : k <= n => SearchedTo(k, st[k], count, target, top, d[n - k])}
<1>4. 0 \in P
  <2>1. d[n - 0] = top
    BY <1>3
  <2>2. SearchedTo(0, NotSearched(top), count, target, top, top)
    BY DEF SearchedTo, NotSearched
  <2>3. QED
    BY <2>1, <2>2, <1>2
<1>5. ASSUME NEW k \in Nat, k \in P PROVE k + 1 \in P
  <2> SUFFICES ASSUME k + 1 <= n PROVE SearchedTo(k + 1, st[k + 1], count, target, top, d[n - (k + 1)])
    OBVIOUS
  <2> DEFINE half == d[n - (k + 1)]
  <2>1. /\ k \in 0 .. n /\ k + 1 \in 1 .. n /\ (k + 1) - 1 = k
        /\ n - k \in 1 .. n /\ (n - k) - 1 = n - (k + 1) /\ n - (k + 1) \in 0 .. n
    OBVIOUS
  <2>2. d[n - k] = 2 * half /\ half \in Nat \ {0}
    BY <2>1, <1>3
  <2>3. SearchedTo(k, st[k], count, target, top, 2 * half)
    BY <2>1, <2>2, <1>5
  <2>4. Tries(st[k + 1], st[k], count, target)
    BY <2>1, <1>2
  <2>5. st[k] \in SearchStates(top) /\ st[k + 1] \in SearchStates(top)
    BY <2>1, <1>2
  <2> HIDE DEF half
  <2>6. SearchedTo(k + 1, st[k + 1], count, target, top, half)
    BY <2>2, <2>3, <2>4, <2>5, SearchStep, Zenon
  <2>7. QED
    BY <2>6 DEF half
<1> HIDE DEF P
<1>6. n \in P
  BY <1>4, <1>5, NatInd
<1> DEFINE s == st[n]
<1>7. SearchedTo(n, s, count, target, top, 1)
  <2>1. n - n = 0
    OBVIOUS
  <2>2. QED
    BY <2>1, <1>3, <1>6 DEF P
<1>8. s.lo \in 0 .. top /\ s.hi \in 0 .. top /\ s.best \in 0 .. top
  BY <1>2 DEF SearchStates
<1> HIDE DEF s
<1>9. \A r \in 1 .. top - 1 : count[r] \in Nat /\ Distance(count[r], target) \in Nat
  BY DEF Distance
<1>10. CASE s.stop
  <2>1. s.best \in 1 .. top - 1 /\ count[s.best] = target
    BY <1>7, <1>10 DEF SearchedTo
  <2>2. Distance(count[s.best], target) = 0
    BY <2>1, <1>9 DEF Distance
  <2>3. Closest(s.best, count, target, 1 .. top - 1)
    BY <2>1, <2>2, <1>9 DEF Closest
  <2>4. QED
    BY <2>3, <1>2 DEF s
<1>11. CASE ~ s.stop
  <2>1. /\ s.hi = s.lo + 1
        /\ Closest(s.best, count, target, {r \in 1 .. top - 1 : r <= s.lo \/ r >= s.hi})
    BY <1>7, <1>11 DEF SearchedTo
  <2>2. {r \in 1 .. top - 1 : r <= s.lo \/ r >= s.hi} = 1 .. top - 1
    BY <2>1, <1>8
  <2>3. QED
    BY <2>1, <2>2, <1>2 DEF s
<1>12. QED
  BY <1>10, <1>11

\* Max and Min of two numbers
LEMMA OfTwo ==
  ASSUME NEW a \in Int, NEW b \in Int
  PROVE  /\ Max({a, b}) = IF a >= b THEN a ELSE b
         /\ Min({a, b}) = IF a <= b THEN a ELSE b
<1>1. \E x \in {a, b} : \A y \in {a, b} : x >= y
  OBVIOUS
<1>2. \E x \in {a, b} : \A y \in {a, b} : x =< y
  OBVIOUS
<1>3. Max({a, b}) \in {a, b} /\ \A y \in {a, b} : Max({a, b}) >= y
  BY <1>1 DEF Max
<1>4. Min({a, b}) \in {a, b} /\ \A y \in {a, b} : Min({a, b}) =< y
  BY <1>2 DEF Min
<1>5. QED
  BY <1>3, <1>4

\* the number of communities that is aimed at
LEMMA TargetIsNumber ==
  ASSUME NEW nodes \in Nat, NEW per \in Nat, NEW least \in Nat, NEW most \in Nat
  PROVE  TargetCount(nodes, per, least, most) \in Nat \ {0}
<1> DEFINE lo == Max({1, least})
           hi == Max({lo, most})
           d  == Max({1, per})
           q  == RoundedRatio(nodes, d)
<1>1. lo \in Nat \ {0} /\ d \in Nat \ {0}
  BY OfTwo
<1>2. q \in Int
  <2> HIDE DEF d
  <2>1. nodes \div d \in Int
    BY <1>1
  <2>2. QED
    BY <2>1 DEF RoundedRatio
<1> HIDE DEF lo, d, q
<1>3. hi \in Int
  BY <1>1, OfTwo
<1> HIDE DEF hi
<1>4. Min({hi, q}) \in Int
  BY <1>2, <1>3, OfTwo
<1>5. Max({lo, Min({hi, q})}) \in Nat \ {0}
  BY <1>1, <1>4, OfTwo
<1>6. TargetCount(nodes, per, least, most) = IF nodes <= 0 THEN lo ELSE Max({lo, Min({hi, q})})
  BY DEF TargetCount, lo, hi, q, d
<1>7. QED
  BY <1>1, <1>5, <1>6

(***************************************************************************)
(* search_resolution ends with a resolution it tried, and none of those it *)
(* tried has a number of communities that is closer to the target, however *)
(* that number rises and falls with the resolution; where it never falls,  *)
(* none of all resolutions has.  For every count and target, and every     *)
(* range that can be halved to one.                                        *)
(***************************************************************************)
THEOREM SearchIsClosest == Spec => []ResolutionFound
<1>1. CasesInv => ResolutionFound
  <2> SUFFICES ASSUME CasesInv, sample.kind = "resolution" PROVE ResolutionFound
    BY DEF ResolutionFound
  <2> DEFINE count == sample.count
             target == sample.target
             best == SearchResolution(count, target, Top2, Halvings)
             at == [k \in 0 .. Halvings |-> Searched(count, target, Top2, k)]
  <2>1. count \in [1 .. Top2 - 1 -> Nat] /\ DOMAIN count = 1 .. Top2 - 1
    BY DEF CasesInv
  <2>2. target \in Int
    <3>1. PICK n \in 0 .. 2 * Cardinality(Nodes) + 1 :
            target = TargetCount(n, 2, 1, Cardinality(Nodes))
      BY DEF CasesInv
    <3>2. Cardinality(Nodes) \in Nat
      BY GraphsAssumption, FS_CardinalityType
    <3>3. n \in Nat
      BY <3>2
    <3>4. QED
      BY <3>1, <3>2, <3>3, TargetIsNumber
  <2>3. /\ Top2 \in Nat /\ Halvings \in Nat \ {0}
        /\ \E d \in [0 .. Halvings -> 1 .. Top2] : Doubles(d, Halvings, Top2)
    BY GraphsAssumption DEF Doubles
  <2>4. PICK d : Doubles(d, Halvings, Top2)
    BY <2>3
  <2> HIDE DEF count, target, at, best
  <2>5. SearchRun(at, count, target, Top2, Halvings)
    BY <2>3, SearchRuns DEF at
  <2>6. BestSoFar(Halvings, at, count, target, Top2, 1)
    BY <2>1, <2>2, <2>3, <2>4, <2>5, SearchTries
  <2>7. /\ \A k \in 0 .. Halvings : at[k] = Searched(count, target, Top2, k)
        /\ at[Halvings].best = best /\ Halvings > 0
    BY <2>3, <2>5 DEF SearchRun, best
  <2>8. Tried(count, target) = {Middle(at[k]) : k \in {j \in 0 .. Halvings - 1 : ~ at[j].stop}}
    <3>1. \A k \in 0 .. Halvings - 1 : at[k] = Searched(count, target, Top2, k)
      BY <2>3, <2>7
    <3>2. QED
      BY <3>1 DEF Tried
  <2>9. best \in Tried(count, target) /\ ClosestOf(best, count, target, Tried(count, target))
    BY <2>6, <2>7, <2>8 DEF BestSoFar, ClosestOf
  <2>10. ASSUME \A i, j \in DOMAIN count : i <= j => count[i] <= count[j]
         PROVE  ClosestOf(best, count, target, DOMAIN count)
    <3>1. Closest(best, count, target, 1 .. Top2 - 1)
      BY <2>1, <2>2, <2>3, <2>4, <2>10, SearchFinds DEF best
    <3>2. QED
      BY <3>1, <2>1 DEF Closest, ClosestOf
  <2>11. QED
    BY <2>9, <2>10 DEF ResolutionFound, best, count, target
<1>2. QED
  BY <1>1, CasesAlways, PTL

-----------------------------------------------------------------------------
(***************************************************************************)
(* Merging small communities: each goes to the large one it has most edges *)
(* to.                                                                     *)
(***************************************************************************)

\* a sum of numbers is 0 only if they all are
LEMMA TotalIsZero ==
  ASSUME NEW T, IsFiniteSet(T), NEW w \in [T -> Nat]
  PROVE  Total(w) \in Nat /\ (Total(w) = 0 <=> \A x \in T : w[x] = 0)
<1>1. PICK sums : SumsOf(sums, T, w) /\ Total(w) = sums[T]
  BY TotalIsSummed
<1>2. /\ sums \in [SUBSET T -> Nat] /\ sums[{}] = 0
      /\ \A s \in SUBSET T : \A x \in s : sums[s] = w[x] + sums[s \ {x}]
  BY <1>1 DEF SumsOf
<1>3. ASSUME NEW x \in T, Total(w) = 0 PROVE w[x] = 0
  <2>1. T \in SUBSET T /\ T \ {x} \in SUBSET T
    OBVIOUS
  <2>2. sums[T] = w[x] + sums[T \ {x}] /\ sums[T \ {x}] \in Nat /\ w[x] \in Nat
    BY <2>1, <1>2
  <2>3. QED
    BY <2>2, <1>1, <1>3
<1>4. ASSUME \A x \in T : w[x] = 0 PROVE Total(w) = 0
  <2> DEFINE Q == {s \in SUBSET T : sums[s] = 0}
  <2>1. {} \in Q
    BY <1>2
  <2>2. ASSUME NEW s \in SUBSET T, NEW x \in T \ s, s \in Q PROVE s \cup {x} \in Q
    <3>1. s \cup {x} \in SUBSET T /\ x \in s \cup {x} /\ (s \cup {x}) \ {x} = s
      OBVIOUS
    <3>2. sums[s \cup {x}] = w[x] + sums[s]
      BY <3>1, <1>2
    <3>3. QED
      BY <3>1, <3>2, <2>2, <1>4
  <2> HIDE DEF Q
  <2>3. T \in Q
    BY <2>1, <2>2, SetInd
  <2>4. QED
    BY <2>3, <1>1 DEF Q
<1>5. Total(w) \in Nat
  BY <1>1, <1>2
<1>6. QED
  BY <1>3, <1>4, <1>5

\* one of a finite set has the largest value
LEMMA Largest ==
  ASSUME NEW S, IsFiniteSet(S), S # {}, NEW v, \A x \in S : v[x] \in Nat
  PROVE  \E x \in S : \A y \in S : v[x] >= v[y]
<1> DEFINE Q == {T \in SUBSET S : T = {} \/ \E x \in T : \A y \in T : v[x] >= v[y]}
<1>1. {} \in Q
  OBVIOUS
<1>2. ASSUME NEW T \in SUBSET S, NEW z \in S \ T, T \in Q PROVE T \cup {z} \in Q
  <2>1. CASE T = {}
    BY <2>1
  <2>2. CASE T # {}
    <3>1. PICK x \in T : \A y \in T : v[x] >= v[y]
      BY <2>2, <1>2
    <3>2. CASE v[x] >= v[z]
      BY <3>1, <3>2
    <3>3. CASE ~ (v[x] >= v[z])
      <4>1. \A y \in T \cup {z} : v[z] >= v[y]
        BY <3>1, <3>3
      <4>2. QED
        BY <4>1
    <3>4. QED
      BY <3>2, <3>3
  <2>3. QED
    BY <2>1, <2>2
<1> HIDE DEF Q
<1>3. S \in Q
  BY <1>1, <1>2, SetInd
<1>4. QED
  BY <1>3 DEF Q

\* edges as they are read: two ends, and a weight or none
EdgesRead == Nodes \X Nodes \X ({NoWeight} \cup Nat)

\* lists of them
Relations3 == Seq(EdgesRead)

\* the weight of edges is a number
LEMMA WeightIsNumber ==
  ASSUME NEW edges \in Relations3
  PROVE  /\ \A i \in DOMAIN edges : EdgeWeight(edges[i]) \in Nat /\ ShownWeight(edges[i]) \in Nat
         /\ \A a, b : GraphWeight(edges, a, b) \in Nat
<1>1. \A i \in DOMAIN edges : edges[i][3] \in {NoWeight} \cup Nat
  BY DEF Relations3, EdgesRead
<1>2. \A i \in DOMAIN edges : EdgeWeight(edges[i]) \in Nat /\ ShownWeight(edges[i]) \in Nat
  BY <1>1 DEF EdgeWeight, ShownWeight
<1>3. ASSUME NEW a, NEW b PROVE GraphWeight(edges, a, b) \in Nat
  <2> DEFINE at == {j \in DOMAIN edges : {edges[j][1], edges[j][2]} = {a, b}}
             w == [i \in at |-> EdgeWeight(edges[i])]
  <2>1. IsFiniteSet(DOMAIN edges)
    <3>1. DOMAIN edges = 1 .. Len(edges) /\ Len(edges) \in Nat
      BY DEF Relations3, EdgesRead
    <3>2. QED
      BY <3>1, FS_Interval
  <2>2. IsFiniteSet(at) /\ w \in [at -> Nat]
    BY <2>1, <1>2, FS_Subset
  <2>3. GraphWeight(edges, a, b) = Total(w)
    BY DEF GraphWeight
  <2> HIDE DEF at, w
  <2>4. QED
    BY <2>2, <2>3, TotalIsZero
<1>4. QED
  BY <1>2, <1>3

\* the votes of a group for a community are a number
LEMMA VotesAreNumbers ==
  ASSUME NEW edges \in Relations3, NEW community \in SUBSET Nodes, NEW group \in SUBSET Nodes
  PROVE  Votes(edges, community, group) \in Nat
<1> DEFINE T == group \X community
           w == [p \in T |-> GraphWeight(edges, p[1], p[2])]
<1>1. IsFiniteSet(group) /\ IsFiniteSet(community)
  BY GraphsAssumption, FS_Subset
<1>2. IsFiniteSet(T)
  BY <1>1, FS_Product
<1>3. w \in [T -> Nat]
  BY WeightIsNumber
<1>4. Votes(edges, community, group) = Total(w)
  BY DEF Votes
<1> HIDE DEF w, T
<1>5. QED
  BY <1>2, <1>3, <1>4, TotalIsZero

\* the best community has no fewer votes than another
LEMMA BestIs ==
  ASSUME NEW edges \in Relations3, NEW n \in Nat, NEW big \in [1 .. n -> SUBSET Nodes],
         NEW group \in SUBSET Nodes
  PROVE  /\ BestNeighbour(edges, big, group) \in 0 .. n
         /\ BestNeighbour(edges, big, group) = 0
               <=> \A i \in 1 .. n : ~ Touches(edges, group, big[i])
<1> DEFINE votes == [i \in DOMAIN big |-> Votes(edges, big[i], group)]
           near  == {i \in DOMAIN big : \E m1 \in group, n1 \in big[i] : Linked(edges, m1, n1)}
           best  == {i \in near : \A j \in near : votes[i] >= votes[j]}
<1>1. DOMAIN big = 1 .. n /\ \A i \in 1 .. n : big[i] \in SUBSET Nodes
  OBVIOUS
<1>2. \A i \in 1 .. n : votes[i] \in Nat /\ (i \in near <=> Touches(edges, group, big[i]))
  BY <1>1, VotesAreNumbers DEF Touches
<1>3. BestNeighbour(edges, big, group) = IF near = {} THEN 0 ELSE Min(best)
  BY DEF BestNeighbour
<1> HIDE DEF votes
<1>4. CASE near = {}
  BY <1>1, <1>2, <1>3, <1>4
<1>5. CASE near # {}
  <2>1. IsFiniteSet(near)
    <3>1. IsFiniteSet(1 .. n)
      BY FS_Interval
    <3>2. QED
      BY <3>1, <1>1, FS_Subset
  <2>2. \E x \in near : \A y \in near : votes[x] >= votes[y]
    <3>1. \A x \in near : votes[x] \in Nat
      BY <1>1, <1>2
    <3> HIDE DEF near
    <3>2. QED
      BY <3>1, <2>1, <1>5, Largest
  <2>3. best # {} /\ best \in SUBSET Nat
    BY <2>2, <1>1
  <2>4. Min(best) \in best
    <3> HIDE DEF best
    <3>1. QED
      BY <2>3, MinIs
  <2>5. Min(best) \in near /\ Min(best) \in 1 .. n
    BY <2>4, <1>1
  <2>6. QED
    BY <2>5, <1>1, <1>2, <1>3, <1>5
<1>6. QED
  BY <1>4, <1>5

-----------------------------------------------------------------------------
(***************************************************************************)
(* The small communities are merged one after another: after k of them,    *)
(* each large one has grown by those that went to it, and those that went  *)
(* nowhere are alone.                                                      *)
(***************************************************************************)

\* what is in the parts named by K
Joined(parts, K) == UNION {parts[k] : k \in K}

\* the large communities, and the nodes of those that are left alone
Communities(n) == [big : [1 .. n -> SUBSET Nodes], alone : SUBSET Nodes]

\* each node is in one group at most
Apart(parts, n) == \A i, j \in 1 .. n : i # j => parts[i] \cap parts[j] = {}

\* the first l small groups share no node with each other, nor with the large ones
Separate(big, n, small, l) ==
    /\ big \in [1 .. n -> SUBSET Nodes] /\ small \in [1 .. l -> SUBSET Nodes]
    /\ Apart(big, n) /\ Apart(small, l)
    /\ \A i \in 1 .. n, j \in 1 .. l : big[i] \cap small[j] = {}

\* of the first k small groups, those in L are left alone
LeftAlone(m, L, k, edges, big, n, small) ==
    /\ m.alone = Joined(small, L)
    /\ Joined(m.big, 1 .. n) = Joined(big, 1 .. n) \cup Joined(small, (1 .. k) \ L)
    /\ \A i \in L : ~ Touches(edges, small[i], Joined(big, 1 .. n) \cup Joined(small, (1 .. i - 1) \ L))
    /\ \A i \in 1 .. n : big[i] \subseteq m.big[i]
    /\ Apart(m.big, n)

\* after k small groups there are such L
MergedTo(m, k, edges, big, n, small) ==
    \E L \in SUBSET (1 .. k) : LeftAlone(m, L, k, edges, big, n, small)

\* one more small group is merged, or left alone
LEMMA MergeStep ==
  ASSUME NEW edges \in Relations3, NEW n \in Nat, NEW l \in Nat, NEW big, NEW small,
         Separate(big, n, small, l), NEW k \in 0 .. l - 1, NEW m \in Communities(n),
         MergedTo(m, k, edges, big, n, small), NEW big0
  PROVE  /\ MergeGroup(edges, big0, m, small[k + 1]) \in Communities(n)
         /\ MergedTo(MergeGroup(edges, big0, m, small[k + 1]), k + 1, edges, big, n, small)
<1> DEFINE group == small[k + 1]
           best == BestNeighbour(edges, m.big, group)
           new == MergeGroup(edges, big0, m, group)
<1>1. /\ big \in [1 .. n -> SUBSET Nodes] /\ small \in [1 .. l -> SUBSET Nodes]
      /\ \A i, j \in 1 .. n : i # j => big[i] \cap big[j] = {}
      /\ \A i, j \in 1 .. l : i # j => small[i] \cap small[j] = {}
      /\ \A i \in 1 .. n, j \in 1 .. l : big[i] \cap small[j] = {}
  BY DEF Separate, Apart
<1>2. k + 1 \in 1 .. l /\ group \in SUBSET Nodes /\ 1 .. k \subseteq 1 .. l /\ k + 1 \notin 1 .. k
  BY <1>1
<1>3. /\ m \in [big : [1 .. n -> SUBSET Nodes], alone : SUBSET Nodes]
      /\ m.big \in [1 .. n -> SUBSET Nodes] /\ m.alone \in SUBSET Nodes
  BY DEF Communities
<1>4. best \in 0 .. n /\ (best = 0 <=> \A i \in 1 .. n : ~ Touches(edges, group, m.big[i]))
  BY <1>2, <1>3, BestIs
<1>5. PICK L \in SUBSET (1 .. k) : LeftAlone(m, L, k, edges, big, n, small)
  BY DEF MergedTo
<1>6. /\ m.alone = Joined(small, L)
      /\ Joined(m.big, 1 .. n) = Joined(big, 1 .. n) \cup Joined(small, (1 .. k) \ L)
      /\ \A i \in L : ~ Touches(edges, small[i], Joined(big, 1 .. n) \cup Joined(small, (1 .. i - 1) \ L))
      /\ \A i \in 1 .. n : big[i] \subseteq m.big[i]
      /\ \A i, j \in 1 .. n : i # j => m.big[i] \cap m.big[j] = {}
  BY <1>5 DEF LeftAlone, Apart
<1>7. new = IF best = 0 THEN [m EXCEPT !.alone = @ \cup group] ELSE [m EXCEPT !.big[best] = @ \cup group]
  BY DEF MergeGroup
<1> HIDE DEF group, best, new
<1>8. CASE best = 0
  <2> DEFINE K == L \cup {k + 1}
  <2>1. new = [m EXCEPT !.alone = @ \cup group]
    BY <1>7, <1>8
  <2>2. new \in Communities(n) /\ new.big = m.big /\ new.alone = m.alone \cup group
    BY <2>1, <1>2, <1>3 DEF Communities
  <2>3. K \in SUBSET (1 .. k + 1) /\ (1 .. k + 1) \ K = (1 .. k) \ L
    BY <1>2
  <2>4. Joined(small, K) = Joined(small, L) \cup group
    BY DEF Joined, group
  <2>5. ASSUME NEW i \in L
        PROVE  ~ Touches(edges, small[i], Joined(big, 1 .. n) \cup Joined(small, (1 .. i - 1) \ K))
    <3>1. i \in 1 .. k /\ (1 .. i - 1) \ K = (1 .. i - 1) \ L
      OBVIOUS
    <3>2. QED
      BY <3>1, <1>6
  <2>6. ~ Touches(edges, small[k + 1], Joined(big, 1 .. n) \cup Joined(small, (1 .. k) \ K))
    <3>1. (1 .. k) \ K = (1 .. k) \ L
      BY <1>2
    <3>2. ~ Touches(edges, group, Joined(m.big, 1 .. n))
      <4>1. \A i \in 1 .. n : ~ Touches(edges, group, m.big[i])
        BY <1>4, <1>8
      <4>2. QED
        BY <4>1 DEF Touches, Joined
    <3>3. QED
      BY <3>1, <3>2, <1>6 DEF group
  <2>7. (k + 1) - 1 = k
    OBVIOUS
  <2>8. \A i \in K :
           ~ Touches(edges, small[i], Joined(big, 1 .. n) \cup Joined(small, (1 .. i - 1) \ K))
    BY <2>5, <2>6, <2>7
  <2> HIDE DEF K
  <2>9. LeftAlone(new, K, k + 1, edges, big, n, small)
    BY <2>2, <2>3, <2>4, <2>8, <1>6 DEF LeftAlone, Apart
  <2>10. QED
    BY <2>2, <2>3, <2>9 DEF MergedTo, new, group
<1>9. CASE best # 0
  <2>1. best \in 1 .. n
    BY <1>4, <1>9
  <2>2. new = [m EXCEPT !.big[best] = @ \cup group]
    BY <1>7, <1>9
  <2>3. /\ new \in Communities(n) /\ new.alone = m.alone
        /\ new.big = [m.big EXCEPT ![best] = m.big[best] \cup group]
    BY <2>1, <2>2, <1>2, <1>3 DEF Communities
  <2>4. \A i \in 1 .. n : new.big[i] = IF i = best THEN m.big[i] \cup group ELSE m.big[i]
    BY <2>3, <1>3
  <2>5. L \in SUBSET (1 .. k + 1) /\ (1 .. k + 1) \ L = ((1 .. k) \ L) \cup {k + 1}
    BY <1>2
  <2>6. Joined(small, (1 .. k + 1) \ L) = Joined(small, (1 .. k) \ L) \cup group
    BY <2>5 DEF Joined, group
  <2>7. Joined(new.big, 1 .. n) = Joined(m.big, 1 .. n) \cup group
    <3>1. ASSUME NEW x \in Joined(new.big, 1 .. n) PROVE x \in Joined(m.big, 1 .. n) \cup group
      BY <2>4 DEF Joined
    <3>2. ASSUME NEW x \in Joined(m.big, 1 .. n) PROVE x \in Joined(new.big, 1 .. n)
      BY <2>4 DEF Joined
    <3>3. ASSUME NEW x \in group PROVE x \in Joined(new.big, 1 .. n)
      BY <2>1, <2>4 DEF Joined
    <3>4. QED
      BY <3>1, <3>2, <3>3
  <2>8. ASSUME NEW i \in 1 .. n PROVE m.big[i] \cap group = {}
    <3>1. m.big[i] \subseteq Joined(m.big, 1 .. n)
      BY DEF Joined
    <3>2. Joined(big, 1 .. n) \cap group = {}
      BY <1>1, <1>2 DEF Joined, group
    <3>3. Joined(small, (1 .. k) \ L) \cap group = {}
      BY <1>1, <1>2 DEF Joined, group
    <3>4. QED
      BY <3>1, <3>2, <3>3, <1>6
  <2>9. \A i, j \in 1 .. n : i # j => new.big[i] \cap new.big[j] = {}
    BY <2>4, <2>8, <1>6
  <2>10. \A i \in 1 .. n : big[i] \subseteq new.big[i]
    BY <2>4, <1>6
  <2>11. LeftAlone(new, L, k + 1, edges, big, n, small)
    BY <2>3, <2>6, <2>7, <2>9, <2>10, <1>6 DEF LeftAlone, Apart
  <2>12. QED
    BY <2>3, <2>5, <2>11 DEF MergedTo, new, group
<1>10. QED
  BY <1>8, <1>9

\* the groups that are large enough
BigGroups(groups, size) == Select(groups, {i \in DOMAIN groups : Cardinality(groups[i]) >= size})

\* MergeSmall goes through such communities, to those it returns
LEMMA MergedIs ==
  ASSUME NEW edges \in Relations3, NEW groups, NEW size, NEW n \in Nat, NEW l \in Nat,
         NEW big, NEW small \in Seq(SUBSET Nodes), Len(small) = l, Separate(big, n, small, l),
         big = BigGroups(groups, size), small = SmallGroups(groups, size), big # <<>>
  PROVE  /\ MergeSmall(edges, groups, size) \in Communities(n)
         /\ MergedTo(MergeSmall(edges, groups, size), l, edges, big, n, small)
<1> DEFINE V == Communities(n)
           big0 == big
           base == [big |-> big, alone |-> {}]
           op(m, g) == MergeGroup(edges, big0, m, g)
           F == [p \in V \X (1 .. l) |-> op(p[1], small[p[2]])]
           merged == MergeSmall(edges, groups, size)
           Eq(iter) == iter = [s \in SUBSET DOMAIN small |->
                IF s = {} THEN base ELSE op(iter[s \ {Max(s)}], small[Max(s)])]
           I == CHOOSE iter : Eq(iter)
<1>1. merged = I[DOMAIN small]
  BY DEF I, Eq, FoldLeft, MapThenFoldSet, MergeSmall, BigGroups
<1>2. big \in [1 .. n -> SUBSET Nodes] /\ small \in [1 .. l -> SUBSET Nodes] /\ DOMAIN small = 1 .. l
  BY DEF Separate
<1>3. base \in V
  BY <1>2 DEF Communities
<1>4. ASSUME NEW m \in V, NEW g \in SUBSET Nodes PROVE op(m, g) \in V
  <2> DEFINE best == BestNeighbour(edges, m.big, g)
  <2>1. /\ m \in [big : [1 .. n -> SUBSET Nodes], alone : SUBSET Nodes]
        /\ m.big \in [1 .. n -> SUBSET Nodes] /\ m.alone \in SUBSET Nodes
    BY DEF Communities
  <2>2. best \in 0 .. n
    BY <2>1, BestIs
  <2>3. op(m, g) = IF best = 0 THEN [m EXCEPT !.alone = @ \cup g] ELSE [m EXCEPT !.big[best] = @ \cup g]
    BY DEF MergeGroup
  <2> HIDE DEF best, op
  <2>4. CASE best = 0
    BY <2>1, <2>3, <2>4 DEF Communities
  <2>5. CASE best # 0
    <3>1. best \in 1 .. n /\ op(m, g) = [m EXCEPT !.big[best] = @ \cup g]
      BY <2>2, <2>3, <2>5
    <3>2. [m.big EXCEPT ![best] = m.big[best] \cup g] \in [1 .. n -> SUBSET Nodes]
      BY <2>1, <3>1
    <3>3. op(m, g) = [m EXCEPT !.big = [m.big EXCEPT ![best] = m.big[best] \cup g]]
      BY <3>1
    <3>4. QED
      BY <2>1, <3>2, <3>3 DEF Communities
  <2>6. QED
    BY <2>4, <2>5
<1>5. F \in [V \X (1 .. l) -> V] /\ \A m \in V, k \in 1 .. l : F[<<m, k>>] = op(m, small[k])
  <2> HIDE DEF op, V
  <2>1. \A k \in 1 .. l : small[k] \in SUBSET Nodes
    BY <1>2
  <2>2. QED
    BY <2>1, <1>4
<1> HIDE DEF F, Eq, I, op, base, V, merged
<1>6. PICK it \in [SUBSET (1 .. l) -> V] : Recurs(it, l, base, F)
  BY <1>3, <1>5, IterationIs, Zenon
<1>7. \A s \in SUBSET (1 .. l) : s # {} => Max(s) \in 1 .. l /\ s \ {Max(s)} \in SUBSET (1 .. l)
  BY MaxIn
<1>8. Eq(it)
  <2>1. ASSUME NEW s \in SUBSET (1 .. l)
        PROVE  it[s] = IF s = {} THEN base ELSE op(it[s \ {Max(s)}], small[Max(s)])
    BY <1>5, <1>6, <1>7 DEF Recurs
  <2>2. QED
    BY <2>1, <1>6, <1>2 DEF Eq
<1>9. Eq(I)
  BY <1>8 DEF I
<1>10. /\ I[{}] = base
       /\ \A s \in SUBSET (1 .. l) : s # {} => I[s] = op(I[s \ {Max(s)}], small[Max(s)])
  BY <1>9, <1>2 DEF Eq
<1>11. RecursTyped(I, l, V, base, F)
  BY <1>5, <1>7, <1>10 DEF RecursTyped
<1>12. PICK st : Steps(st, l, V, base, F, I[1 .. l])
  BY <1>3, <1>5, <1>11, FoldRun, Zenon
<1>13. st \in [0 .. l -> V] /\ st[0] = base /\ I[1 .. l] = st[l]
  BY <1>12 DEF Steps
<1>14. ASSUME NEW k \in 0 .. l - 1
       PROVE  st[k] \in V /\ st[k + 1] = MergeGroup(edges, big0, st[k], small[k + 1])
  <2>1. k \in 0 .. l /\ k + 1 \in 1 .. l /\ (k + 1) - 1 = k
    OBVIOUS
  <2>2. st[k] \in V
    BY <2>1, <1>13
  <2>3. st[k + 1] = F[<<st[k], k + 1>>]
    BY <2>1, <1>12 DEF Steps
  <2>4. st[k + 1] = op(st[k], small[k + 1])
    BY <2>1, <2>2, <2>3, <1>5
  <2>5. QED
    BY <2>2, <2>4 DEF op
<1> DEFINE P == {k \in Nat : k <= l => MergedTo(st[k], k, edges, big, n, small)}
<1>15. 0 \in P
  <2>1. /\ base.alone = {} /\ base.big = big
    BY DEF base
  <2>2. Apart(big, n) /\ Joined(small, {}) = {} /\ (1 .. 0) \ {} = {}
    BY DEF Separate, Joined
  <2>3. LeftAlone(base, {}, 0, edges, big, n, small)
    BY <2>1, <2>2 DEF LeftAlone
  <2>4. QED
    BY <2>3, <1>13 DEF MergedTo
<1>16. ASSUME NEW k \in Nat, k \in P PROVE k + 1 \in P
  <2> SUFFICES ASSUME k + 1 <= l PROVE MergedTo(st[k + 1], k + 1, edges, big, n, small)
    OBVIOUS
  <2>1. k \in 0 .. l - 1
    OBVIOUS
  <2>2. MergedTo(st[k], k, edges, big, n, small) /\ st[k] \in Communities(n)
    BY <2>1, <1>14, <1>16 DEF V
  <2>3. MergedTo(MergeGroup(edges, big0, st[k], small[k + 1]), k + 1, edges, big, n, small)
    BY <2>1, <2>2, MergeStep, Zenon
  <2>4. QED
    BY <2>1, <2>3, <1>14
<1> HIDE DEF P
<1>17. l \in P
  BY <1>15, <1>16, NatInd
<1>18. merged = st[l]
  BY <1>1, <1>2, <1>13
<1>19. MergedTo(merged, l, edges, big, n, small) /\ merged \in Communities(n)
  BY <1>17, <1>18, <1>13 DEF P, V
<1>20. QED
  BY <1>19 DEF merged

\* groups are large or small
Split(groups, big, small, size) ==
    /\ Len(big) \in Nat /\ Len(small) \in Nat
    /\ DOMAIN big = 1 .. Len(big) /\ DOMAIN small = 1 .. Len(small)
    /\ big \in Seq(SUBSET Nodes) /\ small \in Seq(SUBSET Nodes)
    /\ Separate(big, Len(big), small, Len(small))
    /\ \A j \in DOMAIN small : small[j] # {}
    /\ \A i \in DOMAIN big : Cardinality(big[i]) >= size
    /\ UNION Range(groups) = Joined(big, 1 .. Len(big)) \cup Joined(small, 1 .. Len(small))
    /\ (UNION Range(groups)) \ UNION Range(small) = Joined(big, 1 .. Len(big))

\* every partition into groups is
LEMMA GroupsSplit ==
  ASSUME NEW groups \in Groupings, NEW size \in Nat
  PROVE  Split(groups, BigGroups(groups, size), SmallGroups(groups, size), size)
<1> DEFINE N == Len(groups)
           B == {i \in DOMAIN groups : Cardinality(groups[i]) >= size}
           S == {i \in DOMAIN groups : Cardinality(groups[i]) < size}
           big == BigGroups(groups, size)
           small == SmallGroups(groups, size)
           n == Cardinality(B)
           l == Cardinality(S)
<1>1. /\ groups \in Seq((SUBSET Nodes) \ {{}}) /\ IsFiniteSet(Nodes)
      /\ \A i, j \in DOMAIN groups : i # j => groups[i] \cap groups[j] = {}
  BY GraphsAssumption
<1>2. N \in Nat /\ DOMAIN groups = 1 .. N /\ \A i \in 1 .. N : groups[i] \in SUBSET Nodes /\ groups[i] # {}
  BY <1>1
<1>3. \A i \in 1 .. N : Cardinality(groups[i]) \in Nat
  BY <1>1, <1>2, FS_Subset, FS_CardinalityType
<1>4. B \in SUBSET (1 .. N) /\ S \in SUBSET (1 .. N) /\ B \cup S = 1 .. N /\ B \cap S = {}
  BY <1>2, <1>3
<1>5. big = Select(groups, B) /\ small = Select(groups, S)
  BY DEF BigGroups, SmallGroups
<1>6. /\ \A i \in B : Cardinality(groups[i]) >= size
  OBVIOUS
<1> HIDE DEF B, S, big, small
<1>7. PICK f : Picks(f, B, groups, big)
  BY <1>2, <1>4, <1>5, SelectIs
<1>8. PICK h : Picks(h, S, groups, small)
  BY <1>2, <1>4, <1>5, SelectIs
<1>9. /\ n \in Nat /\ f \in [1 .. n -> B] /\ \A i \in B : \E k \in 1 .. n : f[k] = i
      /\ \A j, k \in 1 .. n : j < k => f[j] < f[k]
      /\ big = [k \in 1 .. n |-> groups[f[k]]]
  BY <1>7 DEF Picks
<1>10. /\ l \in Nat /\ h \in [1 .. l -> S] /\ \A i \in S : \E k \in 1 .. l : h[k] = i
       /\ \A j, k \in 1 .. l : j < k => h[j] < h[k]
       /\ small = [k \in 1 .. l |-> groups[h[k]]]
  BY <1>8 DEF Picks
<1> HIDE DEF n, l
<1>11. /\ big \in Seq(SUBSET Nodes) /\ big \in [1 .. n -> SUBSET Nodes] /\ Len(big) = n /\ DOMAIN big = 1 .. n
  <2>1. big \in [1 .. n -> SUBSET Nodes]
    BY <1>2, <1>4, <1>9
  <2>2. QED
    BY <2>1, <1>9
<1>12. /\ small \in Seq(SUBSET Nodes) /\ small \in [1 .. l -> SUBSET Nodes]
       /\ Len(small) = l /\ DOMAIN small = 1 .. l
  <2>1. small \in [1 .. l -> SUBSET Nodes]
    BY <1>2, <1>4, <1>10
  <2>2. QED
    BY <2>1, <1>10
<1>13. \A i \in 1 .. n : f[i] \in B /\ f[i] \in 1 .. N /\ big[i] = groups[f[i]]
  BY <1>4, <1>9
<1>14. \A i \in 1 .. l : h[i] \in S /\ h[i] \in 1 .. N /\ small[i] = groups[h[i]]
  BY <1>4, <1>10
<1>15. Apart(big, n)
  <2>1. \A i, j \in 1 .. n : i # j => f[i] # f[j]
    <3>1. \A i, j \in 1 .. n : i # j => i < j \/ j < i
      OBVIOUS
    <3>2. \A i \in 1 .. n : f[i] \in Int
      BY <1>13
    <3>3. QED
      BY <3>1, <3>2, <1>9
  <2>2. QED
    BY <2>1, <1>1, <1>2, <1>13 DEF Apart
<1>16. Apart(small, l)
  <2>1. \A i, j \in 1 .. l : i # j => h[i] # h[j]
    <3>1. \A i, j \in 1 .. l : i # j => i < j \/ j < i
      OBVIOUS
    <3>2. \A i \in 1 .. l : h[i] \in Int
      BY <1>14
    <3>3. QED
      BY <3>1, <3>2, <1>10
  <2>2. QED
    BY <2>1, <1>1, <1>2, <1>14 DEF Apart
<1>17. \A i \in 1 .. n, j \in 1 .. l : big[i] \cap small[j] = {}
  BY <1>1, <1>2, <1>4, <1>13, <1>14
<1>18. Separate(big, n, small, l)
  BY <1>11, <1>12, <1>15, <1>16, <1>17 DEF Separate
<1>19. /\ \A j \in 1 .. l : small[j] # {}
       /\ \A i \in 1 .. n : Cardinality(big[i]) >= size
  BY <1>2, <1>6, <1>13, <1>14
<1>20. UNION Range(groups) = Joined(big, 1 .. n) \cup Joined(small, 1 .. l)
  <2>1. ASSUME NEW x \in UNION Range(groups) PROVE x \in Joined(big, 1 .. n) \cup Joined(small, 1 .. l)
    <3>1. PICK i \in 1 .. N : x \in groups[i]
      BY <1>2 DEF Range
    <3>2. CASE i \in B
      <4>1. PICK k \in 1 .. n : f[k] = i
        BY <3>2, <1>9
      <4>2. x \in big[k]
        BY <3>1, <4>1, <1>13
      <4>3. QED
        BY <4>2 DEF Joined
    <3>3. CASE i \in S
      <4>1. PICK k \in 1 .. l : h[k] = i
        BY <3>3, <1>10
      <4>2. x \in small[k]
        BY <3>1, <4>1, <1>14
      <4>3. QED
        BY <4>2 DEF Joined
    <3>4. QED
      BY <3>2, <3>3, <1>4
  <2>2. ASSUME NEW x \in Joined(big, 1 .. n) \cup Joined(small, 1 .. l) PROVE x \in UNION Range(groups)
    <3>1. (\E k \in 1 .. n : x \in big[k]) \/ (\E k \in 1 .. l : x \in small[k])
      BY DEF Joined
    <3>2. \E i \in 1 .. N : x \in groups[i]
      BY <3>1, <1>13, <1>14
    <3>3. QED
      BY <3>2, <1>2 DEF Range
  <2>3. QED
    BY <2>1, <2>2
<1>21. UNION Range(small) = Joined(small, 1 .. l)
  BY <1>12 DEF Range, Joined
<1>22. Joined(big, 1 .. n) \cap Joined(small, 1 .. l) = {}
  BY <1>17 DEF Joined
<1>23. (UNION Range(groups)) \ UNION Range(small) = Joined(big, 1 .. n)
  BY <1>20, <1>21, <1>22
<1>24. Split(groups, big, small, size)
  BY <1>9, <1>10, <1>11, <1>12, <1>18, <1>19, <1>20, <1>23 DEF Split
<1>25. QED
  BY <1>24 DEF big, small

\* in the end every small group was merged or left alone
LEMMA SmallAreMerged ==
  ASSUME NEW edges \in Relations3, NEW groups \in Groupings, NEW size \in Nat
  PROVE  LET big == BigGroups(groups, size)
             small == SmallGroups(groups, size)
             merged == MergeSmall(edges, groups, size)
         IN /\ merged \in Communities(Len(big))
            /\ MergedTo(merged, Len(small), edges, big, Len(big), small)
<1> DEFINE big == BigGroups(groups, size)
           small == SmallGroups(groups, size)
           merged == MergeSmall(edges, groups, size)
           all == [big |-> <<>>, alone |-> UNION Range(groups)]
<1>1. Split(groups, big, small, size)
  BY GroupsSplit
<1>2. /\ Len(big) \in Nat /\ Len(small) \in Nat
      /\ DOMAIN big = 1 .. Len(big) /\ DOMAIN small = 1 .. Len(small)
      /\ big \in Seq(SUBSET Nodes) /\ small \in Seq(SUBSET Nodes)
      /\ Separate(big, Len(big), small, Len(small))
      /\ UNION Range(groups) = Joined(big, 1 .. Len(big)) \cup Joined(small, 1 .. Len(small))
  BY <1>1 DEF Split
<1>3. big = <<>> => merged = all
  BY DEF MergeSmall, BigGroups, SmallGroups
<1> HIDE DEF merged, big, small
<1>4. big = BigGroups(groups, size) /\ small = SmallGroups(groups, size)
  BY DEF big, small
<1>5. CASE big # <<>>
  <2>1. /\ MergeSmall(edges, groups, size) \in Communities(Len(big))
        /\ MergedTo(MergeSmall(edges, groups, size), Len(small), edges, big, Len(big), small)
    BY <1>2, <1>4, <1>5, MergedIs, Zenon
  <2>2. QED
    BY <2>1 DEF merged, big, small
<1>6. CASE big = <<>>
  <2> DEFINE l == Len(small)
  <2>1. Len(big) = 0 /\ 1 .. 0 = {}
    BY <1>6
  <2>2. UNION Range(groups) \in SUBSET Nodes
    BY GraphsAssumption
  <2>3. <<>> \in [1 .. 0 -> SUBSET Nodes]
    BY <2>1
  <2>4. all \in Communities(0)
    BY <2>2, <2>3 DEF Communities
  <2>5. \A K : Joined(big, {}) = {} /\ Joined(<<>>, {}) = {}
    BY DEF Joined
  <2>6. UNION Range(groups) = Joined(small, 1 .. l)
    BY <1>2, <2>1, <2>5
  <2>7. all.big = <<>> /\ all.alone = Joined(small, 1 .. l)
    BY <2>6
  <2>8. ASSUME NEW i \in 1 .. l
        PROVE  ~ Touches(edges, small[i], Joined(big, 1 .. 0) \cup Joined(small, (1 .. i - 1) \ (1 .. l)))
    <3>1. (1 .. i - 1) \ (1 .. l) = {}
      BY <1>2
    <3>2. Joined(big, 1 .. 0) \cup Joined(small, (1 .. i - 1) \ (1 .. l)) = {}
      BY <3>1, <2>1 DEF Joined
    <3>3. QED
      BY <3>2 DEF Touches
  <2> HIDE DEF all
  <2>9. Joined(all.big, 1 .. 0) = Joined(big, 1 .. 0) \cup Joined(small, (1 .. l) \ (1 .. l))
    <3>1. (1 .. l) \ (1 .. l) = {}
      OBVIOUS
    <3>2. QED
      BY <3>1, <2>1 DEF Joined
  <2>10. LeftAlone(all, 1 .. l, l, edges, big, 0, small)
    BY <2>1, <2>7, <2>8, <2>9 DEF LeftAlone, Apart
  <2>11. MergedTo(all, l, edges, big, 0, small)
    BY <2>10 DEF MergedTo
  <2>12. merged = all
    BY <1>3, <1>6
  <2>13. QED
    BY <2>1, <2>4, <2>11, <2>12 DEF merged, big, small
<1>7. QED
  BY <1>5, <1>6

\* what merged small groups are to the communities they join
LEMMA MergedIsPartition ==
  ASSUME NEW edges \in Relations3, NEW groups \in Groupings, NEW size \in Nat
  PROVE  LET merged == MergeSmall(edges, groups, size)
             small  == SmallGroups(groups, size)
             larger == (UNION Range(groups)) \ UNION Range(small)
             others(i) == UNION {merged.big[j] : j \in DOMAIN merged.big \ {i}}
         IN /\ (UNION Range(merged.big)) \cup merged.alone = Nodes
            /\ \A i \in DOMAIN merged.big :
                  /\ merged.big[i] \cap (others(i) \cup merged.alone) = {}
                  /\ Cardinality(merged.big[i]) >= size
            /\ \A i \in DOMAIN small : small[i] \subseteq merged.alone =>
                  ~ Touches(edges, small[i], larger \cup
                       UNION {small[j] : j \in {h \in 1 .. i - 1 : ~ small[h] \subseteq merged.alone}})
<1> DEFINE merged == MergeSmall(edges, groups, size)
           big    == BigGroups(groups, size)
           small  == SmallGroups(groups, size)
           larger == (UNION Range(groups)) \ UNION Range(small)
           others(i) == UNION {merged.big[j] : j \in DOMAIN merged.big \ {i}}
           n == Len(big)
           l == Len(small)
<1>1. Split(groups, big, small, size)
  BY GroupsSplit
<1>2. merged \in Communities(n) /\ MergedTo(merged, l, edges, big, n, small)
  BY SmallAreMerged
<1>3. UNION Range(groups) = Nodes /\ IsFiniteSet(Nodes)
  BY GraphsAssumption
<1> HIDE DEF merged, big, small
<1>4. /\ n \in Nat /\ l \in Nat /\ DOMAIN big = 1 .. n /\ DOMAIN small = 1 .. l
      /\ Separate(big, n, small, l)
      /\ \A j \in 1 .. l : small[j] # {}
      /\ \A i \in 1 .. n : Cardinality(big[i]) >= size
      /\ UNION Range(groups) = Joined(big, 1 .. n) \cup Joined(small, 1 .. l)
      /\ larger = Joined(big, 1 .. n)
  BY <1>1 DEF Split
<1>5. /\ big \in [1 .. n -> SUBSET Nodes] /\ small \in [1 .. l -> SUBSET Nodes]
      /\ \A i, j \in 1 .. l : i # j => small[i] \cap small[j] = {}
      /\ \A i \in 1 .. n, j \in 1 .. l : big[i] \cap small[j] = {}
  BY <1>4 DEF Separate, Apart
<1>6. merged.big \in [1 .. n -> SUBSET Nodes] /\ DOMAIN merged.big = 1 .. n
  BY <1>2 DEF Communities
<1>7. PICK L \in SUBSET (1 .. l) : LeftAlone(merged, L, l, edges, big, n, small)
  BY <1>2 DEF MergedTo
<1>8. /\ merged.alone = Joined(small, L)
      /\ Joined(merged.big, 1 .. n) = Joined(big, 1 .. n) \cup Joined(small, (1 .. l) \ L)
      /\ \A i \in L : ~ Touches(edges, small[i], Joined(big, 1 .. n) \cup Joined(small, (1 .. i - 1) \ L))
      /\ \A i \in 1 .. n : big[i] \subseteq merged.big[i]
      /\ \A i, j \in 1 .. n : i # j => merged.big[i] \cap merged.big[j] = {}
  BY <1>7 DEF LeftAlone, Apart
<1>9. UNION Range(merged.big) = Joined(merged.big, 1 .. n)
  BY <1>6 DEF Range, Joined
<1>10. Joined(small, 1 .. l) = Joined(small, L) \cup Joined(small, (1 .. l) \ L)
  BY DEF Joined
<1>11. (UNION Range(merged.big)) \cup merged.alone = Nodes
  <2>1. \A A, B, C : (A \cup B) \cup C = A \cup (C \cup B)
    OBVIOUS
  <2>2. Nodes = Joined(big, 1 .. n) \cup Joined(small, 1 .. l)
    BY <1>3, <1>4, Zenon
  <2>3. Nodes = (Joined(big, 1 .. n) \cup Joined(small, (1 .. l) \ L)) \cup Joined(small, L)
    BY <2>1, <2>2, <1>10, Zenon
  <2>4. QED
    BY <2>3, <1>8, <1>9, Zenon
<1>12. Joined(merged.big, 1 .. n) \cap merged.alone = {}
  <2>1. Joined(big, 1 .. n) \cap Joined(small, L) = {}
    BY <1>5 DEF Joined
  <2>2. Joined(small, (1 .. l) \ L) \cap Joined(small, L) = {}
    BY <1>5 DEF Joined
  <2>3. \A A, B, C : A \cap C = {} /\ B \cap C = {} => (A \cup B) \cap C = {}
    OBVIOUS
  <2>4. (Joined(big, 1 .. n) \cup Joined(small, (1 .. l) \ L)) \cap Joined(small, L) = {}
    BY <2>1, <2>2, <2>3, Zenon
  <2>5. QED
    BY <2>4, <1>8, Zenon
<1>13. ASSUME NEW i \in 1 .. n
       PROVE  /\ merged.big[i] \cap (others(i) \cup merged.alone) = {}
              /\ Cardinality(merged.big[i]) >= size
  <2>1. merged.big[i] \cap others(i) = {}
    BY <1>6, <1>8
  <2>2. merged.big[i] \subseteq Joined(merged.big, 1 .. n)
    BY DEF Joined
  <2>3. IsFiniteSet(merged.big[i])
    BY <1>3, <1>6, FS_Subset
  <2>4. big[i] \subseteq merged.big[i]
    BY <1>8
  <2>5. Cardinality(big[i]) <= Cardinality(merged.big[i])
    BY <2>3, <2>4, FS_Subset
  <2>6. IsFiniteSet(big[i])
    BY <2>3, <2>4, FS_Subset
  <2>7. Cardinality(big[i]) \in Nat /\ Cardinality(merged.big[i]) \in Nat
    BY <2>3, <2>6, FS_CardinalityType
  <2>8. Cardinality(merged.big[i]) >= size
    BY <2>5, <2>7, <1>4
  <2>9. QED
    BY <2>1, <2>2, <2>8, <1>12
<1>14. \A i \in 1 .. l : small[i] \subseteq merged.alone <=> i \in L
  <2>1. ASSUME NEW i \in L PROVE small[i] \subseteq merged.alone
    BY <1>8 DEF Joined
  <2>2. ASSUME NEW i \in (1 .. l) \ L PROVE ~ (small[i] \subseteq merged.alone)
    <3>1. small[i] \cap Joined(small, L) = {}
      BY <1>5 DEF Joined
    <3>2. small[i] # {}
      BY <1>4
    <3>3. QED
      BY <3>1, <3>2, <1>8
  <2>3. QED
    BY <2>1, <2>2
<1>15. ASSUME NEW i \in 1 .. l, small[i] \subseteq merged.alone
       PROVE  ~ Touches(edges, small[i], larger \cup
                   UNION {small[j] : j \in {h \in 1 .. i - 1 : ~ small[h] \subseteq merged.alone}})
  <2>1. {h \in 1 .. i - 1 : ~ small[h] \subseteq merged.alone} = (1 .. i - 1) \ L
    <3>1. 1 .. i - 1 \subseteq 1 .. l
      BY <1>4
    <3>2. QED
      BY <3>1, <1>14
  <2>2. i \in L
    BY <1>14, <1>15
  <2>3. ~ Touches(edges, small[i], Joined(big, 1 .. n) \cup Joined(small, (1 .. i - 1) \ L))
    BY <2>2, <1>8
  <2>4. QED
    BY <2>1, <2>3, <1>4 DEF Joined
<1>16. /\ (UNION Range(merged.big)) \cup merged.alone = Nodes
       /\ \A i \in DOMAIN merged.big :
             /\ merged.big[i] \cap (others(i) \cup merged.alone) = {}
             /\ Cardinality(merged.big[i]) >= size
       /\ \A i \in DOMAIN small : small[i] \subseteq merged.alone =>
             ~ Touches(edges, small[i], larger \cup
                  UNION {small[j] : j \in {h \in 1 .. i - 1 : ~ small[h] \subseteq merged.alone}})
  BY <1>4, <1>6, <1>11, <1>13, <1>15
<1>17. QED
  BY <1>16 DEF merged, small

(***************************************************************************)
(* merge_small_communities leaves every node in exactly one community that *)
(* is large enough, or in none; and in none only if its group had no       *)
(* weight to a community when its turn came, for all graphs and all        *)
(* partitions into groups.                                                 *)
(***************************************************************************)
THEOREM MergingPartitions == Spec => []CommunitiesPartition
<1>1. CasesInv => CommunitiesPartition
  <2> SUFFICES ASSUME CasesInv, sample.kind = "communities" PROVE CommunitiesPartition
    BY DEF CommunitiesPartition
  <2>1. sample.edges \in Graphs /\ sample.groups \in Groupings /\ sample.size \in Nat
    BY DEF CasesInv
  <2>2. sample.edges \in Relations3
    BY <2>1, GraphsAssumption DEF Relations3, EdgesRead
  <2>3. QED
    BY <2>1, <2>2, MergedIsPartition DEF CommunitiesPartition
<1>2. QED
  BY <1>1, CasesAlways, PTL

-----------------------------------------------------------------------------
(***************************************************************************)
(* Sorted lists.  A list in order is a shuffle of its items, and by        *)
(* counting what comes before one there is one such list only, if the      *)
(* order is strict: sorting forgets the order it was given.                *)
(***************************************************************************)

\* what is neither before nor after an item is as good as that item
Levels(before, V) ==
    /\ \A x \in V : <<x, x>> \notin before
    /\ \A x, y, z \in V : <<x, y>> \in before /\ <<y, z>> \in before => <<x, z>> \in before
    /\ \A x, y, z \in V : <<x, z>> \in before => <<x, y>> \in before \/ <<y, z>> \in before

\* p goes through the places 1 .. n, each once
Shuffle(p, n) ==
    /\ p \in [1 .. n -> 1 .. n]
    /\ \A j, k \in 1 .. n : j # k => p[j] # p[k]
    /\ \A i \in 1 .. n : \E k \in 1 .. n : p[k] = i

Ascends(list, before) == \A j, k \in DOMAIN list : j < k => <<list[k], list[j]>> \notin before

\* a list of the items of another one
Shuffled(out, list, n) == \E p : Shuffle(p, n) /\ out = [k \in 1 .. n |-> list[p[k]]]

\* Sorted is a shuffle of the list, in order
LEMMA SortedIs ==
  ASSUME NEW V, NEW list \in Seq(V), NEW before, Levels(before, Range(list))
  PROVE  /\ Sorted(list, before) \in Seq(V) /\ Len(Sorted(list, before)) = Len(list)
         /\ DOMAIN Sorted(list, before) = 1 .. Len(list)
         /\ Shuffled(Sorted(list, before), list, Len(list))
         /\ Ascends(Sorted(list, before), before)
<1> DEFINE n == Len(list)
           D == DOMAIN list
           O == {p \in D \X D :
                    \/ <<list[p[1]], list[p[2]]>> \in before
                    \/ <<list[p[2]], list[p[1]]>> \notin before /\ p[1] < p[2]}
           at == Arranged(D, O)
           out == Sorted(list, before)
<1>1. n \in Nat /\ D = 1 .. n /\ list \in [1 .. n -> V] /\ \A i \in D : list[i] \in Range(list)
  BY DEF Range
<1>2. IsFiniteSet(D) /\ Cardinality(D) = n
  BY <1>1, FS_Interval
<1>3. out = [k \in DOMAIN at |-> list[at[k]]]
  BY DEF Sorted
<1>4. \A i, j \in D :
         <<i, j>> \in O <=> <<list[i], list[j]>> \in before \/ (<<list[j], list[i]>> \notin before /\ i < j)
  OBVIOUS
<1> HIDE DEF O, at, out
<1>5. Orders(O, D)
  <2>1. \A x \in Range(list) : <<x, x>> \notin before
    BY DEF Levels
  <2>2. \A x, y, z \in Range(list) : <<x, y>> \in before /\ <<y, z>> \in before => <<x, z>> \in before
    BY DEF Levels
  <2>3. \A x, y, z \in Range(list) : <<x, z>> \in before => <<x, y>> \in before \/ <<y, z>> \in before
    BY DEF Levels
  <2>4. ASSUME NEW i \in D PROVE <<i, i>> \notin O
    <3>1. ~ (i < i)
      BY <1>1
    <3>2. QED
      BY <3>1, <2>1, <1>1, <1>4
  <2>5. ASSUME NEW i \in D, NEW j \in D, NEW k \in D, <<i, j>> \in O, <<j, k>> \in O
        PROVE  <<i, k>> \in O
    <3> DEFINE B(x, y) == <<list[x], list[y]>> \in before
    <3>1. /\ B(i, j) \/ (~ B(j, i) /\ i < j)
          /\ B(j, k) \/ (~ B(k, j) /\ j < k)
      BY <1>4, <2>5
    <3>2. /\ B(i, j) /\ B(j, k) => B(i, k)
          /\ B(i, j) => B(i, k) \/ B(k, j)
          /\ B(j, k) => B(j, i) \/ B(i, k)
          /\ B(k, i) => B(k, j) \/ B(j, i)
      <4>1. list[i] \in Range(list) /\ list[j] \in Range(list) /\ list[k] \in Range(list)
        BY <1>1
      <4>2. QED
        BY <4>1, <2>2, <2>3, Zenon
    <3>3. i < j /\ j < k => i < k
      BY <1>1
    <3>4. B(k, i) /\ B(i, j) => B(k, j)
      BY <1>1, <2>2, Zenon
    <3>5. B(j, k) /\ B(k, i) => B(j, i)
      BY <1>1, <2>2, Zenon
    <3>55. ~ (B(i, j) /\ B(j, i)) /\ ~ (B(j, k) /\ B(k, j)) /\ ~ (B(i, k) /\ B(k, i))
      BY <1>1, <2>1, <2>2, Zenon
    <3>6. B(i, k) \/ (~ B(k, i) /\ i < k)
      <4> HIDE DEF B
      <4>1. QED
        BY <3>1, <3>2, <3>3, <3>4, <3>5, <3>55
    <3>7. QED
      BY <3>6, <1>4
  <2>6. ASSUME NEW i \in D, NEW j \in D PROVE i = j \/ <<i, j>> \in O \/ <<j, i>> \in O
    <3>1. i = j \/ i < j \/ j < i
      BY <1>1
    <3>2. QED
      BY <3>1, <1>4
  <2>7. QED
    BY <2>4, <2>5, <2>6 DEF Orders
<1>6. Arranges(at, D, O)
  BY <1>2, <1>5, ArrangedIs DEF at
<1>7. /\ at \in [1 .. n -> D]
      /\ \A x \in D : \E k \in 1 .. n : at[k] = x
      /\ \A j, k \in 1 .. n : j < k => <<at[j], at[k]>> \in O
  BY <1>2, <1>6 DEF Arranges
<1>8. at \in [1 .. n -> 1 .. n] /\ out = [k \in 1 .. n |-> list[at[k]]]
  BY <1>1, <1>3, <1>7
<1>9. \A j, k \in 1 .. n : j # k => at[j] # at[k]
  <2>1. \A j, k \in 1 .. n : j < k => at[j] # at[k]
    <3>1. \A i \in D : <<i, i>> \notin O
      BY <1>5 DEF Orders
    <3>2. QED
      BY <3>1, <1>7
  <2>2. \A j, k \in 1 .. n : j # k => j < k \/ k < j
    BY <1>1
  <2>3. QED
    BY <2>1, <2>2
<1>10. Shuffle(at, n)
  BY <1>1, <1>7, <1>8, <1>9 DEF Shuffle
<1>11. out \in Seq(V) /\ Len(out) = n /\ DOMAIN out = 1 .. n
  <2>1. out \in [1 .. n -> V]
    BY <1>1, <1>8
  <2>2. QED
    BY <2>1, <1>1
<1>12. Ascends(out, before)
  <2>1. ASSUME NEW j \in 1 .. n, NEW k \in 1 .. n, j < k PROVE <<out[k], out[j]>> \notin before
    <3>1. <<at[j], at[k]>> \in O /\ at[j] \in D /\ at[k] \in D
      BY <2>1, <1>7
    <3>2. out[j] = list[at[j]] /\ out[k] = list[at[k]]
      BY <1>8
    <3>3. <<list[at[j]], list[at[k]]>> \in before \/ <<list[at[k]], list[at[j]]>> \notin before
      BY <3>1, <1>4
    <3>4. list[at[j]] \in Range(list) /\ list[at[k]] \in Range(list)
      BY <3>1, <1>1
    <3>5. QED
      BY <3>2, <3>3, <3>4 DEF Levels
  <2>2. QED
    BY <2>1, <1>11 DEF Ascends
<1>13. Shuffled(out, list, n)
  BY <1>8, <1>10 DEF Shuffled
<1>14. QED
  BY <1>11, <1>12, <1>13 DEF out

\* a shuffle can be undone
LEMMA ShufflesBack ==
  ASSUME NEW n \in Nat, NEW V, NEW a \in [1 .. n -> V], NEW b, Shuffled(b, a, n)
  PROVE  b \in [1 .. n -> V] /\ Shuffled(a, b, n)
<1>1. PICK p : Shuffle(p, n) /\ b = [k \in 1 .. n |-> a[p[k]]]
  BY DEF Shuffled
<1>2. /\ p \in [1 .. n -> 1 .. n]
      /\ \A j, k \in 1 .. n : j # k => p[j] # p[k]
      /\ \A i \in 1 .. n : \E k \in 1 .. n : p[k] = i
  BY <1>1 DEF Shuffle
<1> DEFINE q == [i \in 1 .. n |-> CHOOSE k \in 1 .. n : p[k] = i]
<1>3. \A i \in 1 .. n : q[i] \in 1 .. n /\ p[q[i]] = i
  BY <1>2
<1>4. q \in [1 .. n -> 1 .. n]
  BY <1>3
<1> HIDE DEF q
<1>5. \A j, k \in 1 .. n : j # k => q[j] # q[k]
  BY <1>3
<1>6. \A k \in 1 .. n : q[p[k]] = k
  BY <1>2, <1>3
<1>7. \A i \in 1 .. n : \E k \in 1 .. n : q[k] = i
  BY <1>2, <1>6
<1>8. Shuffle(q, n)
  BY <1>4, <1>5, <1>7 DEF Shuffle
<1>9. b \in [1 .. n -> V] /\ \A k \in 1 .. n : b[k] = a[p[k]]
  BY <1>1, <1>2
<1>10. a = [k \in 1 .. n |-> b[q[k]]]
  BY <1>3, <1>9
<1>11. QED
  BY <1>8, <1>9, <1>10 DEF Shuffled

\* and a shuffle of a shuffle is one
LEMMA ShufflesOn ==
  ASSUME NEW n \in Nat, NEW a, NEW b, NEW c, Shuffled(b, a, n), Shuffled(c, b, n)
  PROVE  Shuffled(c, a, n)
<1>1. PICK p : Shuffle(p, n) /\ b = [k \in 1 .. n |-> a[p[k]]]
  BY DEF Shuffled
<1>2. PICK q : Shuffle(q, n) /\ c = [k \in 1 .. n |-> b[q[k]]]
  BY DEF Shuffled
<1>3. /\ p \in [1 .. n -> 1 .. n]
      /\ \A j, k \in 1 .. n : j # k => p[j] # p[k]
      /\ \A i \in 1 .. n : \E k \in 1 .. n : p[k] = i
  BY <1>1 DEF Shuffle
<1>4. /\ q \in [1 .. n -> 1 .. n]
      /\ \A j, k \in 1 .. n : j # k => q[j] # q[k]
      /\ \A i \in 1 .. n : \E k \in 1 .. n : q[k] = i
  BY <1>2 DEF Shuffle
<1> DEFINE r == [k \in 1 .. n |-> p[q[k]]]
<1>5. r \in [1 .. n -> 1 .. n]
  BY <1>3, <1>4
<1>6. \A j, k \in 1 .. n : j # k => r[j] # r[k]
  BY <1>3, <1>4
<1>7. \A i \in 1 .. n : \E k \in 1 .. n : r[k] = i
  <2>1. ASSUME NEW i \in 1 .. n PROVE \E k \in 1 .. n : r[k] = i
    <3>1. PICK j \in 1 .. n : p[j] = i
      BY <1>3
    <3>2. PICK k \in 1 .. n : q[k] = j
      BY <1>4
    <3>3. QED
      BY <3>1, <3>2
  <2>2. QED
    BY <2>1
<1>8. c = [k \in 1 .. n |-> a[r[k]]]
  BY <1>1, <1>2, <1>4
<1> HIDE DEF r
<1>9. QED
  BY <1>5, <1>6, <1>7, <1>8 DEF Shuffle, Shuffled

\* a shuffled list holds the same items
LEMMA ShuffledRange ==
  ASSUME NEW n \in Nat, NEW a, NEW b, DOMAIN a = 1 .. n, Shuffled(b, a, n)
  PROVE  DOMAIN b = 1 .. n /\ Range(b) = Range(a)
<1>1. PICK p : Shuffle(p, n) /\ b = [k \in 1 .. n |-> a[p[k]]]
  BY DEF Shuffled
<1>2. p \in [1 .. n -> 1 .. n] /\ \A i \in 1 .. n : \E k \in 1 .. n : p[k] = i
  BY <1>1 DEF Shuffle
<1>3. DOMAIN b = 1 .. n /\ \A k \in 1 .. n : b[k] = a[p[k]]
  BY <1>1
<1>4. ASSUME NEW x \in Range(b) PROVE x \in Range(a)
  <2>1. PICK k \in 1 .. n : x = b[k]
    BY <1>3 DEF Range
  <2>2. x = a[p[k]] /\ p[k] \in DOMAIN a
    BY <2>1, <1>2, <1>3
  <2>3. QED
    BY <2>2 DEF Range
<1>5. ASSUME NEW x \in Range(a) PROVE x \in Range(b)
  <2>1. PICK i \in 1 .. n : x = a[i]
    BY DEF Range
  <2>2. PICK k \in 1 .. n : p[k] = i
    BY <1>2
  <2>3. x = b[k] /\ k \in DOMAIN b
    BY <2>1, <2>2, <1>3
  <2>4. QED
    BY <2>3 DEF Range
<1>6. QED
  BY <1>3, <1>4, <1>5

\* 1 .. m has m elements
LEMMA CountUpTo ==
  ASSUME NEW m \in Nat
  PROVE  IsFiniteSet(1 .. m) /\ Cardinality(1 .. m) = m
  BY FS_Interval

\* no item comes too early in a list in order: there are too many before it
LEMMA NotEarlier ==
  ASSUME NEW n \in Nat, NEW V, NEW a \in [1 .. n -> V], NEW b, Shuffled(b, a, n),
         NEW before, Levels(before, V), Ascends(a, before), Ascends(b, before), NEW k \in 1 .. n
  PROVE  <<a[k], b[k]>> \notin before
<1> SUFFICES ASSUME <<a[k], b[k]>> \in before PROVE FALSE
  OBVIOUS
<1>1. PICK p : Shuffle(p, n) /\ b = [i \in 1 .. n |-> a[p[i]]]
  BY DEF Shuffled
<1>2. /\ p \in [1 .. n -> 1 .. n]
      /\ \A i, j \in 1 .. n : i # j => p[i] # p[j]
      /\ \A i \in 1 .. n : \E j \in 1 .. n : p[j] = i
  BY <1>1 DEF Shuffle
<1>3. b \in [1 .. n -> V] /\ \A i \in 1 .. n : b[i] = a[p[i]]
  BY <1>1, <1>2
<1> DEFINE A == {j \in 1 .. n : <<a[k], a[j]>> \notin before}
           B == {j \in 1 .. n : <<a[k], b[j]>> \notin before}
           f == [j \in B |-> p[j]]
<1>4. /\ \A x \in V : <<x, x>> \notin before
      /\ \A x, y, z \in V : <<x, y>> \in before /\ <<y, z>> \in before => <<x, z>> \in before
      /\ \A x, y, z \in V : <<x, z>> \in before => <<x, y>> \in before \/ <<y, z>> \in before
  BY DEF Levels
<1>5. 1 .. k \subseteq A
  <2>1. ASSUME NEW j \in 1 .. k PROVE <<a[k], a[j]>> \notin before
    <3>1. j = k \/ j < k
      OBVIOUS
    <3>2. CASE j = k
      BY <3>2, <1>4
    <3>3. CASE j < k
      <4>1. j \in DOMAIN a /\ k \in DOMAIN a
        OBVIOUS
      <4>2. QED
        BY <4>1, <3>3 DEF Ascends
    <3>4. QED
      BY <3>1, <3>2, <3>3
  <2>2. QED
    BY <2>1
<1>6. B \subseteq 1 .. k - 1
  <2>1. ASSUME NEW j \in 1 .. n, j >= k PROVE <<a[k], b[j]>> \in before
    <3>1. j = k \/ k < j
      BY <2>1
    <3>2. CASE j = k
      BY <3>2
    <3>3. CASE k < j
      <4>1. j \in DOMAIN b /\ k \in DOMAIN b
        BY <1>3
      <4>2. <<b[j], b[k]>> \notin before
        BY <4>1, <3>3 DEF Ascends
      <4>3. a[k] \in V /\ b[k] \in V /\ b[j] \in V
        BY <1>3
      <4>4. QED
        BY <4>2, <4>3, <1>4
    <3>4. QED
      BY <3>1, <3>2, <3>3
  <2>2. QED
    BY <2>1
<1>7. f \in Surjection(B, A)
  <2>1. \A j \in B : p[j] \in A
    BY <1>2, <1>3
  <2>2. ASSUME NEW i \in A PROVE \E j \in B : f[j] = i
    <3>1. PICK j \in 1 .. n : p[j] = i
      BY <1>2
    <3>2. j \in B
      BY <3>1, <1>3
    <3>3. QED
      BY <3>1, <3>2
  <2>3. f \in [B -> A]
    BY <2>1
  <2>4. QED
    BY <2>2, <2>3 DEF Surjection
<1> HIDE DEF A, B, f
<1>8. /\ IsFiniteSet(1 .. k - 1) /\ Cardinality(1 .. k - 1) = k - 1
      /\ IsFiniteSet(1 .. k) /\ Cardinality(1 .. k) = k
  <2>1. /\ k \in Nat /\ k - 1 \in Nat
    OBVIOUS
  <2>2. IsFiniteSet(1 .. k) /\ Cardinality(1 .. k) = k
    BY FS_Interval
  <2>3. IsFiniteSet(1 .. k - 1) /\ Cardinality(1 .. k - 1) = k - 1
    BY <2>1, CountUpTo
  <2>4. QED
    BY <2>2, <2>3
<1>9. IsFiniteSet(B) /\ Cardinality(B) <= k - 1 /\ Cardinality(B) \in Nat
  BY <1>6, <1>8, FS_Subset, FS_CardinalityType
<1>10. IsFiniteSet(A) /\ Cardinality(A) <= Cardinality(B) /\ Cardinality(A) \in Nat
  BY <1>7, <1>9, FS_Surjection, FS_CardinalityType
<1>11. k <= Cardinality(A)
  BY <1>5, <1>8, <1>10, FS_Subset
<1>12. QED
  BY <1>9, <1>10, <1>11

\* there is one list of given items in a strict order
LEMMA OneInOrder ==
  ASSUME NEW n \in Nat, NEW V, NEW a \in [1 .. n -> V], NEW b, Shuffled(b, a, n),
         NEW before, Levels(before, V), Ascends(a, before), Ascends(b, before),
         \A x, y \in V : x = y \/ <<x, y>> \in before \/ <<y, x>> \in before
  PROVE  b = a
<1>1. b \in [1 .. n -> V] /\ Shuffled(a, b, n)
  BY ShufflesBack
<1>2. ASSUME NEW k \in 1 .. n PROVE b[k] = a[k]
  <2>1. <<a[k], b[k]>> \notin before
    BY NotEarlier
  <2>2. <<b[k], a[k]>> \notin before
    BY <1>1, NotEarlier
  <2>3. a[k] \in V /\ b[k] \in V
    BY <1>1
  <2>4. QED
    BY <2>1, <2>2, <2>3
<1>3. QED
  BY <1>1, <1>2

\* a reversed list is a shuffle of it
LEMMA ReverseIs ==
  ASSUME NEW V, NEW list \in Seq(V)
  PROVE  /\ Reverse(list) \in Seq(V) /\ Len(Reverse(list)) = Len(list)
         /\ \A i \in 1 .. Len(list) : Reverse(list)[i] = list[Len(list) - i + 1]
         /\ Shuffled(Reverse(list), list, Len(list))
         /\ Range(Reverse(list)) = Range(list)
<1> DEFINE n == Len(list)
           back == Reverse(list)
           p == [i \in 1 .. n |-> n - i + 1]
<1>1. n \in Nat /\ list \in [1 .. n -> V] /\ DOMAIN list = 1 .. n
  OBVIOUS
<1>2. back = [i \in 1 .. n |-> list[n - i + 1]]
  BY DEF Reverse
<1>3. /\ p \in [1 .. n -> 1 .. n]
      /\ \A j, k \in 1 .. n : j # k => p[j] # p[k]
      /\ \A i \in 1 .. n : \E k \in 1 .. n : p[k] = i
  <2>1. p \in [1 .. n -> 1 .. n]
    BY <1>1
  <2>2. \A j, k \in 1 .. n : j # k => p[j] # p[k]
    BY <1>1
  <2>3. ASSUME NEW i \in 1 .. n PROVE \E k \in 1 .. n : p[k] = i
    <3>1. n - i + 1 \in 1 .. n /\ n - (n - i + 1) + 1 = i
      BY <1>1
    <3>2. p[n - i + 1] = i
      BY <3>1
    <3>3. QED
      BY <3>1, <3>2
  <2>4. QED
    BY <2>1, <2>2, <2>3
<1>4. back = [i \in 1 .. n |-> list[p[i]]]
  BY <1>2
<1> HIDE DEF p, back
<1>5. back \in Seq(V) /\ Len(back) = n /\ DOMAIN back = 1 .. n
  <2>1. back \in [1 .. n -> V]
    BY <1>1, <1>3, <1>4
  <2>2. QED
    BY <2>1, <1>1
<1>6. Shuffled(back, list, n)
  BY <1>3, <1>4 DEF Shuffle, Shuffled
<1>7. Range(back) = Range(list)
  BY <1>1, <1>5, <1>6, ShuffledRange
<1>8. QED
  BY <1>2, <1>5, <1>6, <1>7 DEF back

-----------------------------------------------------------------------------
(***************************************************************************)
(* The fingerprint of a graph: its edges in order, which are the same for  *)
(* the same graph.                                                         *)
(***************************************************************************)

\* an edge as it is read
Triples == Nodes \X Nodes \X Nat

\* the edges with the weight they count with
LEMMA WeightedIs ==
  ASSUME NEW edges \in Relations3
  PROVE  /\ Weighted(edges) \in Seq(Triples) /\ Len(Weighted(edges)) = Len(edges)
         /\ Len(edges) \in Nat /\ DOMAIN edges = 1 .. Len(edges) /\ DOMAIN Weighted(edges) = 1 .. Len(edges)
         /\ \A i \in 1 .. Len(edges) :
               Weighted(edges)[i] = <<edges[i][1], edges[i][2], EdgeWeight(edges[i])>>
<1>1. Len(edges) \in Nat /\ DOMAIN edges = 1 .. Len(edges)
  BY DEF Relations3
<1>2. \A i \in 1 .. Len(edges) : edges[i][1] \in Nodes /\ edges[i][2] \in Nodes /\ EdgeWeight(edges[i]) \in Nat
  <2>1. \A i \in 1 .. Len(edges) : edges[i] \in Nodes \X Nodes \X ({NoWeight} \cup Nat)
    BY DEF Relations3, EdgesRead
  <2>2. \A i \in 1 .. Len(edges) : EdgeWeight(edges[i]) \in Nat
    BY <1>1, WeightIsNumber
  <2>3. QED
    BY <2>1, <2>2
<1>3. Weighted(edges) = [i \in 1 .. Len(edges) |-> <<edges[i][1], edges[i][2], EdgeWeight(edges[i])>>]
  BY <1>1 DEF Weighted
<1>4. Weighted(edges) \in [1 .. Len(edges) -> Triples]
  BY <1>2, <1>3 DEF Triples
<1>5. QED
  BY <1>1, <1>3, <1>4

\* edges are ordered by their ends, then by weight
EdgesBefore(all) == {p \in Range(all) \X Range(all) : LessEdge(p[1], p[2])}

\* any two different ones are in order
LEMMA EdgesRank ==
  ASSUME NEW all \in Seq(Triples)
  PROVE  /\ Levels(EdgesBefore(all), Range(all))
         /\ \A x, y \in Range(all) : x = y \/ <<x, y>> \in EdgesBefore(all) \/ <<y, x>> \in EdgesBefore(all)
<1>1. ASSUME NEW x \in Range(all)
      PROVE  x \in Triples /\ x[1] \in Nat /\ x[2] \in Nat /\ x[3] \in Nat /\ x = <<x[1], x[2], x[3]>>
  <2>1. x \in Triples
    BY DEF Range
  <2>2. Nodes \subseteq Nat
    BY GraphsAssumption
  <2>3. x \in Nodes \X Nodes \X Nat
    BY <2>1 DEF Triples
  <2>4. x[1] \in Nodes /\ x[2] \in Nodes /\ x[3] \in Nat
    BY <2>3
  <2>5. x = <<x[1], x[2], x[3]>>
    BY <2>3
  <2>6. QED
    BY <2>1, <2>2, <2>4, <2>5
<1>2. \A x, y \in Range(all) : <<x, y>> \in EdgesBefore(all) <=> LessEdge(x, y)
  BY DEF EdgesBefore
<1>3. \A x \in Range(all) : ~ LessEdge(x, x)
  BY <1>1 DEF LessEdge
<1>4. \A x, y, z \in Range(all) : LessEdge(x, y) /\ LessEdge(y, z) => LessEdge(x, z)
  BY <1>1 DEF LessEdge
<1>5. \A x, y \in Range(all) : x = y \/ LessEdge(x, y) \/ LessEdge(y, x)
  <2>1. ASSUME NEW x \in Range(all), NEW y \in Range(all), ~ LessEdge(x, y), ~ LessEdge(y, x)
        PROVE  x = y
    <3>1. x[1] = y[1] /\ x[2] = y[2] /\ x[3] = y[3]
      BY <1>1, <2>1 DEF LessEdge
    <3>2. QED
      BY <1>1, <3>1
  <2>2. QED
    BY <2>1
<1>6. \A x, y, z \in Range(all) : LessEdge(x, z) => LessEdge(x, y) \/ LessEdge(y, z)
  <2>1. ASSUME NEW x \in Range(all), NEW y \in Range(all), NEW z \in Range(all), LessEdge(x, z)
        PROVE  LessEdge(x, y) \/ LessEdge(y, z)
    BY <1>4, <1>5, <2>1
  <2>2. QED
    BY <2>1
<1>7. QED
  BY <1>2, <1>3, <1>4, <1>5, <1>6 DEF Levels

\* the fingerprint is a shuffle of the weighted edges, in order
LEMMA FingerprintIs ==
  ASSUME NEW edges \in Relations3
  PROVE  LET all == Weighted(edges)
             print == Sorted(all, EdgesBefore(all))
         IN /\ Fingerprint(Nodes, edges) = <<Nodes, print>>
            /\ print \in [1 .. Len(edges) -> Range(all)] /\ Len(print) = Len(edges)
            /\ Shuffled(print, all, Len(edges)) /\ Ascends(print, EdgesBefore(all))
<1> DEFINE all == Weighted(edges)
           print == Sorted(all, EdgesBefore(all))
<1>1. /\ all \in Seq(Triples) /\ Len(all) = Len(edges) /\ Len(edges) \in Nat
      /\ DOMAIN all = 1 .. Len(edges)
  BY WeightedIs
<1>2. Fingerprint(Nodes, edges) = <<Nodes, print>>
  BY DEF Fingerprint, EdgesBefore
<1> HIDE DEF all
<1>3. all \in Seq(Range(all))
  BY <1>1 DEF Range
<1>4. Levels(EdgesBefore(all), Range(all))
  BY <1>1, EdgesRank
<1>5. /\ print \in Seq(Range(all)) /\ Len(print) = Len(all) /\ DOMAIN print = 1 .. Len(all)
      /\ Shuffled(print, all, Len(all)) /\ Ascends(print, EdgesBefore(all))
  BY <1>3, <1>4, SortedIs
<1> HIDE DEF print
<1>6. print \in [1 .. Len(edges) -> Range(all)]
  BY <1>1, <1>5
<1>7. QED
  BY <1>1, <1>2, <1>5, <1>6 DEF all, print

\* shuffled edges have the same weights
LEMMA SameWeights ==
  ASSUME NEW one \in Relations3, NEW other \in Relations3, NEW n \in Nat, Len(one) = n, Len(other) = n,
         Shuffled(Weighted(other), Weighted(one), n), NEW a, NEW b
  PROVE  /\ Linked(other, a, b) = Linked(one, a, b)
         /\ GraphWeight(other, a, b) = GraphWeight(one, a, b)
<1>1. PICK p : Shuffle(p, n) /\ Weighted(other) = [k \in 1 .. n |-> Weighted(one)[p[k]]]
  BY DEF Shuffled
<1>2. /\ p \in [1 .. n -> 1 .. n]
      /\ \A j, k \in 1 .. n : j # k => p[j] # p[k]
      /\ \A i \in 1 .. n : \E k \in 1 .. n : p[k] = i
  BY <1>1 DEF Shuffle
<1>3. /\ DOMAIN one = 1 .. n /\ DOMAIN other = 1 .. n
      /\ \A i \in 1 .. n : Weighted(one)[i] = <<one[i][1], one[i][2], EdgeWeight(one[i])>>
      /\ \A i \in 1 .. n : Weighted(other)[i] = <<other[i][1], other[i][2], EdgeWeight(other[i])>>
  BY WeightedIs
<1>4. ASSUME NEW k \in 1 .. n
      PROVE  /\ other[k][1] = one[p[k]][1] /\ other[k][2] = one[p[k]][2]
             /\ EdgeWeight(other[k]) = EdgeWeight(one[p[k]])
  <2>1. Weighted(other)[k] = Weighted(one)[p[k]] /\ p[k] \in 1 .. n
    BY <1>1, <1>2
  <2>2. <<other[k][1], other[k][2], EdgeWeight(other[k])>> = <<one[p[k]][1], one[p[k]][2], EdgeWeight(one[p[k]])>>
    BY <2>1, <1>3
  <2>3. \A x1, x2, x3, y1, y2, y3 : <<x1, x2, x3>> = <<y1, y2, y3>> => x1 = y1 /\ x2 = y2 /\ x3 = y3
    OBVIOUS
  <2>4. QED
    BY <2>2, <2>3, Zenon
<1>41. Linked(other, a, b) = Linked(one, a, b)
  <2>1. Linked(one, a, b) = (\E i \in 1 .. n : {one[i][1], one[i][2]} = {a, b})
    BY <1>3 DEF Linked, Range
  <2>2. Linked(other, a, b) = (\E i \in 1 .. n : {other[i][1], other[i][2]} = {a, b})
    BY <1>3 DEF Linked, Range
  <2>3. ASSUME NEW k \in 1 .. n, {other[k][1], other[k][2]} = {a, b}
        PROVE  \E i \in 1 .. n : {one[i][1], one[i][2]} = {a, b}
    <3>1. p[k] \in 1 .. n
      BY <1>2
    <3>2. {one[p[k]][1], one[p[k]][2]} = {a, b}
      BY <2>3, <1>4, Zenon
    <3>3. QED
      BY <3>1, <3>2
  <2>4. ASSUME NEW i \in 1 .. n, {one[i][1], one[i][2]} = {a, b}
        PROVE  \E k \in 1 .. n : {other[k][1], other[k][2]} = {a, b}
    <3>1. PICK k \in 1 .. n : p[k] = i
      BY <1>2
    <3>2. QED
      BY <3>1, <2>4, <1>4
  <2>5. QED
    BY <2>1, <2>2, <2>3, <2>4
<1> DEFINE S == {j \in DOMAIN other : {other[j][1], other[j][2]} = {a, b}}
           T == {j \in DOMAIN one : {one[j][1], one[j][2]} = {a, b}}
           v == [i \in S |-> EdgeWeight(other[i])]
           w == [i \in T |-> EdgeWeight(one[i])]
           q == [i \in S |-> p[i]]
<1>5. GraphWeight(other, a, b) = Total(v) /\ GraphWeight(one, a, b) = Total(w)
  BY DEF GraphWeight
<1>6. IsFiniteSet(S)
  BY <1>3, CountUpTo, FS_Subset
<1>7. w \in [T -> Nat]
  BY <1>3, WeightIsNumber
<1>8. q \in [S -> T] /\ \A y \in T : \E x \in S : q[x] = y
  <2>1. \A k \in 1 .. n : k \in S <=> p[k] \in T
    BY <1>2, <1>3, <1>4
  <2>2. S \subseteq 1 .. n /\ T \subseteq 1 .. n
    BY <1>3
  <2>3. q \in [S -> T]
    BY <2>1, <2>2
  <2>4. \A y \in T : \E x \in S : q[x] = y
    BY <2>1, <2>2, <1>2
  <2>5. QED
    BY <2>3, <2>4
<1>9. \A x, y \in S : x # y => q[x] # q[y]
  BY <1>2, <1>3
<1>10. v = [x \in S |-> w[q[x]]]
  <2>1. \A x \in S : EdgeWeight(other[x]) = w[q[x]]
    <3>1. ASSUME NEW x \in S PROVE EdgeWeight(other[x]) = w[q[x]]
      <4>1. x \in 1 .. n /\ q[x] = p[x] /\ q[x] \in T
        BY <1>3, <1>8
      <4>2. QED
        BY <4>1, <1>4
    <3>2. QED
      BY <3>1
  <2>2. QED
    BY <2>1
<1> HIDE DEF S, T, v, w, q
<1>11. OneToOne(q, S, T) /\ Moved(v, w, q, S)
  BY <1>8, <1>9, <1>10 DEF OneToOne, Moved
<1>12. Total(v) = Total(w)
  BY <1>6, <1>7, <1>11, TotalMoves, Zenon
<1>13. QED
  BY <1>5, <1>12, <1>41

\* so have reversed ones
LEMMA ReversedIs ==
  ASSUME NEW edges \in Relations3
  PROVE  /\ Reverse(edges) \in Relations3 /\ Len(Reverse(edges)) = Len(edges)
         /\ Weighted(Reverse(edges)) = Reverse(Weighted(edges))
<1> DEFINE n == Len(edges)
           back == Reverse(edges)
<1>1. /\ edges \in Seq(EdgesRead) /\ n \in Nat
      /\ Weighted(edges) \in Seq(Triples) /\ Len(Weighted(edges)) = n
      /\ \A i \in 1 .. n : Weighted(edges)[i] = <<edges[i][1], edges[i][2], EdgeWeight(edges[i])>>
  BY WeightedIs DEF Relations3
<1>2. back \in Seq(EdgesRead) /\ Len(back) = n /\ \A i \in 1 .. n : back[i] = edges[n - i + 1]
  BY <1>1, ReverseIs
<1> HIDE DEF back
<1>3. back \in Relations3
  BY <1>2 DEF Relations3
<1>4. Weighted(back) = [i \in 1 .. n |-> <<back[i][1], back[i][2], EdgeWeight(back[i])>>]
  BY <1>2, <1>3, WeightedIs DEF Weighted
<1>5. Reverse(Weighted(edges)) = [i \in 1 .. n |-> Weighted(edges)[n - i + 1]]
  BY <1>1 DEF Reverse
<1>6. \A i \in 1 .. n : Weighted(edges)[n - i + 1] = <<back[i][1], back[i][2], EdgeWeight(back[i])>>
  <2>1. \A i \in 1 .. n : n - i + 1 \in 1 .. n
    BY <1>1
  <2>2. QED
    BY <2>1, <1>1, <1>2
<1>7. Weighted(back) = Reverse(Weighted(edges))
  BY <1>4, <1>5, <1>6
<1>8. QED
  BY <1>2, <1>3, <1>7 DEF back

\* graphs with the same fingerprint have the same weights
LEMMA PrintTells ==
  ASSUME NEW one \in Relations3, NEW other \in Relations3,
         Fingerprint(Nodes, one) = Fingerprint(Nodes, other), NEW a, NEW b
  PROVE  /\ Linked(one, a, b) = Linked(other, a, b)
         /\ GraphWeight(one, a, b) = GraphWeight(other, a, b)
<1> DEFINE all == Weighted(one)
           every == Weighted(other)
           print == Sorted(all, EdgesBefore(all))
           sprint == Sorted(every, EdgesBefore(every))
           n == Len(one)
<1>1. /\ Fingerprint(Nodes, one) = <<Nodes, print>> /\ Len(print) = Len(one)
      /\ print \in [1 .. Len(one) -> Range(all)] /\ Shuffled(print, all, Len(one))
  BY FingerprintIs
<1>2. /\ Fingerprint(Nodes, other) = <<Nodes, sprint>> /\ Len(sprint) = Len(other)
      /\ Shuffled(sprint, every, Len(other))
  BY FingerprintIs
<1>3. /\ all \in Seq(Triples) /\ Len(all) = n /\ n \in Nat /\ DOMAIN all = 1 .. n
  BY WeightedIs
<1>4. /\ every \in Seq(Triples) /\ DOMAIN every = 1 .. Len(other)
  BY WeightedIs
<1> HIDE DEF all, every, print, sprint
<1>5. print = sprint
  <2>1. \A x, y, z : <<x, y>> = <<x, z>> => y = z
    OBVIOUS
  <2>2. <<Nodes, print>> = <<Nodes, sprint>>
    BY <1>1, <1>2
  <2>3. QED
    BY <2>1, <2>2, Zenon
<1>6. Len(other) = n
  BY <1>1, <1>2, <1>5
<1>7. all \in [1 .. n -> Triples] /\ every \in [1 .. n -> Triples]
  BY <1>3, <1>4, <1>6
<1>8. Shuffled(print, all, n) /\ Shuffled(print, every, n)
  BY <1>1, <1>2, <1>5, <1>6
<1>9. Shuffled(every, print, n)
  BY <1>3, <1>7, <1>8, ShufflesBack
<1>10. Shuffled(every, all, n)
  BY <1>3, <1>8, <1>9, ShufflesOn
<1>11. Linked(other, a, b) = Linked(one, a, b) /\ GraphWeight(other, a, b) = GraphWeight(one, a, b)
  BY <1>3, <1>6, <1>10, SameWeights DEF all, every
<1>12. QED
  BY <1>11

\* and reversed edges have the same fingerprint
LEMMA PrintOfReversed ==
  ASSUME NEW edges \in Relations3
  PROVE  Fingerprint(Nodes, edges) = Fingerprint(Nodes, Reverse(edges))
<1> DEFINE back == Reverse(edges)
           all == Weighted(edges)
           every == Weighted(back)
           n == Len(edges)
           before == EdgesBefore(all)
           print == Sorted(all, before)
           sprint == Sorted(every, EdgesBefore(every))
<1>2. n \in Nat /\ all \in Seq(Triples) /\ Len(all) = n /\ DOMAIN all = 1 .. n
  BY WeightedIs
<1>1. back \in Relations3 /\ Len(back) = n /\ Shuffled(every, all, n) /\ Range(every) = Range(all)
  <2>1. back \in Relations3 /\ Len(back) = n /\ every = Reverse(all)
    BY ReversedIs
  <2> HIDE DEF all, every, back
  <2>2. QED
    BY <2>1, <1>2, ReverseIs
<1>3. /\ Fingerprint(Nodes, edges) = <<Nodes, print>>
      /\ print \in [1 .. n -> Range(all)] /\ Shuffled(print, all, n) /\ Ascends(print, before)
  BY FingerprintIs
<1>4. /\ Fingerprint(Nodes, back) = <<Nodes, sprint>>
      /\ Shuffled(sprint, every, Len(back)) /\ Ascends(sprint, EdgesBefore(every))
  <2> HIDE DEF back
  <2>1. QED
    BY <1>1, FingerprintIs
<1>5. EdgesBefore(every) = before
  BY <1>1 DEF EdgesBefore
<1>6. /\ Levels(before, Range(all))
      /\ \A x, y \in Range(all) : x = y \/ <<x, y>> \in before \/ <<y, x>> \in before
  BY <1>2, EdgesRank
<1> HIDE DEF all, every, print, sprint, before, back, n
<1>7. Shuffled(all, print, n)
  <2>1. all \in [1 .. n -> Range(all)]
    BY <1>2 DEF Range
  <2>2. QED
    BY <2>1, <1>2, <1>3, ShufflesBack
<1>8. Shuffled(sprint, every, n) /\ Ascends(sprint, before)
  BY <1>1, <1>4, <1>5
<1>9. Shuffled(every, print, n)
  BY <1>1, <1>2, <1>7, ShufflesOn
<1>10. Shuffled(sprint, print, n)
  BY <1>2, <1>8, <1>9, ShufflesOn
<1>11. sprint = print
  BY <1>2, <1>3, <1>6, <1>8, <1>10, OneInOrder
<1>12. Fingerprint(Nodes, back) = <<Nodes, print>>
  BY <1>4, <1>11
<1>13. QED
  BY <1>3, <1>12 DEF back

(***************************************************************************)
(* Two graphs with one fingerprint (graph_fingerprint) have the same       *)
(* weight between any two nodes, and a graph whose edges are read in the   *)
(* opposite order has the same fingerprint.                                *)
(***************************************************************************)
THEOREM FingerprintsTell == Spec => []FingerprintTells
<1>1. CasesInv => FingerprintTells
  <2> SUFFICES ASSUME CasesInv, sample.kind = "graphs" PROVE FingerprintTells
    BY DEF FingerprintTells
  <2>1. sample.one \in Relations3 /\ sample.other \in Relations3
    BY GraphsAssumption DEF CasesInv, Relations3, EdgesRead
  <2>2. QED
    BY <2>1, PrintTells, PrintOfReversed DEF FingerprintTells
<1>2. QED
  BY <1>1, CasesAlways, PTL

-----------------------------------------------------------------------------
(***************************************************************************)
(* How communities are presented: the largest first, with their members of *)
(* the highest degree and the heaviest of their edges.                     *)
(***************************************************************************)

\* communities are finite, not empty, and share no node
Clusters(list) ==
    /\ list \in Seq(SUBSET Nodes)
    /\ \A i \in DOMAIN list : IsFiniteSet(list[i]) /\ list[i] # {}
    /\ \A i, j \in DOMAIN list : i # j => list[i] \cap list[j] = {}

\* larger communities come first, then those with the least node
ClustersBefore(list) ==
    {p \in Range(list) \X Range(list) :
        \/ Cardinality(p[1]) > Cardinality(p[2])
        \/ Cardinality(p[1]) = Cardinality(p[2]) /\ Min(p[1]) < Min(p[2])}

\* which is a strict order of communities
LEMMA ClustersRank ==
  ASSUME NEW list, Clusters(list)
  PROVE  /\ Levels(ClustersBefore(list), Range(list))
         /\ \A x, y \in Range(list) :
               x = y \/ <<x, y>> \in ClustersBefore(list) \/ <<y, x>> \in ClustersBefore(list)
<1> DEFINE Less(x, y) == \/ Cardinality(x) > Cardinality(y)
                         \/ Cardinality(x) = Cardinality(y) /\ Min(x) < Min(y)
<1>1. ASSUME NEW x \in Range(list)
      PROVE  Cardinality(x) \in Nat /\ Min(x) \in Nat /\ Min(x) \in x
  <2>1. PICK i \in DOMAIN list : x = list[i]
    BY DEF Range
  <2>2. IsFiniteSet(x) /\ x # {} /\ x \in SUBSET Nodes
    BY <2>1 DEF Clusters
  <2>3. x \in SUBSET Nat
    BY <2>2, GraphsAssumption
  <2>4. Min(x) \in x
    BY <2>2, <2>3, MinIs
  <2>5. QED
    BY <2>2, <2>3, <2>4, FS_CardinalityType
<1>2. \A x, y \in Range(list) : <<x, y>> \in ClustersBefore(list) <=> Less(x, y)
  BY DEF ClustersBefore
<1>3. \A x, y \in Range(list) : Min(x) = Min(y) => x = y
  <2>1. ASSUME NEW x \in Range(list), NEW y \in Range(list), Min(x) = Min(y), x # y PROVE FALSE
    <3>1. PICK i \in DOMAIN list : x = list[i]
      BY DEF Range
    <3>2. PICK j \in DOMAIN list : y = list[j]
      BY DEF Range
    <3>3. Min(x) \in list[i] \cap list[j] /\ i # j
      BY <2>1, <3>1, <3>2, <1>1
    <3>4. QED
      BY <3>3 DEF Clusters
  <2>2. QED
    BY <2>1
<1>4. \A x \in Range(list) : ~ Less(x, x)
  BY <1>1
<1>5. \A x, y, z \in Range(list) : Less(x, y) /\ Less(y, z) => Less(x, z)
  BY <1>1
<1>6. \A x, y \in Range(list) : x = y \/ Less(x, y) \/ Less(y, x)
  BY <1>1, <1>3
<1> HIDE DEF Less
<1>7. \A x, y, z \in Range(list) : Less(x, z) => Less(x, y) \/ Less(y, z)
  BY <1>5, <1>6
<1>8. QED
  BY <1>2, <1>4, <1>5, <1>6, <1>7 DEF Levels

\* the largest come first, and it does not matter in which order they were
LEMMA NumberedIs ==
  ASSUME NEW list, Clusters(list)
  PROVE  LET ids == Numbered(list)
         IN /\ Numbered(Reverse(ids)) = ids
            /\ \A i, j \in DOMAIN ids : i < j => Cardinality(ids[i]) >= Cardinality(ids[j])
            /\ \A i \in DOMAIN ids : ids[i] \in Range(list)
<1> DEFINE before == ClustersBefore(list)
           ids == Numbered(list)
           back == Reverse(ids)
           again == Numbered(back)
           n == Len(list)
           V == Range(list)
<1>1. list \in Seq(V) /\ n \in Nat /\ DOMAIN list = 1 .. n
  BY DEF Clusters, Range
<1>2. /\ Levels(before, V)
      /\ \A x, y \in V : x = y \/ <<x, y>> \in before \/ <<y, x>> \in before
  BY ClustersRank
<1>3. ids = Sorted(list, before)
  BY DEF Numbered, ClustersBefore
<1> HIDE DEF before, ids
<1>4. /\ ids \in Seq(V) /\ Len(ids) = n /\ DOMAIN ids = 1 .. n
      /\ Shuffled(ids, list, n) /\ Ascends(ids, before)
  BY <1>1, <1>2, <1>3, SortedIs
<1>5. Range(ids) = V
  BY <1>1, <1>4, ShuffledRange
<1>6. back \in Seq(V) /\ Len(back) = n /\ Shuffled(back, ids, n) /\ Range(back) = V
  <2> HIDE DEF V
  <2>1. QED
    BY <1>4, <1>5, ReverseIs
<1>7. again = Sorted(back, before)
  BY <1>6 DEF Numbered, ClustersBefore, before
<1> HIDE DEF back, again, V
<1>8. Shuffled(again, back, n) /\ Ascends(again, before)
  BY <1>2, <1>6, <1>7, SortedIs
<1>9. Shuffled(again, ids, n) /\ ids \in [1 .. n -> V]
  BY <1>1, <1>4, <1>6, <1>8, ShufflesOn
<1>10. again = ids
  BY <1>1, <1>2, <1>4, <1>8, <1>9, OneInOrder
<1>11. ASSUME NEW i \in 1 .. n, NEW j \in 1 .. n, i < j
       PROVE  Cardinality(ids[i]) >= Cardinality(ids[j])
  <2>1. <<ids[j], ids[i]>> \notin before
    BY <1>4, <1>11 DEF Ascends
  <2>2. ids[i] \in Range(list) /\ ids[j] \in Range(list)
    BY <1>9 DEF V
  <2>3. ~ (Cardinality(ids[j]) > Cardinality(ids[i]))
    BY <2>1, <2>2 DEF before, ClustersBefore
  <2>4. \A x \in Range(list) : Cardinality(x) \in Nat
    <3>1. \A i1 \in DOMAIN list : IsFiniteSet(list[i1])
      BY DEF Clusters
    <3>2. QED
      BY <3>1, FS_CardinalityType DEF Range
  <2>5. QED
    BY <2>2, <2>3, <2>4
<1>12. \A i \in 1 .. n : ids[i] \in Range(list)
  BY <1>9 DEF V
<1>13. /\ Numbered(back) = ids
       /\ \A i, j \in DOMAIN ids : i < j => Cardinality(ids[i]) >= Cardinality(ids[j])
       /\ \A i \in DOMAIN ids : ids[i] \in Range(list)
  BY <1>4, <1>10, <1>11, <1>12 DEF again
<1>14. QED
  BY <1>13 DEF back, ids

\* symbols last, then the highest degree, then the name
MembersBefore(edges, members, symbols) ==
    {p \in members \X members : RanksBefore(edges, symbols, p[1], p[2])}

\* the degree of a member is a number
LEMMA DegreeIsNumber ==
  ASSUME NEW edges \in Relations3, NEW n
  PROVE  Degree(edges, n) \in Nat
<1> DEFINE near == {m \in UNION {{e[1], e[2]} : e \in Range(edges)} : Linked(edges, m, n)}
<1>1. near \subseteq Nodes
  <2>1. \A e \in Range(edges) : e[1] \in Nodes /\ e[2] \in Nodes
    BY DEF Range, Relations3, EdgesRead
  <2>2. QED
    BY <2>1
<1>2. Cardinality(near) \in Nat
  BY <1>1, GraphsAssumption, FS_Subset, FS_CardinalityType
<1>3. Degree(edges, n) = Cardinality(near) + (IF n \in near THEN 1 ELSE 0)
  BY DEF Degree
<1> HIDE DEF near
<1>4. QED
  BY <1>2, <1>3

\* which puts any two of them in order
LEMMA MembersOrder ==
  ASSUME NEW edges \in Relations3, NEW members \in SUBSET Nodes, NEW symbols
  PROVE  Orders(MembersBefore(edges, members, symbols), members)
<1>1. \A m \in members : m \in Nat /\ Degree(edges, m) \in Nat
  BY GraphsAssumption, DegreeIsNumber
<1>2. \A m, n \in members :
         <<m, n>> \in MembersBefore(edges, members, symbols) <=> RanksBefore(edges, symbols, m, n)
  BY DEF MembersBefore
<1>3. \A m \in members : ~ RanksBefore(edges, symbols, m, m)
  BY <1>1 DEF RanksBefore
<1>4. \A x, y, z \in members : RanksBefore(edges, symbols, x, y) /\ RanksBefore(edges, symbols, y, z)
                                  => RanksBefore(edges, symbols, x, z)
  BY <1>1 DEF RanksBefore
<1>5. \A x, y \in members : x = y \/ RanksBefore(edges, symbols, x, y) \/ RanksBefore(edges, symbols, y, x)
  BY <1>1 DEF RanksBefore
<1>6. QED
  BY <1>2, <1>3, <1>4, <1>5 DEF Orders

\* who is shown of a community
LEMMA ShownRank ==
  ASSUME NEW edges \in Relations3, NEW members \in SUBSET Nodes, NEW s \in Nat, NEW max \in Nat
  PROVE  LET shown == Range(RankedMembers(edges, members, {s}, max))
         IN /\ s \in shown => shown = members
            /\ \A m \in shown \ {s}, n \in members \ (shown \cup {s}) :
                  Degree(edges, n) <= Degree(edges, m)
<1> DEFINE before == MembersBefore(edges, members, {s})
           all == Arranged(members, before)
           top == RankedMembers(edges, members, {s}, max)
           shown == Range(top)
           c == Cardinality(members)
<1>1. IsFiniteSet(members)
  BY GraphsAssumption, FS_Subset
<1>2. Orders(before, members)
  BY MembersOrder
<1>3. top = Top(all, max)
  BY DEF RankedMembers, MembersBefore
<1> HIDE DEF before, all, top
<1>4. Arranges(all, members, before)
  BY <1>1, <1>2, ArrangedIs DEF all
<1>5. /\ c \in Nat /\ all \in [1 .. c -> members]
      /\ \A x \in members : \E k \in 1 .. c : all[k] = x
      /\ \A j, k \in 1 .. c : j < k => <<all[j], all[k]>> \in before
  BY <1>4 DEF Arranges
<1> HIDE DEF c
<1>6. all \in Seq(members) /\ Len(all) = c
  BY <1>5
<1>7. /\ top \in Seq(members) /\ Len(top) \in Nat /\ DOMAIN top = 1 .. Len(top)
      /\ Len(top) = IF max < c THEN max ELSE c
      /\ \A i \in 1 .. Len(top) : top[i] = all[i]
  <2>1. /\ top \in Seq(members) /\ Len(top) = IF max < Len(all) THEN max ELSE Len(all)
        /\ \A i \in 1 .. Len(top) : top[i] = all[i]
    BY <1>3, <1>6, TopIs
  <2>2. QED
    BY <2>1, <1>6
<1>8. \A x, y \in members : <<x, y>> \in before => RanksBefore(edges, {s}, x, y) 
  BY DEF before, MembersBefore
<1>9. \A x \in members : <<x, x>> \notin before
  BY <1>2 DEF Orders
<1>10. ASSUME s \in shown PROVE shown = members
  <2>1. PICK k \in 1 .. Len(top) : top[k] = s
    BY <1>7, <1>10 DEF Range
  <2>2. k \in 1 .. c /\ all[k] = s /\ s \in members
    BY <2>1, <1>5, <1>7
  <2>3. \A j \in 1 .. c : ~ (k < j)
    <3>1. ASSUME NEW j \in 1 .. c, k < j PROVE FALSE
      <4>1. <<s, all[j]>> \in before /\ all[j] \in members
        BY <2>2, <3>1, <1>5
      <4>2. RanksBefore(edges, {s}, s, all[j])
        BY <2>2, <4>1, <1>8
      <4>3. all[j] = s
        BY <4>2 DEF RanksBefore
      <4>4. QED
        BY <4>1, <4>3, <1>9
    <3>2. QED
      BY <3>1
  <2>4. Len(top) = c
    <3>1. c \in 1 .. c
      BY <2>2, <1>5
    <3>2. ~ (k < c)
      BY <2>3, <3>1
    <3>3. QED
      BY <2>1, <2>2, <3>2, <1>5, <1>7
  <2>5. ASSUME NEW x \in members PROVE x \in shown
    <3>1. PICK j \in 1 .. c : all[j] = x
      BY <1>5
    <3>2. j \in DOMAIN top /\ top[j] = x
      BY <3>1, <2>4, <1>7
    <3>3. QED
      BY <3>2 DEF Range
  <2>6. shown \subseteq members
    BY <1>7 DEF Range
  <2>7. QED
    BY <2>5, <2>6
<1>11. ASSUME NEW m \in shown \ {s}, NEW n \in members \ (shown \cup {s})
       PROVE  Degree(edges, n) <= Degree(edges, m)
  <2>1. PICK j \in 1 .. Len(top) : top[j] = m
    BY <1>7 DEF Range
  <2>2. j \in 1 .. c /\ all[j] = m /\ m \in members
    BY <2>1, <1>5, <1>7
  <2>3. PICK k \in 1 .. c : all[k] = n
    BY <1>5
  <2>4. ~ (k <= Len(top))
    <3>1. ASSUME k <= Len(top) PROVE FALSE
      <4>1. k \in 1 .. Len(top)
        BY <3>1, <1>7
      <4>2. top[k] = n /\ k \in DOMAIN top
        BY <4>1, <2>3, <1>7
      <4>3. n \in shown
        BY <4>2 DEF Range
      <4>4. QED
        BY <4>3
    <3>2. QED
      BY <3>1
  <2>5. j < k
    BY <2>1, <2>2, <2>3, <2>4, <1>5, <1>7
  <2>6. <<m, n>> \in before
    BY <2>2, <2>3, <2>5, <1>5
  <2>7. RanksBefore(edges, {s}, m, n)
    BY <2>2, <2>6, <1>8
  <2>8. m \notin {s} /\ n \notin {s}
    OBVIOUS
  <2>9. Degree(edges, m) > Degree(edges, n) \/ Degree(edges, m) = Degree(edges, n)
    BY <2>7, <2>8 DEF RanksBefore
  <2>10. Degree(edges, m) \in Nat /\ Degree(edges, n) \in Nat
    BY DegreeIsNumber
  <2>11. QED
    BY <2>9, <2>10
<1>12. QED
  BY <1>10, <1>11 DEF top

\* heavier edges come first, then those with the lesser ends
HeavyBefore(list) ==
    {p \in Range(list) \X Range(list) :
        \/ ShownWeight(p[1]) > ShownWeight(p[2])
        \/ /\ ShownWeight(p[1]) = ShownWeight(p[2])
           /\ p[1][1] < p[2][1] \/ (p[1][1] = p[2][1] /\ p[1][2] < p[2][2])}

\* no edge is heavier than the first of the heaviest
LEMMA HeaviestIs ==
  ASSUME NEW list \in Relations3, NEW d \in Range(list)
  PROVE  ShownWeight(d) <= ShownWeight(Heaviest(list, 1)[1])
<1> DEFINE before == HeavyBefore(list)
           out == Sorted(list, before)
           V == Range(list)
           n == Len(list)
           Heavier(x, y) == \/ ShownWeight(x) > ShownWeight(y)
                            \/ /\ ShownWeight(x) = ShownWeight(y)
                               /\ x[1] < y[1] \/ (x[1] = y[1] /\ x[2] < y[2])
<1>1. list \in Seq(V) /\ n \in Nat /\ DOMAIN list = 1 .. n
  BY DEF Relations3, Range
<1>2. ASSUME NEW x \in V PROVE ShownWeight(x) \in Nat /\ x[1] \in Nat /\ x[2] \in Nat
  <2>1. PICK i \in DOMAIN list : x = list[i]
    BY DEF Range
  <2>2. ShownWeight(x) \in Nat
    BY <2>1, WeightIsNumber
  <2>3. x \in Nodes \X Nodes \X ({NoWeight} \cup Nat)
    BY <2>1 DEF Relations3, EdgesRead
  <2>4. QED
    BY <2>2, <2>3, GraphsAssumption
<1>3. \A x, y \in V : <<x, y>> \in before <=> Heavier(x, y)
  BY DEF HeavyBefore
<1>4. \A x \in V : ~ Heavier(x, x)
  BY <1>2
<1>5. \A x, y, z \in V : Heavier(x, y) /\ Heavier(y, z) => Heavier(x, z)
  BY <1>2
<1>6. \A x, y, z \in V : Heavier(x, z) => Heavier(x, y) \/ Heavier(y, z)
  BY <1>2
<1>7. Levels(before, V)
  <2> HIDE DEF Heavier, before, V
  <2>1. QED
    BY <1>3, <1>4, <1>5, <1>6 DEF Levels
<1>8. Heaviest(list, 1) = Top(out, 1)
  BY DEF Heaviest, HeavyBefore
<1> HIDE DEF before, out, V
<1>9. /\ out \in Seq(V) /\ Len(out) = n /\ DOMAIN out = 1 .. n
      /\ Shuffled(out, list, n) /\ Ascends(out, before)
  BY <1>1, <1>7, SortedIs DEF out, V
<1>10. Range(out) = V
  BY <1>1, <1>9, ShuffledRange DEF V
<1>11. PICK k \in 1 .. n : out[k] = d
  BY <1>9, <1>10 DEF Range, V
<1>12. 1 \in 1 .. n /\ Top(out, 1)[1] = out[1]
  <2>1. 1 \in 1 .. n
    BY <1>1, <1>11
  <2>2. Len(Top(out, 1)) = (IF 1 < n THEN 1 ELSE n) /\ \A i \in 1 .. Len(Top(out, 1)) : Top(out, 1)[i] = out[i]
    BY <1>9, TopIs
  <2>3. QED
    BY <2>1, <2>2, <1>1
<1>13. out[1] \in V /\ d \in V
  BY <1>9, <1>12 DEF V
<1>14. CASE k = 1
  BY <1>2, <1>8, <1>11, <1>12, <1>13, <1>14
<1>15. CASE k # 1
  <2>1. 1 < k
    BY <1>1, <1>15
  <2>2. <<d, out[1]>> \notin before
    BY <2>1, <1>9, <1>11, <1>12 DEF Ascends
  <2>3. ~ (ShownWeight(d) > ShownWeight(out[1]))
    BY <2>2, <1>3, <1>13
  <2>4. ShownWeight(d) \in Nat /\ ShownWeight(out[1]) \in Nat
    BY <1>2, <1>13
  <2>5. QED
    BY <2>3, <2>4, <1>8, <1>12
<1>16. QED
  BY <1>14, <1>15

\* asking for more shows what was shown, and more
LEMMA PrefixOfMore ==
  ASSUME NEW V, NEW s \in Seq(V), NEW t \in Seq(V)
  PROVE  s \o t \in Seq(V) /\ IsPrefix(s, s \o t)
<1> DEFINE p == SubSeq(s, 1, Len(s))
           q == SubSeq(s \o t, 1, Len(s))
<1>1. p \in Seq(V) /\ Len(p) = Len(s) /\ \A i \in 1 .. Len(s) : p[i] = s[i]
  OBVIOUS
<1>2. s \o t \in Seq(V) /\ Len(s \o t) = Len(s) + Len(t) /\ \A i \in 1 .. Len(s) : (s \o t)[i] = s[i]
  OBVIOUS
<1>3. Len(s) \in Nat /\ Len(t) \in Nat /\ Len(s) <= Len(s \o t)
  BY <1>2
<1> DEFINE all == s \o t
<1> HIDE DEF all
<1>4. all \in Seq(V) /\ Len(s) <= Len(all) /\ \A i \in 1 .. Len(s) : all[i] = s[i]
  BY <1>2, <1>3 DEF all
<1>5. q = SubSeq(all, 1, Len(s))
  BY DEF all
<1> HIDE DEF q
<1>6. q \in Seq(V) /\ Len(q) = Len(s) /\ \A i \in 1 .. Len(s) : q[i] = all[i]
  BY <1>3, <1>4, <1>5
<1> HIDE DEF p
<1>7. p = q
  BY <1>1, <1>4, <1>6, SeqEqual
<1>8. QED
  BY <1>2, <1>3, <1>7 DEF IsPrefix, p, q

\* a list is a beginning of itself
LEMMA WholeIsPrefix ==
  ASSUME NEW V, NEW s \in Seq(V)
  PROVE  IsPrefix(s, s)
BY DEF IsPrefix

\* what a summary is written from begins with the relations inside
LEMMA MaterialIs ==
  ASSUME NEW edges \in Relations3, NEW members, NEW few \in Nat, NEW enough \in Nat
  PROVE  /\ Material(edges, members, few, enough) \in Relations3
         /\ IsPrefix(Inside(edges, members), Material(edges, members, few, enough))
<1> DEFINE n == Len(edges)
           at == {i \in DOMAIN edges : {edges[i][1], edges[i][2]} \subseteq members}
           out == {i \in DOMAIN edges : (edges[i][1] \in members) # (edges[i][2] \in members)}
           inside == Inside(edges, members)
           extra == Crossing(edges, members)
           more == Top(extra, Max({0, enough - Len(inside)}))
           all == Material(edges, members, few, enough)
<1>1. n \in Nat /\ DOMAIN edges = 1 .. n /\ edges \in Seq(EdgesRead) /\ \A i \in 1 .. n : edges[i] \in EdgesRead
  BY DEF Relations3
<1>2. inside = Select(edges, at) /\ extra = Select(edges, out)
  BY DEF Inside, Crossing
<1>3. at \in SUBSET (1 .. n) /\ out \in SUBSET (1 .. n)
  BY <1>1
<1> HIDE DEF at, out, inside, extra
<1>4. inside \in Seq(EdgesRead) /\ extra \in Seq(EdgesRead)
  <2>1. \A i \in at : edges[i] \in EdgesRead
    BY <1>1, <1>3
  <2>2. \A i \in out : edges[i] \in EdgesRead
    BY <1>1, <1>3
  <2>3. inside \in Seq(EdgesRead)
    BY <2>1, <1>1, <1>2, <1>3, SelectKeeps
  <2>4. extra \in Seq(EdgesRead)
    BY <2>2, <1>1, <1>2, <1>3, SelectKeeps
  <2>5. QED
    BY <2>3, <2>4
<1>5. more \in Seq(EdgesRead)
  <2>1. enough - Len(inside) \in Int
    BY <1>4
  <2>2. Max({0, enough - Len(inside)}) \in Nat
    BY <2>1, OfTwo
  <2>3. QED
    BY <2>2, <1>4, TopIs
<1>6. all = IF Len(inside) >= few THEN inside ELSE inside \o more
  BY DEF Material, inside, extra
<1> HIDE DEF more, all
<1>7. all \in Seq(EdgesRead) /\ IsPrefix(inside, all)
  <2>1. CASE all = inside
    BY <2>1, <1>4, WholeIsPrefix
  <2>2. CASE all = inside \o more
    BY <2>2, <1>4, <1>5, PrefixOfMore
  <2>3. QED
    BY <2>1, <2>2, <1>6
<1>8. QED
  BY <1>7 DEF Relations3, inside, all

\* merged communities can be presented
LEMMA MergedAreClusters ==
  ASSUME NEW edges \in Relations3, NEW groups \in Groupings, NEW size \in Nat \ {0}
  PROVE  Clusters(MergeSmall(edges, groups, size).big)
<1> DEFINE merged == MergeSmall(edges, groups, size)
           big == merged.big
           n == Len(BigGroups(groups, size))
<1>1. /\ \A i \in DOMAIN big :
            /\ big[i] \cap ((UNION {big[j] : j \in DOMAIN big \ {i}}) \cup merged.alone) = {}
            /\ Cardinality(big[i]) >= size
  BY MergedIsPartition
<1>2. merged \in Communities(n)
  BY SmallAreMerged
<1>3. n \in Nat
  BY GroupsSplit DEF Split
<1> HIDE DEF n, merged
<1>4. big \in [1 .. n -> SUBSET Nodes]
  BY <1>2 DEF Communities
<1> HIDE DEF big
<1>5. big \in Seq(SUBSET Nodes) /\ DOMAIN big = 1 .. n
  BY <1>3, <1>4
<1>6. ASSUME NEW i \in DOMAIN big PROVE IsFiniteSet(big[i]) /\ big[i] # {}
  <2>1. IsFiniteSet(big[i])
    BY <1>4, GraphsAssumption, FS_Subset
  <2>2. Cardinality(big[i]) >= size
    BY <1>1
  <2>3. Cardinality({}) = 0
    BY FS_EmptySet
  <2>4. QED
    BY <2>1, <2>2, <2>3
<1>7. ASSUME NEW i \in DOMAIN big, NEW j \in DOMAIN big, i # j PROVE big[i] \cap big[j] = {}
  <2>1. big[j] \subseteq UNION {big[h] : h \in DOMAIN big \ {i}}
    BY <1>7
  <2>2. big[i] \cap ((UNION {big[h] : h \in DOMAIN big \ {i}}) \cup merged.alone) = {}
    BY <1>1
  <2>3. QED
    BY <2>1, <2>2
<1>8. Clusters(big)
  BY <1>5, <1>6, <1>7 DEF Clusters
<1>9. QED
  BY <1>8 DEF big, merged

(***************************************************************************)
(* assign_community_ids numbers the communities from the largest, whatever *)
(* order they were found in; the members that are shown have the highest   *)
(* degrees, the symbol last; and what a summary is written from begins     *)
(* with the relations inside the community, the heaviest of all first.     *)
(***************************************************************************)
THEOREM CommunitiesArePresented == Spec => []CommunitiesPresented
<1>1. CasesInv => CommunitiesPresented
  <2> SUFFICES ASSUME CasesInv, sample.kind = "communities" PROVE CommunitiesPresented
    BY DEF CommunitiesPresented
  <2> DEFINE edges == sample.edges
             big == MergeSmall(edges, sample.groups, sample.size).big
             ids == Detected(edges, sample.groups, sample.size)
  <2>1. edges \in Relations3 /\ sample.groups \in Groupings /\ sample.size \in Nat \ {0}
    BY GraphsAssumption DEF CasesInv, Relations3, EdgesRead
  <2>2. Clusters(big)
    BY <2>1, MergedAreClusters
  <2>3. ids = Numbered(big)
    BY DEF Detected
  <2> HIDE DEF big, ids
  <2>4. /\ Numbered(Reverse(ids)) = ids
        /\ \A i, j \in DOMAIN ids : i < j => Cardinality(ids[i]) >= Cardinality(ids[j])
        /\ \A i \in DOMAIN ids : ids[i] \in Range(big)
    BY <2>2, <2>3, NumberedIs
  <2>5. \A i \in DOMAIN ids : ids[i] \in SUBSET Nodes
    <3>1. \A x \in Range(big) : x \in SUBSET Nodes
      BY <2>2 DEF Clusters, Range
    <3>2. QED
      BY <3>1, <2>4
  <2> HIDE DEF edges
  <2>6. ASSUME NEW i \in DOMAIN ids
        PROVE  LET few   == Material(edges, ids[i], 1, 2)
                   shown == Range(RankedMembers(edges, ids[i], {1}, 2))
               IN /\ 1 \in shown => shown = ids[i]
                  /\ \A m \in shown \ {1}, n \in ids[i] \ (shown \cup {1}) :
                        Degree(edges, n) <= Degree(edges, m)
                  /\ IsPrefix(Inside(edges, ids[i]), few)
                  /\ \A d \in Range(few) : ShownWeight(d) <= ShownWeight(Heaviest(few, 1)[1])
    <3> DEFINE members == ids[i]
               few == Material(edges, members, 1, 2)
               shown == Range(RankedMembers(edges, members, {1}, 2))
    <3>1. members \in SUBSET Nodes
      BY <2>5
    <3> HIDE DEF members
    <3>2. few \in Relations3 /\ IsPrefix(Inside(edges, members), few)
      BY <2>1, MaterialIs
    <3>3. /\ 1 \in shown => shown = members
          /\ \A m \in shown \ {1}, n \in members \ (shown \cup {1}) :
                Degree(edges, n) <= Degree(edges, m)
      BY <2>1, <3>1, ShownRank
    <3> HIDE DEF few, shown
    <3>4. \A d \in Range(few) : ShownWeight(d) <= ShownWeight(Heaviest(few, 1)[1])
      BY <3>2, HeaviestIs
    <3>5. QED
      BY <3>2, <3>3, <3>4 DEF few, shown, members
  <2>7. QED
    BY <2>4, <2>6 DEF CommunitiesPresented, ids, edges
<1>2. QED
  BY <1>1, CasesAlways, PTL

(***************************************************************************)
(* So the communities of any graph are a partition of it, are presented by *)
(* what counts most in them, and are built again when the graph changed    *)
(* and not otherwise, at the one of the resolutions that were tried that   *)
(* comes closest to the wanted number of them.                             *)
(***************************************************************************)
THEOREM PartitionIsSound == Spec => []PartitionSound
<1>1. (CommunitiesPartition /\ CommunitiesPresented /\ FingerprintTells /\ ResolutionFound) => PartitionSound
  BY DEF PartitionSound
<1>2. QED
  BY <1>1, MergingPartitions, CommunitiesArePresented, FingerprintsTell, SearchIsClosest, PTL

-----------------------------------------------------------------------------
(***************************************************************************)
(* The token bucket.  Whatever is left in it and what was taken since a    *)
(* question was let through came from what was there and what was added    *)
(* since then: so the tokens, too, have to be accounted for, at the time   *)
(* they were last counted.                                                 *)
(***************************************************************************)
Buckets == [tokens : Nat, updated : Nat, now : Nat, allowed : Seq(Nat)]

Paid(allowed, rate, capacity, unit) ==
    \A i, j \in DOMAIN allowed : i <= j =>
        (j - i + 1) * unit <= capacity * unit + (allowed[j] - allowed[i]) * rate

Accounted(b, rate, capacity, unit) ==
    /\ b.tokens <= capacity * unit
    /\ b.updated <= b.now
    /\ \A i \in DOMAIN b.allowed :
          /\ b.allowed[i] <= b.updated
          /\ (Len(b.allowed) - i + 1) * unit + b.tokens
                <= capacity * unit + (b.updated - b.allowed[i]) * rate
    /\ Paid(b.allowed, rate, capacity, unit)

LEMMA ProductNat == \A m, n \in Nat : m * n \in Nat
  OBVIOUS

LEMMA FullBucketAccounted ==
  ASSUME NEW rate \in Nat, NEW capacity \in Nat, NEW unit \in Nat
  PROVE  /\ FullBucket(capacity, unit) \in Buckets
         /\ Accounted(FullBucket(capacity, unit), rate, capacity, unit)
<1>1. capacity * unit \in Nat
  BY ProductNat
<1>2. DOMAIN <<>> = {} /\ <<>> \in Seq(Nat)
  OBVIOUS
<1>3. QED
  BY <1>1, <1>2 DEF FullBucket, Buckets, Accounted, Paid

(***************************************************************************)
(* What the bucket holds after it was filled up.                           *)
(***************************************************************************)
LEMMA RefilledIsBounded ==
  ASSUME NEW b \in Buckets, NEW rate \in Nat, NEW capacity \in Nat, NEW unit \in Nat,
         b.tokens <= capacity * unit, b.updated <= b.now
  PROVE  /\ Refilled(b, rate, capacity, unit) \in Nat
         /\ Refilled(b, rate, capacity, unit) <= capacity * unit
         /\ Refilled(b, rate, capacity, unit) <= b.tokens + (b.now - b.updated) * rate
<1>1. b.tokens \in Nat /\ b.now - b.updated \in Nat /\ capacity * unit \in Nat
  BY ProductNat DEF Buckets
<1>2. (b.now - b.updated) * rate \in Nat
  BY <1>1, ProductNat
<1>3. QED
  BY <1>1, <1>2 DEF Refilled

(***************************************************************************)
(* Arithmetic with products, once and for all.                             *)
(***************************************************************************)
LEMMA Elapsed ==
  \A a, u, n, rate \in Nat : (n - u) * rate + (u - a) * rate = (n - a) * rate
  OBVIOUS

LEMMA OneMore == \A m, u \in Nat : (m + 1) * u = m * u + u
  OBVIOUS

LEMMA OneIsUnit == \A u \in Nat : 1 * u = u /\ 0 * u = 0
  OBVIOUS

LEMMA AddedLater ==
  \A taken, left, all, before, added, since, filled \in Nat :
     /\ taken + left <= all + before
     /\ filled <= left + added
     /\ added + before = since
     => taken + filled <= all + since
  OBVIOUS

LEMMA OneTaken ==
  \A taken, more, filled, unit, all, since \in Nat :
     taken + filled <= all + since /\ more = taken + unit /\ unit <= filled
     => more + (filled - unit) <= all + since /\ more <= all + since
  OBVIOUS

(***************************************************************************)
(* A question keeps the account: it takes one token from what is there.    *)
(***************************************************************************)
LEMMA AcquireKeepsAccount ==
  ASSUME NEW b \in Buckets, NEW rate \in Nat, NEW capacity \in Nat, NEW unit \in Nat,
         Accounted(b, rate, capacity, unit)
  PROVE  /\ Acquire(b, rate, capacity, unit) \in Buckets
         /\ Accounted(Acquire(b, rate, capacity, unit), rate, capacity, unit)
<1> DEFINE filled == Refilled(b, rate, capacity, unit)
           n == Len(b.allowed)
           k == capacity * unit
           c == Acquire(b, rate, capacity, unit)
<1>1. /\ b.tokens \in Nat /\ b.updated \in Nat /\ b.now \in Nat
      /\ b.allowed \in Seq(Nat) /\ n \in Nat /\ DOMAIN b.allowed = 1 .. n
      /\ b.tokens <= k /\ b.updated <= b.now /\ k \in Nat
  BY ProductNat DEF Buckets, Accounted
<1>2. /\ filled \in Nat /\ filled <= k
      /\ filled <= b.tokens + (b.now - b.updated) * rate
  BY <1>1, RefilledIsBounded
<1>3. ASSUME NEW i \in DOMAIN b.allowed
      PROVE  /\ i \in 1 .. n /\ b.allowed[i] \in Nat /\ b.allowed[i] <= b.now
             /\ (n - i + 1) * unit \in Nat
             /\ (b.now - b.allowed[i]) * rate \in Nat
             /\ (n - i + 1) * unit + filled <= k + (b.now - b.allowed[i]) * rate
  <2> DEFINE a == b.allowed[i]
  <2>1. a <= b.updated /\ (n - i + 1) * unit + b.tokens <= k + (b.updated - a) * rate
    BY <1>3, Zenon DEF Accounted
  <2>2. a <= b.updated
    BY <2>1, Zenon
  <2>3. i \in 1 .. n /\ a \in Nat
    BY <1>1, <1>3
  <2> HIDE DEF n, k, a, filled
  <2>4. /\ n - i + 1 \in Nat /\ b.now - b.updated \in Nat
        /\ b.updated - a \in Nat /\ b.now - a \in Nat /\ a <= b.now
    <3>1. n \in Nat /\ b.now \in Nat /\ b.updated \in Nat /\ b.updated <= b.now
      BY <1>1
    <3>2. n - i + 1 \in Nat
      BY <3>1, <2>3
    <3>3. b.updated - a \in Nat /\ b.now - a \in Nat /\ a <= b.now
      BY <3>1, <2>2, <2>3
    <3>4. b.now - b.updated \in Nat
      BY <3>1
    <3>5. QED  BY <3>2, <3>3, <3>4
  <2>5. /\ (n - i + 1) * unit \in Nat /\ (b.now - b.updated) * rate \in Nat
        /\ (b.updated - a) * rate \in Nat /\ (b.now - a) * rate \in Nat
    BY <2>4, ProductNat, Zenon
  <2>6. (b.now - b.updated) * rate + (b.updated - a) * rate = (b.now - a) * rate
    <3>1. b.now \in Nat /\ b.updated \in Nat
      BY <1>1
    <3>2. a \in Nat
      BY <2>3
    <3>3. QED  BY <3>1, <3>2, Elapsed
  <2>7. (n - i + 1) * unit + filled <= k + (b.now - a) * rate
    BY <1>1, <1>2, <2>1, <2>5, <2>6, AddedLater, Zenon
  <2>8. QED
    BY <2>3, <2>4, <2>5, <2>7, Zenon DEF a
<1>4. CASE filled >= unit
  <2> DEFINE all == Append(b.allowed, b.now)
  <2>1. c = [tokens |-> filled - unit, updated |-> b.now, now |-> b.now, allowed |-> all]
    BY <1>4 DEF Acquire, Buckets
  <2>2. /\ all \in Seq(Nat) /\ Len(all) = n + 1 /\ DOMAIN all = 1 .. n + 1
        /\ all[n + 1] = b.now /\ \A i \in 1 .. n : all[i] = b.allowed[i]
    BY <1>1
  <2> HIDE DEF filled, n, k, c, all
  <2>3. filled - unit \in Nat /\ filled - unit <= k /\ unit <= filled
    BY <1>1, <1>2, <1>4
  <2>4. ASSUME NEW i \in 1 .. n + 1
        PROVE  /\ all[i] <= b.now
               /\ ((n + 1) - i + 1) * unit + (filled - unit) <= k + (b.now - all[i]) * rate
               /\ ((n + 1) - i + 1) * unit <= k + (b.now - all[i]) * rate
    <3>1. CASE i = n + 1
      <4>1. (n + 1) - i + 1 = 1 /\ b.now - all[i] = 0 /\ all[i] = b.now
        BY <3>1, <1>1, <2>2
      <4>2. ((n + 1) - i + 1) * unit = unit /\ (b.now - all[i]) * rate = 0
        BY <4>1, OneIsUnit
      <4>3. all[i] <= b.now
        <5>1. b.now \in Nat
          BY <1>1
        <5>2. QED  BY <4>1, <5>1
      <4>4. unit + (filled - unit) <= k + 0 /\ unit <= k + 0
        BY <1>1, <1>2, <2>3
      <4>5. QED
        BY <4>2, <4>3, <4>4, Zenon
    <3>2. CASE i # n + 1
      <4>1. i \in 1 .. n /\ all[i] = b.allowed[i] /\ i \in DOMAIN b.allowed
        <5>1. n \in Nat /\ DOMAIN b.allowed = 1 .. n
          BY <1>1
        <5>2. i \in 1 .. n
          BY <3>2, <5>1
        <5>3. QED  BY <5>1, <5>2, <2>2, Zenon
      <4>2. n - i + 1 \in Nat /\ (n + 1) - i + 1 = (n - i + 1) + 1
        BY <4>1, <1>1
      <4>3. ((n + 1) - i + 1) * unit = (n - i + 1) * unit + unit
        BY <4>2, OneMore, Zenon
      <4>4. ((n + 1) - i + 1) * unit \in Nat
        BY <4>2, ProductNat
      <4>5. /\ (n - i + 1) * unit \in Nat /\ (b.now - all[i]) * rate \in Nat
            /\ (n - i + 1) * unit + filled <= k + (b.now - all[i]) * rate
            /\ all[i] <= b.now
        BY <4>1, <1>3, Zenon
      <4>6. k \in Nat /\ filled \in Nat
        BY <1>1, <1>2
      <4>7. QED
        <5> DEFINE taken == (n - i + 1) * unit
                   more  == ((n + 1) - i + 1) * unit
                   since == (b.now - all[i]) * rate
        <5>1. /\ taken \in Nat /\ more \in Nat /\ since \in Nat
              /\ taken + filled <= k + since /\ more = taken + unit
          BY <4>3, <4>4, <4>5, Zenon
        <5> HIDE DEF taken, more, since
        <5>2. more + (filled - unit) <= k + since /\ more <= k + since
          BY <5>1, <4>6, <2>3, OneTaken
        <5>3. QED
          BY <5>2, <4>5, Zenon DEF more, since
    <3>3. QED  BY <3>1, <3>2
  <2>5. Paid(all, rate, capacity, unit)
    <3> SUFFICES ASSUME NEW i \in 1 .. n + 1, NEW j \in 1 .. n + 1, i <= j
                 PROVE  (j - i + 1) * unit <= k + (all[j] - all[i]) * rate
      BY <2>2 DEF Paid, k
    <3>1. CASE j = n + 1
      <4>1. ((n + 1) - i + 1) * unit <= k + (b.now - all[i]) * rate
        BY <2>4, Zenon
      <4>2. all[j] = b.now
        BY <3>1, <2>2, Zenon
      <4>3. j - i + 1 = (n + 1) - i + 1 /\ all[j] - all[i] = b.now - all[i]
        BY <3>1, <4>2
      <4>4. QED
        BY <4>1, <4>3, Zenon
    <3>2. CASE j # n + 1
      <4>1. j \in 1 .. n /\ i \in 1 .. n
        BY <3>2, <1>1
      <4>2. /\ i \in DOMAIN b.allowed /\ j \in DOMAIN b.allowed
            /\ all[i] = b.allowed[i] /\ all[j] = b.allowed[j]
        BY <4>1, <1>1, <2>2, Zenon
      <4>3. (j - i + 1) * unit <= k + (b.allowed[j] - b.allowed[i]) * rate
        BY <4>2, Zenon DEF Accounted, Paid, k
      <4>4. QED
        BY <4>2, <4>3, Zenon
    <3>3. QED  BY <3>1, <3>2
  <2>6. c \in Buckets
    BY <1>1, <2>1, <2>2, <2>3 DEF Buckets
  <2>7. /\ c.tokens = filled - unit /\ c.updated = b.now /\ c.now = b.now
        /\ c.allowed = all
    BY <2>1
  <2>8. b.now <= b.now
    BY <1>1
  <2>9. Accounted(c, rate, capacity, unit)
    <3>1. c.tokens <= capacity * unit /\ c.updated <= c.now
      BY <2>3, <2>7, <2>8, Zenon DEF k
    <3>2. Paid(c.allowed, rate, capacity, unit)
      BY <2>5, <2>7, Zenon
    <3>3. ASSUME NEW i \in DOMAIN c.allowed
          PROVE  /\ c.allowed[i] <= c.updated
                 /\ (Len(c.allowed) - i + 1) * unit + c.tokens
                       <= capacity * unit + (c.updated - c.allowed[i]) * rate
      <4>1. i \in 1 .. n + 1
        BY <3>3, <2>2, <2>7, Zenon
      <4>2. Len(c.allowed) = n + 1
        BY <2>2, <2>7, Zenon
      <4>3. QED
        <5>1. /\ all[i] <= b.now
              /\ ((n + 1) - i + 1) * unit + (filled - unit) <= k + (b.now - all[i]) * rate
          BY <4>1, <2>4, Zenon
        <5>2. c.allowed[i] = all[i]
          BY <2>7, Zenon
        <5>3. /\ Len(c.allowed) - i + 1 = (n + 1) - i + 1
              /\ c.updated - c.allowed[i] = b.now - all[i]
          BY <5>2, <4>2, <2>7
        <5>4. QED
          BY <5>1, <5>2, <5>3, <2>7, Zenon DEF k
    <3>4. QED
      BY <3>1, <3>2, <3>3, Zenon DEF Accounted
  <2>10. QED
    BY <2>6, <2>9, Zenon DEF c
<1>5. CASE ~(filled >= unit)
  <2>1. c = [tokens |-> filled, updated |-> b.now, now |-> b.now, allowed |-> b.allowed]
    BY <1>5 DEF Acquire, Buckets
  <2>2. Paid(b.allowed, rate, capacity, unit)
    BY Zenon DEF Accounted
  <2> HIDE DEF filled, n, k, c
  <2>3. c \in Buckets
    BY <1>1, <1>2, <2>1 DEF Buckets
  <2>4. /\ c.tokens = filled /\ c.updated = b.now /\ c.now = b.now
        /\ c.allowed = b.allowed
    BY <2>1
  <2>5. b.now <= b.now
    BY <1>1
  <2>6. Accounted(c, rate, capacity, unit)
    BY <1>2, <1>3, <2>2, <2>4, <2>5, Zenon DEF Accounted, k, n
  <2>7. QED
    BY <2>3, <2>6, Zenon DEF c
<1>6. QED
  BY <1>4, <1>5

-----------------------------------------------------------------------------
(***************************************************************************)
(* The window.  No question was let through in a window that is still to   *)
(* come, and of the newest one the count knows at least those that an      *)
(* answer of Redis let through.                                            *)
(***************************************************************************)
Windows == [count : Nat \X Nat, now : Nat,
            allowed : Seq(Nat \X {"ok", "down", "lost"})]

Counted(w, max) ==
    /\ w.count[1] <= w.now \div Window
    /\ \A i \in DOMAIN w.allowed :
          w.allowed[i][2] = "ok" => w.allowed[i][1] \div Window <= w.count[1]
    /\ \A n \in Nat : Cardinality(LetThrough(w.allowed, n)) <= max
    /\ Cardinality(LetThrough(w.allowed, w.count[1])) <= w.count[2]

LEMMA LaterWindow ==
  ASSUME NEW s \in Nat, NEW t \in Nat, s <= t
  PROVE  /\ s \div Window \in Nat /\ t \div Window \in Nat
         /\ s \div Window <= t \div Window
<1>1. Window \in Nat /\ Window > 0
  BY LimitsAssumption
<1>2. QED  BY <1>1

LEMMA LetThroughIsFinite ==
  ASSUME NEW S, NEW allowed \in Seq(S), NEW n
  PROVE  /\ IsFiniteSet(LetThrough(allowed, n))
         /\ Cardinality(LetThrough(allowed, n)) \in Nat
<1>1. DOMAIN allowed = 1 .. Len(allowed) /\ Len(allowed) \in Nat
  OBVIOUS
<1>2. IsFiniteSet(DOMAIN allowed)
  BY <1>1, FS_Interval
<1>3. LetThrough(allowed, n) \in SUBSET DOMAIN allowed
  BY DEF LetThrough
<1>4. QED
  BY <1>2, <1>3, FS_Subset, FS_CardinalityType

(***************************************************************************)
(* One question more is let through in its own window and in no other.     *)
(***************************************************************************)
LEMMA OneMoreIsLetThrough ==
  ASSUME NEW allowed \in Seq(Nat \X {"ok", "down", "lost"}),
         NEW t \in Nat, NEW answer \in {"ok", "down", "lost"}, NEW n \in Nat
  PROVE  LetThrough(Append(allowed, <<t, answer>>), n) =
            IF answer = "ok" /\ t \div Window = n
            THEN LetThrough(allowed, n) \cup {Len(allowed) + 1}
            ELSE LetThrough(allowed, n)
<1> DEFINE all == Append(allowed, <<t, answer>>)
<1>1. /\ DOMAIN allowed = 1 .. Len(allowed) /\ Len(allowed) \in Nat
      /\ DOMAIN all = 1 .. Len(allowed) + 1
      /\ all[Len(allowed) + 1] = <<t, answer>>
      /\ \A i \in 1 .. Len(allowed) : all[i] = allowed[i]
  OBVIOUS
<1>2. DOMAIN all = DOMAIN allowed \cup {Len(allowed) + 1}
  BY <1>1
<1> HIDE DEF all
<1>3. <<t, answer>>[1] = t /\ <<t, answer>>[2] = answer
  OBVIOUS
<1>4. QED
  BY <1>1, <1>2, <1>3 DEF LetThrough, all

LEMMA NewWindowCounted ==
  ASSUME NEW max \in Nat
  PROVE  NewWindow \in Windows /\ Counted(NewWindow, max)
<1>1. 0 \div Window \in Nat /\ 0 <= 0 \div Window
  BY LaterWindow
<1>2. \A n : LetThrough(<<>>, n) = {}
  BY DEF LetThrough
<1>3. <<>> \in Seq(Nat \X {"ok", "down", "lost"}) /\ DOMAIN <<>> = {}
  OBVIOUS
<1>4. Cardinality({}) = 0
  BY FS_EmptySet
<1> DEFINE w == NewWindow
<1>5. /\ w.count = <<0, 0>> /\ w.count[1] = 0 /\ w.count[2] = 0
      /\ w.now = 0 /\ w.allowed = <<>>
  BY DEF NewWindow
<1>6. w \in Windows
  BY <1>3 DEF NewWindow, Windows
<1> HIDE DEF w
<1>7. \A n : Cardinality(LetThrough(w.allowed, n)) = 0
  BY <1>2, <1>4, <1>5
<1>8. Counted(w, max)
  BY <1>1, <1>3, <1>5, <1>7 DEF Counted
<1>9. QED
  BY <1>6, <1>8 DEF w

(***************************************************************************)
(* Whatever becomes of the answer, a question keeps the count.             *)
(***************************************************************************)
LEMMA AcquireKeepsCount ==
  ASSUME NEW w \in Windows, NEW max \in Nat, Counted(w, max),
         NEW answer \in {"ok", "down", "lost"}
  PROVE  /\ AcquireShared(w, Window, max, answer) \in Windows
         /\ Counted(AcquireShared(w, Window, max, answer), max)
<1> DEFINE key   == w.now \div Window
           count == IF w.count[1] = key THEN w.count[2] + 1 ELSE 1
           all   == Append(w.allowed, <<w.now, answer>>)
           seen  == IF answer = "down" THEN w.count ELSE <<key, count>>
           let   == IF count <= max \/ answer # "ok" THEN all ELSE w.allowed
           v     == AcquireShared(w, Window, max, answer)
           In(n) == Cardinality(LetThrough(w.allowed, n))
<1>1. /\ w.now \in Nat /\ w.count \in Nat \X Nat
      /\ w.allowed \in Seq(Nat \X {"ok", "down", "lost"})
      /\ key \in Nat
  BY LaterWindow DEF Windows
<1>2. /\ w.count[1] \in Nat /\ w.count[2] \in Nat /\ count \in Nat
  BY <1>1
<1>3. v = [count |-> seen, now |-> w.now, allowed |-> let]
  <2>1. v = [w EXCEPT !.count = seen, !.allowed = let]
    <3> SUFFICES v = [w EXCEPT !.count = IF answer = "down" THEN w.count ELSE <<key, count>>,
                               !.allowed = IF count <= max \/ answer # "ok"
                                           THEN Append(w.allowed, <<w.now, answer>>)
                                           ELSE w.allowed]
      OBVIOUS
    <3> QED  BY DEF AcquireShared, Windows
  <2> HIDE DEF v, seen, let
  <2>2. QED  BY <2>1 DEF Windows
<1>4. v \in Windows
  BY <1>1, <1>2, <1>3 DEF Windows
<1>5. /\ \A i \in DOMAIN w.allowed :
            w.allowed[i][2] = "ok" => w.allowed[i][1] \div Window <= w.count[1]
      /\ \A n \in Nat : In(n) \in Nat /\ In(n) <= max
      /\ In(w.count[1]) <= w.count[2]
      /\ w.count[1] <= key
  BY <1>1, LetThroughIsFinite DEF Counted
<1>6. In(key) + 1 <= count
  <2>1. CASE w.count[1] = key
    <3>1. count = w.count[2] + 1 /\ In(key) <= w.count[2] /\ In(key) \in Nat
      BY <2>1, <1>1, <1>5
    <3> HIDE DEF count, In, key
    <3>2. QED  BY <3>1, <1>2
  <2>2. CASE w.count[1] # key
    <3>1. LetThrough(w.allowed, key) = {}
      <4>1. ASSUME NEW i \in DOMAIN w.allowed, w.allowed[i][2] = "ok",
                   w.allowed[i][1] \div Window = key
            PROVE  FALSE
        <5>1. key <= w.count[1]
          BY <4>1, <1>5
        <5>2. w.count[1] <= key /\ w.count[1] \in Nat /\ key \in Nat
          BY <1>1, <1>2, <1>5
        <5> HIDE DEF key
        <5>3. QED  BY <5>1, <5>2, <2>2
      <4>2. QED  BY <4>1 DEF LetThrough
    <3>2. In(key) = 0
      BY <3>1, FS_EmptySet
    <3>3. QED  BY <2>2, <3>2
  <2>3. QED  BY <2>1, <2>2
<1>7. ASSUME NEW n \in Nat
      PROVE  /\ Cardinality(LetThrough(all, n)) =
                    IF answer = "ok" /\ key = n THEN In(n) + 1 ELSE In(n)
             /\ Cardinality(LetThrough(let, n)) =
                    IF answer = "ok" /\ key = n /\ count <= max THEN In(n) + 1 ELSE In(n)
  <2>1. LetThrough(all, n) = IF answer = "ok" /\ key = n
                             THEN LetThrough(w.allowed, n) \cup {Len(w.allowed) + 1}
                             ELSE LetThrough(w.allowed, n)
    <3>1. w.now \in Nat /\ w.allowed \in Seq(Nat \X {"ok", "down", "lost"})
      BY <1>1
    <3>2. QED  BY <3>1, OneMoreIsLetThrough, Zenon
  <2>2. Len(w.allowed) + 1 \notin LetThrough(w.allowed, n)
    <3>1. DOMAIN w.allowed = 1 .. Len(w.allowed) /\ Len(w.allowed) \in Nat
      BY <1>1
    <3>2. QED  BY <3>1 DEF LetThrough
  <2>3. Cardinality(LetThrough(w.allowed, n) \cup {Len(w.allowed) + 1}) = In(n) + 1
    BY <1>1, <2>2, LetThroughIsFinite, FS_AddElement
  <2> HIDE DEF In, all, count, key
  <2>4. QED
    BY <2>1, <2>3 DEF In
<1> DEFINE Out(n) == Cardinality(LetThrough(let, n))
<1>8. \A n \in Nat : Out(n) <= max
  <2> HIDE DEF In, count, key, Out
  <2>1. QED
    BY <1>2, <1>5, <1>6, <1>7 DEF Out
<1>9. seen[1] \in Nat /\ w.count[1] <= seen[1] /\ seen[1] <= key
  <2>1. key \in Nat /\ w.count[1] \in Nat /\ w.count[1] <= key
    BY <1>1, <1>2, <1>5
  <2>2. seen[1] = IF answer = "down" THEN w.count[1] ELSE key
    OBVIOUS
  <2> HIDE DEF key, seen
  <2>3. QED  BY <2>1, <2>2
<1>10. Out(seen[1]) <= seen[2]
  <2>1. CASE answer = "down"
    <3>1. Out(w.count[1]) = In(w.count[1])
      BY <2>1, <1>2, <1>7
    <3>2. QED  BY <2>1, <3>1, <1>5
  <2>2. CASE answer # "down"
    <3>1. seen[1] = key /\ seen[2] = count
      BY <2>2
    <3>2. Out(key) \in {In(key), In(key) + 1} /\ In(key) \in Nat
      BY <1>1, <1>5, <1>7
    <3> HIDE DEF In, count, key, Out, seen
    <3>3. QED  BY <3>1, <3>2, <1>2, <1>6
  <2>3. QED  BY <2>1, <2>2
<1>11. ASSUME NEW i \in DOMAIN let, let[i][2] = "ok"
       PROVE  let[i][1] \div Window <= seen[1]
  <2>1. CASE i \in DOMAIN w.allowed
    <3>1. let[i] = w.allowed[i]
      BY <2>1, <1>1
    <3>2. /\ w.allowed[i] \in Nat \X {"ok", "down", "lost"}
      BY <2>1, <1>1
    <3>3. w.allowed[i][1] \div Window \in Nat
      <4>1. w.allowed[i][1] \in Nat
        BY <3>2
      <4>2. w.allowed[i][1] <= w.allowed[i][1]
        BY <4>1
      <4>3. QED  BY <4>1, <4>2, LaterWindow, Zenon
    <3>4. w.allowed[i][1] \div Window <= w.count[1]
      BY <2>1, <3>1, <1>5, <1>11
    <3> HIDE DEF let, seen, key
    <3>5. QED  BY <3>1, <3>3, <3>4, <1>2, <1>9
  <2>2. CASE i \notin DOMAIN w.allowed
    <3>1. let = all /\ i = Len(w.allowed) + 1 /\ let[i] = <<w.now, answer>>
      BY <2>2, <1>1, <1>11
    <3>2. answer = "ok" /\ let[i][1] = w.now
      BY <3>1, <1>11
    <3>3. seen[1] = key
      BY <3>2
    <3>4. QED  BY <1>1, <3>2, <3>3
  <2>3. QED  BY <2>1, <2>2
<1>12. v.count = seen /\ v.now = w.now /\ v.allowed = let
  BY <1>3
<1> HIDE DEF v, seen, let, key, count, all
<1>13. Counted(v, max)
  BY <1>8, <1>9, <1>10, <1>11, <1>12 DEF Counted, key
<1>14. QED
  BY <1>4, <1>13 DEF v

-----------------------------------------------------------------------------
(***************************************************************************)
(* The quotas.  There is one semaphore for each phase, ever, and it has    *)
(* the limit of its phase: a second one for the same phase would hand out  *)
(* permits of its own.  A call that may still be tried has been tried no   *)
(* more than MaxRetries times.                                             *)
(***************************************************************************)
Keys == {"query", "insert"}

Semaphores == [key : Keys, limit : Nat]

Calls == [pc : {"out", "wait", "in", "backoff", "done"}, sem : Nat, tries : Nat]

Quotas == [sems : Seq(Semaphores), entry : [Keys -> Nat], calls : [Callers -> Calls]]

OneSemaphore(q) ==
    /\ \A s \in DOMAIN q.sems :
          /\ q.sems[s].limit = LimitOf(q.sems[s].key)
          /\ q.entry[q.sems[s].key] = s
    /\ \A k \in Keys : q.entry[k] # 0 =>
          q.entry[k] \in DOMAIN q.sems /\ q.sems[q.entry[k]].key = k

CallsInTurn(q) ==
    \A c \in Callers :
       /\ q.calls[c].pc # "out" => q.calls[c].sem \in DOMAIN q.sems
       /\ q.calls[c].tries <= MaxRetries + 1
       /\ q.calls[c].pc \in {"out", "wait", "backoff"} => q.calls[c].tries <= MaxRetries

WithinLimit(q) ==
    \A s \in DOMAIN q.sems : Cardinality(Holders(q, s)) <= q.sems[s].limit

QuotaInv(q) ==
    q \in Quotas /\ OneSemaphore(q) /\ CallsInTurn(q) /\ WithinLimit(q)

LEMMA LimitsAreNumbers == \A k : LimitOf(k) \in Nat
  BY DEF LimitOf

\* calls g differ from f by what caller c does and how often it did it
Changed(f, g, c, pc, tries) ==
    /\ g \in [Callers -> Calls]
    /\ g[c].pc = pc /\ g[c].sem = f[c].sem /\ g[c].tries = tries
    /\ \A d \in Callers \ {c} : g[d] = f[d]

LEMMA QuotaParts ==
  ASSUME NEW q \in Quotas
  PROVE  /\ q = [sems |-> q.sems, entry |-> q.entry, calls |-> q.calls]
         /\ q.sems \in Seq(Semaphores) /\ Len(q.sems) \in Nat
         /\ DOMAIN q.sems = 1 .. Len(q.sems)
         /\ \A s \in DOMAIN q.sems :
               s # 0 /\ q.sems[s].key \in Keys /\ q.sems[s].limit \in Nat
         /\ q.entry \in [Keys -> Nat]
         /\ q.calls \in [Callers -> Calls]
<1>1. /\ q = [sems |-> q.sems, entry |-> q.entry, calls |-> q.calls]
      /\ q.sems \in Seq(Semaphores) /\ q.entry \in [Keys -> Nat]
      /\ q.calls \in [Callers -> Calls]
  BY DEF Quotas
<1>2. Len(q.sems) \in Nat /\ DOMAIN q.sems = 1 .. Len(q.sems)
  BY <1>1
<1>3. ASSUME NEW s \in DOMAIN q.sems
      PROVE  s # 0 /\ q.sems[s].key \in Keys /\ q.sems[s].limit \in Nat
  <2>1. q.sems[s] \in Semaphores
    BY <1>1, <1>3
  <2>2. q.sems[s].key \in Keys /\ q.sems[s].limit \in Nat
    BY <2>1 DEF Semaphores
  <2>3. QED  BY <1>2, <1>3, <2>2
<1>4. QED
  BY <1>1, <1>2, <1>3

LEMMA CallParts ==
  ASSUME NEW q \in Quotas, NEW c \in Callers
  PROVE  q.calls[c] \in Calls /\ q.calls[c].tries \in Nat
<1>1. q.calls[c] \in Calls
  BY QuotaParts
<1>2. QED
  BY <1>1 DEF Calls

LEMMA ChangedCall ==
  ASSUME NEW f \in [Callers -> Calls], NEW c \in Callers,
         NEW pc \in {"out", "wait", "in", "backoff", "done"}, NEW tries \in Nat
  PROVE  /\ Changed(f, [f EXCEPT ![c].pc = pc], c, pc, f[c].tries)
         /\ Changed(f, [f EXCEPT ![c].pc = pc, ![c].tries = tries], c, pc, tries)
<1> DEFINE g == [f EXCEPT ![c].pc = pc]
           h == [f EXCEPT ![c].pc = pc, ![c].tries = tries]
<1>1. f[c] \in Calls
  OBVIOUS
<1>2. g[c] = [f[c] EXCEPT !.pc = pc] /\ h[c] = [f[c] EXCEPT !.pc = pc, !.tries = tries]
  OBVIOUS
<1>3. g[c] \in Calls /\ g[c].pc = pc /\ g[c].sem = f[c].sem /\ g[c].tries = f[c].tries
  BY <1>1, <1>2 DEF Calls
<1>4. h[c] \in Calls /\ h[c].pc = pc /\ h[c].sem = f[c].sem /\ h[c].tries = tries
  BY <1>1, <1>2 DEF Calls
<1>5. /\ \A d \in Callers \ {c} : g[d] = f[d] /\ h[d] = f[d]
      /\ DOMAIN g = Callers /\ DOMAIN h = Callers
      /\ g = [d \in Callers |-> g[d]] /\ h = [d \in Callers |-> h[d]]
  OBVIOUS
<1> HIDE DEF g, h
<1>6. g \in [Callers -> Calls] /\ h \in [Callers -> Calls]
  BY <1>3, <1>4, <1>5
<1>7. QED
  BY <1>3, <1>4, <1>5, <1>6 DEF Changed, g, h

LEMMA HoldersAreCounted ==
  ASSUME NEW q \in Quotas, NEW s
  PROVE  /\ Holders(q, s) \subseteq Callers
         /\ IsFiniteSet(Holders(q, s)) /\ Cardinality(Holders(q, s)) \in Nat
<1>1. Holders(q, s) \subseteq Callers
  BY DEF Holders, Quotas
<1>2. QED
  BY <1>1, LimitsAssumption, FS_Subset, FS_CardinalityType

LEMMA FewerHolders ==
  ASSUME NEW q \in Quotas, NEW r \in Quotas, WithinLimit(q),
         r.sems = q.sems, \A s \in DOMAIN q.sems : Holders(r, s) \subseteq Holders(q, s)
  PROVE  WithinLimit(r)
<1> SUFFICES ASSUME NEW s \in DOMAIN q.sems
             PROVE  Cardinality(Holders(r, s)) <= q.sems[s].limit
  BY DEF WithinLimit
<1>1. /\ Cardinality(Holders(r, s)) <= Cardinality(Holders(q, s))
      /\ Cardinality(Holders(r, s)) \in Nat /\ Cardinality(Holders(q, s)) \in Nat
  BY HoldersAreCounted, FS_Subset
<1>2. Cardinality(Holders(q, s)) <= q.sems[s].limit
  BY DEF WithinLimit
<1>3. q.sems[s].limit \in Nat
  BY QuotaParts
<1>4. QED
  BY <1>1, <1>2, <1>3

LEMMA NoCallsInTurn == QuotaInv(NoCalls(Callers, Keys))
<1> DEFINE q == NoCalls(Callers, Keys)
<1>1. /\ q.sems = <<>> /\ q.entry = [k \in Keys |-> 0]
      /\ q.calls = [c \in Callers |-> [pc |-> "out", sem |-> 0, tries |-> 0]]
  BY DEF NoCalls
<1>2. q \in Quotas
  BY DEF NoCalls, Quotas, Calls
<1>3. DOMAIN <<>> = {} /\ 0 <= MaxRetries /\ 0 <= MaxRetries + 1
  BY LimitsAssumption
<1> HIDE DEF q
<1>4. OneSemaphore(q) /\ WithinLimit(q)
  BY <1>1, <1>3 DEF OneSemaphore, WithinLimit
<1>5. CallsInTurn(q)
  BY <1>1, <1>3 DEF CallsInTurn
<1>6. QED
  BY <1>2, <1>4, <1>5 DEF QuotaInv, q

(***************************************************************************)
(* A call that enters finds the semaphore of its phase or makes it, if     *)
(* there is none: its limit is never another one.                          *)
(***************************************************************************)
LEMMA EnterKeepsQuota ==
  ASSUME NEW q, QuotaInv(q), NEW c \in Callers, NEW key \in Keys, q.calls[c].pc = "out"
  PROVE  QuotaInv(EnterCall(q, c, key, LimitOf(key)))
<1> USE DEF QuotaInv
<1> DEFINE new  == [key |-> key, limit |-> LimitOf(key)]
           none == Stale(q, key, LimitOf(key))
           made == IF none THEN Append(q.sems, new) ELSE q.sems
           sem  == IF none THEN Len(made) ELSE q.entry[key]
           call == [pc |-> "wait", sem |-> sem, tries |-> 0]
           r    == EnterCall(q, c, key, LimitOf(key))
<1>1. /\ q = [sems |-> q.sems, entry |-> q.entry, calls |-> q.calls]
      /\ q.sems \in Seq(Semaphores) /\ Len(q.sems) \in Nat
      /\ DOMAIN q.sems = 1 .. Len(q.sems) /\ q.entry \in [Keys -> Nat]
      /\ q.calls \in [Callers -> Calls]
      /\ \A s \in DOMAIN q.sems :
            s # 0 /\ q.sems[s].key \in Keys /\ q.sems[s].limit \in Nat
  BY QuotaParts
<1>2. none <=> q.entry[key] = 0
  BY DEF Stale, OneSemaphore
<1>3. r = [sems |-> made, entry |-> [q.entry EXCEPT ![key] = sem],
           calls |-> [q.calls EXCEPT ![c] = call]]
  <2>1. r = [q EXCEPT !.sems = made, !.entry[key] = sem, !.calls[c] = call]
    BY DEF EnterCall
  <2> HIDE DEF r, made, sem, call
  <2>2. QED  BY <2>1, <1>1
<1>4. new \in Semaphores /\ new.key = key /\ new.limit = LimitOf(key)
  BY LimitsAreNumbers DEF Semaphores
<1>5. /\ made \in Seq(Semaphores) /\ sem \in DOMAIN made
      /\ made[sem].key = key /\ DOMAIN q.sems \subseteq DOMAIN made
      /\ \A s \in DOMAIN q.sems : made[s] = q.sems[s]
      /\ \A s \in DOMAIN made :
            s \in DOMAIN q.sems \/ (none /\ s = sem /\ made[s] = new)
  <2>1. CASE none
    <3>1. made = Append(q.sems, new) /\ sem = Len(q.sems) + 1
      BY <2>1, <1>1, <1>4
    <3> HIDE DEF new, none, made, sem
    <3>2. /\ made \in Seq(Semaphores) /\ DOMAIN made = 1 .. Len(q.sems) + 1
          /\ made[sem] = new /\ \A s \in DOMAIN q.sems : made[s] = q.sems[s]
      BY <3>1, <1>1, <1>4
    <3>3. QED  BY <2>1, <3>1, <3>2, <1>1, <1>4
  <2>2. CASE ~none
    <3>1. made = q.sems /\ sem = q.entry[key]
      BY <2>2
    <3>2. sem \in DOMAIN q.sems /\ q.sems[sem].key = key
      BY <2>2, <3>1, <1>2 DEF OneSemaphore
    <3> HIDE DEF new, none, made, sem
    <3>3. QED  BY <3>1, <3>2, <1>1
  <2>3. QED  BY <2>1, <2>2
<1>6. sem \in Nat /\ sem # 0
  <2>1. DOMAIN made = 1 .. Len(made) /\ Len(made) \in Nat
    BY <1>5
  <2> HIDE DEF made, sem
  <2>2. QED  BY <2>1, <1>5
<1> HIDE DEF none, made, sem, new
<1>7. call \in Calls
  BY <1>6 DEF Calls
<1>8. r \in Quotas
  BY <1>1, <1>3, <1>5, <1>6, <1>7 DEF Quotas
<1>9. /\ r.sems = made /\ r.entry = [q.entry EXCEPT ![key] = sem]
      /\ r.calls = [q.calls EXCEPT ![c] = call]
      /\ \A d \in Callers : r.calls[d] = IF d = c THEN call ELSE q.calls[d]
      /\ \A k \in Keys : r.entry[k] = IF k = key THEN sem ELSE q.entry[k]
  BY <1>1, <1>3
<1>10. call.pc = "wait" /\ call.sem = sem /\ call.tries = 0
  OBVIOUS
<1> HIDE DEF r, call
<1>11. \A s \in DOMAIN q.sems : q.sems[s].key = key => ~none /\ sem = s
  <2> SUFFICES ASSUME NEW s \in DOMAIN q.sems, q.sems[s].key = key
               PROVE  ~none /\ sem = s
    OBVIOUS
  <2>1. q.entry[key] = s
    BY DEF OneSemaphore
  <2>2. s # 0
    BY <1>1
  <2>3. QED
    BY <2>1, <2>2, <1>2 DEF sem
<1>12. OneSemaphore(r)
  <2>1. ASSUME NEW s \in DOMAIN made
        PROVE  made[s].limit = LimitOf(made[s].key) /\ r.entry[made[s].key] = s
    <3>1. CASE s \in DOMAIN q.sems
      <4>1. /\ q.sems[s].limit = LimitOf(q.sems[s].key) /\ q.entry[q.sems[s].key] = s
            /\ q.sems[s].key \in Keys
        <5>1. OneSemaphore(q)
          OBVIOUS
        <5>2. QED  BY <5>1, <3>1, <1>1 DEF OneSemaphore
      <4>2. QED
        BY <3>1, <4>1, <1>5, <1>9, <1>11
    <3>2. CASE s \notin DOMAIN q.sems
      BY <3>2, <2>1, <1>4, <1>5, <1>9
    <3>3. QED  BY <3>1, <3>2
  <2>2. ASSUME NEW k \in Keys, r.entry[k] # 0
        PROVE  r.entry[k] \in DOMAIN made /\ made[r.entry[k]].key = k
    <3>1. CASE k = key
      BY <3>1, <1>5, <1>9
    <3>2. CASE k # key
      <4>1. r.entry[k] = q.entry[k] /\ q.entry[k] # 0
        BY <3>2, <2>2, <1>9
      <4>2. q.entry[k] \in DOMAIN q.sems /\ q.sems[q.entry[k]].key = k
        BY <4>1 DEF OneSemaphore
      <4>3. QED  BY <4>1, <4>2, <1>5
    <3>3. QED  BY <3>1, <3>2
  <2>3. QED
    BY <2>1, <2>2, <1>9 DEF OneSemaphore
<1>13. CallsInTurn(r)
  <2>1. 0 <= MaxRetries /\ 0 <= MaxRetries + 1
    BY LimitsAssumption
  <2>2. QED
    BY <2>1, <1>5, <1>9, <1>10 DEF CallsInTurn
<1>14. WithinLimit(r)
  <2>1. ASSUME NEW s \in DOMAIN made
        PROVE  Cardinality(Holders(r, s)) <= made[s].limit
    <3>1. Holders(r, s) = Holders(q, s)
      BY <1>1, <1>9, <1>10 DEF Holders
    <3>2. CASE s \in DOMAIN q.sems
      BY <3>1, <3>2, <1>5 DEF WithinLimit
    <3>3. CASE s \notin DOMAIN q.sems
      <4>1. Holders(q, s) = {}
        BY <3>3, <1>1 DEF Holders, CallsInTurn
      <4>2. made[s].limit = LimitOf(key) /\ LimitOf(key) \in Nat
        BY <3>3, <2>1, <1>4, <1>5, LimitsAreNumbers
      <4>3. Cardinality(Holders(r, s)) = 0
        BY <3>1, <4>1, FS_EmptySet
      <4>4. QED  BY <4>2, <4>3
    <3>4. QED  BY <3>2, <3>3
  <2>2. QED
    BY <2>1, <1>9 DEF WithinLimit
<1>15. QED
  BY <1>8, <1>12, <1>13, <1>14 DEF r

(***************************************************************************)
(* The steps after it change the state of one call and no semaphore.       *)
(***************************************************************************)
LEMMA CallKeepsQuota ==
  ASSUME NEW q, QuotaInv(q), NEW c \in Callers, NEW r, NEW calls,
         NEW pc \in {"wait", "in", "backoff", "done"}, NEW tries \in Nat,
         r = [q EXCEPT !.calls = calls],
         Changed(q.calls, calls, c, pc, tries),
         q.calls[c].pc # "out", tries <= MaxRetries + 1,
         pc \in {"wait", "backoff"} => tries <= MaxRetries
  PROVE  /\ r \in Quotas /\ OneSemaphore(r) /\ CallsInTurn(r)
         /\ r.sems = q.sems
         /\ pc = "in" => Holders(r, q.calls[c].sem) = Holders(q, q.calls[c].sem) \cup {c}
         /\ \A s : pc # "in" \/ s # q.calls[c].sem => Holders(r, s) = Holders(q, s) \ {c}
<1> USE DEF QuotaInv, Changed
<1>1. /\ q.calls \in [Callers -> Calls]
      /\ q = [sems |-> q.sems, entry |-> q.entry, calls |-> q.calls]
      /\ q.sems \in Seq(Semaphores) /\ q.entry \in [Keys -> Nat]
      /\ \A s \in DOMAIN q.sems : q.sems[s].key \in Keys
  BY QuotaParts
<1>2. /\ r = [sems |-> q.sems, entry |-> q.entry, calls |-> calls]
      /\ r.sems = q.sems /\ r.entry = q.entry /\ r.calls = calls
  BY <1>1
<1>3. r \in Quotas
  BY <1>1, <1>2 DEF Quotas
<1>4. OneSemaphore(r)
  BY <1>1, <1>2 DEF OneSemaphore
<1>5. CallsInTurn(r)
  BY <1>1, <1>2 DEF CallsInTurn
<1>6. ASSUME NEW s
      PROVE  Holders(r, s) = IF pc = "in" /\ s = q.calls[c].sem
                             THEN Holders(q, s) \cup {c} ELSE Holders(q, s) \ {c}
  BY <1>1, <1>2 DEF Holders
<1>7. QED
  BY <1>2, <1>3, <1>4, <1>5, <1>6

LEMMA TakeKeepsQuota ==
  ASSUME NEW q, QuotaInv(q), NEW c \in Callers, CanTake(q, c)
  PROVE  QuotaInv(TakePermit(q, c))
<1> DEFINE r == TakePermit(q, c)
           own == q.calls[c].sem
           tries == q.calls[c].tries + 1
<1>1. /\ q \in Quotas /\ WithinLimit(q) /\ q.calls[c].pc = "wait"
      /\ Cardinality(Holders(q, own)) < q.sems[own].limit
  BY DEF QuotaInv, CanTake
<1>2. q.calls[c].tries \in Nat /\ q.calls[c].tries <= MaxRetries
  BY <1>1, CallParts DEF QuotaInv, CallsInTurn
<1>3. tries \in Nat /\ tries <= MaxRetries + 1
  BY <1>2, LimitsAssumption
<1> DEFINE calls == [q.calls EXCEPT ![c].pc = "in", ![c].tries = tries]
<1>4. /\ r = [q EXCEPT !.calls = calls]
      /\ Changed(q.calls, calls, c, "in", tries)
  <2>1. r = [q EXCEPT !.calls = calls]
    BY <1>1, QuotaParts DEF TakePermit
  <2>2. Changed(q.calls, calls, c, "in", tries)
    <3>1. q.calls \in [Callers -> Calls]
      BY <1>1, QuotaParts
    <3> HIDE DEF tries
    <3>2. QED  BY <1>3, <3>1, ChangedCall
  <2>3. QED  BY <2>1, <2>2
<1> DEFINE pc == "in"
<1> HIDE DEF r, tries, calls
<1>5. /\ r \in Quotas /\ OneSemaphore(r) /\ CallsInTurn(r) /\ r.sems = q.sems
      /\ \A s : Holders(r, s) = IF s = own THEN Holders(q, s) \cup {c} ELSE Holders(q, s) \ {c}
  <2>1. /\ pc \in {"wait", "in", "backoff", "done"} /\ q.calls[c].pc # "out"
        /\ pc \in {"wait", "backoff"} => tries <= MaxRetries
        /\ Changed(q.calls, calls, c, pc, tries)
    BY <1>1, <1>4
  <2> HIDE DEF pc
  <2>2. /\ r \in Quotas /\ OneSemaphore(r) /\ CallsInTurn(r) /\ r.sems = q.sems
        /\ pc = "in" => Holders(r, own) = Holders(q, own) \cup {c}
        /\ \A s : pc # "in" \/ s # own => Holders(r, s) = Holders(q, s) \ {c}
    BY <1>3, <1>4, <2>1, CallKeepsQuota
  <2>3. QED  BY <2>2 DEF pc
<1>6. ASSUME NEW s \in DOMAIN q.sems
      PROVE  Cardinality(Holders(r, s)) <= q.sems[s].limit
  <2>1. /\ Cardinality(Holders(q, s)) \in Nat /\ IsFiniteSet(Holders(q, s))
        /\ q.sems[s].limit \in Nat /\ Cardinality(Holders(q, s)) <= q.sems[s].limit
    BY <1>1, HoldersAreCounted, QuotaParts DEF WithinLimit
  <2>2. CASE s = own
    <3>1. c \notin Holders(q, s)
      BY <1>1 DEF Holders
    <3>2. Cardinality(Holders(r, s)) = Cardinality(Holders(q, s)) + 1
      BY <2>1, <2>2, <3>1, <1>5, FS_AddElement
    <3>3. QED  BY <2>1, <2>2, <3>2, <1>1
  <2>3. CASE s # own
    <3>1. c \notin Holders(q, s)
      BY <1>1 DEF Holders
    <3>2. Holders(r, s) = Holders(q, s)
      BY <2>3, <3>1, <1>5
    <3>3. QED  BY <2>1, <3>2
  <2>4. QED  BY <2>2, <2>3
<1>7. QED
  BY <1>5, <1>6 DEF QuotaInv, WithinLimit, r

LEMMA EndKeepsQuota ==
  ASSUME NEW q, QuotaInv(q), NEW c \in Callers, NEW ok \in BOOLEAN, q.calls[c].pc = "in"
  PROVE  QuotaInv(EndTry(q, c, ok, MaxRetries))
<1> DEFINE r == EndTry(q, c, ok, MaxRetries)
           tries == q.calls[c].tries
           pc == IF ok \/ tries > MaxRetries THEN "done" ELSE "backoff"
<1>1. q \in Quotas /\ WithinLimit(q) /\ tries \in Nat /\ tries <= MaxRetries + 1
  BY CallParts DEF QuotaInv, CallsInTurn
<1>2. /\ pc \in {"wait", "in", "backoff", "done"} /\ pc # "in"
      /\ pc \in {"wait", "backoff"} => tries <= MaxRetries
  BY <1>1, LimitsAssumption
<1> DEFINE calls == [q.calls EXCEPT ![c].pc = pc]
<1>3. /\ r = [q EXCEPT !.calls = calls]
      /\ Changed(q.calls, calls, c, pc, tries)
  <2>1. r = [q EXCEPT !.calls[c].pc = pc]
    BY DEF EndTry
  <2> HIDE DEF r, pc
  <2>2. r = [q EXCEPT !.calls = calls]
    BY <2>1, <1>1, QuotaParts
  <2>3. Changed(q.calls, calls, c, pc, tries)
    <3>1. q.calls \in [Callers -> Calls]
      BY <1>1, QuotaParts
    <3>2. QED  BY <1>2, <3>1, ChangedCall
  <2>4. QED  BY <2>2, <2>3
<1> HIDE DEF r, tries, pc, calls
<1>4. /\ r \in Quotas /\ OneSemaphore(r) /\ CallsInTurn(r) /\ r.sems = q.sems
      /\ \A s : Holders(r, s) = Holders(q, s) \ {c}
  BY <1>1, <1>2, <1>3, CallKeepsQuota
<1>5. WithinLimit(r)
  BY <1>1, <1>4, FewerHolders
<1>6. QED
  BY <1>4, <1>5 DEF QuotaInv, r

LEMMA AgainKeepsQuota ==
  ASSUME NEW q, QuotaInv(q), NEW c \in Callers, q.calls[c].pc = "backoff"
  PROVE  QuotaInv(TryAgain(q, c))
<1> DEFINE r == TryAgain(q, c)
           tries == q.calls[c].tries
<1>1. /\ q \in Quotas /\ WithinLimit(q) /\ tries \in Nat
      /\ tries <= MaxRetries /\ tries <= MaxRetries + 1
  BY CallParts DEF QuotaInv, CallsInTurn
<1> DEFINE calls == [q.calls EXCEPT ![c].pc = "wait"]
<1>2. /\ r = [q EXCEPT !.calls = calls]
      /\ Changed(q.calls, calls, c, "wait", tries)
  <2>1. r = [q EXCEPT !.calls = calls]
    BY <1>1, QuotaParts DEF TryAgain
  <2>2. Changed(q.calls, calls, c, "wait", tries)
    <3>1. q.calls \in [Callers -> Calls]
      BY <1>1, QuotaParts
    <3>2. QED  BY <3>1, ChangedCall
  <2>3. QED  BY <2>1, <2>2
<1> HIDE DEF r, tries, calls
<1>3. /\ r \in Quotas /\ OneSemaphore(r) /\ CallsInTurn(r) /\ r.sems = q.sems
      /\ \A s : Holders(r, s) = Holders(q, s) \ {c}
  BY <1>1, <1>2, CallKeepsQuota
<1>4. WithinLimit(r)
  BY <1>1, <1>3, FewerHolders
<1>5. QED
  BY <1>3, <1>4 DEF QuotaInv, r

LEMMA QuotaIsKept ==
  ASSUME NEW q, QuotaInv(q), NEW key \in Keys
  PROVE  Cardinality({c \in Callers : /\ q.calls[c].pc = "in"
                                      /\ q.sems[q.calls[c].sem].key = key}) <= LimitOf(key)
<1> DEFINE busy == {c \in Callers : /\ q.calls[c].pc = "in"
                                    /\ q.sems[q.calls[c].sem].key = key}
           s == q.entry[key]
<1>1. q \in Quotas /\ OneSemaphore(q) /\ CallsInTurn(q) /\ WithinLimit(q)
  BY DEF QuotaInv
<1>2. ASSUME NEW c \in busy
      PROVE  c \in Holders(q, s) /\ s \in DOMAIN q.sems
  <2>1. q.calls[c].sem \in DOMAIN q.sems
    BY <1>1 DEF CallsInTurn
  <2>2. q.entry[key] = q.calls[c].sem
    BY <2>1, <1>1 DEF OneSemaphore
  <2>3. DOMAIN q.calls = Callers
    BY <1>1 DEF Quotas
  <2>4. QED  BY <2>1, <2>2, <2>3 DEF Holders
<1>3. CASE busy = {}
  <2>1. Cardinality(busy) = 0
    BY <1>3, FS_EmptySet
  <2>2. LimitOf(key) \in Nat
    BY LimitsAreNumbers
  <2> HIDE DEF busy
  <2>3. QED  BY <2>1, <2>2 DEF busy
<1>4. CASE busy # {}
  <2>1. s \in DOMAIN q.sems /\ busy \subseteq Holders(q, s)
    BY <1>2, <1>4
  <2>2. q.sems[s].key = key /\ q.sems[s].limit = LimitOf(key) /\ s # 0
    <3>1. s # 0
      BY <2>1, <1>1, QuotaParts
    <3>2. q.sems[s].key = key
      BY <3>1, <1>1 DEF OneSemaphore
    <3>3. QED  BY <2>1, <3>1, <3>2, <1>1 DEF OneSemaphore
  <2>3. Cardinality(Holders(q, s)) <= LimitOf(key)
    BY <2>1, <2>2, <1>1 DEF WithinLimit
  <2>4. /\ Cardinality(busy) <= Cardinality(Holders(q, s))
        /\ Cardinality(busy) \in Nat /\ Cardinality(Holders(q, s)) \in Nat
    BY <2>1, <1>1, HoldersAreCounted, FS_Subset, FS_CardinalityType
  <2>5. QED
    BY <2>3, <2>4, LimitsAreNumbers
<1>5. QED  BY <1>3, <1>4

-----------------------------------------------------------------------------
(***************************************************************************)
(* The limits of a whole run.                                              *)
(***************************************************************************)
Bucket(x) ==
    \E lim \in Rates, b \in Buckets :
       /\ x = [kind |-> "bucket", lim |-> lim, b |-> b]
       /\ Accounted(b, lim.rate, lim.capacity, lim.unit)

WindowOf(x) ==
    \E max \in Nat, b \in Windows :
       x = [kind |-> "window", max |-> max, b |-> b] /\ Counted(b, max)

Quota(x) == \E q : x = [kind |-> "calls", q |-> q] /\ QuotaInv(q)

LimitsInv ==
    /\ "kind" \in DOMAIN sample
    /\ sample.kind = "bucket" => Bucket(sample)
    /\ sample.kind = "window" => WindowOf(sample)
    /\ sample.kind = "calls" => Quota(sample)

LEMMA RatesAreNumbers ==
  ASSUME NEW lim \in Rates
  PROVE  lim.rate \in Nat /\ lim.capacity \in Nat /\ lim.unit \in Nat
  BY LimitsAssumption

(***************************************************************************)
(* Time alone takes nothing: what is accounted for or counted stays so.    *)
(***************************************************************************)
LEMMA TickKeepsBucket ==
  ASSUME NEW lim \in Rates, NEW b \in Buckets,
         Accounted(b, lim.rate, lim.capacity, lim.unit)
  PROVE  /\ [b EXCEPT !.now = @ + 1] \in Buckets
         /\ Accounted([b EXCEPT !.now = @ + 1], lim.rate, lim.capacity, lim.unit)
<1> DEFINE c == [b EXCEPT !.now = @ + 1]
<1>1. /\ c \in Buckets /\ c.tokens = b.tokens /\ c.updated = b.updated
      /\ c.now = b.now + 1 /\ c.allowed = b.allowed
      /\ b.now \in Nat /\ b.updated \in Nat
  BY DEF Buckets
<1> HIDE DEF c
<1>2. c.updated <= c.now
  <2>1. b.updated <= b.now
    BY Zenon DEF Accounted
  <2>2. QED  BY <1>1, <2>1
<1>3. Accounted(c, lim.rate, lim.capacity, lim.unit)
  BY <1>1, <1>2, Zenon DEF Accounted
<1>4. QED
  BY <1>1, <1>3, Zenon DEF c

LEMMA TickKeepsWindow ==
  ASSUME NEW max \in Nat, NEW w \in Windows, Counted(w, max)
  PROVE  /\ [w EXCEPT !.now = @ + 1] \in Windows
         /\ Counted([w EXCEPT !.now = @ + 1], max)
<1> DEFINE v == [w EXCEPT !.now = @ + 1]
<1>1. /\ v \in Windows /\ v.count = w.count /\ v.now = w.now + 1
      /\ v.allowed = w.allowed /\ w.now \in Nat /\ w.count[1] \in Nat
  BY DEF Windows
<1> HIDE DEF v
<1>2. v.count[1] <= v.now \div Window
  <2>1. /\ w.now \div Window \in Nat /\ v.now \div Window \in Nat
        /\ w.now \div Window <= v.now \div Window
    BY <1>1, LaterWindow
  <2>2. w.count[1] <= w.now \div Window
    BY Zenon DEF Counted
  <2>3. QED  BY <1>1, <2>1, <2>2
<1>3. Counted(v, max)
  BY <1>1, <1>2, Zenon DEF Counted
<1>4. QED
  BY <1>1, <1>3, Zenon DEF v

LEMMA LimitsStart == Init => LimitsInv
  BY DEF Init, LimitsInv

(***************************************************************************)
(* The steps that begin another case, and a chunk of a streamed answer,    *)
(* leave no limit to be kept.                                              *)
(***************************************************************************)
Elsewhere ==
    \/ Search \/ MergeEntities \/ MergeRelations \/ FilterRelations
    \/ TrimChunks \/ RenderReports
    \/ MergeCommunities \/ CompareGraphs \/ Resolve
    \/ Rank \/ RankChunks \/ Compare \/ JudgeMultihop \/ Evaluate \/ Observe
    \/ StartStream

LEMMA ElsewhereKeepsLimits ==
  ASSUME Elsewhere
  PROVE  LimitsInv'
<1> USE DEF LimitsInv
<1>1. CASE Search           BY <1>1 DEF Search
<1>2. CASE MergeEntities    BY <1>2 DEF MergeEntities
<1>3. CASE MergeRelations   BY <1>3 DEF MergeRelations
<1>4. CASE FilterRelations  BY <1>4 DEF FilterRelations
<1>5. CASE TrimChunks       BY <1>5 DEF TrimChunks
<1>6. CASE RenderReports    BY <1>6 DEF RenderReports
<1>7. CASE MergeCommunities BY <1>7 DEF MergeCommunities
<1>8. CASE CompareGraphs    BY <1>8 DEF CompareGraphs
<1>9. CASE Resolve          BY <1>9 DEF Resolve
<1>10. CASE Rank            BY <1>10 DEF Rank
<1>11. CASE RankChunks      BY <1>11 DEF RankChunks
<1>12. CASE Compare         BY <1>12 DEF Compare
<1>13. CASE JudgeMultihop   BY <1>13 DEF JudgeMultihop
<1>14. CASE Evaluate        BY <1>14 DEF Evaluate
<1>15. CASE Observe         BY <1>15 DEF Observe
<1>16. CASE StartStream     BY <1>16 DEF StartStream
<1>17. QED
  BY <1>1, <1>2, <1>3, <1>4, <1>5, <1>6, <1>7, <1>8, <1>9, <1>10, <1>11,
     <1>12, <1>13, <1>14, <1>15, <1>16 DEF Elsewhere

LEMMA BucketStepsKeepLimits ==
  ASSUME LimitsInv,
         StartBucket \/ (Tick /\ sample.kind = "bucket") \/ AskBucket
  PROVE  Bucket(sample')
<1>1. CASE StartBucket
  <2>1. PICK lim \in Rates :
           sample' = [kind |-> "bucket", lim |-> lim,
                      b |-> FullBucket(lim.capacity, lim.unit)]
    BY <1>1 DEF StartBucket
  <2>2. QED
    BY <2>1, RatesAreNumbers, FullBucketAccounted DEF Bucket
<1>2. ASSUME Tick \/ AskBucket, sample.kind = "bucket"
      PROVE  Bucket(sample')
  <2>1. PICK lim \in Rates, b \in Buckets :
           /\ sample = [kind |-> "bucket", lim |-> lim, b |-> b]
           /\ Accounted(b, lim.rate, lim.capacity, lim.unit)
    BY <1>2 DEF LimitsInv, Bucket
  <2>2. CASE Tick
    <3> DEFINE c == [b EXCEPT !.now = @ + 1]
    <3>1. sample' = [kind |-> "bucket", lim |-> lim, b |-> c]
      BY <2>1, <2>2 DEF Tick
    <3>2. c \in Buckets /\ Accounted(c, lim.rate, lim.capacity, lim.unit)
      BY <2>1, TickKeepsBucket
    <3> HIDE DEF c
    <3>3. QED  BY <3>1, <3>2 DEF Bucket
  <2>3. CASE AskBucket
    <3> DEFINE c == Acquire(b, lim.rate, lim.capacity, lim.unit)
    <3>1. sample' = [kind |-> "bucket", lim |-> lim, b |-> c]
      BY <2>1, <2>3 DEF AskBucket
    <3>2. c \in Buckets /\ Accounted(c, lim.rate, lim.capacity, lim.unit)
      BY <2>1, RatesAreNumbers, AcquireKeepsAccount
    <3> HIDE DEF c
    <3>3. QED  BY <3>1, <3>2 DEF Bucket
  <2>4. QED  BY <1>2, <2>2, <2>3
<1>3. QED  BY <1>1, <1>2 DEF AskBucket

LEMMA WindowStepsKeepLimits ==
  ASSUME LimitsInv,
         StartWindow \/ (Tick /\ sample.kind = "window") \/ AskShared
  PROVE  WindowOf(sample')
<1>1. CASE StartWindow
  <2>1. PICK max \in 1 .. MaxCount : sample' = [kind |-> "window", max |-> max, b |-> NewWindow]
    BY <1>1 DEF StartWindow
  <2>2. max \in Nat
    OBVIOUS
  <2>3. QED
    BY <2>1, <2>2, NewWindowCounted DEF WindowOf
<1>2. ASSUME Tick \/ AskShared, sample.kind = "window"
      PROVE  WindowOf(sample')
  <2>1. PICK max \in Nat, w \in Windows :
           sample = [kind |-> "window", max |-> max, b |-> w] /\ Counted(w, max)
    BY <1>2 DEF LimitsInv, WindowOf
  <2>2. CASE Tick
    <3> DEFINE v == [w EXCEPT !.now = @ + 1]
    <3>1. sample' = [kind |-> "window", max |-> max, b |-> v]
      BY <2>1, <2>2 DEF Tick
    <3>2. v \in Windows /\ Counted(v, max)
      BY <2>1, TickKeepsWindow
    <3> HIDE DEF v
    <3>3. QED  BY <3>1, <3>2 DEF WindowOf
  <2>3. CASE AskShared
    <3>1. PICK answer \in {"ok", "down", "lost"} :
             sample' = [kind |-> "window", max |-> max,
                        b |-> AcquireShared(w, Window, max, answer)]
      BY <2>1, <2>3 DEF AskShared
    <3> DEFINE v == AcquireShared(w, Window, max, answer)
    <3>2. v \in Windows /\ Counted(v, max)
      BY <2>1, AcquireKeepsCount
    <3> HIDE DEF v
    <3>3. QED  BY <3>1, <3>2 DEF WindowOf, v
  <2>4. QED  BY <1>2, <2>2, <2>3
<1>3. QED  BY <1>1, <1>2 DEF AskShared

LEMMA CallStepsKeepLimits ==
  ASSUME LimitsInv, StartCalls \/ Enter \/ Take \/ End \/ Again
  PROVE  Quota(sample')
<1>1. CASE StartCalls
  BY <1>1, NoCallsInTurn DEF StartCalls, Keys, Quota
<1>2. ASSUME Enter \/ Take \/ End \/ Again
      PROVE  Quota(sample')
  <2>1. sample.kind = "calls"
    BY <1>2 DEF Enter, Take, End, Again
  <2>2. PICK q : sample = [kind |-> "calls", q |-> q] /\ QuotaInv(q)
    BY <2>1 DEF LimitsInv, Quota
  <2>3. ASSUME NEW r, sample' = [sample EXCEPT !.q = r], QuotaInv(r)
        PROVE  Quota(sample')
    <3>1. sample' = [kind |-> "calls", q |-> r]
      BY <2>2, <2>3
    <3>2. QED  BY <2>3, <3>1 DEF Quota
  <2>4. CASE Enter
    <3>1. PICK c \in Callers, key \in Keys :
             /\ q.calls[c].pc = "out"
             /\ sample' = [sample EXCEPT !.q = EnterCall(q, c, key, LimitOf(key))]
      BY <2>2, <2>4 DEF Enter, Keys
    <3>2. QED  BY <3>1, <2>2, <2>3, EnterKeepsQuota
  <2>5. CASE Take
    <3>1. PICK c \in Callers :
             CanTake(q, c) /\ sample' = [sample EXCEPT !.q = TakePermit(q, c)]
      BY <2>2, <2>5 DEF Take
    <3>2. QED  BY <3>1, <2>2, <2>3, TakeKeepsQuota
  <2>6. CASE End
    <3>1. PICK c \in Callers, ok \in BOOLEAN :
             /\ q.calls[c].pc = "in"
             /\ sample' = [sample EXCEPT !.q = EndTry(q, c, ok, MaxRetries)]
      BY <2>2, <2>6 DEF End
    <3>2. QED  BY <3>1, <2>2, <2>3, EndKeepsQuota
  <2>7. CASE Again
    <3>1. PICK c \in Callers :
             /\ q.calls[c].pc = "backoff"
             /\ sample' = [sample EXCEPT !.q = TryAgain(q, c)]
      BY <2>2, <2>7 DEF Again
    <3>2. QED  BY <3>1, <2>2, <2>3, AgainKeepsQuota
  <2>8. QED  BY <1>2, <2>4, <2>5, <2>6, <2>7
<1>3. QED  BY <1>1, <1>2

LEMMA LimitsStep == LimitsInv /\ [Next]_vars => LimitsInv'
<1> SUFFICES ASSUME LimitsInv, [Next]_vars PROVE LimitsInv'
  OBVIOUS
<1>1. ASSUME Bucket(sample') PROVE LimitsInv'
  BY <1>1 DEF LimitsInv, Bucket
<1>2. ASSUME WindowOf(sample') PROVE LimitsInv'
  BY <1>2 DEF LimitsInv, WindowOf
<1>3. ASSUME Quota(sample') PROVE LimitsInv'
  BY <1>3 DEF LimitsInv, Quota
<1>4. CASE Elsewhere
  BY <1>4, ElsewhereKeepsLimits
<1>5. CASE NextChunk
  BY <1>5 DEF NextChunk, LimitsInv
<1>6. CASE StartBucket \/ (Tick /\ sample.kind = "bucket") \/ AskBucket
  BY <1>1, <1>6, BucketStepsKeepLimits
<1>7. CASE StartWindow \/ (Tick /\ sample.kind = "window") \/ AskShared
  BY <1>2, <1>7, WindowStepsKeepLimits
<1>8. CASE StartCalls \/ Enter \/ Take \/ End \/ Again
  BY <1>3, <1>8, CallStepsKeepLimits
<1>9. CASE UNCHANGED vars
  BY <1>9 DEF vars, LimitsInv
<1>10. Tick => sample.kind = "bucket" \/ sample.kind = "window"
  BY DEF Tick
<1>11. QED
  BY <1>4, <1>5, <1>6, <1>7, <1>8, <1>9, <1>10 DEF Next, Elsewhere

LEMMA LimitsInvImpliesLimitsHold == LimitsInv => LimitsHold
<1> SUFFICES ASSUME LimitsInv PROVE LimitsHold
  OBVIOUS
<1>1. ASSUME sample.kind = "bucket", NEW i \in DOMAIN sample.b.allowed,
             NEW j \in DOMAIN sample.b.allowed, i <= j
      PROVE  (j - i + 1) * sample.lim.unit <=
                sample.lim.capacity * sample.lim.unit
                    + (sample.b.allowed[j] - sample.b.allowed[i]) * sample.lim.rate
  <2>1. PICK lim \in Rates, b \in Buckets :
           /\ sample = [kind |-> "bucket", lim |-> lim, b |-> b]
           /\ Accounted(b, lim.rate, lim.capacity, lim.unit)
    BY <1>1 DEF LimitsInv, Bucket
  <2>2. sample.lim = lim /\ sample.b = b
    BY <2>1
  <2>3. Paid(b.allowed, lim.rate, lim.capacity, lim.unit)
    BY <2>1, Zenon DEF Accounted
  <2>4. QED
    BY <1>1, <2>2, <2>3, Zenon DEF Paid
<1>2. ASSUME sample.kind = "window", NEW n \in 0 .. MaxTime \div Window
      PROVE  Cardinality(LetThrough(sample.b.allowed, n)) <= sample.max
  <2>1. PICK max \in Nat, w \in Windows :
           sample = [kind |-> "window", max |-> max, b |-> w] /\ Counted(w, max)
    BY <1>2 DEF LimitsInv, WindowOf
  <2>2. sample.max = max /\ sample.b = w
    BY <2>1
  <2>3. n \in Nat
    <3>1. 0 <= MaxTime /\ MaxTime \in Nat
      BY LimitsAssumption
    <3>2. MaxTime \div Window \in Nat
      BY <3>1, LaterWindow
    <3>3. QED  BY <3>2
  <2>4. QED
    BY <2>1, <2>2, <2>3, Zenon DEF Counted
<1>3. ASSUME sample.kind = "calls"
      PROVE  /\ \A key \in {"query", "insert"} :
                   Cardinality({c \in Callers :
                                  /\ sample.q.calls[c].pc = "in"
                                  /\ sample.q.sems[sample.q.calls[c].sem].key = key})
                       <= LimitOf(key)
             /\ \A c \in Callers : sample.q.calls[c].tries <= MaxRetries + 1
  <2>1. PICK q : sample = [kind |-> "calls", q |-> q] /\ QuotaInv(q)
    BY <1>3 DEF LimitsInv, Quota
  <2>2. sample.q = q
    BY <2>1
  <2>3. \A c \in Callers : q.calls[c].tries <= MaxRetries + 1
    BY <2>1 DEF QuotaInv, CallsInTurn
  <2>4. \A key \in {"query", "insert"} :
           Cardinality({c \in Callers : /\ q.calls[c].pc = "in"
                                        /\ q.sems[q.calls[c].sem].key = key})
               <= LimitOf(key)
    BY <2>1, QuotaIsKept DEF Keys
  <2>5. QED
    BY <2>2, <2>3, <2>4
<1>4. QED
  BY <1>1, <1>2, <1>3, Zenon DEF LimitsHold

(***************************************************************************)
(* The limits of rate_limit.py, concurrency.py and retry.py hold over      *)
(* time: for every rate, capacity and window, however many questions are   *)
(* asked and at what times, however many calls there are of either phase   *)
(* and however they fail and are repeated.                                 *)
(***************************************************************************)
THEOREM LimitsAlwaysHold == Spec => []LimitsHold
<1>1. QED
  BY LimitsStart, LimitsStep, LimitsInvImpliesLimitsHold, PTL DEF Spec

-----------------------------------------------------------------------------
(***************************************************************************)
(* The filter of streamed answers.  Texts are compared by position: where  *)
(* the first letter that is no space is, where an opening tag ends after   *)
(* it, and where the first closing tag after that begins.                  *)
(*                                                                         *)
(* A closing tag may be cut in two, so that what is kept of a block of     *)
(* thoughts matters: the invariant (Thinking) says that the buffer is the  *)
(* end of what arrived, from a place before which no closing tag begins.   *)
(***************************************************************************)
Chars == Letters \cup {"<", "/", "o"}

Text == Seq(Chars)

\* parts of texts
LEMMA Part ==
  ASSUME NEW t \in Text, NEW a \in Nat \ {0}, NEW b \in Nat, a <= b + 1, b <= Len(t)
  PROVE  /\ SubSeq(t, a, b) \in Text
         /\ Len(SubSeq(t, a, b)) = b - a + 1
         /\ \A i \in 1 .. b - a + 1 : SubSeq(t, a, b)[i] = t[a + i - 1]
<1>1. \A i \in a .. b : t[i] \in Chars
  BY DEF Text
<1>2. QED  BY <1>1, SubSeqProperties DEF Text

LEMMA SameText == 
  ASSUME NEW s \in Text, NEW t \in Text, Len(s) = Len(t), \A i \in 1 .. Len(s) : s[i] = t[i]
  PROVE  s = t
<1>1. s \in Seq(Chars) /\ t \in Seq(Chars)
  BY DEF Text
<1>2. \A i \in 1 .. Len(s) : s[i] = t[i]
  OBVIOUS
<1>3. QED  BY <1>1, <1>2, SeqEqual, Zenon

LEMMA PartOfPart ==
  ASSUME NEW t \in Text, NEW a \in Nat \ {0}, NEW b \in Nat, a <= b + 1, b <= Len(t),
         NEW c \in Nat \ {0}, NEW d \in Nat, c <= d + 1, d <= b - a + 1
  PROVE  SubSeq(SubSeq(t, a, b), c, d) = SubSeq(t, a + c - 1, a + d - 1)
<1> DEFINE u == SubSeq(t, a, b)
           v == SubSeq(u, c, d)
           w == SubSeq(t, a + c - 1, a + d - 1)
<1>1. u \in Text /\ Len(u) = b - a + 1 /\ \A i \in 1 .. b - a + 1 : u[i] = t[a + i - 1]
  BY Part
<1>2. v \in Text /\ Len(v) = d - c + 1 /\ \A i \in 1 .. d - c + 1 : v[i] = u[c + i - 1]
  BY <1>1, Part
<1>3. w \in Text /\ Len(w) = d - c + 1
      /\ \A i \in 1 .. d - c + 1 : w[i] = t[(a + c - 1) + i - 1]
  <2>1. /\ a + c - 1 \in Nat \ {0} /\ a + d - 1 \in Nat
        /\ a + c - 1 <= (a + d - 1) + 1 /\ a + d - 1 <= Len(t)
        /\ (a + d - 1) - (a + c - 1) + 1 = d - c + 1
    <3>1. Len(t) \in Nat
      BY DEF Text
    <3>2. QED  BY <3>1
  <2>2. QED  BY <2>1, Part
<1>4. \A i \in 1 .. d - c + 1 : v[i] = w[i]
  <2> SUFFICES ASSUME NEW i \in 1 .. d - c + 1 PROVE v[i] = w[i]
    OBVIOUS
  <2>1. c + i - 1 \in 1 .. b - a + 1 /\ a + (c + i - 1) - 1 = (a + c - 1) + i - 1
    OBVIOUS
  <2>2. QED  BY <1>1, <1>2, <1>3, <2>1
<1>5. QED  BY <1>2, <1>3, <1>4, SameText

LEMMA TwoParts ==
  ASSUME NEW t \in Text, NEW a \in Nat \ {0}, NEW b \in Nat, NEW c \in Nat,
         a <= b + 1, b <= c, c <= Len(t)
  PROVE  SubSeq(t, a, b) \o SubSeq(t, b + 1, c) = SubSeq(t, a, c)
  BY ConcatAdjacentSubSeq DEF Text

\* a closing tag begins at i
Ends(t, i) ==
    i \in 1 .. Len(t) - 2 /\ t[i] = "<" /\ t[i + 1] = "/" /\ t[i + 2] = "o"

LEMMA CloseAt ==
  ASSUME NEW b \in Text, NEW i \in 1 .. Len(b)
  PROVE  (i + Len(Close) - 1 <= Len(b) /\ SubSeq(b, i, i + Len(Close) - 1) = Close) <=> Ends(b, i)
<1>1. Len(Close) = 3 /\ Close \in Text /\ Close[1] = "<" /\ Close[2] = "/" /\ Close[3] = "o"
  <2>1. Len(Close) = 3
    BY DEF Close
  <2>2. Close[1] = "<" /\ Close[2] = "/" /\ Close[3] = "o"
    BY DEF Close
  <2>3. "<" \in Chars /\ "/" \in Chars /\ "o" \in Chars
    BY DEF Chars
  <2>4. Close \in Text
    BY <2>3 DEF Close, Text
  <2>5. QED  BY <2>1, <2>2, <2>4
<1>2. Len(b) \in Nat
  BY DEF Text
<1>3. CASE i + 2 <= Len(b)
  <2> DEFINE u == SubSeq(b, i, i + 2)
  <2>1. u \in Text /\ Len(u) = 3 /\ u[1] = b[i] /\ u[2] = b[i + 1] /\ u[3] = b[i + 2]
    <3>1. /\ i \in Nat \ {0} /\ i + 2 \in Nat /\ i <= (i + 2) + 1 /\ (i + 2) - i + 1 = 3
          /\ 1 \in 1 .. 3 /\ 2 \in 1 .. 3 /\ 3 \in 1 .. 3
          /\ i + 1 - 1 = i /\ i + 2 - 1 = i + 1 /\ i + 3 - 1 = i + 2
      OBVIOUS
    <3>2. u \in Text /\ Len(u) = 3 /\ \A j \in 1 .. 3 : u[j] = b[i + j - 1]
      BY <1>3, <3>1, Part
    <3>3. QED  BY <3>1, <3>2
  <2>2. u = Close <=> u[1] = "<" /\ u[2] = "/" /\ u[3] = "o"
    <3>1. ASSUME u[1] = "<", u[2] = "/", u[3] = "o" PROVE u = Close
      <4>1. \A j \in 1 .. Len(u) : u[j] = Close[j]
        BY <1>1, <2>1, <3>1
      <4> HIDE DEF u
      <4>2. QED  BY <1>1, <2>1, <4>1, SameText
    <3>2. QED  BY <1>1, <3>1
  <2>3. i + Len(Close) - 1 = i + 2
    BY <1>1
  <2>4. i \in 1 .. Len(b) - 2
    BY <1>2, <1>3
  <2> HIDE DEF u
  <2>5. SubSeq(b, i, i + Len(Close) - 1) = u
    BY <2>3 DEF u
  <2>6. QED  BY <1>3, <2>1, <2>2, <2>3, <2>4, <2>5 DEF Ends
<1>4. CASE ~(i + 2 <= Len(b))
  <2>1. ~(i + Len(Close) - 1 <= Len(b))
    BY <1>1, <1>4
  <2>2. ~Ends(b, i)
    BY <1>2, <1>4 DEF Ends
  <2>3. QED  BY <2>1, <2>2
<1>5. QED  BY <1>3, <1>4

\* Find tells where the first closing tag begins
LEMMA FindIsFirst ==
  ASSUME NEW b \in Text
  PROVE  \/ Find(Close, b) = 0 /\ \A i \in Nat : ~Ends(b, i)
         \/ Find(Close, b) \in Nat \ {0} /\ Ends(b, Find(Close, b)) /\ \A j \in Nat : Ends(b, j) => Find(Close, b) <= j
<1> DEFINE at == {i \in 1 .. Len(b) : i + Len(Close) - 1 <= Len(b)
                                     /\ SubSeq(b, i, i + Len(Close) - 1) = Close}
<1>1. \A i \in Nat : i \in at <=> Ends(b, i)
  <2> SUFFICES ASSUME NEW i \in Nat PROVE i \in at <=> Ends(b, i)
    OBVIOUS
  <2>1. CASE i \in 1 .. Len(b)
    BY <2>1, CloseAt, Zenon
  <2>2. CASE i \notin 1 .. Len(b)
    <3>1. Len(b) \in Nat
      BY DEF Text
    <3>2. QED  BY <2>2, <3>1 DEF Ends
  <2>3. QED  BY <2>1, <2>2
<1>2. Find(Close, b) = IF at = {} THEN 0 ELSE CHOOSE i \in at : \A j \in at : i <= j
  BY Zenon DEF Find
<1>3. at \in SUBSET Nat
  <2>1. at \subseteq 1 .. Len(b)
    BY Zenon
  <2>2. QED  BY <2>1
<1>4. 0 \notin at
  <2>1. ~Ends(b, 0)
    BY DEF Ends
  <2>2. QED  BY <1>1, <2>1
<1> HIDE DEF at
<1>5. CASE at = {}
  <2>1. \A i \in Nat : ~Ends(b, i)
    BY <1>1, <1>5
  <2>2. QED  BY <1>2, <1>5, <2>1
<1>6. CASE at # {}
  <2>1. \E i \in at : \A j \in at : i <= j
    BY <1>3, <1>6, Least
  <2>2. Find(Close, b) \in at /\ \A j \in at : Find(Close, b) <= j
    BY <1>2, <1>6, <2>1, Zenon
  <2>3. QED  BY <1>1, <1>3, <1>4, <2>2
<1>7. QED  BY <1>5, <1>6

\* what is stripped are the spaces before the first other letter
LEMMA StrippedIs ==
  ASSUME NEW t \in Text
  PROVE  \/ Stripped(t) = <<>> /\ \A i \in 1 .. Len(t) : t[i] = Space
         \/ \E f \in 1 .. Len(t) : /\ t[f] # Space
                                   /\ \A i \in 1 .. f - 1 : t[i] = Space
                                   /\ Stripped(t) = SubSeq(t, f, Len(t))
<1> DEFINE I == {i \in 1 .. Len(t) : t[i] # Space}
<1>1. Stripped(t) = LET f == IF I # {} THEN Min(I) ELSE 0
                    IN IF f = 0 THEN <<>> ELSE SubSeq(t, f, Len(t))
  BY DEF Stripped, SelectInSeq
<1>2. PICK f : /\ f = IF I # {} THEN Min(I) ELSE 0
               /\ Stripped(t) = IF f = 0 THEN <<>> ELSE SubSeq(t, f, Len(t))
  BY <1>1
<1>3. CASE I = {}
  BY <1>2, <1>3
<1>4. CASE I # {}
  <2>1. I \in SUBSET Nat
    <3>1. \A i \in 1 .. Len(t) : i \in Nat
      BY DEF Text
    <3>2. QED  BY <3>1
  <2>2. \E i \in I : \A j \in I : i <= j
    BY <1>4, <2>1, Least
  <2>3. Min(I) \in I /\ \A j \in I : Min(I) <= j
    <3> HIDE DEF I
    <3>1. QED  BY <2>2, Zenon DEF Min
  <2>4. f \in I /\ \A j \in I : f <= j
    BY <1>2, <1>4, <2>3
  <2>5. f \in 1 .. Len(t) /\ t[f] # Space
    BY <2>4
  <2>6. \A i \in 1 .. f - 1 : t[i] = Space
    <3> SUFFICES ASSUME NEW i \in 1 .. f - 1, t[i] # Space PROVE FALSE
      OBVIOUS
    <3>0. Len(t) \in Nat
      BY DEF Text
    <3>1. i \in I
      <4>1. f \in 1 .. Len(t) /\ i \in 1 .. f - 1
        BY <2>5
      <4>2. i \in 1 .. Len(t)
        BY <3>0, <4>1
      <4>3. QED  BY <4>2
    <3>2. f <= i
      BY <2>4, <3>1
    <3>3. QED  BY <2>5, <3>2
  <2>7. Stripped(t) = SubSeq(t, f, Len(t))
    <3>1. f # 0
      BY <2>5
    <3>2. QED  BY <1>2, <3>1, Zenon
  <2>8. QED  BY <2>5, <2>6, <2>7
<1>5. QED  BY <1>3, <1>4

\* t begins, after any spaces, with the opening tag, which ends at p
Opened(t, p) ==
    p \in 2 .. Len(t) /\ t[p - 1] = "<" /\ t[p] = "o" /\ \A i \in 1 .. p - 2 : t[i] = Space

Filters == [state : {"probe", "in_think", "passthrough"}, buf : Text, out : Text]

(***************************************************************************)
(* What the filter knows after the first m letters of t.                   *)
(***************************************************************************)
Probing(t, m, s) ==
    /\ s.state = "probe" /\ s.out = <<>> /\ s.buf = SubSeq(t, 1, m)
    /\ \/ \A i \in 1 .. m : t[i] = Space
       \/ m >= 1 /\ t[m] = "<" /\ \A i \in 1 .. m - 1 : t[i] = Space

Thinking(t, m, s) ==
    /\ s.state = "in_think" /\ s.out = <<>>
    /\ \E p \in 2 .. m : \E lo \in p + 1 .. m + 1 :
          /\ Opened(t, p)
          /\ s.buf = SubSeq(t, lo, m)
          /\ \A i \in p + 1 .. lo - 1 : ~Ends(t, i)
          /\ \A i \in p + 1 .. m - 2 : ~Ends(t, i)

Answering(t, m, s) ==
    /\ s.state = "passthrough"
    /\ \E q \in 0 .. m : /\ Answer(t) = SubSeq(t, q + 1, Len(t))
                         /\ s.out = SubSeq(t, q + 1, m)

Shown(t, m, s) ==
    s \in Filters /\ (Probing(t, m, s) \/ Thinking(t, m, s) \/ Answering(t, m, s))

LEMMA EndsOfPart ==
  ASSUME NEW t \in Text, NEW a \in Nat \ {0}, NEW b \in Nat, a <= b + 1, b <= Len(t), NEW i \in Nat
  PROVE  Ends(SubSeq(t, a, b), i) <=> i \in 1 .. b - a - 1 /\ Ends(t, a + i - 1)
<1> DEFINE u == SubSeq(t, a, b)
<1>1. u \in Text /\ Len(u) = b - a + 1 /\ \A j \in 1 .. b - a + 1 : u[j] = t[a + j - 1]
  BY Part
<1>2. Len(t) \in Nat
  BY DEF Text
<1> HIDE DEF u
<1>3. CASE i \in 1 .. b - a - 1
  <2>1. i \in 1 .. b - a + 1 /\ i + 1 \in 1 .. b - a + 1 /\ i + 2 \in 1 .. b - a + 1
    BY <1>3
  <2>2. a + (i + 1) - 1 = (a + i - 1) + 1 /\ a + (i + 2) - 1 = (a + i - 1) + 2
    BY <1>3
  <2>3. u[i] = t[a + i - 1] /\ u[i + 1] = t[(a + i - 1) + 1] /\ u[i + 2] = t[(a + i - 1) + 2]
    BY <1>1, <2>1, <2>2
  <2>4. i \in 1 .. Len(u) - 2 /\ a + i - 1 \in 1 .. Len(t) - 2
    BY <1>1, <1>2, <1>3
  <2>5. QED  BY <1>3, <2>3, <2>4 DEF Ends, u
<1>4. CASE i \notin 1 .. b - a - 1
  <2>1. i \notin 1 .. Len(u) - 2
    BY <1>1, <1>4
  <2>2. QED  BY <1>4, <2>1 DEF Ends, u
<1>5. QED  BY <1>3, <1>4

LEMMA OpenIs ==
  /\ Len(Open) = 2 /\ Open \in Text /\ Open[1] = "<" /\ Open[2] = "o"
  /\ SubSeq(Open, 1, 1) = <<"<">> /\ SubSeq(Open, 1, 0) = <<>>
  /\ Len(<<"<">>) = 1 /\ <<"<">> \in Text /\ <<"<">>[1] = "<"
  /\ Len(<<>>) = 0 /\ <<>> \in Text
<1>1. Len(Open) = 2 /\ Open[1] = "<" /\ Open[2] = "o"
  BY DEF Open
<1>2. "<" \in Chars /\ "o" \in Chars
  BY DEF Chars
<1>3. Open \in Text /\ <<"<">> \in Text /\ <<>> \in Text
  BY <1>2 DEF Open, Text
<1>4. Len(<<"<">>) = 1 /\ <<"<">>[1] = "<" /\ Len(<<>>) = 0
  OBVIOUS
<1>5. SubSeq(Open, 1, 1) = <<"<">>
  <2>1. SubSeq(Open, 1, 1) \in Text /\ Len(SubSeq(Open, 1, 1)) = 1
        /\ \A i \in 1 .. 1 : SubSeq(Open, 1, 1)[i] = Open[1 + i - 1]
    <3>1. 1 <= Len(Open) /\ 1 - 1 + 1 = 1 /\ 1 \in Nat \ {0} /\ 1 <= 1 + 1
      BY <1>1
    <3>2. QED  BY <1>3, <3>1, Part
  <2>2. \A i \in 1 .. 1 : SubSeq(Open, 1, 1)[i] = <<"<">>[i]
    BY <1>1, <1>4, <2>1
  <2>3. QED  BY <1>3, <1>4, <2>1, <2>2, SameText
<1>6. SubSeq(Open, 1, 0) = <<>>
  BY SubSeqEmpty
<1>7. QED  BY <1>1, <1>3, <1>4, <1>5, <1>6

\* a text that begins with the tag
LEMMA BeginsWithOpen ==
  ASSUME NEW u \in Text
  PROVE  IsPrefix(Open, u) <=> Len(u) >= 2 /\ u[1] = "<" /\ u[2] = "o"
<1>0. Len(u) \in Nat
  BY DEF Text
<1>1. CASE Len(u) >= 2
  <2> DEFINE v == SubSeq(u, 1, 2)
  <2>1. v \in Text /\ Len(v) = 2 /\ \A i \in 1 .. 2 : v[i] = u[1 + i - 1]
    BY <1>0, <1>1, Part
  <2>2. v[1] = u[1] /\ v[2] = u[2]
    BY <2>1
  <2>3. SubSeq(Open, 1, 2) = Open
    BY OpenIs, SubSeqFull DEF Text
  <2>4. IsPrefix(Open, u) <=> v = Open
    BY <1>0, <1>1, <2>3, OpenIs DEF IsPrefix
  <2> HIDE DEF v
  <2>5. ASSUME v[1] = "<", v[2] = "o" PROVE v = Open
    <3>1. \A i \in 1 .. Len(v) : v[i] = Open[i]
      BY <2>1, <2>5, OpenIs
    <3>2. QED  BY <2>1, <3>1, OpenIs, SameText
  <2>6. v = Open => v[1] = "<" /\ v[2] = "o"
    BY OpenIs
  <2>7. QED  BY <1>1, <2>2, <2>4, <2>5, <2>6
<1>2. CASE ~(Len(u) >= 2)
  <2>1. ~IsPrefix(Open, u)
    BY <1>0, <1>2, OpenIs DEF IsPrefix
  <2>2. QED  BY <1>2, <2>1
<1>3. QED  BY <1>1, <1>2

\* a text that the tag begins with and that is not the tag
LEMMA BeginsOpen ==
  ASSUME NEW u \in Text
  PROVE  (IsPrefix(u, Open) /\ u # Open) <=> Len(u) = 0 \/ (Len(u) = 1 /\ u[1] = "<")
<1>0. Len(u) \in Nat
  BY DEF Text
<1>1. SubSeq(u, 1, Len(u)) = u
  BY SubSeqFull DEF Text
<1>2. CASE Len(u) = 0
  <2>1. u = <<>>
    BY <1>2, OpenIs, SameText
  <2>2. QED  BY <1>1, <1>2, <2>1, OpenIs DEF IsPrefix
<1>3. CASE Len(u) = 1
  <2>1. IsPrefix(u, Open) <=> u = <<"<">>
    BY <1>1, <1>3, OpenIs DEF IsPrefix
  <2>2. ASSUME u[1] = "<" PROVE u = <<"<">>
    <3>1. \A i \in 1 .. Len(u) : u[i] = <<"<">>[i]
      BY <1>3, <2>2, OpenIs
    <3>2. QED  BY <1>3, <3>1, OpenIs, SameText
  <2>3. u # Open
    BY <1>3, OpenIs
  <2>4. QED  BY <1>3, <2>1, <2>2, <2>3, OpenIs
<1>4. CASE Len(u) = 2
  <2>1. SubSeq(Open, 1, 2) = Open
    BY OpenIs, SubSeqFull DEF Text
  <2>2. IsPrefix(u, Open) => u = Open
    BY <1>1, <1>4, <2>1 DEF IsPrefix
  <2>3. QED  BY <1>4, <2>2
<1>5. CASE Len(u) > 2
  <2>1. ~IsPrefix(u, Open)
    BY <1>5, <1>0, OpenIs DEF IsPrefix
  <2>2. ~(Len(u) = 0 \/ Len(u) = 1)
    <3>1. \A n \in Nat : n > 2 => ~(n = 0 \/ n = 1)
      OBVIOUS
    <3>2. QED  BY <1>0, <1>5, <3>1, Zenon
  <2>3. QED  BY <2>1, <2>2
<1>6. Len(u) = 0 \/ Len(u) = 1 \/ Len(u) = 2 \/ Len(u) > 2
  <2>1. \A n \in Nat : n = 0 \/ n = 1 \/ n = 2 \/ n > 2
    OBVIOUS
  <2>2. QED  BY <1>0, <2>1, Zenon
<1>7. QED  BY <1>2, <1>3, <1>4, <1>5, <1>6

\* the same of what has arrived of t
LEMMA StrippedBlank ==
  ASSUME NEW t \in Text, NEW m \in 0 .. Len(t), \A i \in 1 .. m : t[i] = Space
  PROVE  Stripped(SubSeq(t, 1, m)) = <<>>
<1> DEFINE u == SubSeq(t, 1, m)
<1>1. u \in Text /\ Len(u) = m /\ \A i \in 1 .. m : u[i] = t[i]
  <2>1. /\ m \in Nat /\ m <= Len(t) /\ 1 \in Nat \ {0} /\ 1 <= m + 1 /\ m - 1 + 1 = m
        /\ \A i \in 1 .. m : 1 + i - 1 = i
    BY DEF Text
  <2>2. QED  BY <2>1, Part
<1> HIDE DEF u
<1>2. \A i \in 1 .. Len(u) : u[i] = Space
  BY <1>1
<1>3. Stripped(u) = <<>>
  BY <1>1, <1>2, StrippedIs
<1>4. QED  BY <1>3 DEF u

LEMMA StrippedFrom ==
  ASSUME NEW t \in Text, NEW m \in 1 .. Len(t), NEW f \in 1 .. m,
         t[f] # Space, \A i \in 1 .. f - 1 : t[i] = Space
  PROVE  Stripped(SubSeq(t, 1, m)) = SubSeq(t, f, m)
<1> DEFINE u == SubSeq(t, 1, m)
<1>0. Len(t) \in Nat
  BY DEF Text
<1>1. u \in Text /\ Len(u) = m /\ \A i \in 1 .. m : u[i] = t[i]
  <2>1. /\ m \in Nat /\ m <= Len(t) /\ 1 \in Nat \ {0} /\ 1 <= m + 1 /\ m - 1 + 1 = m
        /\ \A i \in 1 .. m : 1 + i - 1 = i
    BY <1>0
  <2>2. QED  BY <2>1, Part
<1>2. SubSeq(u, f, m) = SubSeq(t, f, m)
  <2>1. /\ m \in Nat /\ m <= Len(t) /\ f \in Nat \ {0} /\ f <= m + 1 /\ 1 \in Nat \ {0} /\ 1 <= m + 1
        /\ m <= m - 1 + 1 /\ 1 + f - 1 = f /\ 1 + m - 1 = m
    BY <1>0
  <2>2. QED  BY <2>1, PartOfPart
<1> HIDE DEF u
<1>3. u[f] # Space /\ \A i \in 1 .. f - 1 : u[i] = Space
  BY <1>1
<1>4. PICK g \in 1 .. Len(u) : /\ u[g] # Space
                               /\ \A i \in 1 .. g - 1 : u[i] = Space
                               /\ Stripped(u) = SubSeq(u, g, Len(u))
  <2>1. f \in 1 .. Len(u)
    BY <1>1
  <2>2. QED  BY <1>1, <1>3, <2>1, StrippedIs
<1>5. g = f
  <2>1. g \in 1 .. m /\ f \in 1 .. m
    BY <1>1
  <2>2. ~(g < f)
    BY <1>3, <1>4, <2>1
  <2>3. ~(f < g)
    BY <1>3, <1>4, <2>1
  <2>4. QED  BY <2>1, <2>2, <2>3
<1>6. QED  BY <1>1, <1>2, <1>4, <1>5 DEF u

LEMMA FirstInk ==
  ASSUME NEW t \in Text, NEW m \in 0 .. Len(t)
  PROVE  \/ \A i \in 1 .. m : t[i] = Space
         \/ \E f \in 1 .. m : t[f] # Space /\ \A i \in 1 .. f - 1 : t[i] = Space
<1> DEFINE I == {i \in 1 .. m : t[i] # Space}
<1>0. m \in Nat
  BY DEF Text
<1>1. CASE I = {}
  BY <1>1
<1>2. CASE I # {}
  <2>1. I \in SUBSET Nat
    BY <1>0
  <2>2. PICK f \in I : \A j \in I : f <= j
    BY <1>2, <2>1, Least
  <2>3. \A i \in 1 .. f - 1 : t[i] = Space
    <3> SUFFICES ASSUME NEW i \in 1 .. f - 1, t[i] # Space PROVE FALSE
      OBVIOUS
    <3>1. i \in 1 .. m /\ i < f
      BY <1>0
    <3>2. i \in I
      BY <3>1
    <3>3. QED  BY <2>2, <3>1, <3>2, <1>0
  <2>4. QED  BY <2>3
<1>3. QED  BY <1>1, <1>2

\* The tags begin with what is no space.
LEMMA InkOfTags == Space # "<"
  BY DEF Space

(***************************************************************************)
(* What the filter should show, by where the tags are.                     *)
(***************************************************************************)
LEMMA BodyOpened ==
  ASSUME NEW t \in Text, NEW p, NEW m \in p .. Len(t), Opened(t, p)
  PROVE  /\ Stripped(SubSeq(t, 1, m)) = SubSeq(t, p - 1, m)
         /\ IsPrefix(Open, Stripped(SubSeq(t, 1, m)))
         /\ SubSeq(Stripped(SubSeq(t, 1, m)), Len(Open) + 1, Len(Stripped(SubSeq(t, 1, m)))) = SubSeq(t, p + 1, m)
<1>0. Len(t) \in Nat /\ p \in 2 .. Len(t) /\ m \in 2 .. Len(t) /\ p <= m /\ p \in Int
  BY DEF Text, Opened
<1> DEFINE body == SubSeq(t, p - 1, m)
<1>1. Stripped(SubSeq(t, 1, m)) = body
  <2>1. m \in 1 .. Len(t) /\ p - 1 \in 1 .. m /\ (p - 1) - 1 = p - 2
    BY <1>0
  <2>2. t[p - 1] # Space /\ \A i \in 1 .. (p - 1) - 1 : t[i] = Space
    BY <2>1, InkOfTags DEF Opened
  <2>3. QED  BY <2>1, <2>2, StrippedFrom
<1>2. body \in Text /\ Len(body) = m - p + 2 /\ body[1] = t[p - 1] /\ body[2] = t[p]
  <2>1. /\ p - 1 \in Nat \ {0} /\ m \in Nat /\ p - 1 <= m + 1 /\ m <= Len(t) /\ m - (p - 1) + 1 = m - p + 2
        /\ 1 \in 1 .. m - p + 2 /\ 2 \in 1 .. m - p + 2 /\ (p - 1) + 1 - 1 = p - 1 /\ (p - 1) + 2 - 1 = p
    BY <1>0
  <2>2. body \in Text /\ Len(body) = m - p + 2 /\ \A i \in 1 .. m - p + 2 : body[i] = t[(p - 1) + i - 1]
    BY <2>1, Part
  <2>3. QED  BY <2>1, <2>2
<1>3. IsPrefix(Open, body)
  <2>1. Len(body) >= 2
    BY <1>0, <1>2
  <2>2. body[1] = "<" /\ body[2] = "o"
    BY <1>2 DEF Opened
  <2>3. QED  BY <1>2, <2>1, <2>2, BeginsWithOpen
<1>4. SubSeq(body, 3, m - p + 2) = SubSeq(t, p + 1, m)
  <2>1. ASSUME NEW a \in Nat, NEW d \in Nat, a = p - 1, d = m - p + 2
        PROVE  SubSeq(SubSeq(t, a, m), 3, d) = SubSeq(t, p + 1, m)
    <3>1. /\ a \in Nat \ {0} /\ m \in Nat /\ a <= m + 1 /\ m <= Len(t)
          /\ 3 \in Nat \ {0} /\ 3 <= d + 1 /\ d <= m - a + 1
          /\ a + 3 - 1 = p + 1 /\ a + d - 1 = m
      BY <1>0, <2>1
    <3>2. SubSeq(SubSeq(t, a, m), 3, d) = SubSeq(t, a + 3 - 1, a + d - 1)
      BY <3>1, PartOfPart
    <3>3. QED  BY <3>1, <3>2
  <2>2. p - 1 \in Nat /\ m - p + 2 \in Nat
    BY <1>0
  <2>3. QED  BY <2>1, <2>2
<1>5. Len(Open) + 1 = 3
  BY OpenIs
<1>6. QED  BY <1>1, <1>2, <1>3, <1>4, <1>5

LEMMA Counting == \A n \in Nat : n >= 2 => ~(n = 0 \/ n = 1)
  OBVIOUS

LEMMA StrippedText ==
  ASSUME NEW t \in Text
  PROVE  Stripped(t) \in Text
<1>1. CASE Stripped(t) = <<>>
  BY <1>1, OpenIs
<1>2. ASSUME NEW f \in 1 .. Len(t), Stripped(t) = SubSeq(t, f, Len(t))
      PROVE  Stripped(t) \in Text
  <2>1. f \in Nat \ {0} /\ Len(t) \in Nat /\ f <= Len(t) + 1 /\ Len(t) <= Len(t)
    BY DEF Text
  <2>2. QED  BY <1>2, <2>1, Part
<1>3. QED  BY <1>1, <1>2, StrippedIs

\* the answer begins after the first closing tag
LEMMA AnswerAfter ==
  ASSUME NEW t \in Text, NEW p, Opened(t, p),
         NEW e \in Nat, e >= p + 1, Ends(t, e), \A i \in p + 1 .. e - 1 : ~Ends(t, i)
  PROVE  Answer(t) = SubSeq(t, e + 3, Len(t))
<1>0. Len(t) \in Nat /\ p \in 2 .. Len(t) /\ p \in Int /\ Len(t) \in p .. Len(t)
  BY DEF Text, Opened
<1> DEFINE body == Stripped(t)
           rest == SubSeq(t, p + 1, Len(t))
<1>1. IsPrefix(Open, body) /\ SubSeq(body, Len(Open) + 1, Len(body)) = rest
  <2>1. SubSeq(t, 1, Len(t)) = t
    BY SubSeqFull DEF Text
  <2>2. QED  BY <1>0, <2>1, BodyOpened
<1>2. e \in 1 .. Len(t) - 2
  BY DEF Ends
<1>3. /\ p + 1 \in Nat \ {0} /\ Len(t) \in Nat /\ p + 1 <= Len(t) + 1 /\ Len(t) <= Len(t)
      /\ \A i \in Nat : (p + 1) + i - 1 = p + i
      /\ \A i \in Nat : i \in 1 .. Len(t) - (p + 1) - 1 <=> i \in 1 .. Len(t) - 2 - p
  BY <1>0
<1>4. \A i \in Nat : Ends(rest, i) <=> i \in 1 .. Len(t) - (p + 1) - 1 /\ Ends(t, (p + 1) + i - 1)
  BY <1>3, EndsOfPart
<1>5. rest \in Text /\ Len(rest) = Len(t) - (p + 1) + 1
  BY <1>3, Part
<1> HIDE DEF rest
<1>6. Ends(rest, e - p)
  <2>1. e - p \in Nat /\ e - p \in 1 .. Len(t) - (p + 1) - 1 /\ (p + 1) + (e - p) - 1 = e
    BY <1>0, <1>2
  <2>2. QED  BY <1>4, <2>1
<1>7. Find(Close, rest) = e - p
  <2>1. e - p \in Nat
    BY <1>0
  <2>2. /\ Find(Close, rest) \in Nat \ {0} /\ Ends(rest, Find(Close, rest))
        /\ Find(Close, rest) <= e - p
    BY <1>5, <1>6, <2>1, FindIsFirst
  <2>3. Ends(t, (p + 1) + Find(Close, rest) - 1)
    BY <1>4, <2>2
  <2>4. (p + 1) + Find(Close, rest) - 1 \notin p + 1 .. e - 1
    BY <2>3
  <2>5. QED  BY <1>0, <2>2, <2>4
<1>8. Answer(t) = After(Close, rest)
  <2>1. Find(Close, rest) # 0
    BY <1>0, <1>7
  <2>2. Answer(t) = CASE IsPrefix(Open, body)     -> IF Find(Close, rest) = 0 THEN <<>> ELSE After(Close, rest)
                     [] IsStrictPrefix(body, Open) -> <<>>
                     [] OTHER                      -> t
    BY <1>1 DEF Answer
  <2>3. ~IsStrictPrefix(body, Open)
    <3>1. body \in Text
      BY StrippedText
    <3>2. Len(body) >= 2
      BY <1>1, <3>1, BeginsWithOpen
    <3>3. Len(body) \in Nat
      BY <3>1 DEF Text
    <3>4. ~(Len(body) = 0 \/ Len(body) = 1)
      BY <3>2, <3>3, Counting, Zenon
    <3>5. QED  BY <3>1, <3>4, BeginsOpen DEF IsStrictPrefix
  <2>4. QED  BY <1>1, <2>1, <2>2, <2>3
<1>9. After(Close, rest) = SubSeq(t, e + 3, Len(t))
  <2>1. Len(Close) = 3
    BY DEF Close
  <2>2. After(Close, rest) = SubSeq(rest, (e - p) + 3, Len(t) - (p + 1) + 1)
    BY <1>5, <1>7, <2>1 DEF After
  <2>3. ASSUME NEW a \in Nat, NEW c \in Nat, NEW d \in Nat,
               a = p + 1, c = (e - p) + 3, d = Len(t) - (p + 1) + 1
        PROVE  SubSeq(SubSeq(t, a, Len(t)), c, d) = SubSeq(t, e + 3, Len(t))
    <3>1. /\ a \in Nat \ {0} /\ Len(t) \in Nat /\ a <= Len(t) + 1 /\ Len(t) <= Len(t)
          /\ c \in Nat \ {0} /\ c <= d + 1 /\ d <= Len(t) - a + 1
          /\ a + c - 1 = e + 3 /\ a + d - 1 = Len(t)
      BY <1>0, <1>2, <2>3
    <3>2. SubSeq(SubSeq(t, a, Len(t)), c, d) = SubSeq(t, a + c - 1, a + d - 1)
      BY <3>1, PartOfPart
    <3>3. QED  BY <3>1, <3>2
  <2>4. p + 1 \in Nat /\ (e - p) + 3 \in Nat /\ Len(t) - (p + 1) + 1 \in Nat
    BY <1>0, <1>2
  <2>5. SubSeq(SubSeq(t, p + 1, Len(t)), (e - p) + 3, Len(t) - (p + 1) + 1) = SubSeq(t, e + 3, Len(t))
    BY <2>3, <2>4
  <2>6. QED  BY <2>2, <2>5 DEF rest
<1>10. QED  BY <1>8, <1>9

\* nothing is to be shown of a block that is never closed
LEMMA AnswerNever ==
  ASSUME NEW t \in Text, NEW p, Opened(t, p), \A i \in p + 1 .. Len(t) - 2 : ~Ends(t, i)
  PROVE  Answer(t) = <<>>
<1>0. Len(t) \in Nat /\ p \in 2 .. Len(t) /\ p \in Int /\ Len(t) \in p .. Len(t)
  BY DEF Text, Opened
<1> DEFINE body == Stripped(t)
           rest == SubSeq(t, p + 1, Len(t))
<1>1. IsPrefix(Open, body) /\ SubSeq(body, Len(Open) + 1, Len(body)) = rest
  <2>1. SubSeq(t, 1, Len(t)) = t
    BY SubSeqFull DEF Text
  <2>2. QED  BY <1>0, <2>1, BodyOpened
<1>3. /\ p + 1 \in Nat \ {0} /\ Len(t) \in Nat /\ p + 1 <= Len(t) + 1 /\ Len(t) <= Len(t)
  BY <1>0
<1>4. \A i \in Nat : Ends(rest, i) <=> i \in 1 .. Len(t) - (p + 1) - 1 /\ Ends(t, (p + 1) + i - 1)
  BY <1>3, EndsOfPart
<1>5. rest \in Text
  BY <1>3, Part
<1> HIDE DEF rest
<1>6. \A i \in Nat : ~Ends(rest, i)
  <2>1. \A i \in 1 .. Len(t) - (p + 1) - 1 : (p + 1) + i - 1 \in p + 1 .. Len(t) - 2
    BY <1>0
  <2>2. QED  BY <1>4, <2>1
<1>7. Find(Close, rest) = 0
  BY <1>5, <1>6, FindIsFirst
<1>8. body \in Text
  BY StrippedText
<1>9. ~IsStrictPrefix(body, Open)
  <2>1. Len(body) >= 2
    BY <1>1, <1>8, BeginsWithOpen
  <2>2. Len(body) \in Nat
    BY <1>8 DEF Text
  <2>3. ~(Len(body) = 0 \/ Len(body) = 1)
    BY <2>1, <2>2, Counting, Zenon
  <2>4. QED  BY <1>8, <2>3, BeginsOpen DEF IsStrictPrefix
<1>10. QED  BY <1>1, <1>7, <1>9 DEF Answer

LEMMA AnswerText ==
  ASSUME NEW t \in Text
  PROVE  Answer(t) \in Text
<1>0. Len(t) \in Nat
  BY DEF Text
<1> DEFINE body == Stripped(t)
           rest == SubSeq(body, Len(Open) + 1, Len(body))
<1>1. body \in Text
  BY StrippedText
<1>2. Answer(t) = CASE IsPrefix(Open, body)     -> IF Find(Close, rest) = 0 THEN <<>> ELSE After(Close, rest)
                    [] IsStrictPrefix(body, Open) -> <<>>
                    [] OTHER                      -> t
  BY DEF Answer
<1>3. ASSUME IsPrefix(Open, body), Find(Close, rest) # 0 PROVE After(Close, rest) \in Text
  <2>1. rest \in Text
    <3>1. Len(body) >= 2 /\ Len(body) \in Nat /\ Len(Open) = 2
      BY <1>1, <1>3, BeginsWithOpen, OpenIs DEF Text
    <3>2. \A n \in Nat : n >= 2 => 2 + 1 \in Nat \ {0} /\ 2 + 1 <= n + 1 /\ n <= n
      OBVIOUS
    <3>3. 2 + 1 \in Nat \ {0} /\ 2 + 1 <= Len(body) + 1 /\ Len(body) <= Len(body)
      BY <3>1, <3>2, Zenon
    <3>4. SubSeq(body, 2 + 1, Len(body)) \in Text
      BY <1>1, <3>1, <3>3, Part
    <3>5. QED  BY <3>1, <3>4
  <2> HIDE DEF rest
  <2>2. Find(Close, rest) \in Nat \ {0} /\ Ends(rest, Find(Close, rest)) /\ Len(rest) \in Nat
    BY <1>3, <2>1, FindIsFirst DEF Text
  <2>3. /\ Find(Close, rest) + 3 \in Nat \ {0} /\ Find(Close, rest) + 3 <= Len(rest) + 1 /\ Len(rest) <= Len(rest)
    BY <2>2 DEF Ends
  <2>4. After(Close, rest) = SubSeq(rest, Find(Close, rest) + 3, Len(rest))
    BY DEF After, Close
  <2>5. QED  BY <2>1, <2>2, <2>3, <2>4, Part
<1> HIDE DEF body, rest
<1>4. QED  BY <1>2, <1>3, OpenIs

(***************************************************************************)
(* One chunk.                                                              *)
(***************************************************************************)
\* s looks at t from lo to m, and no closing tag begins between p and lo
LEMMA ThinkStep ==
  ASSUME NEW t \in Text, NEW s \in Filters, s.out = <<>>,
         NEW p, Opened(t, p), NEW m \in p .. Len(t), NEW lo \in p + 1 .. m + 1,
         \A i \in p + 1 .. lo - 1 : ~Ends(t, i)
  PROVE  Shown(t, m, InThink(s, SubSeq(t, lo, m)))
<1>0. /\ Len(t) \in Nat /\ p \in 2 .. Len(t) /\ p \in Nat /\ m \in Nat /\ lo \in Nat \ {0}
      /\ p <= m /\ m <= Len(t) /\ lo <= m + 1 /\ p + 1 <= lo
  BY DEF Text, Opened
<1> DEFINE b == SubSeq(t, lo, m)
           z == InThink(s, b)
<1>1. b \in Text /\ Len(b) = m - lo + 1
  BY <1>0, Part
<1>2. \A i \in Nat : Ends(b, i) <=> i \in 1 .. m - lo - 1 /\ Ends(t, lo + i - 1)
  BY <1>0, EndsOfPart
<1>3. CASE Find(Close, b) = 0
  <2>1. \A i \in Nat : ~Ends(b, i)
    BY <1>1, <1>3, FindIsFirst
  <2>2. z = [s EXCEPT !.state = "in_think", !.buf = Tail2(b)]
    BY <1>3 DEF InThink
  <2> DEFINE next == IF Len(b) < 2 THEN lo ELSE m - 1
  <2>3. next \in p + 1 .. m + 1 /\ next \in Nat \ {0} /\ lo <= next
    BY <1>0, <1>1
  <2>4. Tail2(b) = SubSeq(t, next, m)
    <3>1. CASE Len(b) < 2
      <4>1. Tail2(b) = b
        BY <1>1, <3>1, SubSeqFull DEF Tail2, Text
      <4>2. QED  BY <3>1, <4>1
    <3>2. CASE ~(Len(b) < 2)
      <4>1. Tail2(b) = SubSeq(b, Len(b) - 1, Len(b))
        BY <3>2 DEF Tail2
      <4>2. ASSUME NEW c \in Nat, NEW d \in Nat, c = m - lo, d = m - lo + 1
            PROVE  SubSeq(SubSeq(t, lo, m), c, d) = SubSeq(t, m - 1, m)
        <5>1. /\ c \in Nat \ {0} /\ c <= d + 1 /\ d <= m - lo + 1
              /\ lo + c - 1 = m - 1 /\ lo + d - 1 = m
          BY <1>0, <1>1, <3>2, <4>2
        <5>2. SubSeq(SubSeq(t, lo, m), c, d) = SubSeq(t, lo + c - 1, lo + d - 1)
          BY <1>0, <5>1, PartOfPart
        <5>3. QED  BY <5>1, <5>2
      <4>3. m - lo \in Nat /\ m - lo + 1 \in Nat /\ Len(b) - 1 = m - lo
        BY <1>0, <1>1, <3>2
      <4>4. SubSeq(b, m - lo, m - lo + 1) = SubSeq(t, m - 1, m)
        BY <4>2, <4>3
      <4>5. QED  BY <1>1, <3>2, <4>1, <4>3, <4>4
    <3>3. QED  BY <3>1, <3>2
  <2>5. \A i \in p + 1 .. m - 2 : ~Ends(t, i)
    <3> SUFFICES ASSUME NEW i \in p + 1 .. m - 2, Ends(t, i) PROVE FALSE
      OBVIOUS
    <3>1. i >= lo
      BY <1>0
    <3>2. ASSUME NEW j \in Nat, j = i - lo + 1 PROVE FALSE
      <4>1. j \in 1 .. m - lo - 1 /\ lo + j - 1 = i
        BY <1>0, <3>1, <3>2
      <4>2. QED  BY <1>2, <2>1, <4>1
    <3>3. i - lo + 1 \in Nat
      BY <1>0, <3>1
    <3>4. QED  BY <3>2, <3>3
  <2>6. \A i \in p + 1 .. next - 1 : ~Ends(t, i)
    <3>1. CASE Len(b) < 2
      BY <3>1
    <3>2. CASE ~(Len(b) < 2)
      <4>1. \A i \in p + 1 .. next - 1 : i \in p + 1 .. m - 2
        BY <1>0, <3>2
      <4>2. QED  BY <2>5, <4>1
    <3>3. QED  BY <3>1, <3>2
  <2>7. SubSeq(t, next, m) \in Text
    <3>1. next <= m + 1
      BY <2>3
    <3>2. QED  BY <1>0, <2>3, <3>1, Part
  <2> HIDE DEF next
  <2>8. z \in Filters /\ z.state = "in_think" /\ z.out = <<>> /\ z.buf = SubSeq(t, next, m)
    BY <2>2, <2>4, <2>7 DEF Filters
  <2>9. p \in 2 .. m
    BY <1>0
  <2>10. Thinking(t, m, z)
    BY <2>3, <2>5, <2>6, <2>8, <2>9 DEF Thinking
  <2>11. QED  BY <2>8, <2>10 DEF Shown
<1>4. CASE Find(Close, b) # 0
  <2> DEFINE i == Find(Close, b)
  <2>1. i \in Nat \ {0} /\ Ends(b, i) /\ \A j \in Nat : Ends(b, j) => i <= j
    BY <1>1, <1>4, FindIsFirst
  <2>2. z = [state |-> "passthrough", buf |-> <<>>, out |-> <<>> \o After(Close, b)]
    BY <1>4 DEF InThink, Passing
  <2>3. After(Close, b) = SubSeq(b, i + 3, Len(b))
    BY DEF After, Close
  <2> HIDE DEF i
  <2>4. i \in 1 .. m - lo - 1 /\ Ends(t, lo + i - 1)
    BY <1>2, <2>1
  <2>5. PICK e \in Nat : e = lo + i - 1
    BY <1>0, <2>1
  <2>6. \A j \in p + 1 .. e - 1 : ~Ends(t, j)
    <3> SUFFICES ASSUME NEW j \in p + 1 .. e - 1, Ends(t, j) PROVE FALSE
      OBVIOUS
    <3>1. j >= lo
      BY <1>0
    <3>2. ASSUME NEW k \in Nat, k = j - lo + 1 PROVE FALSE
      <4>1. k \in 1 .. m - lo - 1 /\ lo + k - 1 = j /\ k < i
        BY <1>0, <2>4, <2>5, <3>1, <3>2
      <4>2. Ends(b, k)
        BY <1>2, <4>1
      <4>3. i <= k
        BY <2>1, <4>2
      <4>4. QED  BY <2>1, <3>2, <4>1, <4>3
    <3>3. j - lo + 1 \in Nat
      BY <1>0, <3>1
    <3>4. QED  BY <3>2, <3>3
  <2>7. Answer(t) = SubSeq(t, e + 3, Len(t))
    <3>1. e >= p + 1 /\ Ends(t, e)
      BY <1>0, <2>1, <2>4, <2>5
    <3>2. QED  BY <2>6, <3>1, AnswerAfter
  <2>8. After(Close, b) = SubSeq(t, e + 3, m)
    <3>1. ASSUME NEW c \in Nat, NEW d \in Nat, c = i + 3, d = m - lo + 1
          PROVE  SubSeq(SubSeq(t, lo, m), c, d) = SubSeq(t, e + 3, m)
      <4>1. /\ c \in Nat \ {0} /\ c <= d + 1 /\ d <= m - lo + 1
            /\ lo + c - 1 = e + 3 /\ lo + d - 1 = m
        BY <1>0, <2>4, <2>5, <3>1
      <4>2. SubSeq(SubSeq(t, lo, m), c, d) = SubSeq(t, lo + c - 1, lo + d - 1)
        BY <1>0, <4>1, PartOfPart
      <4>3. QED  BY <4>1, <4>2
    <3>2. i + 3 \in Nat /\ m - lo + 1 \in Nat
      BY <1>0, <2>1
    <3>3. QED  BY <1>1, <2>3, <3>1, <3>2
  <2>9. e + 2 \in 0 .. m /\ (e + 2) + 1 = e + 3 /\ e + 3 \in Nat \ {0} /\ e + 3 <= m + 1
    BY <1>0, <2>4, <2>5
  <2>10. SubSeq(t, e + 3, m) \in Text
    BY <1>0, <2>9, Part
  <2>11. <<>> \o SubSeq(t, e + 3, m) = SubSeq(t, e + 3, m)
    BY <2>10 DEF Text
  <2>12. z = [state |-> "passthrough", buf |-> <<>>, out |-> SubSeq(t, e + 3, m)]
    BY <2>2, <2>8, <2>11
  <2>13. z \in Filters /\ z.state = "passthrough" /\ z.out = SubSeq(t, (e + 2) + 1, m)
    BY <2>9, <2>10, <2>12, OpenIs DEF Filters
  <2>14. Answer(t) = SubSeq(t, (e + 2) + 1, Len(t))
    BY <2>7, <2>9
  <2>15. Answering(t, m, z)
    BY <2>9, <2>13, <2>14 DEF Answering
  <2>16. QED  BY <2>13, <2>15 DEF Shown
<1>5. QED  BY <1>3, <1>4

\* what begins otherwise is all to be shown
LEMMA AnswerWhole ==
  ASSUME NEW t \in Text, NEW f \in 1 .. Len(t),
         t[f] # Space, \A i \in 1 .. f - 1 : t[i] = Space,
         t[f] # "<" \/ (f + 1 <= Len(t) /\ t[f + 1] # "o")
  PROVE  Answer(t) = t
<1>0. Len(t) \in Nat /\ Len(t) \in 1 .. Len(t) /\ f \in Nat \ {0} /\ f <= Len(t)
  BY DEF Text
<1> DEFINE body == Stripped(t)
<1>1. body = SubSeq(t, f, Len(t))
  <2>1. SubSeq(t, 1, Len(t)) = t
    BY SubSeqFull DEF Text
  <2>2. f \in 1 .. Len(t)
    OBVIOUS
  <2>3. Stripped(SubSeq(t, 1, Len(t))) = SubSeq(t, f, Len(t))
    BY <1>0, <2>2, StrippedFrom
  <2>4. QED  BY <2>1, <2>3
<1>2. /\ body \in Text /\ Len(body) = Len(t) - f + 1
      /\ \A i \in 1 .. Len(t) - f + 1 : body[i] = t[f + i - 1]
  <2>1. f <= Len(t) + 1 /\ Len(t) <= Len(t)
    BY <1>0
  <2>2. QED  BY <1>0, <1>1, <2>1, Part
<1> HIDE DEF body
<1>3. body[1] = t[f] /\ (f + 1 <= Len(t) => body[2] = t[f + 1] /\ Len(body) >= 2) /\ Len(body) # 0
  <2>1. 1 \in 1 .. Len(t) - f + 1 /\ f + 1 - 1 = f /\ f + 2 - 1 = f + 1
    BY <1>0
  <2>2. f + 1 <= Len(t) => 2 \in 1 .. Len(t) - f + 1
    BY <1>0
  <2>3. QED  BY <1>0, <1>2, <2>1, <2>2
<1>4. ~IsPrefix(Open, body)
  BY <1>2, <1>3, BeginsWithOpen
<1>5. ~(IsPrefix(body, Open) /\ body # Open)
  <2>1. ~(Len(body) = 1 /\ body[1] = "<")
    <3>1. CASE t[f] # "<"
      BY <1>3, <3>1
    <3>2. CASE f + 1 <= Len(t)
      <4>1. Len(body) \in Nat /\ Len(body) >= 2
        BY <1>2, <1>3, <3>2 DEF Text
      <4>2. QED  BY <4>1, Counting, Zenon
    <3>3. QED  BY <3>1, <3>2
  <2>2. QED  BY <1>2, <1>3, <2>1, BeginsOpen
<1>6. QED  BY <1>4, <1>5 DEF Answer, IsStrictPrefix, body

\* the first chunks, until it is known whether they begin a block
LEMMA ProbeStep ==
  ASSUME NEW t \in Text, NEW s \in Filters, s.state = "probe", s.out = <<>>, NEW m \in 0 .. Len(t)
  PROVE  Shown(t, m, Probe(s, SubSeq(t, 1, m)))
<1>0. /\ Len(t) \in Nat /\ m \in Nat /\ m <= Len(t) /\ 1 \in Nat \ {0} /\ 1 <= m + 1 /\ m - 1 + 1 = m
  BY DEF Text
<1> DEFINE buf   == SubSeq(t, 1, m)
           probe == Stripped(buf)
           z     == Probe(s, buf)
<1>1. buf \in Text
  BY <1>0, Part
<1>2. probe \in Text
  BY <1>1, StrippedText
<1>3. z = CASE IsPrefix(Open, probe) -> InThink(s, SubSeq(probe, Len(Open) + 1, Len(probe)))
            [] IsPrefix(probe, Open) /\ probe # Open -> [s EXCEPT !.buf = buf]
            [] OTHER -> Passing(s, buf)
  BY DEF Probe
<1> HIDE DEF probe, z
\* no decision yet
<1>4. ASSUME Len(probe) = 0 \/ (Len(probe) = 1 /\ probe[1] = "<"),
             \/ \A i \in 1 .. m : t[i] = Space
             \/ m >= 1 /\ t[m] = "<" /\ \A i \in 1 .. m - 1 : t[i] = Space
      PROVE  Shown(t, m, z)
  <2>1. IsPrefix(probe, Open) /\ probe # Open
    BY <1>2, <1>4, BeginsOpen
  <2>2. ~IsPrefix(Open, probe)
    <3>1. ~(Len(probe) >= 2)
      <4>1. Len(probe) \in Nat
        BY <1>2 DEF Text
      <4>2. QED  BY <1>4, <4>1, Counting, Zenon
    <3>2. QED  BY <1>2, <3>1, BeginsWithOpen
  <2>3. z = [s EXCEPT !.buf = buf]
    BY <1>3, <2>1, <2>2
  <2>4. z \in Filters /\ z.state = "probe" /\ z.out = <<>> /\ z.buf = buf
    BY <1>1, <2>3 DEF Filters
  <2>5. Probing(t, m, z)
    BY <1>4, <2>4 DEF Probing
  <2>6. QED  BY <2>4, <2>5 DEF Shown
<1>5. ASSUME \A i \in 1 .. m : t[i] = Space
      PROVE  Shown(t, m, z)
  <2>1. probe = <<>>
    BY <1>5, StrippedBlank DEF probe
  <2>2. Len(probe) = 0
    BY <2>1
  <2>3. QED  BY <1>4, <1>5, <2>2
<1>6. ASSUME NEW f \in 1 .. m, t[f] # Space, \A i \in 1 .. f - 1 : t[i] = Space
      PROVE  Shown(t, m, z)
  <2>0. f \in Nat \ {0} /\ f <= m /\ m \in 1 .. Len(t) /\ f \in 1 .. Len(t) /\ f <= m + 1
    BY <1>0
  <2>1. probe = SubSeq(t, f, m)
    BY <1>6, <2>0, StrippedFrom DEF probe
  <2>2. Len(probe) = m - f + 1 /\ \A i \in 1 .. m - f + 1 : probe[i] = t[f + i - 1]
    BY <1>0, <2>0, <2>1, Part
  <2>3. probe[1] = t[f] /\ (f + 1 <= m => probe[2] = t[f + 1])
    <3>1. 1 \in 1 .. m - f + 1 /\ f + 1 - 1 = f /\ f + 2 - 1 = f + 1
      BY <2>0
    <3>2. f + 1 <= m => 2 \in 1 .. m - f + 1
      BY <1>0, <2>0
    <3>3. QED  BY <2>2, <3>1, <3>2
  <2>4. CASE f + 1 <= m /\ t[f] = "<" /\ t[f + 1] = "o"
    <3>1. PICK p \in Nat : p = f + 1
      OBVIOUS
    <3>2. Opened(t, p) /\ m \in p .. Len(t)
      <4>1. p \in 2 .. Len(t) /\ p - 1 = f /\ p - 2 = f - 1 /\ m \in p .. Len(t)
        BY <1>0, <2>0, <2>4, <3>1
      <4>2. QED  BY <1>6, <2>4, <3>1, <4>1 DEF Opened
    <3>3. /\ IsPrefix(Open, probe)
          /\ SubSeq(probe, Len(Open) + 1, Len(probe)) = SubSeq(t, p + 1, m)
      BY <3>2, BodyOpened DEF probe
    <3>4. z = InThink(s, SubSeq(t, p + 1, m))
      <4>1. Len(probe) \in Nat /\ Len(probe) >= 2
        BY <1>2, <3>3, BeginsWithOpen DEF Text
      <4>2. ~(Len(probe) = 0 \/ Len(probe) = 1)
        BY <4>1, Counting, Zenon
      <4>3. ~(IsPrefix(probe, Open) /\ probe # Open)
        BY <1>2, <4>2, BeginsOpen
      <4>4. QED  BY <1>3, <3>3, <4>3
    <3>5. p + 1 \in p + 1 .. m + 1 /\ \A i \in p + 1 .. (p + 1) - 1 : ~Ends(t, i)
      BY <1>0, <3>1, <3>2
    <3>6. Shown(t, m, InThink(s, SubSeq(t, p + 1, m)))
      BY <3>2, <3>5, ThinkStep
    <3>7. QED  BY <3>4, <3>6
  <2>5. CASE ~(f + 1 <= m) /\ t[f] = "<"
    <3>1. f = m
      BY <1>0, <2>0, <2>5
    <3>2. Len(probe) = 1 /\ probe[1] = "<"
      BY <2>2, <2>3, <2>5, <3>1, <1>0
    <3>3. m >= 1 /\ t[m] = "<" /\ \A i \in 1 .. m - 1 : t[i] = Space
      BY <1>6, <2>0, <2>5, <3>1
    <3>4. QED  BY <1>4, <3>2, <3>3
  <2>6. CASE t[f] # "<" \/ (f + 1 <= m /\ t[f + 1] # "o")
    <3>1. ~IsPrefix(Open, probe)
      <4>1. ~(probe[1] = "<" /\ probe[2] = "o")
        BY <2>3, <2>6
      <4>2. QED  BY <1>2, <4>1, BeginsWithOpen
    <3>2. ~(IsPrefix(probe, Open) /\ probe # Open)
      <4>1. Len(probe) # 0
        BY <1>0, <2>0, <2>2
      <4>2. ~(Len(probe) = 1 /\ probe[1] = "<")
        BY <1>0, <2>0, <2>2, <2>3, <2>6
      <4>3. QED  BY <1>2, <4>1, <4>2, BeginsOpen
    <3>3. z = [state |-> "passthrough", buf |-> <<>>, out |-> <<>> \o buf]
      BY <1>3, <3>1, <3>2 DEF Passing
    <3>4. <<>> \o buf = SubSeq(t, 0 + 1, m)
      BY <1>1 DEF Text
    <3>5. z \in Filters /\ z.state = "passthrough" /\ z.out = SubSeq(t, 0 + 1, m)
      BY <1>1, <3>3, <3>4, OpenIs DEF Filters
    <3>6. Answer(t) = SubSeq(t, 0 + 1, Len(t))
      <4>1. f + 1 <= m => f + 1 <= Len(t)
        BY <1>0, <2>0
      <4>2. Answer(t) = t
        BY <1>6, <2>0, <2>6, <4>1, AnswerWhole
      <4>3. SubSeq(t, 1, Len(t)) = t
        BY SubSeqFull DEF Text
      <4>4. QED  BY <4>2, <4>3
    <3>7. 0 \in 0 .. m
      BY <1>0
    <3>8. Answering(t, m, z)
      BY <3>5, <3>6, <3>7 DEF Answering
    <3>9. QED  BY <3>5, <3>8 DEF Shown
  <2>7. QED  BY <2>4, <2>5, <2>6
<1>7. Shown(t, m, z)
  <2>1. \/ \A i \in 1 .. m : t[i] = Space
        \/ \E f \in 1 .. m : t[f] # Space /\ \A i \in 1 .. f - 1 : t[i] = Space
    BY FirstInk
  <2>2. CASE \A i \in 1 .. m : t[i] = Space
    BY <1>5, <2>2
  <2>3. CASE \E f \in 1 .. m : t[f] # Space /\ \A i \in 1 .. f - 1 : t[i] = Space
    <3>1. PICK f \in 1 .. m : t[f] # Space /\ \A i \in 1 .. f - 1 : t[i] = Space
      BY <2>3
    <3>2. QED  BY <1>6, <3>1
  <2>4. QED  BY <2>1, <2>2, <2>3
<1>8. QED  BY <1>7 DEF z

\* any chunk
LEMMA FeedStep ==
  ASSUME NEW t \in Text, NEW m \in 0 .. Len(t), NEW n \in 1 .. Len(t) - m, NEW s, Shown(t, m, s)
  PROVE  Shown(t, m + n, Feed(s, SubSeq(t, m + 1, m + n)))
<1>0. /\ Len(t) \in Nat /\ m \in Nat /\ m + n \in Nat /\ m + n <= Len(t) /\ m <= Len(t) /\ m <= m + n
      /\ m + 1 \in Nat \ {0} /\ m + 1 <= (m + n) + 1 /\ (m + n) - (m + 1) + 1 = n /\ m + n \in 0 .. Len(t)
  BY DEF Text
<1> DEFINE text == SubSeq(t, m + 1, m + n)
<1>1. text \in Text /\ Len(text) = n
  BY <1>0, Part
<1>2. text # <<>>
  BY <1>1
<1> HIDE DEF text
<1>3. ASSUME NEW lo \in 1 .. m + 1 PROVE SubSeq(t, lo, m) \o text = SubSeq(t, lo, m + n)
  BY <1>0, TwoParts DEF text
<1>4. s \in Filters
  BY DEF Shown
<1>5. CASE Probing(t, m, s)
  <2>1. s.state = "probe" /\ s.out = <<>> /\ s.buf \o text = SubSeq(t, 1, m + n)
    <3>1. 1 \in 1 .. m + 1
      BY <1>0
    <3>2. SubSeq(t, 1, m) \o text = SubSeq(t, 1, m + n)
      BY <1>3, <3>1
    <3>3. QED  BY <1>5, <3>2 DEF Probing
  <2>2. Feed(s, text) = Probe(s, SubSeq(t, 1, m + n))
    BY <1>2, <2>1 DEF Feed
  <2>3. QED  BY <1>0, <1>4, <2>1, <2>2, ProbeStep DEF text
<1>6. CASE Thinking(t, m, s)
  <2>0. PICK p \in 2 .. m : \E lo \in p + 1 .. m + 1 :
            /\ Opened(t, p)
            /\ s.buf = SubSeq(t, lo, m)
            /\ \A i \in p + 1 .. lo - 1 : ~Ends(t, i)
    BY <1>6 DEF Thinking
  <2>1. PICK lo \in p + 1 .. m + 1 :
            /\ Opened(t, p)
            /\ s.buf = SubSeq(t, lo, m)
            /\ \A i \in p + 1 .. lo - 1 : ~Ends(t, i)
    BY <2>0
  <2>2. s.state = "in_think" /\ s.out = <<>> /\ s.buf \o text = SubSeq(t, lo, m + n)
    <3>1. lo \in 1 .. m + 1
      BY <1>0
    <3>2. QED  BY <1>3, <1>6, <2>1, <3>1 DEF Thinking
  <2>3. Feed(s, text) = InThink(s, SubSeq(t, lo, m + n))
    BY <1>2, <2>2 DEF Feed
  <2>4. m + n \in p .. Len(t) /\ lo \in p + 1 .. (m + n) + 1
    BY <1>0
  <2>5. QED  BY <1>4, <2>1, <2>2, <2>3, <2>4, ThinkStep DEF text
<1>7. CASE Answering(t, m, s)
  <2>1. PICK q \in 0 .. m : Answer(t) = SubSeq(t, q + 1, Len(t)) /\ s.out = SubSeq(t, q + 1, m)
    BY <1>7 DEF Answering
  <2>2. s.state = "passthrough" /\ s.out \o text = SubSeq(t, q + 1, m + n)
    <3>1. q + 1 \in 1 .. m + 1
      BY <1>0
    <3>2. QED  BY <1>3, <1>7, <2>1, <3>1 DEF Answering
  <2>3. Feed(s, text) = [state |-> "passthrough", buf |-> <<>>, out |-> SubSeq(t, q + 1, m + n)]
    BY <1>2, <2>2 DEF Feed, Passing
  <2>4. SubSeq(t, q + 1, m + n) \in Text
    <3>1. q + 1 \in Nat \ {0} /\ q + 1 <= (m + n) + 1
      BY <1>0
    <3>2. QED  BY <1>0, <3>1, Part
  <2> DEFINE z == Feed(s, text)
  <2>5. z \in Filters /\ z.state = "passthrough" /\ z.out = SubSeq(t, q + 1, m + n)
    BY <2>3, <2>4, OpenIs DEF Filters
  <2>6. q \in 0 .. m + n
    BY <1>0
  <2> HIDE DEF z
  <2>7. Answering(t, m + n, z)
    BY <2>1, <2>5, <2>6 DEF Answering
  <2>8. QED  BY <2>5, <2>7 DEF Shown, z, text
<1>8. QED  BY <1>5, <1>6, <1>7 DEF Shown

LEMMA ListeningShown == ASSUME NEW t \in Text PROVE Shown(t, 0, Listening)
<1>1. SubSeq(t, 1, 0) = <<>>
  BY SubSeqEmpty
<1>2. Listening \in Filters
  BY OpenIs DEF Listening, Filters
<1>3. QED  BY <1>1, <1>2 DEF Shown, Probing, Listening

\* what is known at any time is enough
LEMMA ShownIsBeginning ==
  ASSUME NEW t \in Text, NEW m \in 0 .. Len(t), NEW s, Shown(t, m, s)
  PROVE  IsPrefix(s.out, Answer(t)) /\ (m = Len(t) => s.out = Answer(t))
<1>0. Len(t) \in Nat /\ m \in Nat /\ m <= Len(t)
  BY DEF Text
<1>1. CASE Answering(t, m, s)
  <2>1. PICK q \in 0 .. m : Answer(t) = SubSeq(t, q + 1, Len(t)) /\ s.out = SubSeq(t, q + 1, m)
    BY <1>1 DEF Answering
  <2> DEFINE a == SubSeq(t, q + 1, Len(t))
             o == SubSeq(t, q + 1, m)
  <2>2. /\ q + 1 \in Nat \ {0} /\ q + 1 <= m + 1 /\ q + 1 <= Len(t) + 1 /\ Len(t) <= Len(t)
        /\ m - (q + 1) + 1 = m - q /\ Len(t) - (q + 1) + 1 = Len(t) - q /\ m - q \in Nat /\ Len(t) - q \in Nat
    BY <1>0
  <2>3. a \in Text /\ Len(a) = Len(t) - q
    BY <1>0, <2>2, Part
  <2>4. o \in Text /\ Len(o) = m - q
    BY <1>0, <2>2, Part
  <2>5. SubSeq(a, 1, m - q) = o
    <3>1. ASSUME NEW d \in Nat, NEW k \in Nat \ {0}, d = m - q, k = q + 1
          PROVE  SubSeq(SubSeq(t, k, Len(t)), 1, d) = SubSeq(t, k, m)
      <4>1. /\ 1 \in Nat \ {0} /\ 1 <= d + 1 /\ d <= Len(t) - k + 1 /\ k + 1 - 1 = k /\ k + d - 1 = m
            /\ k <= Len(t) + 1 /\ Len(t) <= Len(t)
        BY <1>0, <3>1
      <4>2. SubSeq(SubSeq(t, k, Len(t)), 1, d) = SubSeq(t, k + 1 - 1, k + d - 1)
        BY <1>0, <4>1, PartOfPart
      <4>3. QED  BY <4>1, <4>2
    <3>2. QED  BY <2>2, <3>1
  <2>6. SubSeq(o, 1, Len(o)) = o
    BY <2>4, SubSeqFull DEF Text
  <2> HIDE DEF a, o
  <2>7. Len(o) <= Len(a)
    BY <1>0, <2>3, <2>4
  <2>8. IsPrefix(o, a)
    BY <2>4, <2>5, <2>6, <2>7 DEF IsPrefix
  <2>9. QED  BY <2>1, <2>8 DEF a, o
<1>2. CASE s.out = <<>> /\ (m = Len(t) => Answer(t) = <<>>) /\ Len(Answer(t)) \in Nat
  <2>1. IsPrefix(<<>>, Answer(t))
    <3>1. SubSeq(<<>>, 1, 0) = <<>> /\ SubSeq(Answer(t), 1, 0) = <<>>
      BY SubSeqEmpty
    <3>2. QED  BY <1>2, <3>1, OpenIs DEF IsPrefix
  <2>2. QED  BY <1>2, <2>1
<1>3. Len(Answer(t)) \in Nat
  BY AnswerText DEF Text
<1>4. CASE Probing(t, m, s)
  <2>1. ASSUME m = Len(t) PROVE Answer(t) = <<>>
    <3>1. SubSeq(t, 1, m) = t
      BY <2>1, SubSeqFull DEF Text
    <3>2. Stripped(t) \in Text /\ (Len(Stripped(t)) = 0 \/ (Len(Stripped(t)) = 1 /\ Stripped(t)[1] = "<"))
      <4>1. CASE \A i \in 1 .. m : t[i] = Space
        BY <3>1, <4>1, StrippedBlank, OpenIs
      <4>2. CASE m >= 1 /\ t[m] = "<" /\ \A i \in 1 .. m - 1 : t[i] = Space
        <5>1. m \in 1 .. Len(t) /\ m \in 1 .. m
          BY <1>0, <4>2
        <5>2. Stripped(SubSeq(t, 1, m)) = SubSeq(t, m, m)
          BY <4>2, <5>1, InkOfTags, StrippedFrom
        <5>3. m \in Nat \ {0} /\ m <= m + 1 /\ m - m + 1 = 1 /\ m + 1 - 1 = m /\ 1 \in 1 .. 1
          BY <1>0, <5>1
        <5>4. SubSeq(t, m, m) \in Text /\ Len(SubSeq(t, m, m)) = 1
              /\ \A i \in 1 .. 1 : SubSeq(t, m, m)[i] = t[m + i - 1]
          BY <1>0, <5>3, Part
        <5>5. SubSeq(t, m, m)[1] = "<"
          BY <4>2, <5>3, <5>4
        <5>6. QED  BY <3>1, <5>2, <5>4, <5>5
      <4>3. QED  BY <1>4, <4>1, <4>2 DEF Probing
    <3>3. IsStrictPrefix(Stripped(t), Open)
      BY <3>2, BeginsOpen DEF IsStrictPrefix
    <3>4. ~IsPrefix(Open, Stripped(t))
      <4>1. Len(Stripped(t)) \in Nat
        BY <3>2 DEF Text
      <4>2. ~(Len(Stripped(t)) >= 2)
        BY <3>2, <4>1, Counting, Zenon
      <4>3. QED  BY <3>2, <4>2, BeginsWithOpen
    <3>5. QED  BY <3>3, <3>4 DEF Answer
  <2>2. QED  BY <1>2, <1>3, <1>4, <2>1 DEF Probing
<1>5. CASE Thinking(t, m, s)
  <2>1. ASSUME m = Len(t) PROVE Answer(t) = <<>>
    <3>1. PICK p \in 2 .. m : Opened(t, p) /\ \A i \in p + 1 .. m - 2 : ~Ends(t, i)
      BY <1>5 DEF Thinking
    <3>2. QED  BY <2>1, <3>1, AnswerNever
  <2>2. QED  BY <1>2, <1>3, <1>5, <2>1 DEF Thinking
<1>6. QED  BY <1>1, <1>4, <1>5 DEF Shown

(***************************************************************************)
(* Over time.                                                              *)
(***************************************************************************)
Stream(x) ==
    \E t \in Text : \E m \in 0 .. Len(t), s \in Filters :
       x = [kind |-> "stream", text |-> t, at |-> m, s |-> s] /\ Shown(t, m, s)

StreamInv == LimitsInv /\ (sample.kind = "stream" => Stream(sample))

LEMMA TextsAreText == Texts \subseteq Text
  BY TextsAssumption DEF Text, Chars

LEMMA StartOfStream ==
  ASSUME StartStream
  PROVE  Stream(sample')
<1>1. PICK t \in Texts : sample' = [kind |-> "stream", text |-> t, at |-> 0, s |-> Listening]
  BY DEF StartStream
<1>2. t \in Text /\ Len(t) \in Nat
  BY TextsAreText DEF Text
<1>3. Shown(t, 0, Listening) /\ 0 \in 0 .. Len(t)
  BY <1>2, ListeningShown
<1>4. Listening \in Filters
  BY <1>3 DEF Shown
<1>5. QED  BY <1>1, <1>2, <1>3, <1>4 DEF Stream

LEMMA ChunkOfStream ==
  ASSUME StreamInv, NextChunk
  PROVE  Stream(sample')
<1>1. sample.kind = "stream"
  BY DEF NextChunk
<1>2. PICK t \in Text : \E m \in 0 .. Len(t), s \in Filters :
          sample = [kind |-> "stream", text |-> t, at |-> m, s |-> s] /\ Shown(t, m, s)
  BY <1>1 DEF StreamInv, Stream
<1>3. PICK m \in 0 .. Len(t), s \in Filters :
          sample = [kind |-> "stream", text |-> t, at |-> m, s |-> s] /\ Shown(t, m, s)
  BY <1>2
<1>4. sample.text = t /\ sample.at = m /\ sample.s = s
  BY <1>3
<1>5. PICK n \in 1 .. Len(t) - m :
          sample' = [sample EXCEPT !.at = @ + n,
                                   !.s = Feed(@, SubSeq(sample.text, sample.at + 1, sample.at + n))]
  BY <1>4 DEF NextChunk
<1> DEFINE r == Feed(s, SubSeq(t, m + 1, m + n))
<1>6. Shown(t, m + n, r)
  BY <1>3, FeedStep
<1>7. r \in Filters
  BY <1>6 DEF Shown
<1>8. sample' = [kind |-> "stream", text |-> t, at |-> m + n, s |-> r]
  BY <1>3, <1>5
<1>9. m + n \in 0 .. Len(t)
  BY DEF Text
<1> HIDE DEF r
<1>10. QED  BY <1>6, <1>7, <1>8, <1>9 DEF Stream

LEMMA OtherCasesAreNoStream ==
  ASSUME Elsewhere, ~StartStream
  PROVE  sample'.kind # "stream"
<1>1. CASE Search           BY <1>1 DEF Search
<1>2. CASE MergeEntities    BY <1>2 DEF MergeEntities
<1>3. CASE MergeRelations   BY <1>3 DEF MergeRelations
<1>4. CASE FilterRelations  BY <1>4 DEF FilterRelations
<1>5. CASE TrimChunks       BY <1>5 DEF TrimChunks
<1>6. CASE RenderReports    BY <1>6 DEF RenderReports
<1>7. CASE MergeCommunities BY <1>7 DEF MergeCommunities
<1>8. CASE CompareGraphs    BY <1>8 DEF CompareGraphs
<1>9. CASE Resolve          BY <1>9 DEF Resolve
<1>10. CASE Rank            BY <1>10 DEF Rank
<1>11. CASE RankChunks      BY <1>11 DEF RankChunks
<1>12. CASE Compare         BY <1>12 DEF Compare
<1>13. CASE JudgeMultihop   BY <1>13 DEF JudgeMultihop
<1>14. CASE Evaluate        BY <1>14 DEF Evaluate
<1>15. CASE Observe         BY <1>15 DEF Observe
<1>16. QED
  BY <1>1, <1>2, <1>3, <1>4, <1>5, <1>6, <1>7, <1>8, <1>9, <1>10, <1>11,
     <1>12, <1>13, <1>14, <1>15 DEF Elsewhere

LEMMA StreamStep == StreamInv /\ [Next]_vars => StreamInv'
<1> SUFFICES ASSUME StreamInv, [Next]_vars PROVE StreamInv'
  OBVIOUS
<1>1. LimitsInv /\ LimitsInv'
  BY LimitsStep DEF StreamInv
<1>2. ASSUME sample'.kind # "stream" PROVE StreamInv'
  BY <1>1, <1>2 DEF StreamInv
<1>3. ASSUME Stream(sample') PROVE StreamInv'
  BY <1>1, <1>3 DEF StreamInv, Stream
<1>4. CASE StartStream
  BY <1>3, <1>4, StartOfStream
<1>5. CASE NextChunk
  BY <1>3, <1>5, ChunkOfStream
<1>6. CASE Elsewhere /\ ~StartStream
  BY <1>2, <1>6, OtherCasesAreNoStream
<1>7. CASE StartBucket \/ (Tick /\ sample.kind = "bucket") \/ AskBucket
  <2>1. Bucket(sample')
    BY <1>1, <1>7, BucketStepsKeepLimits
  <2>2. sample'.kind # "stream"
    BY <2>1 DEF Bucket
  <2>3. QED  BY <1>2, <2>2
<1>8. CASE StartWindow \/ (Tick /\ sample.kind = "window") \/ AskShared
  <2>1. WindowOf(sample')
    BY <1>1, <1>8, WindowStepsKeepLimits
  <2>2. sample'.kind # "stream"
    BY <2>1 DEF WindowOf
  <2>3. QED  BY <1>2, <2>2
<1>9. CASE StartCalls \/ Enter \/ Take \/ End \/ Again
  <2>1. Quota(sample')
    BY <1>1, <1>9, CallStepsKeepLimits
  <2>2. sample'.kind # "stream"
    BY <2>1 DEF Quota
  <2>3. QED  BY <1>2, <2>2
<1>10. CASE UNCHANGED vars
  BY <1>10 DEF vars, StreamInv, LimitsInv
<1>11. Tick => sample.kind = "bucket" \/ sample.kind = "window"
  BY DEF Tick
<1>12. QED
  BY <1>4, <1>5, <1>6, <1>7, <1>8, <1>9, <1>10, <1>11 DEF Next, Elsewhere

(***************************************************************************)
(* strip_think_stream: however an answer is cut into chunks, and whatever  *)
(* it is, a reader sees a beginning of what follows the block of thoughts  *)
(* (or of all of it, if there is no such block) at all times, and the      *)
(* whole of it at the end.                                                 *)
(***************************************************************************)
THEOREM StreamIsShown == Spec => []StreamShowsAnswer
<1>1. Init => StreamInv
  BY LimitsStart DEF Init, StreamInv
<1>2. StreamInv => StreamShowsAnswer
  <2> SUFFICES ASSUME StreamInv, sample.kind = "stream"
               PROVE  /\ IsPrefix(sample.s.out, Answer(sample.text))
                      /\ sample.at = Len(sample.text) => sample.s.out = Answer(sample.text)
    BY DEF StreamShowsAnswer
  <2>1. PICK t \in Text : \E m \in 0 .. Len(t), s \in Filters :
            sample = [kind |-> "stream", text |-> t, at |-> m, s |-> s] /\ Shown(t, m, s)
    BY DEF StreamInv, Stream
  <2>2. PICK m \in 0 .. Len(t), s \in Filters :
            sample = [kind |-> "stream", text |-> t, at |-> m, s |-> s] /\ Shown(t, m, s)
    BY <2>1
  <2>3. sample.text = t /\ sample.at = m /\ sample.s = s
    BY <2>2
  <2>4. IsPrefix(s.out, Answer(t)) /\ (m = Len(t) => s.out = Answer(t))
    BY <2>2, ShownIsBeginning
  <2>5. QED  BY <2>3, <2>4
<1>3. QED
  BY <1>1, <1>2, StreamStep, PTL DEF Spec

-----------------------------------------------------------------------------
(***************************************************************************)
(* The rates of the monitoring: quotients of numbers, in thousandths.      *)
(***************************************************************************)

\* rounding down: what a quotient of numbers is
LEMMA QuotientIs ==
  ASSUME NEW a \in Int, NEW b \in Nat \ {0}
  PROVE  /\ a \div b \in Int
         /\ b * (a \div b) <= a /\ a < b * (a \div b) + b
OBVIOUS

\* a product grows with its factor
LEMMA ProductGrows ==
  ASSUME NEW a \in Int, NEW b \in Int, NEW c \in Nat, a <= b
  PROVE  c * a <= c * b
OBVIOUS

\* which numbers a quotient reaches
LEMMA QuotientAtLeast ==
  ASSUME NEW a \in Int, NEW b \in Nat \ {0}, NEW q \in Int
  PROVE  q <= a \div b <=> b * q <= a
<1> DEFINE r == a \div b
<1>1. r \in Int /\ b * r <= a /\ a < b * r + b
  BY QuotientIs
<1> HIDE DEF r
<1>2. ASSUME q <= r PROVE b * q <= a
  <2>1. b * q <= b * r
    BY <1>1, <1>2, ProductGrows
  <2>2. b * q \in Int /\ b * r \in Int
    BY <1>1
  <2>3. QED
    BY <1>1, <2>1, <2>2
<1>3. ASSUME ~ (q <= r) PROVE ~ (b * q <= a)
  <2>1. r + 1 <= q
    BY <1>1, <1>3
  <2>2. b * (r + 1) <= b * q
    BY <1>1, <2>1, ProductGrows
  <2>3. b * (r + 1) = b * r + b
    BY <1>1
  <2>4. b * q \in Int /\ b * r \in Int
    BY <1>1
  <2>5. QED
    BY <1>1, <2>2, <2>3, <2>4
<1>4. QED
  BY <1>2, <1>3 DEF r

\* a part of a whole is a share of it, a larger part no smaller a share
LEMMA ShareIs ==
  ASSUME NEW part \in Int, NEW whole \in Nat \ {0}
  PROVE  /\ Share(part, whole) \in Int
         /\ part <= whole => Share(part, whole) <= 1000
         /\ part >= 0 => Share(part, whole) >= 0
         /\ Share(part, whole) >= 1000 <=> part >= whole
         /\ part = 0 => Share(part, whole) = 0
<1>1. Share(part, whole) = (part * 1000) \div whole
  BY DEF Share
<1>2. part * 1000 \in Int
  OBVIOUS
<1> DEFINE s == Share(part, whole)
<1>3. s \in Int /\ \A q \in Int : q <= s <=> whole * q <= part * 1000
  BY <1>1, <1>2, QuotientIs, QuotientAtLeast
<1> HIDE DEF s
<1>4. ASSUME part <= whole PROVE s <= 1000
  <2>1. 1001 <= s <=> whole * 1001 <= part * 1000
    BY <1>3
  <2>2. QED
    BY <1>3, <1>4, <2>1
<1>5. ASSUME part >= 0 PROVE s >= 0
  <2>1. 0 <= s <=> whole * 0 <= part * 1000
    BY <1>3
  <2>2. QED
    BY <1>3, <1>5, <2>1
<1>6. s >= 1000 <=> part >= whole
  <2>1. 1000 <= s <=> whole * 1000 <= part * 1000
    BY <1>3
  <2>2. QED
    BY <1>3, <2>1
<1>7. ASSUME part = 0 PROVE s = 0
  <2>1. 0 <= s <=> whole * 0 <= part * 1000
    BY <1>3
  <2>2. 1 <= s <=> whole * 1 <= part * 1000
    BY <1>3
  <2>3. QED
    BY <1>3, <1>7, <2>1, <2>2
<1>8. QED
  BY <1>3, <1>4, <1>5, <1>6, <1>7 DEF s

\* a larger part is no smaller a share
LEMMA ShareGrows ==
  ASSUME NEW a \in Int, NEW b \in Int, NEW whole \in Nat \ {0}, a <= b
  PROVE  Share(a, whole) <= Share(b, whole)
<1> DEFINE s == Share(a, whole)
           t == Share(b, whole)
<1>1. s \in Int /\ t \in Int
  BY ShareIs
<1>2. a * 1000 \in Int /\ b * 1000 \in Int /\ s = (a * 1000) \div whole /\ t = (b * 1000) \div whole
  BY DEF Share
<1> HIDE DEF s, t
<1>3. whole * s <= a * 1000
  BY <1>1, <1>2, QuotientAtLeast
<1>4. whole * s \in Int
  BY <1>1
<1>5. whole * s <= b * 1000
  BY <1>2, <1>3, <1>4
<1>6. s <= t
  BY <1>1, <1>2, <1>5, QuotientAtLeast
<1>7. QED
  BY <1>6 DEF s, t

\* a part of a whole is between nothing and all of it
LEMMA ShareInRange ==
  ASSUME NEW part \in Nat, NEW whole \in Nat \ {0}, part <= whole
  PROVE  InRange(Share(part, whole))
<1>1. part \in Int /\ part >= 0
  OBVIOUS
<1>2. Share(part, whole) \in Int /\ Share(part, whole) <= 1000 /\ Share(part, whole) >= 0
  BY <1>1, ShareIs
<1>3. QED
  BY <1>2 DEF InRange

\* a share of those of a list that pass a test
LEMMA ShareOfPlaces ==
  ASSUME NEW n \in Nat \ {0}, NEW at \in SUBSET (1 .. n)
  PROVE  Cardinality(at) \in 0 .. n /\ InRange(Share(Cardinality(at), n))
<1>1. IsFiniteSet(1 .. n) /\ Cardinality(1 .. n) = n
  BY CountUpTo
<1>2. Cardinality(at) \in Nat /\ Cardinality(at) <= n
  BY <1>1, FS_Subset, FS_CardinalityType
<1>3. QED
  BY <1>2, ShareInRange

\* selecting all of a list changes nothing
LEMMA SelectAll ==
  ASSUME NEW V, NEW list \in Seq(V)
  PROVE  Select(list, DOMAIN list) = list
<1> DEFINE n == Len(list)
           out == Select(list, 1 .. n)
<1>1. n \in Nat /\ DOMAIN list = 1 .. n /\ \A i \in 1 .. n : list[i] \in V
  OBVIOUS
<1>2. Cardinality(1 .. n) = n
  BY <1>1, CountUpTo
<1>3. out \in Seq(V) /\ Len(out) = n
  <2>1. out \in Seq(V) /\ Keeps(out, list, 1 .. n)
    BY <1>1, SelectKeeps
  <2>2. QED
    BY <2>1, <1>2 DEF Keeps
<1>4. ASSUME NEW i \in 1 .. n PROVE out[i] = list[i]
  <2> DEFINE all == 1 .. n
             J == all \cap (1 .. i - 1)
  <2>1. J = 1 .. i - 1 /\ i - 1 \in Nat
    BY <1>1
  <2>2. Cardinality(J) = i - 1
    BY <2>1, CountUpTo
  <2>3. all \in SUBSET (1 .. n) /\ i \in all /\ \A j \in all : list[j] \in V
    BY <1>1
  <2>4. Select(list, all)[Cardinality(J) + 1] = list[i]
    <3> HIDE DEF all
    <3> DEFINE r == Cardinality(all \cap (1 .. i - 1)) + 1
    <3>1. n \in Nat
      BY <1>1
    <3> HIDE DEF n
    <3>2. all \in SUBSET (1 .. n) /\ i \in all
      BY <2>3
    <3>3. \A j \in all : list[j] \in V
      BY <2>3
    <3>4. /\ r \in 1 .. Len(Select(list, all)) /\ Select(list, all)[r] = list[i]
          /\ Cardinality(all \cap (1 .. i)) = r
      BY <3>1, <3>2, <3>3, SelectedAt
    <3>5. QED
      BY <3>4
  <2>5. Cardinality(J) + 1 = i
    <3> HIDE DEF J
    <3>1. QED
      BY <1>1, <2>2
  <2>6. QED
    BY <2>4, <2>5
<1> HIDE DEF out
<1>5. out = list
  BY <1>1, <1>3, <1>4, SeqEqual
<1>6. QED
  BY <1>1, <1>5 DEF out

Bundle ==
    [mode : STRING, found : Nat, relations : Nat, merged : Nat, final : Nat,
     before : Nat, after : Nat, candidates : Nat, returned : Nat, below : Nat]

\* the largest of three numbers is one of them
LEMMA OfThree ==
  ASSUME NEW a \in Int, NEW b \in Int, NEW c \in Int
  PROVE  /\ Max({a, b, c}) \in {a, b, c}
         /\ \A x \in {a, b, c} : Max({a, b, c}) >= x
<1>1. \E x \in {a, b, c} : \A y \in {a, b, c} : x >= y
  OBVIOUS
<1>2. QED
  BY <1>1 DEF Max

\* what was cut off is a part of what there was
LEMMA TruncationInRange ==
  ASSUME NEW b \in Bundle
  PROVE  InRange(TruncationRate(b))
<1>1. /\ b.merged \in Nat /\ b.final \in Nat /\ b.before \in Nat /\ b.after \in Nat
  BY DEF Bundle
<1>2. ASSUME NEW m \in Nat, NEW n \in Nat, m > 0, n < m PROVE InRange(Share(m - n, m))
  <2>1. m - n \in Nat /\ m \in Nat \ {0} /\ m - n <= m
    BY <1>2
  <2>2. QED
    BY <2>1, ShareInRange
<1>3. InRange(0)
  BY DEF InRange
<1>4. CASE b.merged > 0 /\ b.final < b.merged
  <2>1. TruncationRate(b) = Share(b.merged - b.final, b.merged)
    BY <1>4 DEF TruncationRate
  <2>2. QED
    BY <2>1, <1>1, <1>2, <1>4
<1>5. CASE ~ (b.merged > 0 /\ b.final < b.merged) /\ b.before > 0 /\ b.after < b.before
  <2>1. TruncationRate(b) = Share(b.before - b.after, b.before)
    BY <1>5 DEF TruncationRate
  <2>2. QED
    BY <2>1, <1>1, <1>2, <1>5
<1>6. CASE ~ (b.merged > 0 /\ b.final < b.merged) /\ ~ (b.before > 0 /\ b.after < b.before)
  <2>1. TruncationRate(b) = 0
    BY <1>6 DEF TruncationRate
  <2>2. QED
    BY <2>1, <1>3
<1>7. QED
  BY <1>4, <1>5, <1>6

\* and so is what a reranker left out
LEMMA FilterInRange ==
  ASSUME NEW b \in Bundle, b.candidates > 0 => b.below <= b.candidates
  PROVE  InRange(FilterRate(b))
<1>1. b.candidates \in Nat /\ b.returned \in Nat /\ b.below \in Nat
  BY DEF Bundle
<1>2. CASE b.candidates = 0
  BY <1>2 DEF FilterRate, InRange
<1>3. CASE b.candidates # 0
  <2> DEFINE x == Share(b.candidates - b.returned, b.candidates)
             y == IF b.below > 0 THEN Share(b.below, b.candidates) ELSE 0
  <2>1. FilterRate(b) = Max({0, x, y})
    BY <1>3 DEF FilterRate
  <2>2. b.candidates \in Nat \ {0} /\ b.candidates - b.returned \in Int
    BY <1>1, <1>3
  <2>3. b.candidates - b.returned <= b.candidates
    BY <1>1
  <2>4. x \in Int /\ x <= 1000
    BY <2>2, <2>3, ShareIs
  <2>5. Share(b.below, b.candidates) \in Int /\ Share(b.below, b.candidates) <= 1000
    <3>1. b.below \in Int /\ b.below <= b.candidates
      BY <1>1, <2>2
    <3>2. QED
      BY <2>2, <3>1, ShareIs
  <2>6. y \in Int /\ y <= 1000
    BY <2>5
  <2> HIDE DEF x, y
  <2>7. Max({0, x, y}) \in {0, x, y} /\ Max({0, x, y}) >= 0
    <3>1. 0 \in Int /\ x \in Int /\ y \in Int
      BY <2>4, <2>6
    <3>2. Max({0, x, y}) \in {0, x, y} /\ \A z \in {0, x, y} : Max({0, x, y}) >= z
      BY <3>1, OfThree, Zenon
    <3>3. QED
      BY <3>2
  <2>8. QED
    BY <2>1, <2>4, <2>6, <2>7 DEF InRange
<1>4. QED
  BY <1>2, <1>3

\* the rate of empty graphs, of questions that use the graph
GraphPlaces(bundles) == {i \in DOMAIN bundles : bundles[i].mode \in GraphModes}

\* only the questions that use the graph count
LEMMA EmptyIs ==
  ASSUME NEW bundles \in Seq(Bundle)
  PROVE  /\ InRange(EmptyRate(bundles))
         /\ EmptyRate(bundles) = EmptyRate(Select(bundles, GraphPlaces(bundles)))
<1> DEFINE graph == Select(bundles, GraphPlaces(bundles))
           n == Len(graph)
           Rated(list) == IF list = <<>> THEN 0
                          ELSE Share(Cardinality({i \in DOMAIN list : GraphEmpty(list[i])}), Len(list))
<1>1. Len(bundles) \in Nat /\ DOMAIN bundles = 1 .. Len(bundles) /\ \A i \in DOMAIN bundles : bundles[i] \in Bundle
  OBVIOUS
<1>2. GraphPlaces(bundles) \in SUBSET (1 .. Len(bundles))
  BY <1>1 DEF GraphPlaces
<1>3. graph \in Seq(Bundle) /\ Keeps(graph, bundles, GraphPlaces(bundles))
  <2>1. \A i \in GraphPlaces(bundles) : bundles[i] \in Bundle
    BY <1>1, <1>2
  <2>2. QED
    BY <1>1, <1>2, <2>1, SelectKeeps
<1>4. EmptyRate(bundles) = Rated(graph)
  BY DEF EmptyRate, GraphPlaces
<1>5. \A i \in DOMAIN graph : graph[i].mode \in GraphModes
  <2>1. ASSUME NEW i \in DOMAIN graph PROVE graph[i].mode \in GraphModes
    <3>1. graph[i] \in Range(graph)
      BY DEF Range
    <3>2. Range(graph) = {bundles[j] : j \in GraphPlaces(bundles)}
      BY <1>3 DEF Keeps
    <3>3. PICK j \in GraphPlaces(bundles) : graph[i] = bundles[j]
      BY <3>1, <3>2
    <3>4. QED
      BY <3>3 DEF GraphPlaces
  <2>2. QED
    BY <2>1
<1>6. EmptyRate(graph) = Rated(Select(graph, GraphPlaces(graph)))
  BY DEF EmptyRate, GraphPlaces
<1>7. GraphPlaces(graph) = DOMAIN graph
  BY <1>5 DEF GraphPlaces
<1>8. Select(graph, DOMAIN graph) = graph
  BY <1>3, SelectAll
<1>9. EmptyRate(bundles) = EmptyRate(graph)
  <2> HIDE DEF graph, Rated
  <2>1. Select(graph, GraphPlaces(graph)) = graph
    BY <1>7, <1>8
  <2>2. QED
    BY <1>4, <1>6, <2>1
<1> HIDE DEF graph
<1>10. InRange(Rated(graph))
  <2>1. CASE graph = <<>>
    BY <2>1 DEF InRange
  <2>2. CASE graph # <<>>
    <3> DEFINE at == {i \in DOMAIN graph : GraphEmpty(graph[i])}
    <3>1. n \in Nat \ {0} /\ DOMAIN graph = 1 .. n
      BY <1>3, <2>2
    <3>2. at \in SUBSET (1 .. n)
      BY <3>1
    <3>3. Rated(graph) = Share(Cardinality(at), n)
      BY <2>2
    <3> HIDE DEF at, n
    <3>4. InRange(Share(Cardinality(at), n))
      BY <3>1, <3>2, ShareOfPlaces
    <3>5. QED
      BY <3>3, <3>4
  <2>3. QED
    BY <2>1, <2>2
<1>11. QED
  BY <1>4, <1>9, <1>10 DEF graph

\* the order of the values
Smaller(values) == {q \in Range(values) \X Range(values) : q[1] < q[2]}

\* at least p per cent are no larger than a percentile
LEMMA PercentileIs ==
  ASSUME NEW values \in Seq(Nat), values # <<>>, NEW p \in {0, 50, 95}
  PROVE  /\ Percentile(values, p) \in Range(values)
         /\ 100 * Cardinality({i \in DOMAIN values : values[i] <= Percentile(values, p)}) >= p * Len(values)
<1> DEFINE n == Len(values)
           q == (p * n) \div 100
           k == 1 + Min({n - 1, q})
           before == Smaller(values)
           sorted == Sorted(values, before)
           x == Percentile(values, p)
<1>1. n \in Nat \ {0} /\ DOMAIN values = 1 .. n /\ \A i \in 1 .. n : values[i] \in Nat
  BY DEF Range
<1>2. x = sorted[k]
  BY DEF Percentile, Smaller
<1>3. \A v \in Range(values) : v \in Nat
  BY <1>1 DEF Range
<1>4. \A v, w \in Range(values) : <<v, w>> \in before <=> v < w
  BY DEF Smaller
<1>5. Levels(before, Range(values))
  <2> HIDE DEF before
  <2>1. \A v \in Range(values) : <<v, v>> \notin before
    BY <1>3, <1>4
  <2>2. \A u, v, w \in Range(values) : <<u, v>> \in before /\ <<v, w>> \in before => <<u, w>> \in before
    BY <1>3, <1>4
  <2>3. \A u, v, w \in Range(values) : <<u, w>> \in before => <<u, v>> \in before \/ <<v, w>> \in before
    BY <1>3, <1>4
  <2>4. QED
    BY <2>1, <2>2, <2>3 DEF Levels
<1> HIDE DEF before
<1>6. /\ DOMAIN sorted = 1 .. n
      /\ Shuffled(sorted, values, n)
      /\ Ascends(sorted, before)
  BY <1>5, SortedIs
<1>7. p * n \in Int /\ q \in Int /\ 100 * q <= p * n /\ p * n < 100 * q + 100 /\ 0 <= p * n /\ p * n <= 95 * n
  <2>1. p * n \in Int /\ 0 <= p * n /\ p * n <= 95 * n
    BY <1>1
  <2>2. q \in Int /\ 100 * q <= p * n /\ p * n < 100 * q + 100
    <3> DEFINE a == p * n
    <3>1. a \in Int
      BY <2>1
    <3> HIDE DEF a
    <3>2. 100 * (a \div 100) <= a /\ a < 100 * (a \div 100) + 100 /\ a \div 100 \in Int
      BY <3>1, QuotientIs
    <3>3. QED
      BY <3>2 DEF a
  <2>3. QED
    BY <2>1, <2>2
<1> DEFINE pn == p * n
<1>8. k \in 1 .. n /\ 100 * k >= pn
  <2>1. pn \in Int /\ 100 * q <= pn /\ pn < 100 * q + 100 /\ 0 <= pn /\ pn <= 95 * n /\ q \in Int
    BY <1>7
  <2> HIDE DEF pn, q
  <2>2. Min({n - 1, q}) = IF n - 1 <= q THEN n - 1 ELSE q
    <3> DEFINE m == n - 1
    <3>1. m \in Int /\ q \in Int
      BY <1>1, <2>1
    <3> HIDE DEF m
    <3>2. Min({m, q}) = IF m <= q THEN m ELSE q
      BY <3>1, OfTwo
    <3>3. QED
      BY <3>2 DEF m
  <2>3. k = 1 + Min({n - 1, q})
    OBVIOUS
  <2> HIDE DEF k
  <2>4. QED
    BY <1>1, <2>1, <2>2, <2>3
<1> HIDE DEF sorted, q, k, pn
<1>9. PICK s : Shuffle(s, n) /\ sorted = [j \in 1 .. n |-> values[s[j]]]
  BY <1>6 DEF Shuffled
<1>10. s \in [1 .. n -> 1 .. n] /\ \A i, j \in 1 .. n : i # j => s[i] # s[j]
  BY <1>9 DEF Shuffle
<1>11. \A j \in 1 .. n : sorted[j] = values[s[j]] /\ sorted[j] \in Range(values) /\ sorted[j] \in Nat
  BY <1>1, <1>9, <1>10 DEF Range
<1>12. \A j \in 1 .. k : sorted[j] <= x
  <2>1. ASSUME NEW j \in 1 .. k PROVE sorted[j] <= x
    <3>1. j \in 1 .. n /\ j <= k
      BY <1>8
    <3>2. CASE j = k
      BY <3>2, <1>2, <1>8, <1>11
    <3>3. CASE j < k
      <4>1. <<sorted[k], sorted[j]>> \notin before
        BY <3>1, <3>3, <1>6, <1>8 DEF Ascends
      <4>2. ~ (sorted[k] < sorted[j])
        BY <4>1, <3>1, <1>4, <1>8, <1>11
      <4>3. QED
        BY <4>2, <3>1, <1>2, <1>8, <1>11
    <3>4. QED
      BY <3>1, <3>2, <3>3, <1>8
  <2>2. QED
    BY <2>1
<1> DEFINE at == {i \in DOMAIN values : values[i] <= x}
           first == 1 .. k
           f == [j \in first |-> s[j]]
<1>13. f \in Injection(first, at)
  <2>1. \A j \in first : s[j] \in at /\ j \in 1 .. n
    <3>1. ASSUME NEW j \in first PROVE s[j] \in at /\ j \in 1 .. n
      <4>1. j \in 1 .. n /\ s[j] \in 1 .. n
        BY <1>1, <1>8, <1>10
      <4>2. values[s[j]] <= x
        <5>1. sorted[j] <= x
          BY <1>12
        <5>2. sorted[j] = values[s[j]]
          BY <1>11, <4>1
        <5>3. QED
          BY <5>1, <5>2
      <4>3. QED
        BY <4>1, <4>2, <1>1
    <3>2. QED
      BY <3>1
  <2> HIDE DEF at, first
  <2>2. f \in [first -> at]
    BY <2>1
  <2>3. \A i, j \in first : f[i] = f[j] => i = j
    BY <2>1, <1>10
  <2>4. QED
    BY <2>2, <2>3 DEF Injection, IsInjective
<1>14. IsFiniteSet(first) /\ Cardinality(first) = k
  BY <1>8, CountUpTo
<1>15. IsFiniteSet(at)
  <2>1. at \in SUBSET (1 .. n) /\ n \in Nat
    BY <1>1
  <2>2. QED
    BY <2>1, CountUpTo, FS_Subset
<1>16. Cardinality(at) >= k /\ Cardinality(at) \in Nat
  <2> HIDE DEF at, first, f
  <2>1. Cardinality(first) <= Cardinality(at)
    BY <1>13, <1>14, <1>15, FS_Injection
  <2>2. QED
    BY <2>1, <1>14, <1>15, FS_CardinalityType, <1>8
<1>17. x \in Range(values)
  BY <1>2, <1>8, <1>11
<1> HIDE DEF at, x
<1>18. 100 * Cardinality(at) >= pn
  BY <1>7, <1>8, <1>16 DEF pn
<1>19. QED
  BY <1>17, <1>18 DEF at, x, pn

\* short lists are lists
LEMMA SeqsUpToAre ==
  ASSUME NEW S, NEW V, S \subseteq V, NEW n \in Nat, NEW s \in SeqsUpTo(S, n)
  PROVE  /\ s \in Seq(V) /\ Len(s) \in Nat /\ DOMAIN s = 1 .. Len(s)
         /\ \A i \in DOMAIN s : s[i] \in S
<1>1. PICK m \in 0 .. n : s \in [1 .. m -> S]
  BY DEF SeqsUpTo
<1>2. m \in Nat
  OBVIOUS
<1>3. s \in Seq(S)
  BY <1>1, <1>2
<1>4. QED
  BY <1>3

(***************************************************************************)
(* The rates the monitoring reports are between 0 and 1 and are taken over *)
(* the questions they are about, and a percentile is one of the values,    *)
(* with at least p per cent of them no larger, for any records of          *)
(* questions.                                                              *)
(***************************************************************************)
THEOREM RatesStayRates == Spec => []RatesAreRates
<1>1. CasesInv => RatesAreRates
  <2> SUFFICES ASSUME CasesInv, sample.kind = "telemetry" PROVE RatesAreRates
    BY DEF RatesAreRates
  <2> DEFINE bundles == sample.bundles
             finals == [i \in DOMAIN bundles |-> bundles[i].final]
  <2>1. bundles \in SeqsUpTo(Bundles, MaxCount)
    BY DEF CasesInv
  <2>2. Bundles \subseteq Bundle /\ \A b \in Bundles : b.candidates > 0 => b.below <= b.candidates
    BY ScoresAssumption DEF Bundle
  <2> HIDE DEF bundles
  <2>3. /\ bundles \in Seq(Bundle) /\ Len(bundles) \in Nat /\ DOMAIN bundles = 1 .. Len(bundles)
        /\ \A i \in DOMAIN bundles : bundles[i] \in Bundles
    BY <2>1, <2>2, SeqsUpToAre, ResultsAssumption
  <2>4. \A i \in DOMAIN bundles : InRange(TruncationRate(bundles[i])) /\ InRange(FilterRate(bundles[i]))
    <3>1. ASSUME NEW i \in DOMAIN bundles
          PROVE  InRange(TruncationRate(bundles[i])) /\ InRange(FilterRate(bundles[i]))
      <4>1. bundles[i] \in Bundle /\ (bundles[i].candidates > 0 => bundles[i].below <= bundles[i].candidates)
        BY <2>2, <2>3
      <4>2. QED
        BY <4>1, TruncationInRange, FilterInRange
    <3>2. QED
      BY <3>1
  <2>5. /\ InRange(EmptyRate(bundles))
        /\ EmptyRate(bundles) =
              EmptyRate(Select(bundles, {i \in DOMAIN bundles : bundles[i].mode \in GraphModes}))
    BY <2>3, EmptyIs DEF GraphPlaces
  <2>6. finals \in Seq(Nat)
    <3>1. \A i \in 1 .. Len(bundles) : bundles[i].final \in Nat
      <4>1. \A i \in 1 .. Len(bundles) : bundles[i] \in Bundle
        BY <2>2, <2>3
      <4>2. \A b \in Bundle : b.final \in Nat
        BY DEF Bundle
      <4>3. QED
        BY <4>1, <4>2
    <3>2. finals = [i \in 1 .. Len(bundles) |-> bundles[i].final]
      BY <2>3
    <3>3. finals \in [1 .. Len(bundles) -> Nat]
      BY <3>1, <3>2
    <3>4. QED
      BY <2>3, <3>3
  <2> HIDE DEF finals
  <2>7. ASSUME finals # <<>>, NEW p \in {0, 50, 95}
        PROVE  /\ Percentile(finals, p) \in Range(finals)
               /\ 100 * Cardinality({i \in DOMAIN finals : finals[i] <= Percentile(finals, p)})
                     >= p * Len(finals)
    BY <2>6, <2>7, PercentileIs
  <2>8. QED
    BY <2>4, <2>5, <2>7 DEF RatesAreRates, bundles, finals
<1>2. QED
  BY <1>1, CasesAlways, PTL

-----------------------------------------------------------------------------
(***************************************************************************)
(* Reports of an evaluation: means over the rows they are about.           *)
(***************************************************************************)

\* f goes through C, from the least to the greatest
Goes(f, m, C) ==
    /\ f \in [1 .. m -> C]
    /\ \A i \in C : \E k \in 1 .. m : f[k] = i
    /\ \A j, k \in 1 .. m : j < k => f[j] < f[k]

\* there is one way to do so
LEMMA GoesOnce ==
  ASSUME NEW C \in SUBSET Nat, NEW m \in Nat, NEW n \in Nat, NEW f, NEW h,
         Goes(f, m, C), Goes(h, n, C)
  PROVE  m = n /\ f = h
<1>1. /\ f \in [1 .. m -> C] /\ h \in [1 .. n -> C]
      /\ \A i \in C : \E k \in 1 .. m : f[k] = i
      /\ \A i \in C : \E k \in 1 .. n : h[k] = i
      /\ \A j, k \in 1 .. m : j < k => f[j] < f[k]
      /\ \A j, k \in 1 .. n : j < k => h[j] < h[k]
  <2>1. f \in [1 .. m -> C] /\ h \in [1 .. n -> C]
    BY DEF Goes
  <2>2. (\A i \in C : \E k \in 1 .. m : f[k] = i) /\ (\A j, k \in 1 .. m : j < k => f[j] < f[k])
    BY DEF Goes
  <2>3. (\A i \in C : \E k \in 1 .. n : h[k] = i) /\ (\A j, k \in 1 .. n : j < k => h[j] < h[k])
    BY DEF Goes
  <2>4. QED
    BY <2>1, <2>2, <2>3
<1>2. \A l \in Nat : \A e \in [1 .. l -> C] :
         (\A j, k \in 1 .. l : j < k => e[j] < e[k]) => \A j, k \in 1 .. l : e[j] = e[k] => j = k
  <2>1. ASSUME NEW l \in Nat, NEW e \in [1 .. l -> C], \A j, k \in 1 .. l : j < k => e[j] < e[k],
               NEW j \in 1 .. l, NEW k \in 1 .. l, e[j] = e[k], j # k
        PROVE  FALSE
    <3>1. e[j] \in Nat /\ e[k] \in Nat
      OBVIOUS
    <3>2. j < k \/ k < j
      BY <2>1
    <3>3. QED
      BY <2>1, <3>1, <3>2
  <2>2. QED
    BY <2>1
<1>3. f \in Injection(1 .. m, C) /\ h \in Injection(1 .. n, C)
  BY <1>1, <1>2 DEF Injection, IsInjective
<1>4. f \in Surjection(1 .. m, C) /\ h \in Surjection(1 .. n, C)
  BY <1>1 DEF Surjection
<1>5. /\ IsFiniteSet(1 .. m) /\ Cardinality(1 .. m) = m
      /\ IsFiniteSet(1 .. n) /\ Cardinality(1 .. n) = n
  BY CountUpTo
<1>6. IsFiniteSet(C) /\ Cardinality(C) <= m /\ Cardinality(C) <= n
  BY <1>4, <1>5, FS_Surjection
<1>7. m <= Cardinality(C) /\ n <= Cardinality(C)
  BY <1>3, <1>5, <1>6, FS_Injection
<1>8. m = n
  BY <1>6, <1>7, FS_CardinalityType
<1>9. ASSUME NEW k \in 1 .. m, \A j \in 1 .. k - 1 : f[j] = h[j], NEW a, NEW b,
             (a = f /\ b = h) \/ (a = h /\ b = f)
      PROVE  a[k] >= b[k]
  <2>1. a[k] \in C /\ b[k] \in C /\ a[k] \in Nat /\ b[k] \in Nat
    BY <1>1, <1>8, <1>9
  <2>2. PICK j \in 1 .. m : b[j] = a[k]
    BY <1>1, <1>8, <1>9, <2>1
  <2>3. CASE j < k
    <3>1. a[j] = b[j]
      BY <2>3, <1>9
    <3>2. a[j] < a[k] /\ a[j] \in Nat
      BY <2>3, <1>1, <1>8, <1>9
    <3>3. QED
      BY <3>1, <3>2, <2>2
  <2>4. CASE j = k
    BY <2>1, <2>2, <2>4
  <2>5. CASE j > k
    <3>1. b[k] < b[j]
      BY <2>5, <1>1, <1>8, <1>9
    <3>2. QED
      BY <3>1, <2>1, <2>2
  <2>6. QED
    BY <2>3, <2>4, <2>5
<1>10. \A k \in 1 .. m : f[k] = h[k]
  <2> DEFINE I == {k \in 1 .. m : f[k] # h[k]}
  <2> SUFFICES ASSUME I # {} PROVE FALSE
    OBVIOUS
  <2>1. I \in SUBSET Nat
    OBVIOUS
  <2>2. PICK k \in I : \A j \in I : k <= j
    <3> HIDE DEF I
    <3>1. QED
      BY <2>1, Least
  <2>3. k \in 1 .. m /\ f[k] # h[k] /\ \A j \in 1 .. k - 1 : f[j] = h[j]
    BY <2>2
  <2>4. f[k] >= h[k]
    BY <2>3, <1>9
  <2>5. h[k] >= f[k]
    BY <2>3, <1>9
  <2>6. f[k] \in Nat /\ h[k] \in Nat
    BY <2>3, <1>1, <1>8
  <2>7. QED
    BY <2>3, <2>4, <2>5, <2>6
<1>11. f = h
  BY <1>1, <1>8, <1>10
<1>12. QED
  BY <1>8, <1>11

\* what a list holds of X
Kept(list, X) == Select(list, {i \in DOMAIN list : list[i] \in X})

\* keeping some of what was kept
LEMMA KeptTwice ==
  ASSUME NEW V, NEW list \in Seq(V), NEW X, NEW Y
  PROVE  Kept(Kept(list, X), Y) = Kept(list, X \cap Y)
<1> DEFINE n == Len(list)
           A == {i \in DOMAIN list : list[i] \in X}
           C == {i \in DOMAIN list : list[i] \in X \cap Y}
           once == Kept(list, X)
           B == {k \in DOMAIN once : once[k] \in Y}
           twice == Kept(once, Y)
<1>1. n \in Nat /\ DOMAIN list = 1 .. n /\ A \in SUBSET (1 .. n) /\ C \in SUBSET (1 .. n)
  OBVIOUS
<1>2. PICK f : Picks(f, A, list, once)
  BY <1>1, SelectIs DEF Kept
<1> DEFINE m == Cardinality(A)
<1>3. /\ m \in Nat /\ f \in [1 .. m -> A]
      /\ \A i \in A : \E k \in 1 .. m : f[k] = i
      /\ \A j, k \in 1 .. m : j < k => f[j] < f[k]
      /\ once = [k \in 1 .. m |-> list[f[k]]]
  BY <1>2 DEF Picks
<1>4. DOMAIN once = 1 .. m /\ \A k \in 1 .. m : once[k] = list[f[k]]
  BY <1>3
<1>5. B \in SUBSET (1 .. m)
  BY <1>4
<1>6. twice = Select(once, B)
  BY DEF Kept
<1> HIDE DEF m, once, A
<1>7. PICK g : Picks(g, B, once, twice)
  BY <1>3, <1>5, <1>6, SelectIs, ZenonT(60)
<1> DEFINE l == Cardinality(B)
<1>8. /\ l \in Nat /\ g \in [1 .. l -> B]
      /\ \A i \in B : \E k \in 1 .. l : g[k] = i
      /\ \A j, k \in 1 .. l : j < k => g[j] < g[k]
      /\ twice = [k \in 1 .. l |-> once[g[k]]]
  BY <1>7 DEF Picks
<1>9. PICK h : Picks(h, C, list, Kept(list, X \cap Y))
  <2>1. Kept(list, X \cap Y) = Select(list, C)
    BY DEF Kept
  <2>2. QED
    BY <2>1, <1>1, SelectIs
<1> DEFINE c == Cardinality(C)
<1>10. c \in Nat /\ Goes(h, c, C) /\ Kept(list, X \cap Y) = [k \in 1 .. c |-> list[h[k]]]
  BY <1>9 DEF Picks, Goes
<1>11. \A k \in B : k \in 1 .. m /\ f[k] \in C
  <2>1. ASSUME NEW k \in B PROVE k \in 1 .. m /\ f[k] \in C
    <3>1. k \in 1 .. m /\ once[k] \in Y
      BY <1>4, <1>5
    <3>2. f[k] \in A /\ list[f[k]] \in Y
      BY <3>1, <1>3, <1>4
    <3>3. QED
      BY <3>1, <3>2 DEF A
  <2>2. QED
    BY <2>1
<1>12. \A i \in C : \E k \in B : f[k] = i
  <2>1. ASSUME NEW i \in C PROVE \E k \in B : f[k] = i
    <3>1. i \in A /\ list[i] \in Y
      BY DEF A
    <3>2. PICK k \in 1 .. m : f[k] = i
      BY <3>1, <1>3
    <3>3. k \in B
      BY <3>1, <3>2, <1>4
    <3>4. QED
      BY <3>2, <3>3
  <2>2. QED
    BY <2>1
<1> HIDE DEF B, C, l, c, twice
<1> DEFINE e == [k \in 1 .. l |-> f[g[k]]]
<1>13. Goes(e, l, C)
  <2>1. \A k \in 1 .. l : g[k] \in B /\ f[g[k]] \in C /\ e[k] = f[g[k]]
    BY <1>8, <1>11
  <2>2. e \in [1 .. l -> C]
    BY <2>1
  <2>3. \A i \in C : \E k \in 1 .. l : e[k] = i
    <3>1. ASSUME NEW i \in C PROVE \E k \in 1 .. l : e[k] = i
      <4>1. PICK b \in B : f[b] = i
        BY <1>12
      <4>2. PICK k \in 1 .. l : g[k] = b
        BY <1>8
      <4>3. QED
        BY <4>1, <4>2, <2>1
    <3>2. QED
      BY <3>1
  <2>4. \A j, k \in 1 .. l : j < k => e[j] < e[k]
    <3>1. ASSUME NEW j \in 1 .. l, NEW k \in 1 .. l, j < k PROVE e[j] < e[k]
      <4>1. g[j] < g[k]
        BY <3>1, <1>8
      <4>2. g[j] \in 1 .. m /\ g[k] \in 1 .. m
        BY <2>1, <1>11
      <4>3. f[g[j]] < f[g[k]]
        BY <4>1, <4>2, <1>3
      <4>4. QED
        BY <4>3, <2>1
    <3>2. QED
      BY <3>1
  <2>5. QED
    BY <2>2, <2>3, <2>4 DEF Goes
<1>14. C \in SUBSET Nat
  BY <1>1
<1>15. l = c /\ e = h
  <2> HIDE DEF e
  <2>1. QED
    BY <1>8, <1>10, <1>13, <1>14, GoesOnce
<1>16. twice = [k \in 1 .. l |-> list[h[k]]]
  <2>1. \A k \in 1 .. l : once[g[k]] = list[f[g[k]]]
    BY <1>4, <1>8, <1>11
  <2>2. \A k \in 1 .. l : h[k] = f[g[k]]
    BY <1>15
  <2>3. QED
    BY <1>8, <2>1, <2>2
<1>17. twice = Kept(list, X \cap Y)
  BY <1>10, <1>15, <1>16
<1>18. QED
  BY <1>17 DEF twice, once

\* the mean of scores is a score
LEMMA MeanInRange ==
  ASSUME NEW scores \in Seq(0 .. 1000)
  PROVE  InRange(Mean(scores))
<1> DEFINE n == Len(scores)
           t == Total(scores)
<1>1. scores \in Seq(Nat) /\ n \in Nat /\ \A i \in 1 .. n : scores[i] \in 0 .. 1000
  <2>1. n \in Nat /\ DOMAIN scores = 1 .. n /\ \A i \in 1 .. n : scores[i] \in 0 .. 1000
    <3> DEFINE V == 0 .. 1000
    <3>1. scores \in Seq(V)
      OBVIOUS
    <3> HIDE DEF V
    <3>2. Len(scores) \in Nat /\ DOMAIN scores = 1 .. Len(scores) /\ \A i \in 1 .. Len(scores) : scores[i] \in V
      BY <3>1, ListIs
    <3>3. QED
      BY <3>2 DEF V
  <2> HIDE DEF n
  <2>2. \A i \in 1 .. n : scores[i] \in Nat
    <3>1. \A x \in 0 .. 1000 : x \in Nat
      OBVIOUS
    <3>2. QED
      BY <3>1, <2>1, ZenonT(60)
  <2>3. scores \in Seq(Nat)
    BY <2>2 DEF n
  <2>4. QED
    BY <2>1, <2>3
<1>2. PICK st : Sums(st, scores)
  BY <1>1, TotalIs
<1>3. /\ st \in [0 .. n -> Nat] /\ st[0] = 0 /\ t = st[n]
      /\ \A k \in 1 .. n : st[k] = st[k - 1] + scores[k]
  BY <1>2 DEF Sums
<1> DEFINE S == {k \in Nat : k <= n => st[k] <= 1000 * k}
<1> HIDE DEF n, t
<1>4. 0 \in S
  BY <1>3
<1>5. ASSUME NEW k \in Nat, k \in S PROVE k + 1 \in S
  <2> SUFFICES ASSUME k + 1 <= n PROVE st[k + 1] <= 1000 * (k + 1)
    OBVIOUS
  <2>1. k \in 0 .. n /\ k + 1 \in 1 .. n /\ st[k] <= 1000 * k
    BY <1>1, <1>5
  <2>2. st[k] \in Nat /\ scores[k + 1] \in 0 .. 1000
    BY <2>1, <1>1, <1>3
  <2>3. st[k + 1] = st[k] + scores[k + 1]
    <3>1. st[k + 1] = st[(k + 1) - 1] + scores[k + 1]
      BY <2>1, <1>3
    <3>2. (k + 1) - 1 = k
      OBVIOUS
    <3>3. QED
      BY <3>1, <3>2
  <2> DEFINE a == st[k]
             b == scores[k + 1]
             c == st[k + 1]
  <2>4. a \in Nat /\ b \in 0 .. 1000 /\ c = a + b /\ a <= 1000 * k
    BY <2>1, <2>2, <2>3
  <2> HIDE DEF a, b, c
  <2>5. c <= 1000 * (k + 1)
    BY <2>4
  <2>6. QED
    BY <2>5 DEF c
<1> HIDE DEF S
<1>6. n \in S
  BY <1>1, <1>4, <1>5, NatInd
<1>7. t \in Nat /\ t <= 1000 * n
  BY <1>1, <1>3, <1>6 DEF S
<1>8. CASE scores = <<>>
  BY <1>8 DEF Mean, InRange
<1>9. CASE scores # <<>>
  <2>1. n \in Nat \ {0}
    BY <1>1, <1>9 DEF n
  <2>2. Mean(scores) = t \div n
    BY <1>9 DEF Mean, t, n
  <2>3. t \div n \in Int /\ (0 <= t \div n <=> n * 0 <= t) /\ (1001 <= t \div n <=> n * 1001 <= t)
    BY <1>7, <2>1, QuotientIs, QuotientAtLeast
  <2>4. ~ (n * 1001 <= t) /\ n * 0 <= t
    BY <1>7, <2>1
  <2> DEFINE q == t \div n
  <2>5. q \in Int /\ 0 <= q /\ ~ (1001 <= q)
    BY <2>3, <2>4
  <2> HIDE DEF q
  <2>6. q \in 0 .. 1000
    BY <2>5
  <2>7. QED
    BY <2>2, <2>6 DEF InRange, q
<1>10. QED
  BY <1>8, <1>9

\* what is present of a list is what it holds, without the blanks
LEMMA PresentIs ==
  ASSUME NEW seq \in Seq(Nat)
  PROVE  /\ Present(seq) \in Seq(Nat \ {0})
         /\ Range(Present(seq)) = Range(seq) \ {0}
<1> DEFINE n == Len(seq)
           at == {i \in DOMAIN seq : seq[i] # 0}
<1>1. n \in Nat /\ DOMAIN seq = 1 .. n /\ \A i \in 1 .. n : seq[i] \in Nat
  OBVIOUS
<1>2. at \in SUBSET (1 .. n) /\ \A i \in at : seq[i] \in Nat \ {0}
  BY <1>1
<1>3. Present(seq) = Select(seq, at)
  BY DEF Present
<1>4. {seq[i] : i \in at} = Range(seq) \ {0}
  BY DEF Range
<1> HIDE DEF at, n
<1>5. Select(seq, at) \in Seq(Nat \ {0}) /\ Keeps(Select(seq, at), seq, at)
  BY <1>1, <1>2, SelectKeeps
<1>6. QED
  BY <1>3, <1>4, <1>5 DEF Keeps

\* a recall is a share of the gold items
LEMMA RecallInRange ==
  ASSUME NEW match, NEW gold \in Seq(Nat), NEW ranked, NEW k
  PROVE  InRange(RecallAligned(match, gold, ranked, k))
<1> DEFINE g == Present(gold)
           top == RankedSlice(ranked, k)
           at == {i \in DOMAIN g : Found(match, g[i], top)}
           n == Len(g)
<1>1. g \in Seq(Nat \ {0})
  BY PresentIs
<1>2. RecallAligned(match, gold, ranked, k) = IF g = <<>> THEN 1000 ELSE Share(Cardinality(at), n)
  BY DEF RecallAligned
<1>3. n \in Nat /\ DOMAIN g = 1 .. n /\ (g # <<>> => n # 0)
  BY <1>1
<1>4. at \in SUBSET (1 .. n)
  BY <1>3
<1> HIDE DEF at, n, g
<1>5. CASE g = <<>>
  BY <1>2, <1>5 DEF InRange
<1>6. CASE g # <<>>
  <2>1. n \in Nat \ {0}
    BY <1>3, <1>6
  <2>2. InRange(Share(Cardinality(at), n))
    BY <2>1, <1>4, ShareOfPlaces
  <2>3. QED
    BY <1>2, <1>6, <2>2
<1>7. QED
  BY <1>5, <1>6

Row ==
    [gold : Seq(Nat), ranked : Seq(Nat), k : {NA} \cup Nat,
     judged : [JudgedMetrics -> {NA} \cup 0 .. 1000],
     label : STRING, answer : STRING, text : BOOLEAN]

HasText == {r \in Row : r.text}

WasJudged(m) == {r \in Row : r.judged[m] # NA}

\* the rows that are kept are those of X, and are counted
LEMMA KeptIs ==
  ASSUME NEW rows \in Seq(Row), NEW X
  PROVE  /\ Kept(rows, X) \in Seq(Row)
         /\ Len(Kept(rows, X)) = Cardinality({i \in DOMAIN rows : rows[i] \in X})
         /\ \A i \in DOMAIN Kept(rows, X) : Kept(rows, X)[i] \in X
         /\ Kept(rows, X) = <<>> <=> \A i \in DOMAIN rows : rows[i] \notin X
<1> DEFINE n == Len(rows)
           at == {i \in DOMAIN rows : rows[i] \in X}
           out == Kept(rows, X)
<1>1. n \in Nat /\ DOMAIN rows = 1 .. n /\ \A i \in 1 .. n : rows[i] \in Row
  BY ListIs
<1>2. at \in SUBSET (1 .. n) /\ \A i \in at : rows[i] \in Row
  BY <1>1
<1>3. out = Select(rows, at)
  BY DEF Kept
<1> HIDE DEF at, n
<1>4. Select(rows, at) \in Seq(Row) /\ Keeps(Select(rows, at), rows, at)
  BY <1>1, <1>2, SelectKeeps
<1> HIDE DEF out
<1>5. out \in Seq(Row) /\ Keeps(out, rows, at)
  BY <1>3, <1>4
<1>6. /\ Len(out) \in Nat /\ DOMAIN out = 1 .. Len(out) /\ Len(out) = Cardinality(at)
      /\ Range(out) = {rows[i] : i \in at}
      /\ \A i \in at : \E k \in DOMAIN out : k <= i /\ out[k] = rows[i]
  BY <1>5 DEF Keeps
<1>7. ASSUME NEW i \in DOMAIN out PROVE out[i] \in X
  <2>1. out[i] \in Range(out)
    BY DEF Range
  <2>2. PICK j \in at : out[i] = rows[j]
    BY <1>6, <2>1
  <2>3. QED
    BY <2>2 DEF at
<1>8. out = <<>> <=> \A i \in DOMAIN rows : rows[i] \notin X
  <2>1. ASSUME out = <<>>, NEW i \in DOMAIN rows, rows[i] \in X PROVE FALSE
    <3>1. i \in at
      BY <2>1 DEF at
    <3>2. PICK k \in DOMAIN out : out[k] = rows[i]
      BY <3>1, <1>6
    <3>3. QED
      BY <2>1, <3>2
  <2>2. ASSUME \A i \in DOMAIN rows : rows[i] \notin X PROVE out = <<>>
    <3>1. at = {}
      BY <2>2 DEF at
    <3>2. Len(out) = 0
      BY <3>1, <1>6, FS_EmptySet
    <3>3. QED
      BY <3>2, <1>5
  <2>3. QED
    BY <2>1, <2>2
<1>9. QED
  BY <1>5, <1>6, <1>7, <1>8 DEF out, at

\* the scores of a metric are those of the rows that were judged by it
LEMMA ScoredIs ==
  ASSUME NEW rows \in Seq(Row), NEW m \in JudgedMetrics
  PROVE  LET ok == Kept(rows, WasJudged(m))
         IN /\ Scored(rows, m) = [i \in DOMAIN ok |-> ok[i].judged[m]]
            /\ Scored(rows, m) \in Seq(0 .. 1000)
            /\ Len(Scored(rows, m)) = Len(ok)
<1> DEFINE ok == Kept(rows, WasJudged(m))
           n == Len(ok)
           out == [i \in DOMAIN ok |-> ok[i].judged[m]]
<1>1. \A i \in DOMAIN rows : rows[i] \in WasJudged(m) <=> rows[i].judged[m] # NA
  <2>1. \A i \in DOMAIN rows : rows[i] \in Row
    OBVIOUS
  <2>2. QED
    BY <2>1 DEF WasJudged
<1>2. {i \in DOMAIN rows : rows[i] \in WasJudged(m)} = {i \in DOMAIN rows : rows[i].judged[m] # NA}
  BY <1>1
<1>3. ok = Select(rows, {i \in DOMAIN rows : rows[i].judged[m] # NA})
  BY <1>2 DEF Kept
<1>4. Scored(rows, m) = out
  BY <1>3 DEF Scored
<1>5. ok \in Seq(Row) /\ \A i \in DOMAIN ok : ok[i] \in WasJudged(m)
  BY KeptIs
<1> HIDE DEF ok
<1>6. n \in Nat /\ DOMAIN ok = 1 .. n
  BY <1>5
<1>7. \A i \in 1 .. n : ok[i].judged[m] \in 0 .. 1000
  <2>1. \A r \in WasJudged(m) : r.judged[m] \in 0 .. 1000
    BY DEF WasJudged, Row
  <2>2. QED
    BY <1>5, <1>6, <2>1, ZenonT(60)
<1>8. out \in [1 .. n -> 0 .. 1000]
  BY <1>6, <1>7, ZenonT(60)
<1>9. out \in Seq(0 .. 1000) /\ Len(out) = n
  <2> HIDE DEF n, out
  <2>1. QED
    BY <1>6, <1>8
<1>10. QED
  BY <1>4, <1>9 DEF ok

\* rows that were not judged change no score
LEMMA JudgedAlone ==
  ASSUME NEW rows \in Seq(Row), NEW m \in JudgedMetrics
  PROVE  Scored(Kept(Kept(rows, WasJudged(m)), HasText), m) = Scored(Kept(rows, HasText), m)
<1> DEFINE X == WasJudged(m)
           a == Kept(rows, HasText)
           ok == Kept(rows, X)
           b == Kept(ok, HasText)
<1>1. a \in Seq(Row) /\ ok \in Seq(Row)
  BY KeptIs
<1>2. b \in Seq(Row)
  <2> HIDE DEF ok
  <2>1. QED
    BY <1>1, KeptIs
<1>3. Kept(a, X) = Kept(rows, HasText \cap X)
  BY KeptTwice
<1>4. b = Kept(rows, X \cap HasText)
  BY KeptTwice
<1>5. Kept(b, X) = Kept(rows, (X \cap HasText) \cap X)
  BY <1>4, KeptTwice
<1>6. (X \cap HasText) \cap X = HasText \cap X
  OBVIOUS
<1>7. Kept(b, X) = Kept(a, X)
  BY <1>3, <1>5, <1>6
<1> HIDE DEF a, b
<1>8. Scored(a, m) = [i \in DOMAIN Kept(a, X) |-> Kept(a, X)[i].judged[m]]
  BY <1>1, ScoredIs
<1>9. Scored(b, m) = [i \in DOMAIN Kept(b, X) |-> Kept(b, X)[i].judged[m]]
  BY <1>2, ScoredIs
<1>10. Scored(b, m) = Scored(a, m)
  BY <1>7, <1>8, <1>9
<1>11. QED
  BY <1>10 DEF a, b

\* rows are scored for some metric, or the judge failed for all of them
LEMMA JudgedCounts ==
  ASSUME NEW rows \in Seq(Row)
  PROVE  LET failed == {i \in DOMAIN rows : \A m \in JudgedMetrics : rows[i].judged[m] = NA}
         IN /\ Cardinality(DOMAIN rows \ failed) + Cardinality(failed) = Len(rows)
            /\ Cardinality(DOMAIN rows \ failed) = 0
                  <=> \A m \in JudgedMetrics : Len(Scored(rows, m)) = 0
<1> DEFINE D == DOMAIN rows
           failed == {i \in D : \A m \in JudgedMetrics : rows[i].judged[m] = NA}
           rest == D \ failed
<1>1. D = 1 .. Len(rows) /\ Len(rows) \in Nat
  OBVIOUS
<1>2. IsFiniteSet(D) /\ Cardinality(D) = Len(rows)
  BY <1>1, CountUpTo
<1>3. failed \in SUBSET D /\ rest \in SUBSET D
  OBVIOUS
<1>4. \A i \in D : rows[i] \in Row
  BY <1>1
<1>5. \A i \in D : i \in rest <=> \E m \in JudgedMetrics : rows[i] \in WasJudged(m)
  BY <1>4 DEF WasJudged
<1>6. rest = {} <=> \A m \in JudgedMetrics : Kept(rows, WasJudged(m)) = <<>>
  <2>1. \A m : Kept(rows, WasJudged(m)) = <<>> <=> \A i \in D : rows[i] \notin WasJudged(m)
    BY KeptIs
  <2> HIDE DEF failed
  <2>2. rest = {} <=> \A i \in D : i \notin rest
    OBVIOUS
  <2> HIDE DEF rest, D
  <2>3. QED
    BY <1>5, <2>1, <2>2
<1>7. \A m \in JudgedMetrics : Len(Scored(rows, m)) = 0 <=> Kept(rows, WasJudged(m)) = <<>>
  <2>1. ASSUME NEW m \in JudgedMetrics
        PROVE  Len(Scored(rows, m)) = 0 <=> Kept(rows, WasJudged(m)) = <<>>
    <3> DEFINE ok == Kept(rows, WasJudged(m))
    <3>1. ok \in Seq(Row)
      BY KeptIs
    <3>2. Len(Scored(rows, m)) = Len(ok)
      BY ScoredIs
    <3> HIDE DEF ok
    <3>3. Len(ok) = 0 <=> ok = <<>>
      BY <3>1
    <3>4. QED
      BY <3>2, <3>3 DEF ok
  <2>2. QED
    BY <2>1
<1> HIDE DEF failed, D
<1>8. D \cap failed = failed
  BY <1>3
<1>9. IsFiniteSet(rest) /\ IsFiniteSet(failed) /\ Cardinality(rest) = Cardinality(D) - Cardinality(failed)
  <2>1. IsFiniteSet(D \ failed) /\ Cardinality(D \ failed) = Cardinality(D) - Cardinality(D \cap failed)
    BY <1>2, FS_Difference
  <2>2. IsFiniteSet(failed)
    BY <1>2, <1>3, FS_Subset
  <2>3. QED
    BY <2>1, <2>2, <1>8
<1>10. Cardinality(rest) \in Nat /\ Cardinality(failed) \in Nat
  BY <1>9, FS_CardinalityType
<1>11. Cardinality(rest) = 0 <=> rest = {}
  BY <1>9, FS_EmptySet
<1> HIDE DEF rest
<1>12. Cardinality(rest) + Cardinality(failed) = Len(rows)
  BY <1>1, <1>2, <1>9, <1>10
<1>13. Cardinality(rest) = 0 <=> \A m \in JudgedMetrics : Len(Scored(rows, m)) = 0
  BY <1>6, <1>7, <1>11
<1>14. QED
  BY <1>12, <1>13 DEF rest, failed, D

\* the rows there is something to judge in
LEMMA TextsAre ==
  ASSUME NEW rows \in Seq(Row)
  PROVE  /\ Select(rows, {i \in DOMAIN rows : rows[i].text}) = Kept(rows, HasText)
         /\ Len(Kept(rows, HasText)) = Cardinality({i \in DOMAIN rows : rows[i].text})
<1>1. \A i \in DOMAIN rows : rows[i] \in HasText <=> rows[i].text
  <2>1. \A i \in DOMAIN rows : rows[i] \in Row
    OBVIOUS
  <2>2. QED
    BY <2>1 DEF HasText
<1>2. {i \in DOMAIN rows : rows[i] \in HasText} = {i \in DOMAIN rows : rows[i].text}
  BY <1>1
<1>3. Len(Kept(rows, HasText)) = Cardinality({i \in DOMAIN rows : rows[i] \in HasText})
  BY KeptIs
<1>4. QED
  BY <1>2, <1>3 DEF Kept

\* there is no rate of refusals only if no question was one of the corpus
LEMMA RefusalsAre ==
  ASSUME NEW rows \in Seq(Row)
  PROVE  FalseRefusalRate(rows) = NA <=> \A i \in DOMAIN rows : rows[i].label # "in_corpus"
<1> DEFINE X == {r \in Row : r.label = "in_corpus"}
           pos == Kept(rows, X)
           at == {i \in DOMAIN pos : LooksRefused(pos[i].answer)}
           n == Len(pos)
<1>1. \A i \in DOMAIN rows : rows[i] \in X <=> rows[i].label = "in_corpus"
  <2>1. \A i \in DOMAIN rows : rows[i] \in Row
    OBVIOUS
  <2>2. QED
    BY <2>1
<1>2. {i \in DOMAIN rows : rows[i] \in X} = {i \in DOMAIN rows : rows[i].label = "in_corpus"}
  BY <1>1
<1>3. Positive(rows) = pos
  BY <1>2 DEF Kept, Positive
<1>4. pos \in Seq(Row) /\ (pos = <<>> <=> \A i \in DOMAIN rows : rows[i] \notin X)
  BY KeptIs
<1>5. FalseRefusalRate(rows) = IF pos = <<>> THEN NA ELSE Share(Cardinality(at), n)
  BY <1>3 DEF FalseRefusalRate, Rate
<1> HIDE DEF pos
<1>6. ASSUME pos # <<>> PROVE FalseRefusalRate(rows) # NA
  <2>1. n \in Nat \ {0} /\ DOMAIN pos = 1 .. n
    BY <1>4, <1>6
  <2>2. at \in SUBSET (1 .. n)
    BY <2>1
  <2> HIDE DEF at, n
  <2>3. InRange(Share(Cardinality(at), n))
    BY <2>1, <2>2, ShareOfPlaces
  <2>4. NA \notin 0 .. 1000
    BY DEF NA
  <2>5. QED
    BY <1>5, <1>6, <2>3, <2>4 DEF InRange
<1>7. QED
  BY <1>1, <1>4, <1>5, <1>6

\* the scores of the rows with gold
LEMMA MeanRecall ==
  ASSUME NEW rows \in Seq(Row), NEW match, NEW default
  PROVE  LET ranked == RankedRows(rows)
         IN InRange(Mean([i \in DOMAIN ranked |->
               RecallAligned(match, ranked[i].gold, ranked[i].ranked, RowK(ranked[i], default))]))
<1> DEFINE at == {i \in DOMAIN rows : rows[i].gold # <<>>}
           ranked == RankedRows(rows)
           scores == [i \in DOMAIN ranked |->
               RecallAligned(match, ranked[i].gold, ranked[i].ranked, RowK(ranked[i], default))]
           n == Len(rows)
           m == Len(ranked)
<1>1. n \in Nat /\ DOMAIN rows = 1 .. n /\ \A i \in 1 .. n : rows[i] \in Row
  BY ListIs
<1>2. at \in SUBSET (1 .. n) /\ \A i \in at : rows[i] \in Row
  BY <1>1
<1>3. ranked = Select(rows, at)
  BY DEF RankedRows
<1> HIDE DEF at, n
<1>4. Select(rows, at) \in Seq(Row)
  BY <1>1, <1>2, SelectKeeps
<1> HIDE DEF ranked
<1>5. ranked \in Seq(Row)
  BY <1>3, <1>4
<1>6. m \in Nat /\ DOMAIN ranked = 1 .. m /\ \A i \in 1 .. m : ranked[i] \in Row
  BY <1>5, ListIs
<1>7. ASSUME NEW i \in 1 .. m
      PROVE  RecallAligned(match, ranked[i].gold, ranked[i].ranked, RowK(ranked[i], default)) \in 0 .. 1000
  <2> DEFINE r == ranked[i]
  <2>1. r \in Row
    BY <1>6
  <2>2. r.gold \in Seq(Nat)
    BY <2>1 DEF Row
  <2> HIDE DEF r
  <2>3. InRange(RecallAligned(match, r.gold, r.ranked, RowK(r, default)))
    BY <2>2, RecallInRange
  <2>4. QED
    BY <2>3 DEF r, InRange
<1>8. scores \in [1 .. m -> 0 .. 1000]
  BY <1>6, <1>7, ZenonT(60)
<1> HIDE DEF scores, m
<1>9. scores \in Seq(0 .. 1000)
  BY <1>6, <1>8
<1>10. InRange(Mean(scores))
  BY <1>9, MeanInRange
<1>11. QED
  BY <1>10 DEF scores, ranked

\* a metric's mean and the number of rows it is of
LEMMA MetricIs ==
  ASSUME NEW rows \in Seq(Row), NEW m \in JudgedMetrics
  PROVE  InRange(Mean(Scored(rows, m)))
<1>1. Scored(rows, m) \in Seq(0 .. 1000)
  BY ScoredIs
<1>2. QED
  BY <1>1, MeanInRange

\* the rows the judge is asked about, unless the whole call fails
Judged(rows, batch) == IF batch THEN Kept(rows, HasText) ELSE <<>>

\* what a report says, and of which rows
LEMMA ReportIs ==
  ASSUME NEW rows \in Seq(Row), NEW batch, NEW match
  PROVE  LET report == Report(rows, batch, match, 2, 1)
             judged == Judged(rows, batch)
             failed == {i \in DOMAIN judged : \A m \in JudgedMetrics : judged[i].judged[m] = NA}
         IN /\ judged \in Seq(Row)
            /\ report.evaluated = Len(judged)
            /\ \A m \in JudgedMetrics : /\ report.mean[m] = Mean(Scored(judged, m))
                                        /\ report.scoredBy[m] = Len(Scored(judged, m))
            /\ report.scored = Cardinality(DOMAIN judged \ failed)
            /\ report.unscored = Cardinality(failed)
            /\ report.refusal.lost = FalseRefusalRate(rows)
            /\ InRange(report.recall)
<1> DEFINE report == Report(rows, batch, match, 2, 1)
           judged == Judged(rows, batch)
           asked == Select(rows, {i \in DOMAIN rows : rows[i].text})
<1>1. asked = Kept(rows, HasText)
  BY TextsAre
<1> HIDE DEF asked
<1>2. judged = IF batch THEN asked ELSE <<>>
  BY <1>1 DEF Judged
<1>3. judged \in Seq(Row)
  <2>1. Kept(rows, HasText) \in Seq(Row)
    BY KeptIs
  <2>2. <<>> \in Seq(Row)
    OBVIOUS
  <2>3. QED
    BY <2>1, <2>2 DEF Judged
<1>4. InRange(report.recall)
  <2>1. LET ranked == RankedRows(rows)
        IN InRange(Mean([i \in DOMAIN ranked |->
              RecallAligned(match, ranked[i].gold, ranked[i].ranked, RowK(ranked[i], 2))]))
    BY MeanRecall
  <2>2. QED
    BY <2>1 DEF Report
<1> HIDE DEF judged
<1>5. /\ report.evaluated = Len(judged)
      /\ report.mean = [m \in JudgedMetrics |-> Mean(Scored(judged, m))]
      /\ report.scoredBy = [m \in JudgedMetrics |-> Len(Scored(judged, m))]
      /\ report.refusal.lost = FalseRefusalRate(rows)
  BY <1>2 DEF Report, asked
<1>6. LET failed == {i \in DOMAIN judged : \A m \in JudgedMetrics : judged[i].judged[m] = NA}
      IN /\ report.scored = Cardinality(DOMAIN judged \ failed)
         /\ report.unscored = Cardinality(failed)
  BY <1>2 DEF Report, asked
<1> HIDE DEF report
<1>7. \A m \in JudgedMetrics : /\ report.mean[m] = Mean(Scored(judged, m))
                               /\ report.scoredBy[m] = Len(Scored(judged, m))
  BY <1>5
<1>8. QED
  BY <1>3, <1>4, <1>5, <1>6, <1>7 DEF report, judged

(***************************************************************************)
(* The mean of a judged metric is that of the rows it was computed for,    *)
(* and is given with their number: the report of those rows alone says the *)
(* same.  If the call for all rows comes back every row with something to  *)
(* judge is scored or counted as unscored, and if not none is; no row is   *)
(* scored exactly if every metric was computed for none.  There is no rate *)
(* of wrong refusals without a row that could be refused, and a prediction *)
(* that matches nothing is not correct.  For any rows and bullets.         *)
(***************************************************************************)
THEOREM ReportsStayFair == Spec => []ReportsFair
<1>1. CasesInv => ReportsFair
  <2> SUFFICES ASSUME CasesInv PROVE ReportsFair
    OBVIOUS
  <2>1. ASSUME sample.kind = "multihop"
        PROVE  LET correct(near, bullets) == MultihopCorrect(near, bullets, 4, sample.sentences,
                                                             sample.aliases, sample.long)
               IN /\ ~ correct({}, sample.bullets)
                  /\ correct(sample.near, sample.bullets) => correct(Nodes, sample.bullets)
    <3>1. sample.near \subseteq Nodes
      BY <2>1 DEF CasesInv
    <3>2. QED
      BY <3>1 DEF MultihopCorrect
  <2>2. ASSUME sample.kind = "report"
        PROVE  LET rows   == sample.rows
                   asked  == {i \in DOMAIN rows : rows[i].text}
                   of(m)  == Select(rows, {i \in DOMAIN rows : rows[i].judged[m] # NA})
                   report == Report(rows, sample.batch, {<<1, 1>>}, 2, 1)
               IN /\ \A m \in JudgedMetrics :
                        LET alone == Report(of(m), sample.batch, {<<1, 1>>}, 2, 1)
                        IN /\ report.mean[m] = alone.mean[m] /\ InRange(report.mean[m])
                           /\ report.scoredBy[m] = alone.scoredBy[m]
                  /\ report.evaluated = IF sample.batch THEN Cardinality(asked) ELSE 0
                  /\ report.scored + report.unscored = report.evaluated
                  /\ report.scored = 0 <=> \A m \in JudgedMetrics : report.scoredBy[m] = 0
                  /\ InRange(report.recall)
                  /\ (report.refusal.lost = NA) <=> \A i \in DOMAIN rows : rows[i].label # "in_corpus"
    <3> DEFINE rows == sample.rows
               batch == sample.batch
               asked == {i \in DOMAIN rows : rows[i].text}
               of(m) == Select(rows, {i \in DOMAIN rows : rows[i].judged[m] # NA})
               report == Report(rows, batch, {<<1, 1>>}, 2, 1)
               alone(m) == Report(of(m), batch, {<<1, 1>>}, 2, 1)
               judged == Judged(rows, batch)
               failed == {i \in DOMAIN judged : \A m \in JudgedMetrics : judged[i].judged[m] = NA}
    <3>1. rows \in SeqsUpTo(Rows, MaxCount)
      BY <2>2 DEF CasesInv
    <3>2. Rows \subseteq Row
      BY ScoresAssumption DEF Row
    <3> HIDE DEF rows, batch
    <3>3. rows \in Seq(Row)
      BY <3>1, <3>2, SeqsUpToAre, ResultsAssumption
    <3>4. /\ judged \in Seq(Row)
          /\ report.evaluated = Len(judged)
          /\ \A m \in JudgedMetrics : /\ report.mean[m] = Mean(Scored(judged, m))
                                      /\ report.scoredBy[m] = Len(Scored(judged, m))
          /\ report.scored = Cardinality(DOMAIN judged \ failed)
          /\ report.unscored = Cardinality(failed)
          /\ report.refusal.lost = FalseRefusalRate(rows)
          /\ InRange(report.recall)
      BY <3>3, ReportIs
    <3>5. /\ Cardinality(DOMAIN judged \ failed) + Cardinality(failed) = Len(judged)
          /\ Cardinality(DOMAIN judged \ failed) = 0
                <=> \A m \in JudgedMetrics : Len(Scored(judged, m)) = 0
      <4> HIDE DEF judged
      <4>1. QED
        BY <3>4, JudgedCounts
    <3>6. Len(judged) = IF batch THEN Cardinality(asked) ELSE 0
      <4>1. Len(Kept(rows, HasText)) = Cardinality(asked)
        BY <3>3, TextsAre
      <4>2. Len(<<>>) = 0
        OBVIOUS
      <4>3. QED
        BY <4>1, <4>2 DEF Judged
    <3>7. ASSUME NEW m \in JudgedMetrics
          PROVE  /\ report.mean[m] = alone(m).mean[m] /\ InRange(report.mean[m])
                 /\ report.scoredBy[m] = alone(m).scoredBy[m]
      <4> DEFINE ok == Kept(rows, WasJudged(m))
                 b == Judged(ok, batch)
                 r == Report(ok, batch, {<<1, 1>>}, 2, 1)
      <4>1. of(m) = ok
        <5>1. \A i \in DOMAIN rows : rows[i] \in Row
          BY <3>3
        <5>2. \A i \in DOMAIN rows : rows[i] \in WasJudged(m) <=> rows[i].judged[m] # NA
          BY <5>1 DEF WasJudged
        <5>3. {i \in DOMAIN rows : rows[i] \in WasJudged(m)} = {i \in DOMAIN rows : rows[i].judged[m] # NA}
          BY <5>2
        <5>4. QED
          BY <5>3 DEF Kept
      <4>2. ok \in Seq(Row)
        BY <3>3, KeptIs
      <4>3. Scored(b, m) = Scored(judged, m)
        <5>1. Scored(Kept(ok, HasText), m) = Scored(Kept(rows, HasText), m)
          BY <3>3, JudgedAlone
        <5> HIDE DEF ok
        <5>2. QED
          BY <5>1 DEF Judged
      <4> HIDE DEF ok
      <4>4. r.mean[m] = Mean(Scored(b, m)) /\ r.scoredBy[m] = Len(Scored(b, m))
        <5> DEFINE none == {i \in DOMAIN b : \A n \in JudgedMetrics : b[i].judged[n] = NA}
        <5>1. /\ b \in Seq(Row)
              /\ r.evaluated = Len(b)
              /\ \A n \in JudgedMetrics : /\ r.mean[n] = Mean(Scored(b, n))
                                          /\ r.scoredBy[n] = Len(Scored(b, n))
              /\ r.scored = Cardinality(DOMAIN b \ none)
              /\ r.unscored = Cardinality(none)
              /\ r.refusal.lost = FalseRefusalRate(ok)
              /\ InRange(r.recall)
          BY <4>2, ReportIs
        <5>2. QED
          BY <5>1
      <4>5. InRange(Mean(Scored(judged, m)))
        BY <3>4, MetricIs
      <4>6. alone(m) = r
        BY <4>1
      <4> HIDE DEF r, b, alone, judged, report
      <4>7. QED
        BY <3>4, <4>3, <4>4, <4>5, <4>6
    <3>8. report.refusal.lost = NA <=> \A i \in DOMAIN rows : rows[i].label # "in_corpus"
      <4>1. FalseRefusalRate(rows) = NA <=> \A i \in DOMAIN rows : rows[i].label # "in_corpus"
        BY <3>3, RefusalsAre
      <4>2. QED
        BY <3>4, <4>1
    <3> HIDE DEF report, judged, failed, alone
    <3>9. /\ report.evaluated = IF batch THEN Cardinality(asked) ELSE 0
          /\ report.scored + report.unscored = report.evaluated
          /\ report.scored = 0 <=> \A m \in JudgedMetrics : report.scoredBy[m] = 0
      BY <3>4, <3>5, <3>6
    <3>10. QED
      BY <3>4, <3>7, <3>8, <3>9 DEF report, alone, rows, batch
  <2>3. QED
    BY <2>1, <2>2 DEF ReportsFair
<1>2. QED
  BY <1>1, CasesAlways, PTL

-----------------------------------------------------------------------------
(***************************************************************************)
(* Bags and sets of tokens: precision, recall and F1.                      *)
(***************************************************************************)

\* of a larger whole a part is no larger a share
LEMMA ShareShrinks ==
  ASSUME NEW part \in Nat, NEW a \in Nat \ {0}, NEW b \in Nat \ {0}, a <= b
  PROVE  Share(part, b) <= Share(part, a)
<1> DEFINE s == Share(part, b)
           t == Share(part, a)
           p == part * 1000
<1>1. s \in Int /\ s >= 0 /\ t \in Int
  BY ShareIs
<1>2. p \in Int /\ s = p \div b /\ t = p \div a
  BY DEF Share
<1> HIDE DEF s, t, p
<1>3. s \in Nat /\ b * s <= p
  BY <1>1, <1>2, QuotientAtLeast
<1>4. s * a <= s * b
  BY <1>3, ProductGrows
<1>5. a * s \in Int /\ b * s \in Int /\ a * s = s * a /\ b * s = s * b
  BY <1>3
<1>6. a * s <= p
  BY <1>2, <1>3, <1>4, <1>5
<1>7. s <= t
  BY <1>1, <1>2, <1>6, QuotientAtLeast
<1>8. QED
  BY <1>7 DEF s, t

\* a product grows with its first factor
LEMMA ProductsGrow ==
  ASSUME NEW a \in Nat, NEW b \in Nat, NEW c \in Nat, a <= b
  PROVE  a * c <= b * c
OBVIOUS

\* what lies between two numbers that were ordered
LEMMA HarmonicIs ==
  ASSUME NEW a \in Nat, NEW b \in Nat, a <= b, a + b # 0
  PROVE  /\ (2 * a * b) \div (a + b) \in Nat
         /\ a <= (2 * a * b) \div (a + b) /\ (2 * a * b) \div (a + b) <= b
<1> DEFINE n == a + b
           m == 2 * a * b
           ab == a * b
           aa == a * a
           bb == b * b
           q == m \div n
<1>1. /\ n \in Nat \ {0} /\ m \in Nat /\ m = 2 * ab /\ ab \in Nat /\ aa \in Nat /\ bb \in Nat
      /\ n * a = aa + ab /\ n * (b + 1) = ab + bb + a + b
  OBVIOUS
<1>2. aa <= ab /\ ab <= bb
  <2>1. b * a = a * b
    OBVIOUS
  <2>2. a * a <= b * a /\ a * b <= b * b
    BY ProductsGrow
  <2>3. QED
    BY <2>1, <2>2
<1> HIDE DEF m
<1>3. q \in Int /\ (a <= q <=> n * a <= m) /\ (b + 1 <= q <=> n * (b + 1) <= m)
  <2> HIDE DEF n
  <2>1. m \in Int /\ a \in Int /\ b + 1 \in Int
    BY <1>1
  <2>2. QED
    BY <1>1, <2>1, QuotientIs, QuotientAtLeast
<1> HIDE DEF q, ab, aa, bb
<1>4. n * a <= m /\ ~ (n * (b + 1) <= m)
  <2> HIDE DEF n
  <2>1. a + b > 0 /\ ab + bb + a + b > 2 * ab
    BY <1>1, <1>2
  <2>2. QED
    BY <1>1, <1>2, <2>1
<1>5. a <= q /\ q <= b
  BY <1>3, <1>4
<1>6. QED
  BY <1>3, <1>5 DEF q, m, n

\* F1 lies between precision and recall, rounded down
Between(x) == /\ InRange(x.precision) /\ InRange(x.recall)
              /\ x.f1 + 1 >= Min({x.precision, x.recall})
              /\ x.f1 <= Max({x.precision, x.recall})

\* the harmonic mean of two scores does
LEMMA TripleIs ==
  ASSUME NEW p \in 0 .. 1000, NEW r \in 0 .. 1000
  PROVE  /\ Between(Triple(p, r))
         /\ Triple(p, r).precision = p /\ Triple(p, r).recall = r
         /\ Triple(p, r).f1 = Triple(r, p).f1
<1> DEFINE F(a, b) == IF a + b = 0 THEN 0 ELSE (2 * a * b) \div (a + b)
<1>1. p \in Nat /\ r \in Nat
  OBVIOUS
<1>2. F(p, r) = F(r, p)
  <2>1. p + r = r + p /\ 2 * p * r = 2 * r * p
    OBVIOUS
  <2>2. QED
    BY <2>1
<1>3. /\ Triple(p, r).precision = p /\ Triple(p, r).recall = r /\ Triple(p, r).f1 = F(p, r)
      /\ Triple(r, p).f1 = F(r, p)
  BY DEF Triple
<1>4. ASSUME NEW a \in 0 .. 1000, NEW b \in 0 .. 1000, a <= b
      PROVE  F(a, b) \in Nat /\ a <= F(a, b) /\ F(a, b) <= b
  <2>1. CASE a + b = 0
    <3>1. F(a, b) = 0
      BY <2>1
    <3>2. a = 0 /\ b = 0
      BY <2>1, <1>4
    <3> HIDE DEF F
    <3>3. QED
      BY <3>1, <3>2
  <2>2. CASE a + b # 0
    <3>1. F(a, b) = (2 * a * b) \div (a + b)
      BY <2>2
    <3>2. a \in Nat /\ b \in Nat
      OBVIOUS
    <3> HIDE DEF F
    <3>3. QED
      BY <2>2, <3>1, <3>2, <1>4, HarmonicIs
  <2>3. QED
    BY <2>1, <2>2
<1> HIDE DEF F
<1>5. /\ Max({p, r}) = IF p >= r THEN p ELSE r
      /\ Min({p, r}) = IF p <= r THEN p ELSE r
  <2>1. p \in Int /\ r \in Int
    OBVIOUS
  <2>2. QED
    BY <2>1, OfTwo
<1> DEFINE f == F(p, r)
<1>6. f \in Nat /\ f >= Min({p, r}) /\ f <= Max({p, r})
  <2>1. CASE p <= r
    <3>1. f \in Nat /\ p <= f /\ f <= r
      BY <2>1, <1>4, ZenonT(60)
    <3>2. Min({p, r}) = p /\ Max({p, r}) = r
      BY <2>1, <1>1, <1>5
    <3>3. QED
      BY <3>1, <3>2
  <2>2. CASE ~ (p <= r)
    <3>1. r <= p
      BY <2>2
    <3>2. F(r, p) \in Nat /\ r <= F(r, p) /\ F(r, p) <= p
      BY <3>1, <1>4, ZenonT(60)
    <3>3. Min({p, r}) = r /\ Max({p, r}) = p
      BY <2>2, <3>1, <1>1, <1>5
    <3>4. QED
      BY <3>2, <3>3, <1>2
  <2>3. QED
    BY <2>1, <2>2
<1>7. Min({p, r}) \in Nat
  BY <1>1, <1>5
<1>8. f + 1 >= Min({p, r})
  <2> HIDE DEF f
  <2>1. QED
    BY <1>6, <1>7
<1>9. Between(Triple(p, r))
  BY <1>3, <1>6, <1>8 DEF Between, InRange
<1>10. QED
  BY <1>2, <1>3, <1>9

\* and the scores of equal and of wholly different bags do
LEMMA ExtremesAre == Between(Same) /\ Between(Different)
<1>1. Min({1000, 1000}) = 1000 /\ Max({1000, 1000}) = 1000 /\ Min({0, 0}) = 0 /\ Max({0, 0}) = 0
  BY OfTwo
<1>2. /\ Same.precision = 1000 /\ Same.recall = 1000 /\ Same.f1 = 1000
      /\ Different.precision = 0 /\ Different.recall = 0 /\ Different.f1 = 0
  BY DEF Same, Different
<1>3. QED
  BY <1>1, <1>2 DEF Between, InRange

\* a list holds finitely many different items
LEMMA RangeIsFinite ==
  ASSUME NEW V, NEW s \in Seq(V)
  PROVE  IsFiniteSet(Range(s)) /\ Cardinality(Range(s)) <= Len(s)
<1>1. Len(s) \in Nat /\ DOMAIN s = 1 .. Len(s) /\ s = [i \in 1 .. Len(s) |-> s[i]]
  OBVIOUS
<1>2. s \in Surjection(1 .. Len(s), Range(s))
  BY <1>1 DEF Surjection, Range
<1>3. IsFiniteSet(1 .. Len(s)) /\ Cardinality(1 .. Len(s)) = Len(s)
  BY <1>1, CountUpTo
<1>4. QED
  BY <1>2, <1>3, FS_Surjection

\* the places of a list that hold one of X
PlacesOf(s, X) == {i \in DOMAIN s : s[i] \in X}

\* an item is in a list some number of times
LEMMA CountIs ==
  ASSUME NEW V, NEW s \in Seq(V)
  PROVE  \A x : Count(s, x) \in Nat
<1>1. Len(s) \in Nat /\ DOMAIN s = 1 .. Len(s)
  OBVIOUS
<1>2. IsFiniteSet(DOMAIN s)
  BY <1>1, CountUpTo
<1>3. ASSUME NEW x PROVE Count(s, x) \in Nat
  <2>1. {i \in DOMAIN s : s[i] = x} \in SUBSET DOMAIN s
    OBVIOUS
  <2>2. QED
    BY <1>2, <2>1, FS_Subset, FS_CardinalityType DEF Count
<1>4. QED
  BY <1>3

\* counting each of its values counts a list
LEMMA CountsAdd ==
  ASSUME NEW V, NEW s \in Seq(V), NEW w, w = [x \in Range(s) |-> Count(s, x)]
  PROVE  w \in [Range(s) -> Nat] /\ Total(w) = Len(s)
<1> DEFINE R == Range(s)
           n == Len(s)
<1>1. n \in Nat /\ DOMAIN s = 1 .. n /\ IsFiniteSet(DOMAIN s) /\ Cardinality(DOMAIN s) = n
  <2>1. n \in Nat /\ DOMAIN s = 1 .. n
    OBVIOUS
  <2>2. QED
    BY <2>1, CountUpTo
<1>2. IsFiniteSet(R)
  BY RangeIsFinite
<1>3. w \in [R -> Nat] /\ \A x \in R : w[x] = Count(s, x)
  BY CountIs
<1> HIDE DEF R, n
<1>4. PICK a : SumsOf(a, R, w) /\ \A t \in SUBSET R : Total(Restrict(w, t)) = a[t]
  <2>1. \A x \in R : w[x] \in Nat
    BY <1>3
  <2>2. QED
    BY <1>2, <2>1, TotalOfParts, SMTT(60)
<1> DEFINE Q == {t \in SUBSET R : a[t] = Cardinality(PlacesOf(s, t))}
<1>5. {} \in Q
  <2>1. PlacesOf(s, {}) = {}
    BY DEF PlacesOf
  <2>2. a[{}] = 0
    BY <1>4 DEF SumsOf
  <2>3. QED
    BY <2>1, <2>2, FS_EmptySet
<1>6. ASSUME NEW t \in SUBSET R, NEW x \in R \ t, t \in Q PROVE t \cup {x} \in Q
  <2> DEFINE A == PlacesOf(s, t)
             B == {i \in DOMAIN s : s[i] = x}
             u == t \cup {x}
  <2>1. A \in SUBSET DOMAIN s /\ B \in SUBSET DOMAIN s
    BY DEF PlacesOf
  <2>2. IsFiniteSet(A) /\ IsFiniteSet(B)
    BY <1>1, <2>1, FS_Subset
  <2>3. PlacesOf(s, u) = A \cup B /\ A \cap B = {}
    BY <1>6 DEF PlacesOf
  <2>4. a[u] = w[x] + a[t]
    <3>1. SumsOf(a, R, w)
      BY <1>4
    <3>2. t \cup {x} \in SUBSET R /\ a[t \cup {x}] = w[x] + a[t]
      BY <3>1, <1>6, SumsTake
    <3>3. QED
      BY <3>2
  <2>5. w[x] = Cardinality(B)
    BY <1>3, <1>6 DEF Count
  <2>6. a[t] = Cardinality(A) /\ u \in SUBSET R
    BY <1>6
  <2> HIDE DEF A, B, u
  <2>7. Cardinality(A \cup B) = Cardinality(A) + Cardinality(B) - Cardinality(A \cap B)
    BY <2>2, FS_Union
  <2>8. Cardinality(A) \in Nat /\ Cardinality(B) \in Nat /\ Cardinality(A \cap B) = 0
    BY <2>2, <2>3, FS_CardinalityType, FS_EmptySet
  <2>9. a[u] = Cardinality(PlacesOf(s, u))
    BY <2>3, <2>4, <2>5, <2>6, <2>7, <2>8
  <2>10. QED
    BY <2>6, <2>9 DEF u
<1> HIDE DEF Q
<1>7. R \in Q
  BY <1>2, <1>5, <1>6, SetInd
<1>8. PlacesOf(s, R) = DOMAIN s
  BY DEF PlacesOf, R, Range
<1>9. Restrict(w, R) = w
  BY <1>3 DEF Restrict
<1>10. Total(w) = n
  BY <1>1, <1>4, <1>7, <1>8, <1>9 DEF Q
<1>11. QED
  BY <1>3, <1>10 DEF R, n

\* two bags have as much in common as the two have the other way round
LEMMA OverlapIs ==
  ASSUME NEW V, NEW p \in Seq(V), NEW g \in Seq(V)
  PROVE  /\ Overlap(p, g) \in Nat /\ Overlap(p, g) <= Len(p)
         /\ Overlap(p, g) = Overlap(g, p)
<1> DEFINE R == Range(p)
           S == Range(p) \cap Range(g)
           w == [x \in R |-> Count(p, x)]
           v == [x \in S |-> Min({Count(p, x), Count(g, x)})]
           r == Restrict(w, S)
<1>1. w \in [R -> Nat] /\ Total(w) = Len(p) /\ IsFiniteSet(R) /\ \A x \in R : w[x] = Count(p, x)
  BY CountsAdd, RangeIsFinite
<1>2. S \in SUBSET R
  OBVIOUS
<1>3. Overlap(p, g) = Total(v)
  BY DEF Overlap
<1>4. Overlap(p, g) = Overlap(g, p)
  <2>1. Range(g) \cap Range(p) = S
    OBVIOUS
  <2>2. \A x \in S : {Count(g, x), Count(p, x)} = {Count(p, x), Count(g, x)}
    OBVIOUS
  <2>3. [x \in Range(g) \cap Range(p) |-> Min({Count(g, x), Count(p, x)})] = v
    BY <2>1, <2>2
  <2>4. QED
    BY <1>3, <2>3 DEF Overlap
<1>5. v \in [S -> Nat] /\ \A x \in S : v[x] \in Nat /\ v[x] <= Count(p, x)
  <2>1. ASSUME NEW x \in S
        PROVE  Min({Count(p, x), Count(g, x)}) \in Nat /\ Min({Count(p, x), Count(g, x)}) <= Count(p, x)
    <3> DEFINE a == Count(p, x)
               b == Count(g, x)
    <3>1. a \in Nat /\ b \in Nat
      BY CountIs
    <3> HIDE DEF a, b
    <3>2. a \in Int /\ b \in Int
      BY <3>1
    <3>3. Min({a, b}) = IF a <= b THEN a ELSE b
      BY <3>2, OfTwo
    <3>4. Min({a, b}) \in Nat /\ Min({a, b}) <= a
      BY <3>1, <3>3
    <3>5. QED
      BY <3>4 DEF a, b
  <2>2. QED
    BY <2>1
<1>6. r \in [S -> Nat] /\ \A x \in S : r[x] = Count(p, x)
  <2>1. r = [x \in S |-> w[x]]
    BY DEF Restrict
  <2> HIDE DEF w, r, R, S
  <2>2. QED
    BY <1>1, <1>2, <2>1
<1>7. IsFiniteSet(S)
  BY <1>1, <1>2, FS_Subset
<1> HIDE DEF S, R, w, v, r
<1>8. Total(v) <= Total(r)
  <2>1. \A x \in S : v[x] <= r[x]
    BY <1>5, <1>6
  <2>2. QED
    BY <1>5, <1>6, <1>7, <2>1, TotalGrows
<1>9. Total(r) \in Nat /\ Total(r) <= Total(w)
  <2>1. Total(Restrict(w, S)) \in Nat /\ Total(Restrict(w, S)) <= Total(w)
    BY <1>1, <1>2, TotalOfSome
  <2>2. QED
    BY <2>1 DEF r
<1>10. Total(v) \in Nat
  BY <1>5, <1>7, TotalTakes
<1>11. Len(p) \in Nat
  OBVIOUS
<1>12. QED
  BY <1>1, <1>3, <1>4, <1>8, <1>9, <1>10, <1>11

\* the scores of two bags, and of the two exchanged
LEMMA BagIs ==
  ASSUME NEW predicted \in Seq(Nat), NEW gold \in Seq(Nat)
  PROVE  LET a == BagF1(predicted, gold)
             b == BagF1(gold, predicted)
         IN Between(a) /\ a.f1 = b.f1 /\ a.precision = b.recall
<1> DEFINE p == Present(predicted)
           g == Present(gold)
           x == Share(Overlap(p, g), Len(p))
           y == Share(Overlap(p, g), Len(g))
           a == BagF1(predicted, gold)
           b == BagF1(gold, predicted)
<1>1. p \in Seq(Nat \ {0}) /\ g \in Seq(Nat \ {0})
  BY PresentIs
<1>2. a = IF p = <<>> /\ g = <<>> THEN Same
          ELSE IF p = <<>> \/ g = <<>> THEN Different ELSE Triple(x, y)
  BY DEF BagF1
<1>3. b = IF g = <<>> /\ p = <<>> THEN Same
          ELSE IF g = <<>> \/ p = <<>> THEN Different
          ELSE Triple(Share(Overlap(g, p), Len(g)), Share(Overlap(g, p), Len(p)))
  BY DEF BagF1
<1> HIDE DEF p, g, a, b
<1>4. /\ Overlap(p, g) \in Nat /\ Overlap(p, g) <= Len(p) /\ Overlap(p, g) <= Len(g)
      /\ Overlap(p, g) = Overlap(g, p)
  <2>1. Overlap(p, g) \in Nat /\ Overlap(p, g) <= Len(p) /\ Overlap(p, g) = Overlap(g, p)
    BY <1>1, OverlapIs
  <2>2. Overlap(g, p) <= Len(g)
    BY <1>1, OverlapIs
  <2>3. QED
    BY <2>1, <2>2
<1>5. CASE p = <<>> \/ g = <<>>
  <2>1. a = b /\ a \in {Same, Different}
    BY <1>2, <1>3, <1>5
  <2>2. Same.precision = Same.recall /\ Different.precision = Different.recall
    BY DEF Same, Different
  <2>3. QED
    BY <2>1, <2>2, ExtremesAre DEF a, b
<1>6. CASE p # <<>> /\ g # <<>>
  <2>1. Len(p) \in Nat \ {0} /\ Len(g) \in Nat \ {0}
    BY <1>1, <1>6
  <2>2. x \in 0 .. 1000 /\ y \in 0 .. 1000
    BY <1>4, <2>1, ShareInRange, ZenonT(60) DEF InRange
  <2>3. a = Triple(x, y) /\ b = Triple(y, x)
    BY <1>2, <1>3, <1>4, <1>6
  <2> HIDE DEF x, y
  <2>4. /\ Between(Triple(x, y))
        /\ Triple(x, y).precision = x /\ Triple(x, y).recall = y
        /\ Triple(x, y).f1 = Triple(y, x).f1
    BY <2>2, TripleIs, ZenonT(60)
  <2>5. /\ Between(Triple(y, x))
        /\ Triple(y, x).precision = y /\ Triple(y, x).recall = x
        /\ Triple(y, x).f1 = Triple(x, y).f1
    BY <2>2, TripleIs, ZenonT(60)
  <2>6. QED
    BY <2>3, <2>4, <2>5 DEF a, b
<1>7. QED
  BY <1>5, <1>6

\* what two sets have in common is a part of each, and each of both
LEMMA SharesOfSets ==
  ASSUME NEW p, NEW g, IsFiniteSet(p), IsFiniteSet(g), p # {}
  PROVE  /\ Cardinality(p \cap g) \in Nat /\ Cardinality(p) \in Nat \ {0}
         /\ Cardinality(p \cap g) <= Cardinality(p)
         /\ Cardinality(p \cup g) \in Nat \ {0} /\ Cardinality(p) <= Cardinality(p \cup g)
<1>1. IsFiniteSet(p \cup g)
  BY FS_Union
<1>2. p \in SUBSET (p \cup g) /\ (p \cap g) \in SUBSET p /\ (p \cup g) # {}
  OBVIOUS
<1>3. IsFiniteSet(p \cap g) /\ Cardinality(p \cap g) <= Cardinality(p)
  BY <1>2, FS_Subset
<1>4. Cardinality(p) <= Cardinality(p \cup g)
  BY <1>1, <1>2, FS_Subset
<1>5. /\ Cardinality(p \cap g) \in Nat /\ Cardinality(p) \in Nat /\ Cardinality(p \cup g) \in Nat
      /\ Cardinality(p) # 0
  BY <1>1, <1>3, FS_CardinalityType, FS_EmptySet
<1>6. QED
  BY <1>3, <1>4, <1>5

\* of two sets
SetTriple(p, g) ==
    IF p = {} /\ g = {} THEN Same
    ELSE IF p = {} \/ g = {} THEN Different
    ELSE Triple(Share(Cardinality(p \cap g), Cardinality(p)),
                Share(Cardinality(p \cap g), Cardinality(g)))

\* the Jaccard score of two sets
SetScore(p, g) ==
    IF p = {} /\ g = {} THEN 1000 ELSE Share(Cardinality(p \cap g), Cardinality(p \cup g))

\* the scores of two sets
LEMMA SetsCompare ==
  ASSUME NEW p, NEW g, IsFiniteSet(p), IsFiniteSet(g)
  PROVE  LET t == SetTriple(p, g)
         IN Between(t) /\ SetScore(p, g) <= Min({t.precision, t.recall})
<1> DEFINE t == SetTriple(p, g)
           c == Cardinality(p \cap g)
           all == Cardinality(p \cup g)
           x == Share(c, Cardinality(p))
           y == Share(c, Cardinality(g))
<1>1. CASE p = {} /\ g = {}
  <2>1. t = Same /\ SetScore(p, g) = 1000
    BY <1>1 DEF SetTriple, SetScore
  <2>2. Same.precision = 1000 /\ Same.recall = 1000
    BY DEF Same
  <2>3. Min({1000, 1000}) = 1000
    BY OfTwo
  <2> HIDE DEF t
  <2>4. QED
    BY <2>1, <2>2, <2>3, ExtremesAre DEF t
<1>2. CASE ~ (p = {} /\ g = {}) /\ (p = {} \/ g = {})
  <2>1. t = Different
    BY <1>2 DEF SetTriple
  <2>2. SetScore(p, g) = Share(c, all)
    BY <1>2 DEF SetScore
  <2>3. c = 0
    <3>1. p \cap g = {}
      BY <1>2
    <3>2. QED
      BY <3>1, FS_EmptySet
  <2>4. all \in Nat \ {0}
    <3>1. CASE p # {}
      BY <3>1, SharesOfSets
    <3>2. CASE g # {}
      <4>1. Cardinality(g \cup p) \in Nat \ {0}
        BY <3>2, SharesOfSets
      <4>2. g \cup p = p \cup g
        OBVIOUS
      <4>3. QED
        BY <4>1, <4>2
    <3>3. QED
      BY <3>1, <3>2, <1>2
  <2>5. Share(c, all) = 0
    <3> HIDE DEF c, all
    <3>1. c \in Int
      BY <2>3
    <3>2. QED
      BY <2>3, <2>4, <3>1, ShareIs
  <2>6. Different.precision = 0 /\ Different.recall = 0
    BY DEF Different
  <2>7. Min({0, 0}) = 0
    BY OfTwo
  <2> HIDE DEF t
  <2>8. QED
    BY <2>1, <2>2, <2>5, <2>6, <2>7, ExtremesAre DEF t
<1>3. CASE p # {} /\ g # {}
  <2>1. t = Triple(x, y) /\ SetScore(p, g) = Share(c, all)
    BY <1>3 DEF SetTriple, SetScore
  <2> DEFINE m == Cardinality(p)
             n == Cardinality(g)
  <2>2. c \in Nat /\ m \in Nat \ {0} /\ c <= m /\ all \in Nat \ {0} /\ m <= all
    BY <1>3, SharesOfSets
  <2>3. n \in Nat \ {0} /\ c <= n /\ n <= all
    <3>1. /\ Cardinality(g) \in Nat \ {0}
          /\ Cardinality(g \cap p) <= Cardinality(g)
          /\ Cardinality(g) <= Cardinality(g \cup p)
      BY <1>3, SharesOfSets
    <3>2. g \cap p = p \cap g /\ g \cup p = p \cup g
      OBVIOUS
    <3>3. QED
      BY <3>1, <3>2
  <2>4. x = Share(c, m) /\ y = Share(c, n)
    OBVIOUS
  <2> HIDE DEF c, all, m, n, x, y, t
  <2>5. x \in 0 .. 1000 /\ y \in 0 .. 1000
    BY <2>2, <2>3, <2>4, ShareInRange, ZenonT(60) DEF InRange
  <2>6. Between(Triple(x, y)) /\ Triple(x, y).precision = x /\ Triple(x, y).recall = y
    <3>1. /\ Between(Triple(x, y))
          /\ Triple(x, y).precision = x /\ Triple(x, y).recall = y
          /\ Triple(x, y).f1 = Triple(y, x).f1
      BY <2>5, TripleIs, ZenonT(60)
    <3>2. QED
      BY <3>1
  <2>7. Share(c, all) <= x /\ Share(c, all) <= y
    BY <2>2, <2>3, <2>4, ShareShrinks
  <2>8. Min({x, y}) \in {x, y}
    <3>1. x \in Int /\ y \in Int
      BY <2>5
    <3>2. Min({x, y}) = IF x <= y THEN x ELSE y
      BY <3>1, OfTwo
    <3>3. QED
      BY <3>2
  <2>9. QED
    BY <2>1, <2>6, <2>7, <2>8 DEF t
<1>4. QED
  BY <1>1, <1>2, <1>3

(***************************************************************************)
(* Precision, recall and F1 of bags and sets are between 0 and 1, F1       *)
(* between the other two; exchanging prediction and reference exchanges    *)
(* precision and recall and leaves F1, and the Jaccard score is no better  *)
(* than either, for lists of every length.                                 *)
(***************************************************************************)
THEOREM BagsStayComparable == Spec => []BagsComparable
<1>1. CasesInv => BagsComparable
  <2> SUFFICES ASSUME CasesInv, sample.kind = "bags" PROVE BagsComparable
    BY DEF BagsComparable
  <2> DEFINE pred == sample.predicted
             gold == sample.gold
             a == BagF1(pred, gold)
             b == BagF1(gold, pred)
             t == TokenF1(pred, gold)
             p == Range(Present(pred))
             g == Range(Present(gold))
  <2>1. pred \in Seq(Nat) /\ gold \in Seq(Nat)
    BY ScoresAssumption DEF CasesInv
  <2> HIDE DEF pred, gold
  <2>2. Between(a) /\ a.f1 = b.f1 /\ a.precision = b.recall
    BY <2>1, BagIs
  <2>3. IsFiniteSet(p) /\ IsFiniteSet(g)
    <3>1. Present(pred) \in Seq(Nat \ {0}) /\ Present(gold) \in Seq(Nat \ {0})
      BY <2>1, PresentIs
    <3>2. QED
      BY <3>1, RangeIsFinite
  <2>4. t = SetTriple(p, g) /\ SetJaccard(pred, gold) = SetScore(p, g)
    BY DEF TokenF1, SetTriple, SetJaccard, SetScore
  <2> HIDE DEF p, g, a, b, t
  <2>5. Between(t) /\ SetJaccard(pred, gold) <= Min({t.precision, t.recall})
    <3>1. LET u == SetTriple(p, g)
          IN Between(u) /\ SetScore(p, g) <= Min({u.precision, u.recall})
      BY <2>3, SetsCompare
    <3>2. QED
      BY <3>1, <2>4
  <2>6. QED
    BY <2>2, <2>5 DEF BagsComparable, Between, a, b, t, pred, gold
<1>2. QED
  BY <1>1, CasesAlways, PTL

-----------------------------------------------------------------------------
(***************************************************************************)
(* Rankings: what is gained by hits at the first places.                   *)
(***************************************************************************)

\* the places of the first results
Places == 1 .. MaxK

\* what w gives for place i of s, and for all places
At(w, s, i) == IF i \in s THEN w[i] ELSE 0

OfAll(w, s) ==
    At(w, s, 1) + At(w, s, 2) + At(w, s, 3) + At(w, s, 4) + At(w, s, 5)
    + At(w, s, 6) + At(w, s, 7) + At(w, s, 8) + At(w, s, 9) + At(w, s, 10)

\* of which there are ten
LEMMA PlacesAre == Places = 1 .. 10 /\ MaxK = 10
  BY DEF Places, MaxK

\* a value of sets that grows with each place by what w gives for it
LEMMA ByPlaces ==
  ASSUME NEW w, NEW f, f[{}] = 0,
         \A i \in Places : w[i] \in Nat,
         \A t \in SUBSET Places : f[t] \in Nat,
         \A t \in SUBSET Places : \A i \in t : f[t] = w[i] + f[t \ {i}],
         NEW s \in SUBSET Places
  PROVE  f[s] = OfAll(w, s)
<1> DEFINE P(j) == s \cap (1 .. j)
           v(j) == f[P(j)]
           a(i) == At(w, s, i)
<1>1. ASSUME NEW j \in 1 .. 10
      PROVE  v(j) = a(j) + v(j - 1)
  <2>1. P(j) \in SUBSET Places /\ P(j - 1) \in SUBSET Places
    OBVIOUS
  <2>2. f[P(j)] \in Nat /\ f[P(j - 1)] \in Nat
    BY <2>1
  <2>3. CASE j \in s
    <3>1. j \in P(j) /\ P(j) \ {j} = P(j - 1)
      BY <2>3
    <3>2. f[P(j)] = w[j] + f[P(j) \ {j}]
      BY <2>1, <3>1
    <3>3. QED
      BY <2>3, <3>1, <3>2 DEF At
  <2>4. CASE j \notin s
    <3>1. P(j) = P(j - 1) /\ a(j) = 0
      BY <2>4 DEF At
    <3> DEFINE x == f[P(j - 1)]
    <3>2. v(j) = x /\ v(j - 1) = x /\ x \in Nat
      BY <2>2, <3>1
    <3> HIDE DEF x, v, a
    <3>3. QED
      BY <3>1, <3>2
  <2>5. QED
    BY <2>3, <2>4
<1>2. v(0) = 0
  <2>1. P(0) = {}
    OBVIOUS
  <2>2. QED
    BY <2>1
<1>3. f[s] = v(10)
  <2>1. P(10) = s
    BY PlacesAre
  <2>2. QED
    BY <2>1
<1>4. \A i \in 1 .. 10 : a(i) \in Nat
  BY PlacesAre DEF At
<1> HIDE DEF v, a
<1>5. v(1) = a(1) + v(0) /\ a(1) \in Nat
  <2>1. 1 \in 1 .. 10 /\ 1 - 1 = 0
    OBVIOUS
  <2>2. v(1) = a(1) + v(1 - 1)
    BY <2>1, <1>1
  <2>3. QED
    BY <2>1, <2>2, <1>4
<1>6. v(2) = a(2) + v(1) /\ a(2) \in Nat
  <2>1. 2 \in 1 .. 10 /\ 2 - 1 = 1
    OBVIOUS
  <2>2. v(2) = a(2) + v(2 - 1)
    BY <2>1, <1>1
  <2>3. QED
    BY <2>1, <2>2, <1>4
<1>7. v(3) = a(3) + v(2) /\ a(3) \in Nat
  <2>1. 3 \in 1 .. 10 /\ 3 - 1 = 2
    OBVIOUS
  <2>2. v(3) = a(3) + v(3 - 1)
    BY <2>1, <1>1
  <2>3. QED
    BY <2>1, <2>2, <1>4
<1>8. v(4) = a(4) + v(3) /\ a(4) \in Nat
  <2>1. 4 \in 1 .. 10 /\ 4 - 1 = 3
    OBVIOUS
  <2>2. v(4) = a(4) + v(4 - 1)
    BY <2>1, <1>1
  <2>3. QED
    BY <2>1, <2>2, <1>4
<1>9. v(5) = a(5) + v(4) /\ a(5) \in Nat
  <2>1. 5 \in 1 .. 10 /\ 5 - 1 = 4
    OBVIOUS
  <2>2. v(5) = a(5) + v(5 - 1)
    BY <2>1, <1>1
  <2>3. QED
    BY <2>1, <2>2, <1>4
<1>10. v(6) = a(6) + v(5) /\ a(6) \in Nat
  <2>1. 6 \in 1 .. 10 /\ 6 - 1 = 5
    OBVIOUS
  <2>2. v(6) = a(6) + v(6 - 1)
    BY <2>1, <1>1
  <2>3. QED
    BY <2>1, <2>2, <1>4
<1>11. v(7) = a(7) + v(6) /\ a(7) \in Nat
  <2>1. 7 \in 1 .. 10 /\ 7 - 1 = 6
    OBVIOUS
  <2>2. v(7) = a(7) + v(7 - 1)
    BY <2>1, <1>1
  <2>3. QED
    BY <2>1, <2>2, <1>4
<1>12. v(8) = a(8) + v(7) /\ a(8) \in Nat
  <2>1. 8 \in 1 .. 10 /\ 8 - 1 = 7
    OBVIOUS
  <2>2. v(8) = a(8) + v(8 - 1)
    BY <2>1, <1>1
  <2>3. QED
    BY <2>1, <2>2, <1>4
<1>13. v(9) = a(9) + v(8) /\ a(9) \in Nat
  <2>1. 9 \in 1 .. 10 /\ 9 - 1 = 8
    OBVIOUS
  <2>2. v(9) = a(9) + v(9 - 1)
    BY <2>1, <1>1
  <2>3. QED
    BY <2>1, <2>2, <1>4
<1>14. v(10) = a(10) + v(9) /\ a(10) \in Nat
  <2>1. 10 \in 1 .. 10 /\ 10 - 1 = 9
    OBVIOUS
  <2>2. v(10) = a(10) + v(10 - 1)
    BY <2>1, <1>1
  <2>3. QED
    BY <2>1, <2>2, <1>4
<1>15. v(10) = a(1) + a(2) + a(3) + a(4) + a(5)
              + a(6) + a(7) + a(8) + a(9) + a(10)
  BY <1>2, <1>5, <1>6, <1>7, <1>8, <1>9, <1>10, <1>11, <1>12, <1>13, <1>14
<1>16. QED
  BY <1>3, <1>15 DEF OfAll, a

\* as many places as ones
LEMMA NumberIs ==
  ASSUME NEW s \in SUBSET Places
  PROVE  Cardinality(s) = OfAll([i \in Places |-> 1], s)
<1> DEFINE w == [i \in Places |-> 1]
           f == [t \in SUBSET Places |-> Cardinality(t)]
<1>1. \A t \in SUBSET Places : IsFiniteSet(t) /\ Cardinality(t) \in Nat
  <2>1. IsFiniteSet(Places)
    BY PlacesAre, CountUpTo
  <2>2. QED
    BY <2>1, FS_Subset, FS_CardinalityType
<1>2. f[{}] = 0
  BY FS_EmptySet
<1>3. \A i \in Places : w[i] \in Nat
  OBVIOUS
<1>4. \A t \in SUBSET Places : f[t] \in Nat
  BY <1>1
<1>5. ASSUME NEW t \in SUBSET Places, NEW i \in t
      PROVE  f[t] = w[i] + f[t \ {i}]
  <2>1. Cardinality(t \ {i}) = Cardinality(t) - 1 /\ Cardinality(t) \in Nat
    BY <1>1, FS_RemoveElement
  <2>2. f[t] = Cardinality(t) /\ f[t \ {i}] = Cardinality(t \ {i}) /\ w[i] = 1
    OBVIOUS
  <2>3. QED
    BY <2>1, <2>2
<1> HIDE DEF f, w
<1>6. f[s] = OfAll(w, s)
  BY <1>2, <1>3, <1>4, <1>5, ByPlaces
<1>7. QED
  BY <1>6 DEF f, w

\* and they gain what each of them does
LEMMA GainIs ==
  ASSUME NEW s \in SUBSET Places
  PROVE  Gain(s) = OfAll(Discount, s)
<1> DEFINE w == Discount
<1>1. \A i \in Places : w[i] \in Nat
  BY PlacesAre DEF Discount
<1>2. Restrict(w, s) = [i \in s |-> Discount[i]]
  BY DEF Restrict
<1>3. IsFiniteSet(Places)
  BY PlacesAre, CountUpTo
<1>4. Gain(s) = Total(Restrict(w, s))
  BY <1>2 DEF Gain
<1> HIDE DEF w
<1>5. PICK sums : SumsOf(sums, Places, w) /\ \A t \in SUBSET Places : Total(Restrict(w, t)) = sums[t]
  BY <1>1, <1>3, TotalOfParts
<1>6. /\ sums[{}] = 0
      /\ \A t \in SUBSET Places : sums[t] \in Nat
      /\ \A t \in SUBSET Places : \A i \in t : sums[t] = w[i] + sums[t \ {i}]
  BY <1>5 DEF SumsOf
<1>7. sums[s] = OfAll(w, s)
  BY <1>1, <1>6, ByPlaces
<1>8. QED
  BY <1>4, <1>5, <1>7 DEF w

\* ten numbers, 0 or 1: what they gain, how many are 1, and what the first b gain
Gained(x) ==
    1000 * x[1] + 631 * x[2] + 500 * x[3] + 431 * x[4] + 387 * x[5]
    + 356 * x[6] + 333 * x[7] + 315 * x[8] + 301 * x[9] + 289 * x[10]

OnesIn(x) == x[1] + x[2] + x[3] + x[4] + x[5] + x[6] + x[7] + x[8] + x[9] + x[10]

BestOf(b) ==
    (IF 1 <= b THEN 1000 ELSE 0) + (IF 2 <= b THEN 631 ELSE 0) + (IF 3 <= b THEN 500 ELSE 0)
    + (IF 4 <= b THEN 431 ELSE 0) + (IF 5 <= b THEN 387 ELSE 0) + (IF 6 <= b THEN 356 ELSE 0)
    + (IF 7 <= b THEN 333 ELSE 0) + (IF 8 <= b THEN 315 ELSE 0) + (IF 9 <= b THEN 301 ELSE 0)
    + (IF 10 <= b THEN 289 ELSE 0)

FirstHeld(x, b) ==
    /\ (b >= 1 => x[1] = 1) /\ (b >= 2 => x[2] = 1) /\ (b >= 3 => x[3] = 1)
    /\ (b >= 4 => x[4] = 1) /\ (b >= 5 => x[5] = 1) /\ (b >= 6 => x[6] = 1)
    /\ (b >= 7 => x[7] = 1) /\ (b >= 8 => x[8] = 1) /\ (b >= 9 => x[9] = 1)
    /\ (b >= 10 => x[10] = 1)

\* at most b of ten places gain no more than the first b do
FirstsTell(x, b) ==
    /\ Gained(x) \in Nat /\ OnesIn(x) \in Nat /\ (Gained(x) = 0 <=> OnesIn(x) = 0) /\ (OnesIn(x) # 0 => Gained(x) >= 289)
    /\ BestOf(b) \in 1000 .. 4543
    /\ OnesIn(x) <= b => Gained(x) <= BestOf(b)
    /\ OnesIn(x) <= b => (Gained(x) >= BestOf(b) <=> FirstHeld(x, b))

\* which is so for any ten places
LEMMA FirstPlaces ==
  ASSUME NEW x \in [1 .. 10 -> 0 .. 1], NEW b \in 1 .. 10
  PROVE  FirstsTell(x, b)
<1> DEFINE sum == 1000 * x[1] + 631 * x[2] + 500 * x[3] + 431 * x[4] + 387 * x[5]
                   + 356 * x[6] + 333 * x[7] + 315 * x[8] + 301 * x[9] + 289 * x[10]
           held == x[1] + x[2] + x[3] + x[4] + x[5] + x[6] + x[7] + x[8] + x[9] + x[10]
<1>0. /\ x[1] \in 0 .. 1 /\ x[2] \in 0 .. 1 /\ x[3] \in 0 .. 1 /\ x[4] \in 0 .. 1 /\ x[5] \in 0 .. 1
      /\ x[6] \in 0 .. 1 /\ x[7] \in 0 .. 1 /\ x[8] \in 0 .. 1 /\ x[9] \in 0 .. 1 /\ x[10] \in 0 .. 1
  OBVIOUS
<1>1. /\ sum \in Nat /\ held \in Nat /\ (sum = 0 <=> held = 0) /\ (held # 0 => sum >= 289)
  <2>1. sum \in Nat /\ (sum = 0 <=> held = 0) /\ (held # 0 => sum >= 289)
    BY <1>0
  <2>2. held \in Nat
    BY <1>0
  <2>3. QED
    BY <2>1, <2>2
<1>2. held <= 1 => /\ sum <= 1000
                   /\ sum >= 1000 <=> x[1] = 1
  BY <1>0
<1>3. held <= 2 => /\ sum <= 1631
                   /\ sum >= 1631 <=> x[1] = 1 /\ x[2] = 1
  BY <1>0
<1>4. held <= 3 => /\ sum <= 2131
                   /\ sum >= 2131 <=> x[1] = 1 /\ x[2] = 1 /\ x[3] = 1
  BY <1>0
<1>5. held <= 4 => /\ sum <= 2562
                   /\ sum >= 2562 <=> x[1] = 1 /\ x[2] = 1 /\ x[3] = 1 /\ x[4] = 1
  BY <1>0
<1>6. held <= 5 => /\ sum <= 2949
                   /\ sum >= 2949 <=> x[1] = 1 /\ x[2] = 1 /\ x[3] = 1 /\ x[4] = 1 /\ x[5] = 1
  BY <1>0
<1>7. held <= 6 => /\ sum <= 3305
                   /\ sum >= 3305 <=> x[1] = 1 /\ x[2] = 1 /\ x[3] = 1 /\ x[4] = 1 /\ x[5] = 1
                                          /\ x[6] = 1
  BY <1>0
<1>8. held <= 7 => /\ sum <= 3638
                   /\ sum >= 3638 <=> x[1] = 1 /\ x[2] = 1 /\ x[3] = 1 /\ x[4] = 1 /\ x[5] = 1
                                          /\ x[6] = 1 /\ x[7] = 1
  BY <1>0
<1>9. held <= 8 => /\ sum <= 3953
                   /\ sum >= 3953 <=> x[1] = 1 /\ x[2] = 1 /\ x[3] = 1 /\ x[4] = 1 /\ x[5] = 1
                                          /\ x[6] = 1 /\ x[7] = 1 /\ x[8] = 1
  BY <1>0
<1>10. held <= 9 => /\ sum <= 4254
                    /\ sum >= 4254 <=> x[1] = 1 /\ x[2] = 1 /\ x[3] = 1 /\ x[4] = 1 /\ x[5] = 1
                                          /\ x[6] = 1 /\ x[7] = 1 /\ x[8] = 1 /\ x[9] = 1
  BY <1>0
<1>11. held <= 10 => /\ sum <= 4543
                     /\ sum >= 4543 <=> x[1] = 1 /\ x[2] = 1 /\ x[3] = 1 /\ x[4] = 1 /\ x[5] = 1
                                          /\ x[6] = 1 /\ x[7] = 1 /\ x[8] = 1 /\ x[9] = 1 /\ x[10] = 1
  BY <1>0
<1> HIDE DEF sum, held
<1>12. CASE b = 1
  BY <1>0, <1>1, <1>2, <1>12 DEF sum, held, Gained, OnesIn, BestOf, FirstHeld, FirstsTell
<1>13. CASE b = 2
  BY <1>0, <1>1, <1>3, <1>13 DEF sum, held, Gained, OnesIn, BestOf, FirstHeld, FirstsTell
<1>14. CASE b = 3
  BY <1>0, <1>1, <1>4, <1>14 DEF sum, held, Gained, OnesIn, BestOf, FirstHeld, FirstsTell
<1>15. CASE b = 4
  BY <1>0, <1>1, <1>5, <1>15 DEF sum, held, Gained, OnesIn, BestOf, FirstHeld, FirstsTell
<1>16. CASE b = 5
  BY <1>0, <1>1, <1>6, <1>16 DEF sum, held, Gained, OnesIn, BestOf, FirstHeld, FirstsTell
<1>17. CASE b = 6
  BY <1>0, <1>1, <1>7, <1>17 DEF sum, held, Gained, OnesIn, BestOf, FirstHeld, FirstsTell
<1>18. CASE b = 7
  BY <1>0, <1>1, <1>8, <1>18 DEF sum, held, Gained, OnesIn, BestOf, FirstHeld, FirstsTell
<1>19. CASE b = 8
  BY <1>0, <1>1, <1>9, <1>19 DEF sum, held, Gained, OnesIn, BestOf, FirstHeld, FirstsTell
<1>20. CASE b = 9
  BY <1>0, <1>1, <1>10, <1>20 DEF sum, held, Gained, OnesIn, BestOf, FirstHeld, FirstsTell
<1>21. CASE b = 10
  BY <1>0, <1>1, <1>11, <1>21 DEF sum, held, Gained, OnesIn, BestOf, FirstHeld, FirstsTell
<1>22. b = 1 \/ b = 2 \/ b = 3 \/ b = 4 \/ b = 5 \/ b = 6 \/ b = 7 \/ b = 8 \/ b = 9 \/ b = 10
  OBVIOUS
<1>23. QED
  BY <1>12, <1>13, <1>14, <1>15, <1>16, <1>17, <1>18, <1>19, <1>20, <1>21, <1>22

\* what is gained by places, of b that could be
GainsUpTo(s, b) ==
    /\ Gain(s) \in Nat /\ IdealGain(b) \in 1000 .. 4543
    /\ Gain(s) = 0 <=> s = {}
    /\ s # {} => Gain(s) >= 289
    /\ Cardinality(s) <= b => /\ Gain(s) <= IdealGain(b)
                              /\ Gain(s) >= IdealGain(b) <=> 1 .. b \subseteq s

\* no places gain more than the first ones do
LEMMA IdealGains ==
  ASSUME NEW s \in SUBSET Places, NEW b \in 1 .. 10
  PROVE  GainsUpTo(s, b)
<1> DEFINE x == [i \in 1 .. 10 |-> IF i \in s THEN 1 ELSE 0]
<1>1. x \in [1 .. 10 -> 0 .. 1] /\ \A i \in 1 .. 10 : x[i] = IF i \in s THEN 1 ELSE 0
  OBVIOUS
<1> HIDE DEF x
<1>2. /\ Gained(x) \in Nat /\ OnesIn(x) \in Nat /\ (Gained(x) = 0 <=> OnesIn(x) = 0) /\ (OnesIn(x) # 0 => Gained(x) >= 289)
      /\ BestOf(b) \in 1000 .. 4543
      /\ OnesIn(x) <= b => Gained(x) <= BestOf(b)
      /\ OnesIn(x) <= b => (Gained(x) >= BestOf(b) <=> FirstHeld(x, b))
  <2>1. FirstsTell(x, b)
    BY <1>1, FirstPlaces
  <2>2. QED
    BY <2>1 DEF FirstsTell
<1>3. 1 .. b \subseteq s <=> FirstHeld(x, b)
  <2>1. FirstHeld(x, b) <=> \A i \in 1 .. 10 : b >= i => i \in s
    BY <1>1 DEF FirstHeld
  <2>2. QED
    BY <2>1
<1>4. /\ Discount[1] = 1000 /\ Discount[2] = 631 /\ Discount[3] = 500 /\ Discount[4] = 431
      /\ Discount[5] = 387 /\ Discount[6] = 356 /\ Discount[7] = 333 /\ Discount[8] = 315
      /\ Discount[9] = 301 /\ Discount[10] = 289
  BY DEF Discount
<1>5. Gain(s) = Gained(x)
  <2>1. Gain(s) = OfAll(Discount, s)
    BY GainIs
  <2>2. QED
    BY <2>1, <1>1, <1>4 DEF OfAll, At, Gained
<1>6. Cardinality(s) = OnesIn(x)
  <2> DEFINE w == [i \in Places |-> 1]
  <2>1. Cardinality(s) = OfAll(w, s)
    BY NumberIs
  <2>2. /\ w[1] = 1 /\ w[2] = 1 /\ w[3] = 1 /\ w[4] = 1 /\ w[5] = 1
        /\ w[6] = 1 /\ w[7] = 1 /\ w[8] = 1 /\ w[9] = 1 /\ w[10] = 1
    BY PlacesAre
  <2> HIDE DEF w
  <2>3. QED
    BY <2>1, <2>2, <1>1 DEF OfAll, At, OnesIn
<1>7. IdealGain(b) = BestOf(b)
  <2>1. 1 .. b \in SUBSET Places
    BY PlacesAre
  <2>2. Gain(1 .. b) = OfAll(Discount, 1 .. b)
    BY <2>1, GainIs
  <2>3. \A i \in 1 .. 10 : i \in 1 .. b <=> i <= b
    OBVIOUS
  <2>4. QED
    BY <2>2, <2>3, <1>4 DEF OfAll, At, IdealGain, BestOf
<1>8. OnesIn(x) = 0 <=> s = {}
  <2>1. IsFiniteSet(s)
    BY PlacesAre, CountUpTo, FS_Subset
  <2>2. QED
    BY <2>1, <1>6, FS_EmptySet
<1> DEFINE p == Gain(s)
           q == IdealGain(b)
           c == Cardinality(s)
<1>9. p = Gained(x) /\ q = BestOf(b) /\ c = OnesIn(x)
  BY <1>5, <1>6, <1>7
<1> HIDE DEF p, q, c
<1>10. p \in Nat /\ c \in Nat /\ (p = 0 <=> c = 0) /\ (c # 0 => p >= 289) /\ q \in 1000 .. 4543
  BY <1>2, <1>9
<1>11. c <= b => p <= q
  <2>1. OnesIn(x) <= b => Gained(x) <= BestOf(b)
    BY <1>2
  <2>2. QED
    BY <2>1, <1>9, <1>10
<1>12. c <= b => (p >= q <=> 1 .. b \subseteq s)
  <2> SUFFICES ASSUME c <= b PROVE p >= q <=> 1 .. b \subseteq s
    OBVIOUS
  <2>0. OnesIn(x) <= b
    BY <1>9
  <2>1. Gained(x) >= BestOf(b) <=> FirstHeld(x, b)
    BY <2>0, <1>2
  <2>2. p >= q <=> FirstHeld(x, b)
    BY <2>1, <1>9, Zenon
  <2> HIDE DEF x
  <2>3. QED
    BY <2>2, <1>3
<1>13. c = 0 <=> s = {}
  BY <1>8, <1>9
<1>14. QED
  BY <1>10, <1>11, <1>12, <1>13 DEF GainsUpTo, p, q, c

\* a share of thousandths is 0 only for no part, if the whole is small enough
LEMMA ShareIsZero ==
  ASSUME NEW part \in Nat, NEW whole \in Nat \ {0}, whole <= 1000 * part \/ part = 0
  PROVE  Share(part, whole) \in Nat /\ (Share(part, whole) = 0 <=> part = 0)
<1> DEFINE s == Share(part, whole)
           p == part * 1000
<1>1. s \in Int /\ s >= 0 /\ (part = 0 => s = 0)
  BY ShareIs
<1>2. p \in Int /\ s = p \div whole /\ p = 1000 * part
  BY DEF Share
<1> HIDE DEF s, p
<1>3. 1 <= s <=> whole * 1 <= p
  BY <1>2, QuotientAtLeast
<1>4. QED
  BY <1>1, <1>2, <1>3 DEF s

\* looking at more shows what was shown
LEMMA TopGrows ==
  ASSUME NEW V, NEW list \in Seq(V), NEW k \in Nat
  PROVE  Range(Top(list, k)) \subseteq Range(Top(list, k + 1))
<1> DEFINE a == Top(list, k)
           b == Top(list, k + 1)
           n == Len(list)
<1>1. n \in Nat /\ k + 1 \in Nat
  OBVIOUS
<1>2. /\ a \in Seq(V) /\ Len(a) = (IF k < n THEN k ELSE n)
      /\ \A i \in 1 .. Len(a) : a[i] = list[i]
  BY TopIs
<1>3. /\ b \in Seq(V) /\ Len(b) = (IF k + 1 < n THEN k + 1 ELSE n)
      /\ \A i \in 1 .. Len(b) : b[i] = list[i]
  BY <1>1, TopIs
<1> HIDE DEF a, b, n
<1>4. DOMAIN a = 1 .. Len(a) /\ DOMAIN b = 1 .. Len(b) /\ Len(a) \in Nat /\ Len(b) \in Nat
  BY <1>2, <1>3
<1>5. Len(a) <= Len(b)
  BY <1>1, <1>2, <1>3
<1>6. ASSUME NEW i \in DOMAIN a PROVE a[i] \in Range(b)
  <2>1. i \in DOMAIN b /\ a[i] = list[i] /\ b[i] = list[i]
    BY <1>2, <1>3, <1>4, <1>5
  <2>2. QED
    BY <2>1 DEF Range
<1>7. QED
  BY <1>6 DEF Range, a, b

\* the first k, without the blank ones
LEMMA SliceIs ==
  ASSUME NEW ranked \in Seq(Nat), NEW k \in Nat
  PROVE  /\ RankedSlice(ranked, k) \in Seq(Nat \ {0})
         /\ Len(RankedSlice(ranked, k)) <= k
         /\ Range(RankedSlice(ranked, k)) \subseteq Range(RankedSlice(ranked, k + 1))
<1> DEFINE t == Top(ranked, k)
           u == Top(ranked, k + 1)
           at == {i \in DOMAIN t : t[i] # 0}
<1>1. t \in Seq(Nat) /\ Len(t) <= k /\ Len(t) \in Nat /\ DOMAIN t = 1 .. Len(t)
  <2>1. t \in Seq(Nat) /\ Len(t) <= k
    BY TopIs
  <2> HIDE DEF t
  <2>2. QED
    BY <2>1
<1>2. u \in Seq(Nat)
  <2>1. k + 1 \in Nat
    OBVIOUS
  <2>2. QED
    BY <2>1, TopIs
<1>3. Range(t) \subseteq Range(u)
  BY TopGrows
<1>4. RankedSlice(ranked, k) = Present(t) /\ RankedSlice(ranked, k + 1) = Present(u)
  BY DEF RankedSlice
<1> HIDE DEF t, u
<1>5. /\ Present(t) \in Seq(Nat \ {0})
      /\ Range(Present(t)) = Range(t) \ {0}
  BY <1>1, PresentIs
<1>6. Range(Present(u)) = Range(u) \ {0}
  BY <1>2, PresentIs
<1>7. Len(Present(t)) <= k
  <2>1. Present(t) = Select(t, at)
    BY DEF Present
  <2>2. at \in SUBSET (1 .. Len(t)) /\ \A i \in at : t[i] \in Nat
    BY <1>1
  <2> HIDE DEF at
  <2>3. Keeps(Select(t, at), t, at)
    BY <1>1, <2>2, SelectKeeps
  <2>4. Len(Present(t)) = Cardinality(at)
    BY <2>1, <2>3 DEF Keeps
  <2>5. IsFiniteSet(1 .. Len(t)) /\ Cardinality(1 .. Len(t)) = Len(t)
    BY <1>1, CountUpTo
  <2>6. Cardinality(at) <= Len(t) /\ Cardinality(at) \in Nat
    BY <2>2, <2>5, FS_Subset, FS_CardinalityType
  <2>7. QED
    BY <1>1, <2>4, <2>6
<1>8. QED
  BY <1>3, <1>4, <1>5, <1>6, <1>7

\* the recall of aligned rankings falls for no larger k
LEMMA RecallAlignedGrows ==
  ASSUME NEW match, NEW gold \in Seq(Nat), NEW ranked \in Seq(Nat), NEW k \in Nat
  PROVE  RecallAligned(match, gold, ranked, k) <= RecallAligned(match, gold, ranked, k + 1)
<1> DEFINE g == Present(gold)
           t == RankedSlice(ranked, k)
           u == RankedSlice(ranked, k + 1)
           a == {i \in DOMAIN g : Found(match, g[i], t)}
           b == {i \in DOMAIN g : Found(match, g[i], u)}
           n == Len(g)
           x == RecallAligned(match, gold, ranked, k)
           y == RecallAligned(match, gold, ranked, k + 1)
<1>1. g \in Seq(Nat \ {0})
  BY PresentIs
<1>2. Range(t) \subseteq Range(u)
  BY SliceIs
<1>3. x = IF g = <<>> THEN 1000 ELSE Share(Cardinality(a), n)
  BY DEF RecallAligned
<1>4. y = IF g = <<>> THEN 1000 ELSE Share(Cardinality(b), n)
  BY DEF RecallAligned
<1> HIDE DEF g, t, u, x, y
<1>5. a \in SUBSET b
  <2>1. ASSUME NEW i \in a PROVE i \in b
    <3>1. PICK j \in DOMAIN t : <<g[i], t[j]>> \in match
      BY DEF Found
    <3>2. t[j] \in Range(u)
      BY <1>2 DEF Range
    <3>3. PICK h \in DOMAIN u : u[h] = t[j]
      BY <3>2 DEF Range
    <3>4. Found(match, g[i], u)
      BY <3>1, <3>3 DEF Found
    <3>5. QED
      BY <3>4
  <2>2. QED
    BY <2>1
<1>6. n \in Nat /\ DOMAIN g = 1 .. n /\ (g # <<>> => n # 0)
  BY <1>1
<1>7. b \in SUBSET (1 .. n)
  BY <1>6
<1> HIDE DEF a, b, n
<1>8. IsFiniteSet(b)
  BY <1>6, <1>7, CountUpTo, FS_Subset
<1>9. IsFiniteSet(a) /\ Cardinality(a) <= Cardinality(b)
  BY <1>5, <1>8, FS_Subset
<1>10. Cardinality(a) \in Int /\ Cardinality(b) \in Int
  <2>1. Cardinality(a) \in Nat /\ Cardinality(b) \in Nat
    BY <1>8, <1>9, FS_CardinalityType
  <2>2. QED
    BY <2>1
<1>11. CASE g = <<>>
  BY <1>3, <1>4, <1>11 DEF x, y
<1>12. CASE g # <<>>
  <2>1. n \in Nat \ {0}
    BY <1>6, <1>12
  <2>2. Share(Cardinality(a), n) <= Share(Cardinality(b), n)
    BY <2>1, <1>9, <1>10, ShareGrows
  <2>3. QED
    BY <1>3, <1>4, <1>12, <2>2 DEF x, y
<1>13. QED
  BY <1>11, <1>12

\* what precision x and NDCG y say of the places s where gold g was matched
AlignedTells(g, s, x, y, k) ==
    /\ InRange(x)
    /\ y = 0 <=> g # <<>> /\ x = 0
    /\ Cardinality(s) <= Len(g) =>
          /\ InRange(y)
          /\ y = 1000 <=> 1 .. Min({Len(g), k}) \subseteq s

\* of aligned rankings one score is 0 exactly when the other is, and NDCG is a score unless there are more hits than gold items
LEMMA AlignedIs ==
  ASSUME NEW match, NEW gold \in Seq(Nat), NEW ranked \in Seq(Nat), NEW k \in 1 .. 10
  PROVE  AlignedTells(Present(gold), Hits(match, Present(gold), RankedSlice(ranked, k)),
                      PrecisionAligned(match, gold, ranked, k), NdcgAligned(match, gold, ranked, k), k)
<1> DEFINE g == Present(gold)
           top == RankedSlice(ranked, k)
           s == Hits(match, g, top)
           n == Len(top)
           m == Len(g)
           b == Min({m, k})
           x == PrecisionAligned(match, gold, ranked, k)
           y == NdcgAligned(match, gold, ranked, k)
<1>1. g \in Seq(Nat \ {0})
  BY PresentIs
<1>2. k \in Nat
  OBVIOUS
<1>3. top \in Seq(Nat \ {0}) /\ Len(top) <= k
  BY <1>2, SliceIs
<1>4. x = IF top = <<>> THEN (IF g = <<>> THEN 1000 ELSE 0) ELSE Share(Cardinality(s), n)
  BY DEF PrecisionAligned
<1>5. y = IF g = <<>> THEN 1000 ELSE Share(Gain(s), IdealGain(b))
  BY DEF NdcgAligned
<1> HIDE DEF g, top, x, y
<1>6. m \in Nat /\ (g # <<>> <=> m # 0)
  BY <1>1
<1>7. n \in 0 .. 10 /\ n <= k /\ DOMAIN top = 1 .. n /\ (top # <<>> <=> n # 0)
  <2>1. n \in Nat /\ n <= k /\ DOMAIN top = 1 .. n /\ (top # <<>> <=> n # 0)
    BY <1>3
  <2> HIDE DEF n
  <2>2. QED
    BY <2>1
<1>8. s \in SUBSET (1 .. n) /\ s \in SUBSET Places
  <2>1. s \in SUBSET (1 .. n)
    BY <1>7 DEF Hits
  <2>2. 1 .. n \subseteq 1 .. 10
    BY <1>7
  <2>3. Places = 1 .. 10
    BY PlacesAre
  <2> HIDE DEF s, n
  <2>4. QED
    BY <2>1, <2>2, <2>3
<1>9. (n = 0 => s = {})
  BY <1>8
<1> HIDE DEF s, n
<1>10. InRange(x)
  <2>1. CASE top = <<>>
    BY <2>1, <1>4 DEF InRange
  <2>2. CASE top # <<>>
    <3>1. n \in Nat \ {0}
      BY <1>7, <2>2
    <3>2. InRange(Share(Cardinality(s), n))
      BY <3>1, <1>8, ShareOfPlaces
    <3>3. QED
      BY <3>2, <2>2, <1>4
  <2>3. QED
    BY <2>1, <2>2
<1>11. b = IF m <= k THEN m ELSE k
  <2>1. m \in Int /\ k \in Int
    BY <1>6
  <2> HIDE DEF m
  <2>2. QED
    BY <2>1, OfTwo
<1> HIDE DEF b
<1>12. CASE g = <<>>
  <2>1. y = 1000 /\ b = 0 /\ InRange(y)
    BY <1>5, <1>6, <1>11, <1>12 DEF InRange
  <2>2. 1 .. b \subseteq s
    BY <2>1
  <2>3. AlignedTells(g, s, x, y, k)
    BY <2>1, <2>2, <1>10, <1>12 DEF AlignedTells, b
  <2>4. QED
    BY <2>3 DEF x, y, g, s, top
<1>13. CASE g # <<>>
  <2>1. b \in 1 .. 10
    <3>1. m \in Nat /\ m # 0
      BY <1>6, <1>13
    <3> HIDE DEF m
    <3>2. QED
      BY <3>1, <1>11
  <2>2. GainsUpTo(s, b)
    BY <2>1, <1>8, IdealGains
  <2> DEFINE p == Gain(s)
             q == IdealGain(b)
             c == Cardinality(s)
  <2>3. p \in Nat /\ q \in 1000 .. 4543 /\ (p = 0 <=> s = {}) /\ (s # {} => p >= 289)
    BY <2>2 DEF GainsUpTo
  <2>4. y = Share(p, q)
    BY <1>5, <1>13
  <2>5. c \in Nat /\ (c = 0 <=> s = {}) /\ c <= n
    <3>1. IsFiniteSet(1 .. n) /\ Cardinality(1 .. n) = n
      BY <1>7, CountUpTo
    <3>2. IsFiniteSet(s) /\ Cardinality(s) <= n
      BY <3>1, <1>8, FS_Subset
    <3>3. QED
      BY <3>2, FS_CardinalityType, FS_EmptySet
  <2> HIDE DEF p, q, c
  <2>6. y = 0 <=> s = {}
    <3>0. p \in Nat
      BY <2>3
    <3>1. q \in Nat \ {0} /\ (q <= 1000 * p \/ p = 0)
      BY <2>3
    <3>2. Share(p, q) \in Nat /\ (Share(p, q) = 0 <=> p = 0)
      BY <3>0, <3>1, ShareIsZero
    <3>3. QED
      BY <2>3, <2>4, <3>2
  <2>7. x = 0 <=> s = {}
    <3>1. CASE top = <<>>
      <4>1. x = 0
        BY <3>1, <1>4, <1>13
      <4>2. s = {}
        BY <3>1, <1>7, <1>9
      <4>3. QED
        BY <4>1, <4>2
    <3>2. CASE top # <<>>
      <4>1. x = Share(c, n)
        BY <3>2, <1>4 DEF c
      <4>2. n \in Nat \ {0} /\ n <= 10
        BY <3>2, <1>7
      <4>3. n <= 1000 * c \/ c = 0
        BY <2>5, <4>2
      <4>4. Share(c, n) \in Nat /\ (Share(c, n) = 0 <=> c = 0)
        BY <2>5, <4>2, <4>3, ShareIsZero
      <4>5. QED
        BY <4>1, <4>4, <2>5
    <3>3. QED
      BY <3>1, <3>2
  <2>8. ASSUME c <= m PROVE InRange(y) /\ (y = 1000 <=> 1 .. b \subseteq s)
    <3>1. c <= b
      BY <2>5, <2>8, <1>6, <1>7, <1>11
    <3>2. p <= q /\ (p >= q <=> 1 .. b \subseteq s)
      BY <2>2, <3>1 DEF GainsUpTo, p, q, c
    <3> DEFINE z == Share(p, q)
    <3>3. z \in Int /\ z <= 1000 /\ z >= 0 /\ (z >= 1000 <=> p >= q)
      <4>1. p \in Int /\ q \in Nat \ {0} /\ p >= 0
        BY <2>3
      <4>2. /\ Share(p, q) \in Int
            /\ p <= q => Share(p, q) <= 1000
            /\ p >= 0 => Share(p, q) >= 0
            /\ Share(p, q) >= 1000 <=> p >= q
            /\ p = 0 => Share(p, q) = 0
        BY <4>1, ShareIs, ZenonT(60)
      <4>3. QED
        BY <4>1, <4>2, <3>2
    <3>4. y = z
      BY <2>4
    <3> HIDE DEF z
    <3>5. QED
      BY <3>2, <3>3, <3>4 DEF InRange
  <2>9. AlignedTells(g, s, x, y, k)
    BY <2>6, <2>7, <2>8, <1>10, <1>13 DEF AlignedTells, b, c
  <2>10. QED
    BY <2>9 DEF x, y, g, s, top
<1>14. QED
  BY <1>12, <1>13

\* what is said of a ranking
RankingCompares(g, r, m, k) ==
    LET gold == Present(g)
        hits == Hits(m, gold, RankedSlice(r, k))
        n    == NdcgAligned(m, g, r, k)
    IN /\ InRange(RecallAligned(m, g, r, k)) /\ InRange(PrecisionAligned(m, g, r, k))
       /\ RecallAligned(m, g, r, k) <= RecallAligned(m, g, r, k + 1)
       /\ n = 0 <=> gold # <<>> /\ PrecisionAligned(m, g, r, k) = 0
       /\ Cardinality(hits) <= Len(gold) =>
             /\ InRange(n)
             /\ n = 1000 <=> 1 .. Min({Len(gold), k}) \subseteq hits

\* it is so for all gold lists and rankings
LEMMA RankingsCompare ==
  ASSUME NEW m, NEW g \in Seq(Nat), NEW r \in Seq(Nat), NEW k \in 1 .. 10
  PROVE  RankingCompares(g, r, m, k)
<1>1. k \in Nat
  OBVIOUS
<1>2. InRange(RecallAligned(m, g, r, k))
  BY RecallInRange
<1>3. RecallAligned(m, g, r, k) <= RecallAligned(m, g, r, k + 1)
  BY <1>1, RecallAlignedGrows
<1>4. AlignedTells(Present(g), Hits(m, Present(g), RankedSlice(r, k)),
                   PrecisionAligned(m, g, r, k), NdcgAligned(m, g, r, k), k)
  BY AlignedIs
<1>5. QED
  BY <1>2, <1>3, <1>4, Zenon DEF RankingCompares, AlignedTells

\* what is present of a list is no longer
LEMMA PresentIsShorter ==
  ASSUME NEW seq \in Seq(Nat)
  PROVE  Len(Present(seq)) <= Len(seq)
<1> DEFINE n == Len(seq)
           at == {i \in DOMAIN seq : seq[i] # 0}
<1>1. n \in Nat /\ DOMAIN seq = 1 .. n /\ \A i \in 1 .. n : seq[i] \in Nat
  BY ListIs
<1>2. at \in SUBSET (1 .. n) /\ \A i \in at : seq[i] \in Nat
  BY <1>1
<1>3. Present(seq) = Select(seq, at)
  BY DEF Present
<1> HIDE DEF at, n
<1>4. Keeps(Select(seq, at), seq, at)
  BY <1>1, <1>2, SelectKeeps
<1>5. Len(Present(seq)) = Cardinality(at)
  BY <1>3, <1>4 DEF Keeps
<1>6. IsFiniteSet(1 .. n) /\ Cardinality(1 .. n) = n
  BY <1>1, CountUpTo
<1>7. Cardinality(at) <= n
  BY <1>2, <1>6, FS_Subset
<1>8. QED
  BY <1>5, <1>7 DEF n

\* a number of the first of a list, as a share
LEMMA PartIsZero ==
  ASSUME NEW n \in 1 .. 1000, NEW s \in SUBSET (1 .. n)
  PROVE  InRange(Share(Cardinality(s), n)) /\ (Share(Cardinality(s), n) = 0 <=> s = {})
<1> DEFINE c == Cardinality(s)
<1>1. n \in Nat \ {0} /\ n \in Nat
  OBVIOUS
<1>2. InRange(Share(c, n))
  BY <1>1, ShareOfPlaces
<1>3. IsFiniteSet(s)
  BY <1>1, CountUpTo, FS_Subset
<1>4. c \in Nat /\ (c = 0 <=> s = {})
  <2>1. c \in Nat
    BY <1>3, FS_CardinalityType
  <2>2. c = 0 <=> s = {}
    BY <1>3, FS_EmptySet, ZenonT(60)
  <2>3. QED
    BY <2>1, <2>2
<1> HIDE DEF c
<1>5. n <= 1000 * c \/ c = 0
  BY <1>4
<1>6. Share(c, n) \in Nat /\ (Share(c, n) = 0 <=> c = 0)
  BY <1>1, <1>4, <1>5, ShareIsZero
<1>7. QED
  BY <1>2, <1>4, <1>6 DEF c

\* a gain over the ideal gain, cut at the whole
Capped(p, q) == Min({1000, Share(p, q)})

\* which is 0 only for no gain
LEMMA CappedIs ==
  ASSUME NEW p \in Nat, NEW q \in Nat \ {0}, q <= 4543, p = 0 \/ p >= 289
  PROVE  /\ InRange(Capped(p, q))
         /\ Capped(p, q) = 0 <=> p = 0
<1> DEFINE top == 1000
           share == Share(p, q)
           cut == Min({top, share})
<1>1. q <= 1000 * p \/ p = 0
  OBVIOUS
<1>2. Share(p, q) \in Nat /\ (Share(p, q) = 0 <=> p = 0)
  BY <1>1, ShareIsZero
<1>3. top \in Int /\ top = 1000
  OBVIOUS
<1> HIDE DEF share, top
<1>4. share \in Nat /\ share \in Int
  BY <1>2 DEF share
<1>5. /\ Max({top, share}) = IF top >= share THEN top ELSE share
      /\ Min({top, share}) = IF top <= share THEN top ELSE share
  BY <1>3, <1>4, OfTwo
<1> HIDE DEF cut
<1>6. cut = IF top <= share THEN top ELSE share
  BY <1>5 DEF cut
<1>7. cut \in 0 .. 1000 /\ (cut = 0 <=> share = 0)
  BY <1>3, <1>4, <1>6
<1>8. QED
  BY <1>2, <1>7 DEF cut, share, top, InRange, Capped

\* so it is for the places of hits
LEMMA CappedTells ==
  ASSUME NEW s \in SUBSET Places, NEW l \in Nat \ {0}, NEW k \in 1 .. 10
  PROVE  LET x == Capped(Gain(s), IdealGain(Min({l, k})))
         IN InRange(x) /\ (x = 0 <=> s = {})
<1> DEFINE b == Min({l, k})
           p == Gain(s)
           q == IdealGain(b)
<1>1. b = IF l <= k THEN l ELSE k
  <2>1. l \in Int /\ k \in Int
    OBVIOUS
  <2>2. QED
    BY <2>1, OfTwo
<1> HIDE DEF b
<1>2. b \in 1 .. 10
  BY <1>1
<1>3. GainsUpTo(s, b)
  BY <1>2, IdealGains
<1>4. p \in Nat /\ q \in 1000 .. 4543 /\ (p = 0 <=> s = {}) /\ (s # {} => p >= 289)
  BY <1>3 DEF GainsUpTo
<1> HIDE DEF p, q
<1>5. q \in Nat \ {0} /\ q <= 4543 /\ (p = 0 \/ p >= 289)
  BY <1>4
<1>6. InRange(Capped(p, q)) /\ (Capped(p, q) = 0 <=> p = 0)
  BY <1>4, <1>5, CappedIs
<1>7. QED
  BY <1>4, <1>6 DEF p, q, b

\* the first k of the ids and sources that were found, side by side
LEMMA PairsAre ==
  ASSUME NEW ids \in Seq(Nat), NEW sources \in Seq(Nat), NEW k \in 1 .. 10
  PROVE  LET top == Pairs(ids, sources, k)
         IN \E n \in 0 .. 10 : DOMAIN top = 1 .. n /\ Len(top) = n /\ (top = <<>> <=> n = 0)
<1> DEFINE a == Len(ids)
           b == Len(sources)
           m == Max({a, b})
           n == Min({k, m})
           F(i) == <<IF i <= a THEN ids[i] ELSE 0, IF i <= b THEN sources[i] ELSE 0>>
           top == [i \in 1 .. n |-> F(i)]
<1>1. a \in Nat /\ b \in Nat
  OBVIOUS
<1>2. Pairs(ids, sources, k) = top
  BY DEF Pairs
<1> HIDE DEF a, b
<1>3. m \in Nat
  <2>1. a \in Int /\ b \in Int
    BY <1>1
  <2>2. m = IF a >= b THEN a ELSE b
    BY <2>1, OfTwo
  <2> HIDE DEF m
  <2>3. QED
    BY <1>1, <2>2
<1> HIDE DEF m
<1>4. n \in 0 .. 10
  <2>1. k \in Int /\ m \in Int
    BY <1>3
  <2>2. n = IF k <= m THEN k ELSE m
    BY <2>1, OfTwo
  <2> HIDE DEF n
  <2>3. QED
    BY <1>3, <2>2
<1> HIDE DEF n, F
<1>5. DOMAIN top = 1 .. n /\ Len(top) = n /\ (top = <<>> <=> n = 0)
  BY <1>4
<1>6. QED
  BY <1>2, <1>4, <1>5

\* what is said of a ranking of chunks
ChunksCompare(m, sm, gold, ids, sources, k) ==
    LET recall == RecallChunks(m, sm, gold, ids, sources, k)
        precision == PrecisionChunks(m, sm, gold, ids, sources, k)
        ndcg == NdcgChunks(m, sm, gold, ids, sources, k)
    IN /\ InRange(recall) /\ InRange(precision) /\ InRange(ndcg)
       /\ Present(gold) # <<>> => (recall = 0 <=> ndcg = 0) /\ (recall = 0 <=> precision = 0)

\* it is so for all gold lists of at most 1000 items
LEMMA ChunkRankingsCompare ==
  ASSUME NEW m, NEW sm, NEW gold \in Seq(Nat), Len(gold) <= 1000,
         NEW ids \in Seq(Nat), NEW sources \in Seq(Nat), NEW k \in 1 .. 10
  PROVE  ChunksCompare(m, sm, gold, ids, sources, k)
<1> DEFINE g == Present(gold)
           top == Pairs(ids, sources, k)
           A == {i \in DOMAIN g : \E j \in DOMAIN top : ChunkMatch(m, sm, g[i], top[j])}
           B == {j \in DOMAIN top : \E i \in DOMAIN g : ChunkMatch(m, sm, g[i], top[j])}
           New(j) == \E i \in DOMAIN g \ Covered(m, sm, g, top, j) : ChunkMatch(m, sm, g[i], top[j])
           s == {j \in DOMAIN top : New(j)}
           l == Len(g)
           b == Min({l, k})
           recall == RecallChunks(m, sm, gold, ids, sources, k)
           precision == PrecisionChunks(m, sm, gold, ids, sources, k)
           ndcg == NdcgChunks(m, sm, gold, ids, sources, k)
<1>1. g \in Seq(Nat \ {0}) /\ Len(g) <= Len(gold)
  BY PresentIs, PresentIsShorter
<1>2. PICK n \in 0 .. 10 : DOMAIN top = 1 .. n /\ Len(top) = n /\ (top = <<>> <=> n = 0)
  BY PairsAre
<1>3. recall = IF g = <<>> THEN 1000 ELSE Share(Cardinality(A), l)
  BY DEF RecallChunks
<1>4. precision = IF top = <<>> THEN (IF g = <<>> THEN 1000 ELSE 0) ELSE Share(Cardinality(B), n)
  BY <1>2 DEF PrecisionChunks
<1>5. ndcg = IF g = <<>> THEN 1000 ELSE Min({1000, Share(Gain(s), IdealGain(b))})
  BY DEF NdcgChunks
<1>6. l \in Nat /\ l <= 1000 /\ DOMAIN g = 1 .. l /\ (g # <<>> <=> l # 0)
  <2>1. Len(gold) \in Nat /\ Len(gold) <= 1000
    OBVIOUS
  <2> HIDE DEF g
  <2>2. l \in Nat /\ DOMAIN g = 1 .. l /\ (g # <<>> <=> l # 0)
    BY <1>1
  <2> HIDE DEF l
  <2>3. l <= Len(gold)
    BY <1>1 DEF l
  <2>4. QED
    BY <2>1, <2>2, <2>3
<1> HIDE DEF g, top, recall, precision, ndcg, l
<1>7. A \in SUBSET (1 .. l) /\ B \in SUBSET (1 .. n) /\ s \in SUBSET (1 .. n) /\ s \in SUBSET Places
  <2>1. A \in SUBSET (1 .. l)
    BY <1>6
  <2>2. B \in SUBSET (1 .. n)
    BY <1>2
  <2>3. s \in SUBSET (1 .. n)
    BY <1>2
  <2>4. 1 .. n \subseteq Places
    BY <1>2, PlacesAre
  <2> HIDE DEF A, B, s
  <2>5. QED
    BY <2>1, <2>2, <2>3, <2>4
<1>8. A = {} <=> B = {}
  OBVIOUS
<1>9. A = {} <=> s = {}
  <2>1. ASSUME A = {} PROVE s = {}
    BY <2>1
  <2>2. ASSUME A # {} PROVE s # {}
    <3>1. PICK i \in DOMAIN g : \E j \in DOMAIN top : ChunkMatch(m, sm, g[i], top[j])
      BY <2>2
    <3> DEFINE J == {j \in DOMAIN top : ChunkMatch(m, sm, g[i], top[j])}
    <3>2. J # {} /\ J \in SUBSET Nat
      BY <3>1, <1>2
    <3>3. PICK j \in J : \A h \in J : j <= h
      <4> HIDE DEF J
      <4>1. QED
        BY <3>2, Least
    <3>4. j \in 1 .. n
      BY <1>2
    <3>5. i \notin Covered(m, sm, g, top, j)
      <4>1. ASSUME NEW h \in 1 .. j - 1, ChunkMatch(m, sm, g[i], top[h]) PROVE FALSE
        <5>1. h \in DOMAIN top /\ h < j
          BY <3>4, <1>2
        <5>2. h \in J
          BY <4>1, <5>1
        <5>3. QED
          BY <3>3, <3>4, <5>1, <5>2
      <4>2. QED
        BY <4>1 DEF Covered
    <3>6. New(j) /\ j \in DOMAIN top
      BY <3>5
    <3>7. QED
      BY <3>6
  <2>3. QED
    BY <2>1, <2>2
<1> HIDE DEF A, B, s, New
<1>10. InRange(precision) /\ (g # <<>> => (precision = 0 <=> B = {}))
  <2>1. CASE top = <<>>
    <3>1. B = {}
      BY <2>1, <1>2, <1>7
    <3>2. precision = (IF g = <<>> THEN 1000 ELSE 0)
      BY <2>1, <1>4
    <3>3. QED
      BY <3>1, <3>2 DEF InRange
  <2>2. CASE top # <<>>
    <3>1. n \in 1 .. 1000
      BY <2>2, <1>2
    <3>2. InRange(Share(Cardinality(B), n)) /\ (Share(Cardinality(B), n) = 0 <=> B = {})
      BY <3>1, <1>7, PartIsZero, ZenonT(60)
    <3>3. precision = Share(Cardinality(B), n)
      BY <2>2, <1>4
    <3>4. QED
      BY <3>2, <3>3
  <2>3. QED
    BY <2>1, <2>2
<1>11. CASE g = <<>>
  <2>1. InRange(1000)
    BY DEF InRange
  <2>2. QED
    BY <1>3, <1>5, <1>10, <1>11, <2>1 DEF ChunksCompare, recall, precision, ndcg, g
<1>12. CASE g # <<>>
  <2>1. InRange(recall) /\ (recall = 0 <=> A = {})
    <3>1. l \in 1 .. 1000
      BY <1>6, <1>12
    <3>2. InRange(Share(Cardinality(A), l)) /\ (Share(Cardinality(A), l) = 0 <=> A = {})
      BY <3>1, <1>7, PartIsZero, ZenonT(60)
    <3>3. QED
      BY <3>2, <1>3, <1>12
  <2>2. l \in Nat \ {0}
    BY <1>6, <1>12
  <2>3. ndcg = Capped(Gain(s), IdealGain(b))
    BY <1>5, <1>12 DEF Capped
  <2>4. InRange(ndcg) /\ (ndcg = 0 <=> s = {})
    BY <2>2, <2>3, <1>7, CappedTells
  <2>5. /\ InRange(recall) /\ InRange(precision) /\ InRange(ndcg)
        /\ (recall = 0 <=> ndcg = 0) /\ (recall = 0 <=> precision = 0)
    BY <2>1, <2>4, <1>8, <1>9, <1>10, <1>12
  <2>6. QED
    BY <2>5 DEF ChunksCompare, recall, precision, ndcg
<1>13. QED
  BY <1>11, <1>12

(***************************************************************************)
(* What the report says of a ranking: recall and precision are between 0   *)
(* and 1, looking at more results loses no recall, and NDCG is 0 exactly   *)
(* if precision is.  As long as no more results match than there are gold  *)
(* items NDCG is a score as well, and 1 only for an ideal ranking; if more *)
(* match it can exceed 1.  Chunks have scores in every case, which are 0   *)
(* together.  For gold lists and rankings of every length (of chunks, at   *)
(* most 1000 gold ones) and any of the first ten results.                  *)
(***************************************************************************)
THEOREM RankingsStayComparable == Spec => []RankingsComparable
<1>1. CasesInv => RankingsComparable
  <2>1. ASSUME CasesInv, sample.kind = "rank"
        PROVE  \A k \in 1 .. MaxK : RankingCompares(sample.gold, sample.ranked, sample.match, k)
    <3>1. sample.gold \in Seq(Nat) /\ sample.ranked \in Seq(Nat)
      BY <2>1, ScoresAssumption DEF CasesInv
    <3>2. QED
      BY <3>1, PlacesAre, RankingsCompare
  <2>2. ASSUME CasesInv, sample.kind = "chunks"
        PROVE  \A k \in 1 .. MaxK : ChunksCompare(sample.match, sample.sourceMatch, sample.gold,
                                               sample.ids, sample.sources, k)
    <3>1. /\ sample.gold \in Seq(Nat) /\ Len(sample.gold) <= 1000
          /\ sample.ids \in Seq(Nat) /\ sample.sources \in Seq(Nat)
      BY <2>2, ScoresAssumption DEF CasesInv
    <3>2. QED
      BY <3>1, PlacesAre, ChunkRankingsCompare
  <2>3. QED
    BY <2>1, <2>2, Zenon DEF RankingsComparable, RankingCompares, ChunksCompare
<1>2. QED
  BY <1>1, CasesAlways, PTL

(***************************************************************************)
(* So the scores and rates of the evaluation and the monitoring can be     *)
(* compared from one run to the next, but for the NDCG of entities and     *)
(* relations of which more match than are wanted, for all records, rows,   *)
(* gold lists and rankings.                                                *)
(***************************************************************************)
THEOREM ScoresAreComparable == Spec => []ScoresComparable
<1>1. (RatesAreRates /\ RankingsComparable /\ BagsComparable /\ ReportsFair) => ScoresComparable
  BY DEF ScoresComparable
<1>2. QED
  BY <1>1, RatesStayRates, RankingsStayComparable, BagsStayComparable, ReportsStayFair, PTL
=============================================================================
