------------------------------- MODULE Lists --------------------------------
(***************************************************************************)
(* Parts of lists, told by their places: what a comprehension keeps, what  *)
(* is found first of each kind, what a sort puts where.  An element's      *)
(* place is the number of those before it, so that neither recursion nor   *)
(* a choice among permutations is needed to say (or to prove) where it is. *)
(***************************************************************************)
EXTENDS Integers, Sequences, FiniteSets, SequencesExt

\* a finite set in the order `before`, a set of pairs
Arranged(S, before) ==
    [k \in 1 .. Cardinality(S) |->
        CHOOSE x \in S : Cardinality({y \in S : <<y, x>> \in before}) = k - 1]

\* what a list holds at these places, in the order of the list
Select(seq, places) ==
    LET at == Arranged(places, {p \in places \X places : p[1] < p[2]})
    IN [k \in DOMAIN at |-> seq[at[k]]]

FirstOfEach(seq, key(_)) ==
    Select(seq, {i \in DOMAIN seq : \A j \in 1 .. i - 1 : key(seq[j]) # key(seq[i])})

\* the first n, or all
Top(seq, n) == SubSeq(seq, 1, IF n < Len(seq) THEN n ELSE Len(seq))

\* a list in the order `before`, equal items as they were
Sorted(seq, before) ==
    LET at == Arranged(DOMAIN seq, {p \in (DOMAIN seq) \X (DOMAIN seq) :
                  \/ <<seq[p[1]], seq[p[2]]>> \in before
                  \/ <<seq[p[2]], seq[p[1]]>> \notin before /\ p[1] < p[2]})
    IN [k \in DOMAIN at |-> seq[at[k]]]

\* the sum of a list, or of any other function to numbers
Total(numbers) == FoldFunction(LAMBDA x, sum : x + sum, 0, numbers)
=============================================================================
