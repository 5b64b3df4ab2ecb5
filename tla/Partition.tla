----------------------------- MODULE Partition -----------------------------
(***************************************************************************)
(* How the graph is partitioned into communities, and how a community is   *)
(* put into words for the language model (src/community/partition.py and   *)
(* summarizer.py).                                                         *)
(*                                                                         *)
(* Nodes are numbers, in the order of their names; an edge is              *)
(* <<a, b, weight>> as it is read.  Leiden is external: what it finds at a *)
(* resolution is an input.                                                 *)
(***************************************************************************)
EXTENDS Lists

\* round(n / d), halves to the even number
RoundedRatio(n, d) ==
    LET q == n \div d  r == 2 * (n % d)
    IN IF r > d \/ (r = d /\ q % 2 = 1) THEN q + 1 ELSE q

\* compute_target_count
TargetCount(nodes, perNodes, targetMin, targetMax) ==
    LET lo  == Max({1, targetMin})
        hi  == Max({lo, targetMax})
    IN IF nodes <= 0 THEN lo
       ELSE Max({lo, Min({hi, RoundedRatio(nodes, Max({1, perNodes}))})})

NoWeight == -1      \* None; a weight of 0 is one

EdgeWeight(e) == IF e[3] = NoWeight THEN 1 ELSE e[3]

\* build_graph: parallel edges are one, whichever way round, and add up
Linked(edges, a, b) == \E e \in Range(edges) : {e[1], e[2]} = {a, b}

GraphWeight(edges, a, b) ==
    Total([i \in {j \in DOMAIN edges : {edges[j][1], edges[j][2]} = {a, b}} |-> EdgeWeight(edges[i])])

\* graph_fingerprint, before it is hashed
Weighted(edges) == [i \in DOMAIN edges |-> <<edges[i][1], edges[i][2], EdgeWeight(edges[i])>>]

LessEdge(d, e) ==
    \/ d[1] < e[1]
    \/ d[1] = e[1] /\ d[2] < e[2]
    \/ d[1] = e[1] /\ d[2] = e[2] /\ d[3] < e[3]

Fingerprint(nodes, edges) ==
    LET all == Weighted(edges)
    IN <<nodes, Sorted(all, {p \in Range(all) \X Range(all) : LessEdge(p[1], p[2])})>>

-----------------------------------------------------------------------------
(***************************************************************************)
(* search_resolution: count is the number of communities large enough to   *)
(* be summarised, by resolution.  Resolutions are 0 .. top, a power of 2,  *)
(* so that it is halved as often as it may be tried.                       *)
(***************************************************************************)
CountSummarizable(groups, minSize) ==
    Cardinality({i \in DOMAIN groups : Cardinality(groups[i]) >= minSize})

Distance(m, n) == IF m > n THEN m - n ELSE n - m

Narrowed(s, mid, count, target) ==
    IF count < target THEN [s EXCEPT !.lo = mid] ELSE [s EXCEPT !.hi = mid]

Middle(s) == (s.lo + s.hi) \div 2

\* a step of the search: s is [lo, hi, best, stop], best 0 before the first
Try(s, count, target) ==
    LET mid == Middle(s)
        closer == s.best = 0 \/ Distance(count[mid], target) < Distance(count[s.best], target)
        kept == IF closer THEN [s EXCEPT !.best = mid] ELSE s
    IN IF s.stop THEN s
       ELSE IF count[mid] = target THEN [kept EXCEPT !.stop = TRUE]
       ELSE Narrowed(kept, mid, count[mid], target)

Searched(count, target, top, n) ==
    FoldLeft(LAMBDA s, i : Try(s, count, target),
             [lo |-> 0, hi |-> top, best |-> 0, stop |-> FALSE], [i \in 1 .. n |-> i])

SearchResolution(count, target, top, maxIter) ==
    Searched(count, target, top, Max({1, maxIter})).best

-----------------------------------------------------------------------------
(***************************************************************************)
(* merge_small_communities: groups are sets of nodes, in Leiden's order.   *)
(* The result is [big : a list of sets, alone : unclustered nodes].        *)
(***************************************************************************)
Votes(edges, community, group) ==
    Total([p \in group \X community |-> GraphWeight(edges, p[1], p[2])])

\* the largest sum of weights, the first of equal ones; 0 without neighbours
BestNeighbour(edges, big, group) ==
    LET votes == [i \in DOMAIN big |-> Votes(edges, big[i], group)]
        near  == {i \in DOMAIN big : \E m \in group, n \in big[i] : Linked(edges, m, n)}
    IN IF near = {} THEN 0
       ELSE Min({i \in near : \A j \in near : votes[i] >= votes[j]})

\* Seeded fault: a merged group does not count as part of its community
MergeGroupFlat(edges, big0, merged, group) ==
    LET best == BestNeighbour(edges, big0, group)
    IN IF best = 0 THEN [merged EXCEPT !.alone = @ \cup group]
       ELSE [merged EXCEPT !.big[best] = @ \cup group]

MergeGroup(edges, big0, merged, group) ==
    LET best == BestNeighbour(edges, merged.big, group)
    IN IF best = 0 THEN [merged EXCEPT !.alone = @ \cup group]
       ELSE [merged EXCEPT !.big[best] = @ \cup group]

SmallGroups(groups, minSize) ==
    Select(groups, {i \in DOMAIN groups : Cardinality(groups[i]) < minSize})

MergeSmall(edges, groups, minSize) ==
    LET big   == Select(groups, {i \in DOMAIN groups : Cardinality(groups[i]) >= minSize})
        small == SmallGroups(groups, minSize)
    IN IF big = <<>> THEN [big |-> <<>>, alone |-> UNION Range(groups)]
       ELSE FoldLeft(LAMBDA merged, g : MergeGroup(edges, big, merged, g),
                     [big |-> big, alone |-> {}], small)

\* assign_community_ids: number i is the community with that id
Numbered(communities) ==
    Sorted(communities, {p \in Range(communities) \X Range(communities) :
        \/ Cardinality(p[1]) > Cardinality(p[2])
        \/ Cardinality(p[1]) = Cardinality(p[2]) /\ Min(p[1]) < Min(p[2])})

\* detect_communities, after Leiden
Detected(edges, groups, minSize) == Numbered(MergeSmall(edges, groups, minSize).big)

-----------------------------------------------------------------------------
(***************************************************************************)
(* enrich_communities, _community_payload and sample_text.                 *)
(***************************************************************************)
\* a relation of an entity with itself counts twice
Degree(edges, n) ==
    LET near == {m \in UNION {{e[1], e[2]} : e \in Range(edges)} : Linked(edges, m, n)}
    IN Cardinality(near) + (IF n \in near THEN 1 ELSE 0)

\* symbols last, then the highest degree, then the name
RanksBefore(edges, symbols, m, n) ==
    \/ m \notin symbols /\ n \in symbols
    \/ /\ m \in symbols <=> n \in symbols
       /\ \/ Degree(edges, m) > Degree(edges, n)
          \/ Degree(edges, m) = Degree(edges, n) /\ m < n

RankedMembers(edges, members, symbols, max) ==
    Top(Arranged(members, {p \in members \X members : RanksBefore(edges, symbols, p[1], p[2])}), max)

Inside(edges, members) ==
    Select(edges, {i \in DOMAIN edges : {edges[i][1], edges[i][2]} \subseteq members})

Crossing(edges, members) ==
    Select(edges, {i \in DOMAIN edges : (edges[i][1] \in members) # (edges[i][2] \in members)})

\* with fewer than `few` edges inside, edges that cross fill up to `enough`
Material(edges, members, few, enough) ==
    LET inside == Inside(edges, members)
        extra  == Crossing(edges, members)
    IN IF Len(inside) >= few THEN inside
       ELSE inside \o Top(extra, Max({0, enough - Len(inside)}))

\* in the text a weight of 0 is 1 too (`or 1.0`)
ShownWeight(e) == IF e[3] = 0 THEN 1 ELSE EdgeWeight(e)

\* the heaviest relations come first in the text
Heaviest(edges, max) ==
    Top(Sorted(edges, {p \in Range(edges) \X Range(edges) :
            \/ ShownWeight(p[1]) > ShownWeight(p[2])
            \/ /\ ShownWeight(p[1]) = ShownWeight(p[2])
               /\ p[1][1] < p[2][1] \/ (p[1][1] = p[2][1] /\ p[1][2] < p[2][2])}), max)
=============================================================================
