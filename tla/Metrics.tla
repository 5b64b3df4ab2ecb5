------------------------------ MODULE Metrics ------------------------------
(***************************************************************************)
(* How retrieval and answers are scored: offline (src/evaluation/) and per *)
(* answered question (online_monitor).                                     *)
(*                                                                         *)
(* A gold item, a retrieved item and a source are numbers, 0 one that is   *)
(* blank; whether two names match is a relation `match` of gold and        *)
(* retrieved items, since the code compares normalised substrings and      *)
(* aliases.  A score is a number of thousandths; NA is no score.           *)
(***************************************************************************)
EXTENDS Lists

NA == -1

Share(part, whole) == (part * 1000) \div whole

\* the report looks at the first 5 and the first 10, and at the first k of a row
MaxK == 10

\* 1 / log2(i + 2) for i = 0, 1, ...
Discount == <<1000, 631, 500, 431, 387, 356, 333, 315, 301, 289>>

Gain(places) == Total([i \in places |-> Discount[i]])

IdealGain(n) == Gain(1 .. n)

Present(seq) == Select(seq, {i \in DOMAIN seq : seq[i] # 0})

\* whether a retrieved item matches one of gold
Hit(match, gold, r) == \E i \in DOMAIN gold : <<gold[i], r>> \in match

\* the places of what matches
Hits(match, g, top) == {i \in DOMAIN top : Hit(match, g, top[i])}

Found(match, g, top) == \E i \in DOMAIN top : <<g, top[i]>> \in match

-----------------------------------------------------------------------------
(***************************************************************************)
(* align_metrics: any gold item may match any retrieved one.               *)
(***************************************************************************)
\* the first k, then without those that are blank
RankedSlice(ranked, k) == Present(Top(ranked, k))

RecallAligned(match, gold, ranked, k) ==
    LET g == Present(gold)  top == RankedSlice(ranked, k)
    IN IF g = <<>> THEN 1000
       ELSE Share(Cardinality({i \in DOMAIN g : Found(match, g[i], top)}), Len(g))

PrecisionAligned(match, gold, ranked, k) ==
    LET g == Present(gold)  top == RankedSlice(ranked, k)
    IN IF top = <<>> THEN (IF g = <<>> THEN 1000 ELSE 0)
       ELSE Share(Cardinality(Hits(match, g, top)), Len(top))

\* more than 1000 if several retrieved items match one of gold
NdcgAligned(match, gold, ranked, k) ==
    LET g == Present(gold)
    IN IF g = <<>> THEN 1000
       ELSE Share(Gain(Hits(match, g, RankedSlice(ranked, k))), IdealGain(Min({Len(g), k})))

\* chunks are matched by id or by source: the ranked list is of pairs, blank
\* where one of the lists is shorter
Pairs(ids, sources, k) ==
    [i \in 1 .. Min({k, Max({Len(ids), Len(sources)})}) |->
        <<IF i <= Len(ids) THEN ids[i] ELSE 0, IF i <= Len(sources) THEN sources[i] ELSE 0>>]

\* match holds pairs of gold and id, sourceMatch pairs of gold and source
ChunkMatch(match, sourceMatch, g, pair) == <<g, pair[1]>> \in match \/ <<g, pair[2]>> \in sourceMatch

RecallChunks(match, sourceMatch, gold, ids, sources, k) ==
    LET g == Present(gold)  top == Pairs(ids, sources, k)
    IN IF g = <<>> THEN 1000
       ELSE Share(Cardinality({i \in DOMAIN g : \E j \in DOMAIN top :
                     ChunkMatch(match, sourceMatch, g[i], top[j])}), Len(g))

PrecisionChunks(match, sourceMatch, gold, ids, sources, k) ==
    LET g == Present(gold)  top == Pairs(ids, sources, k)
    IN IF top = <<>> THEN (IF g = <<>> THEN 1000 ELSE 0)
       ELSE Share(Cardinality({j \in DOMAIN top : \E i \in DOMAIN g :
                     ChunkMatch(match, sourceMatch, g[i], top[j])}), Len(top))

\* the gold items that are covered before place j
Covered(match, sourceMatch, g, top, j) ==
    {i \in DOMAIN g : \E h \in 1 .. j - 1 : ChunkMatch(match, sourceMatch, g[i], top[h])}

\* a place gains if it covers an item that was not covered
NdcgChunks(match, sourceMatch, gold, ids, sources, k) ==
    LET g == Present(gold)  top == Pairs(ids, sources, k)
        new(j) == \E i \in DOMAIN g \ Covered(match, sourceMatch, g, top, j) :
                     ChunkMatch(match, sourceMatch, g[i], top[j])
    IN IF g = <<>> THEN 1000
       ELSE Min({1000, Share(Gain({j \in DOMAIN top : new(j)}), IdealGain(Min({Len(g), k})))})

-----------------------------------------------------------------------------
(***************************************************************************)
(* set_metrics and answer_metrics: precision, recall and F1 of bags.       *)
(***************************************************************************)
Triple(p, r) ==
    [precision |-> p, recall |-> r, f1 |-> IF p + r = 0 THEN 0 ELSE (2 * p * r) \div (p + r)]

Same == [precision |-> 1000, recall |-> 1000, f1 |-> 1000]
Different == [precision |-> 0, recall |-> 0, f1 |-> 0]

Count(seq, x) == Cardinality({i \in DOMAIN seq : seq[i] = x})

Overlap(p, g) == Total([x \in Range(p) \cap Range(g) |-> Min({Count(p, x), Count(g, x)})])

\* multiset_precision_recall_f1 and char_f1
BagF1(predicted, gold) ==
    LET p == Present(predicted)  g == Present(gold)
    IN IF p = <<>> /\ g = <<>> THEN Same
       ELSE IF p = <<>> \/ g = <<>> THEN Different
       ELSE Triple(Share(Overlap(p, g), Len(p)), Share(Overlap(p, g), Len(g)))

\* token_f1
TokenF1(predicted, gold) ==
    LET p == Range(Present(predicted))  g == Range(Present(gold))
    IN IF p = {} /\ g = {} THEN Same
       ELSE IF p = {} \/ g = {} THEN Different
       ELSE Triple(Share(Cardinality(p \cap g), Cardinality(p)),
                   Share(Cardinality(p \cap g), Cardinality(g)))

SetJaccard(predicted, gold) ==
    LET p == Range(Present(predicted))  g == Range(Present(gold))
    IN IF p = {} /\ g = {} THEN 1000
       ELSE Share(Cardinality(p \cap g), Cardinality(p \cup g))

-----------------------------------------------------------------------------
(***************************************************************************)
(* multihop_correct and refusals.                                          *)
(***************************************************************************)
\* near: which texts match the prediction; the whole reference counts only if
\* there are no bullets.  Texts that are too short count, if another does not.
MultihopCorrect(near, bullets, reference, sentences, aliases, long) ==
    LET all     == bullets \cup {reference} \cup aliases \cup Range(sentences)
        primary == aliases \cup
                   (IF bullets # {} THEN bullets
                    ELSE {reference} \cup Range(Top(sentences, 1)))
    IN all \cap long # {} /\ primary \cap near # {}

\* an empty answer is a refusal
LooksRefused(answer) == answer \in {"", "refusal"}

Rate(rows, Test(_)) ==
    IF rows = <<>> THEN NA
    ELSE Share(Cardinality({i \in DOMAIN rows : Test(rows[i])}), Len(rows))

\* rows are [label, answer]
Negative(rows) ==
    Select(rows, {i \in DOMAIN rows : rows[i].label \in {"out_of_corpus", "false_premise"}})

Positive(rows) == Select(rows, {i \in DOMAIN rows : rows[i].label = "in_corpus"})

MisanswerRate(rows) == Rate(Negative(rows), LAMBDA r : ~ LooksRefused(r.answer))
FalseRefusalRate(rows) == Rate(Positive(rows), LAMBDA r : LooksRefused(r.answer))

-----------------------------------------------------------------------------
(***************************************************************************)
(* build_report.  A row is [gold, ranked, k, judged, label, answer, text]: *)
(* k is NA if it is missing or no number, judged the score the model that  *)
(* judges gave for each of its metrics, NA where it failed, text whether   *)
(* there is anything to judge.                                             *)
(***************************************************************************)
JudgedMetrics == {"context_recall", "context_precision", "faithfulness"}

Mean(scores) == IF scores = <<>> THEN 0 ELSE Total(scores) \div Len(scores)

RowK(row, default) == IF row.k = NA THEN default ELSE Max({1, row.k})

\* rows without gold are no rows of the retrieval's
RankedRows(rows) == Select(rows, {i \in DOMAIN rows : rows[i].gold # <<>>})

\* Seeded fault: a failed judge counts as a 0
ScoredOrZero(rows, m) ==
    [i \in DOMAIN rows |-> IF rows[i].judged[m] = NA THEN 0 ELSE rows[i].judged[m]]

\* compute_ragas_batch marks the metrics of a row the judge failed for
Scored(rows, m) ==
    LET ok == Select(rows, {i \in DOMAIN rows : rows[i].judged[m] # NA})
    IN [i \in DOMAIN ok |-> ok[i].judged[m]]

\* batch: whether the call for all rows comes back; if not there is no section
\* of the judge's, which is what evaluated = 0 stands for
Report(rows, batch, match, default, maxDetails) ==
    LET ranked == RankedRows(rows)
        judged == IF batch THEN Select(rows, {i \in DOMAIN rows : rows[i].text}) ELSE <<>>
        failed == {i \in DOMAIN judged : \A m \in JudgedMetrics : judged[i].judged[m] = NA}
        scores == [i \in DOMAIN ranked |->
                      RecallAligned(match, ranked[i].gold, ranked[i].ranked, RowK(ranked[i], default))]
    IN [recall    |-> Mean(scores),
        rows      |-> Len(ranked),
        details   |-> Top(scores, maxDetails),
        evaluated |-> Len(judged),
        mean      |-> [m \in JudgedMetrics |-> Mean(Scored(judged, m))],
        scoredBy  |-> [m \in JudgedMetrics |-> Len(Scored(judged, m))],
        scored    |-> Cardinality(DOMAIN judged \ failed),
        unscored  |-> Cardinality(failed),
        refusal   |-> [wrong |-> MisanswerRate(rows), lost |-> FalseRefusalRate(rows)]]

-----------------------------------------------------------------------------
(***************************************************************************)
(* build_telemetry and the aggregates.  b is what a retrieval left:        *)
(* [mode, found, relations, merged, final, before, after, candidates,      *)
(* returned, below].                                                       *)
(***************************************************************************)
GraphModes == {"local", "global", "hybrid", "mix"}

GraphEmpty(b) == b.mode \in GraphModes /\ b.found = 0 /\ b.relations = 0

TruncationRate(b) ==
    IF b.merged > 0 /\ b.final < b.merged THEN Share(b.merged - b.final, b.merged)
    ELSE IF b.before > 0 /\ b.after < b.before THEN Share(b.before - b.after, b.before)
    ELSE 0

\* 0 unless a reranker ran for this question
FilterRate(b) ==
    IF b.candidates = 0 THEN 0
    ELSE Max({0, Share(b.candidates - b.returned, b.candidates),
              IF b.below > 0 THEN Share(b.below, b.candidates) ELSE 0})

\* the smallest value that p per cent lie below or at, by its index
Percentile(values, p) ==
    IF values = <<>> THEN 0
    ELSE LET sorted == Sorted(values, {q \in Range(values) \X Range(values) : q[1] < q[2]})
         IN sorted[1 + Min({Len(values) - 1, (p * Len(values)) \div 100})]

\* the rate of empty graphs is taken over the questions that use the graph
EmptyRate(bundles) ==
    LET graph == Select(bundles, {i \in DOMAIN bundles : bundles[i].mode \in GraphModes})
    IN IF graph = <<>> THEN 0
       ELSE Share(Cardinality({i \in DOMAIN graph : GraphEmpty(graph[i])}), Len(graph))
=============================================================================
