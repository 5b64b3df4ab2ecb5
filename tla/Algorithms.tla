----------------------------- MODULE Algorithms -----------------------------
(***************************************************************************)
(* The parts of the program that compute rather than wait, each run on     *)
(* every input of a bounded set: what a search merges and keeps, what fits *)
(* the context, how communities come about, how answers are scored, and    *)
(* the filters and limits that take one step after another.                *)
(*                                                                         *)
(* sample is the case at hand: its kind, its inputs and, where the part    *)
(* has a state, that state.                                                *)
(***************************************************************************)
EXTENDS Retrieval, Partition, Metrics, Limits

CONSTANTS
    Asks,          \* questions put to the graph search
    EntityLists,   \* results of a search for entities
    EdgeLists,     \* and for relations
    RelationLists, \* relations before the filter, [edge, hits, score]
    Backends,      \* of the reranker, see Rerank
    FilterLimits,  \* [minHits, minScore, topK]
    ChunkLists,    \* chunks before they are trimmed, [len, path, refs]
    CostLists,     \* the blocks of community reports, in tokens
    MaxBudget,     \* the largest budget that is tried,
    MaxCount,      \* and the largest number of items: rows, chunks, questions of a window
    Graphs,        \* lists of edges <<a, b, weight>>
    Nodes,
    Groupings,     \* what Leiden finds: lists of sets of nodes
    Splits,        \* what it finds by resolution, 1 .. Top2 - 1
    Top2,          \* a power of 2,
    Halvings,      \* and which one
    Golds, Rankings, Matches, SourceMatches,
    Rows,          \* rows of a report
    Bundles,       \* what retrievals leave for the monitoring
    Letters,       \* what texts are written in
    Texts,         \* streamed answers
    Rates,         \* [rate, capacity, unit] of token buckets
    Callers, MaxRetries,
    Window,        \* ticks of a window of the shared limit
    MaxTime,       \* ticks that limits are watched for
    MaxAllowed     \* questions that are let through meanwhile

ASSUME TextsAssumption == Texts \subseteq Seq(Letters)

\* a block of a report is never empty; scores and thresholds are out of 100
ASSUME ResultsAssumption ==
    /\ EntityLists \subseteq Seq(STRING)
    /\ EdgeLists \subseteq Seq(STRING \X STRING)
    /\ RelationLists \subseteq
          Seq([edge : STRING \X STRING, hits : Nat, score : 0 .. 100])
    /\ FilterLimits \subseteq [minHits : Nat, minScore : 0 .. 100, topK : Nat \ {0}]
    /\ Backends \subseteq {"none", "api", "capped", "local", "broken", "outage"}
    /\ ChunkLists \subseteq Seq([len : Nat, path : BOOLEAN, refs : Seq(STRING)])
    /\ CostLists \subseteq Seq(Nat \ {0})
    /\ MaxBudget \in Nat /\ MaxCount \in Nat

\* what Leiden finds are communities of which each node is in one
ASSUME GraphsAssumption ==
    /\ IsFiniteSet(Nodes) /\ Nodes \subseteq Nat
    /\ Graphs \subseteq Seq(Nodes \X Nodes \X ({NoWeight} \cup Nat))
    /\ Groupings \subseteq Seq((SUBSET Nodes) \ {{}})
    /\ \A groups \in Groupings :
          /\ UNION Range(groups) = Nodes
          /\ \A i, j \in DOMAIN groups : i # j => groups[i] \cap groups[j] = {}
    /\ Halvings \in Nat \ {0} /\ Top2 \in Nat
    /\ \E d \in [0 .. Halvings -> 1 .. Top2] :
          /\ d[0] = 1 /\ d[Halvings] = Top2
          /\ \A i \in 1 .. Halvings : d[i] = 2 * d[i - 1]
    /\ Splits \subseteq [1 .. Top2 - 1 -> Groupings]

\* no more documents score too little than a reranker was given; scores are
\* thousandths, so one hit of more than 1000 gold items could round to none
ASSUME ScoresAssumption ==
    /\ Golds \subseteq Seq(Nat) /\ Rankings \subseteq Seq(Nat)
    /\ \A g \in Golds : Len(g) <= 1000
    /\ Matches \subseteq SUBSET (Nat \X Nat)
    /\ Rows \subseteq [gold : Seq(Nat), ranked : Seq(Nat), k : {NA} \cup Nat,
                      judged : [JudgedMetrics -> {NA} \cup 0 .. 1000],
                      label : STRING, answer : STRING, text : BOOLEAN]
    /\ Bundles \subseteq [mode : STRING, found : Nat, relations : Nat, merged : Nat, final : Nat,
                         before : Nat, after : Nat, candidates : Nat, returned : Nat, below : Nat]
    /\ \A b \in Bundles : b.candidates > 0 => b.below <= b.candidates

ASSUME LimitsAssumption ==
    /\ Rates \subseteq [rate : Nat, capacity : Nat \ {0}, unit : Nat \ {0}]
    /\ IsFiniteSet(Callers) /\ MaxRetries \in Nat
    /\ Window \in Nat \ {0} /\ MaxTime \in Nat

VARIABLE sample

vars == <<sample>>

Start == sample.kind = "none"

Init == sample = [kind |-> "none"]

SeqsUpTo(S, n) == UNION {[1 .. m -> S] : m \in 0 .. n}

-----------------------------------------------------------------------------
(***************************************************************************)
(* Cases of a single step.                                                 *)
(***************************************************************************)
Search ==
    Start /\ \E ask \in Asks : sample' = [kind |-> "search", ask |-> ask]

MergeEntities ==
    Start /\ \E local, global \in EntityLists :
        sample' = [kind |-> "entities", local |-> local, global |-> global]

MergeRelations ==
    Start /\ \E local, global \in EdgeLists :
        sample' = [kind |-> "relations", local |-> local, global |-> global]

FilterRelations ==
    Start /\ \E r \in RelationLists, b \in Backends, e \in BOOLEAN, lim \in FilterLimits :
        sample' = [kind |-> "filter", relations |-> r, backend |-> b, embedding |-> e, lim |-> lim]

TrimChunks ==
    Start /\ \E c \in ChunkLists, n \in 1 .. MaxCount, max \in 1 .. MaxBudget :
        sample' = [kind |-> "trim", chunks |-> c, count |-> n, max |-> max]

RenderReports ==
    Start /\ \E c \in CostLists, max \in 0 .. MaxBudget, least \in 1 .. MaxCount :
        sample' = [kind |-> "render", costs |-> c, max |-> max, least |-> least]

MergeCommunities ==
    Start /\ \E e \in Graphs, g \in Groupings, size \in 2 .. 3 :
        sample' = [kind |-> "communities", edges |-> e, groups |-> g, size |-> size]

CompareGraphs ==
    Start /\ \E e, f \in {g \in Graphs : Len(g) <= 2} :
        sample' = [kind |-> "graphs", one |-> e, other |-> f]

Resolve ==
    Start /\ \E s \in Splits, size \in 1 .. 3, n \in 0 .. 2 * Cardinality(Nodes) + 1 :
        sample' = [kind |-> "resolution",
                   count |-> [r \in 1 .. Top2 - 1 |-> CountSummarizable(s[r], size)],
                   target |-> TargetCount(n, 2, 1, Cardinality(Nodes))]

Rank ==
    Start /\ \E g \in Golds, r \in Rankings, m \in Matches :
        sample' = [kind |-> "rank", gold |-> g, ranked |-> r, match |-> m]

RankChunks ==
    Start /\ \E g, i, s \in Golds, m \in Matches, sm \in SourceMatches :
        sample' = [kind |-> "chunks", gold |-> g, ids |-> i, sources |-> s,
                   match |-> m, sourceMatch |-> sm]

Compare ==
    Start /\ \E p, g \in Rankings : sample' = [kind |-> "bags", predicted |-> p, gold |-> g]

JudgeMultihop ==
    Start /\ \E near, bullets, aliases, long \in SUBSET Nodes, s \in SeqsUpTo({1, 2}, MaxCount) :
        sample' = [kind |-> "multihop", near |-> near, bullets |-> bullets, sentences |-> s,
                   aliases |-> aliases, long |-> long]

Evaluate ==
    Start /\ \E rows \in SeqsUpTo(Rows, MaxCount), batch \in BOOLEAN :
        sample' = [kind |-> "report", rows |-> rows, batch |-> batch]

Observe ==
    Start /\ \E b \in SeqsUpTo(Bundles, MaxCount) : sample' = [kind |-> "telemetry", bundles |-> b]

-----------------------------------------------------------------------------
(***************************************************************************)
(* A streamed answer, cut into chunks anywhere.                            *)
(***************************************************************************)
StartStream ==
    Start /\ \E t \in Texts :
        sample' = [kind |-> "stream", text |-> t, at |-> 0, s |-> Listening]

NextChunk ==
    /\ sample.kind = "stream"
    /\ \E n \in 1 .. Len(sample.text) - sample.at :
          sample' = [sample EXCEPT !.at = @ + n,
                                   !.s = Feed(@, SubSeq(sample.text, sample.at + 1, sample.at + n))]

(***************************************************************************)
(* Questions under a rate limit.                                           *)
(***************************************************************************)
StartBucket ==
    Start /\ \E r \in Rates :
        sample' = [kind |-> "bucket", lim |-> r, b |-> FullBucket(r.capacity, r.unit)]

StartWindow ==
    Start /\ \E max \in 1 .. MaxCount : sample' = [kind |-> "window", max |-> max, b |-> NewWindow]

Tick ==
    /\ sample.kind \in {"bucket", "window"} /\ sample.b.now < MaxTime
    /\ sample' = [sample EXCEPT !.b.now = @ + 1]

AskBucket ==
    /\ sample.kind = "bucket" /\ Len(sample.b.allowed) < MaxAllowed
    /\ sample' = [sample EXCEPT !.b = Acquire(@, sample.lim.rate, sample.lim.capacity, sample.lim.unit)]

AskShared ==
    /\ sample.kind = "window" /\ Len(sample.b.allowed) < MaxAllowed
    /\ sample.b.count[1] = sample.b.now \div Window => sample.b.count[2] < sample.max + 2
    /\ \E answer \in {"ok", "down", "lost"} :
          sample' = [sample EXCEPT !.b = AcquireShared(@, Window, sample.max, answer)]

(***************************************************************************)
(* Calls of a model: questions and insertions have quotas of their own.    *)
(***************************************************************************)
LimitOf(key) == IF key = "query" THEN 2 ELSE 1

StartCalls == Start /\ sample' = [kind |-> "calls", q |-> NoCalls(Callers, {"query", "insert"})]

Enter == sample.kind = "calls" /\ \E c \in Callers, key \in {"query", "insert"} :
    /\ sample.q.calls[c].pc = "out"
    /\ sample' = [sample EXCEPT !.q = EnterCall(@, c, key, LimitOf(key))]

Take == sample.kind = "calls" /\ \E c \in Callers :
    /\ CanTake(sample.q, c)
    /\ sample' = [sample EXCEPT !.q = TakePermit(@, c)]

End == sample.kind = "calls" /\ \E c \in Callers, ok \in BOOLEAN :
    /\ sample.q.calls[c].pc = "in"
    /\ sample' = [sample EXCEPT !.q = EndTry(@, c, ok, MaxRetries)]

Again == sample.kind = "calls" /\ \E c \in Callers :
    /\ sample.q.calls[c].pc = "backoff"
    /\ sample' = [sample EXCEPT !.q = TryAgain(@, c)]

Next ==
    \/ Search \/ MergeEntities \/ MergeRelations \/ FilterRelations
    \/ TrimChunks \/ RenderReports
    \/ MergeCommunities \/ CompareGraphs \/ Resolve
    \/ Rank \/ RankChunks \/ Compare \/ JudgeMultihop \/ Evaluate \/ Observe
    \/ StartStream \/ NextChunk
    \/ StartBucket \/ StartWindow \/ Tick \/ AskBucket \/ AskShared
    \/ StartCalls \/ Enter \/ Take \/ End \/ Again

Spec == Init /\ [][Next]_vars

-----------------------------------------------------------------------------
(***************************************************************************)
(* Properties.                                                             *)
(***************************************************************************)
NoRepeats(seq, key(_)) ==
    \A i, j \in DOMAIN seq : i # j => key(seq[i]) # key(seq[j])

First(seq, key(_), x) == Min({i \in DOMAIN seq : key(seq[i]) = key(x)})

\* an item at place i of a list is at place 2 * i of the merged one at worst
FairMerge(merged, lists, key(_)) ==
    /\ NoRepeats(merged, key)
    /\ {key(m) : m \in Range(merged)} = UNION {{key(x) : x \in Range(l)} : l \in lists}
    /\ \A l \in lists : \A i \in DOMAIN l : First(merged, key, l[i]) <= 2 * i

(***************************************************************************)
(* The searches of one question do not mix up their results.  A search is  *)
(* never given the vector of another text, although one call embeds them   *)
(* all and its answer is taken apart by position; and it has one, if the   *)
(* call succeeds and its own keywords were embedded.  Merging the results  *)
(* of the two searches loses no entity and no relation, keeps none twice   *)
(* (a relation seen from its other end is the same one), and neither       *)
(* search can push the other's best results behind its own                 *)
(* (_patched_perform_kg_search in lightrag_patches).                       *)
(***************************************************************************)
SearchesMerged ==
    /\ sample.kind = "search" => \A s \in Searches(sample.ask) :
          /\ SearchVector(sample.ask, s) \in {"", SearchText(sample.ask, s)}
          /\ sample.ask.embeds /\ sample.ask.mode \in {"hybrid", "mix", s} /\ sample.ask.vdb
                => SearchVector(sample.ask, s) = SearchText(sample.ask, s)
    /\ sample.kind = "entities" =>
          LET merged == MergedEntities(sample.local, sample.global)
              key(x) == x
          IN /\ NoRepeats(merged, key)
             /\ Range(merged) = (Range(sample.local) \cup Range(sample.global)) \ {""}
             /\ \A l \in {sample.local, sample.global} : \A i \in DOMAIN l :
                   l[i] # "" => First(merged, key, l[i]) <= 2 * i
    /\ sample.kind = "relations" =>
          FairMerge(MergedRelations(sample.local, sample.global),
                    {sample.local, sample.global}, LAMBDA r : {r[1], r[2]})

\* the scores a healthy reranker gives, 0 if none runs
Liking(f, r) == IF f.backend \in {"api", "capped", "local"} THEN r.score ELSE 0

(***************************************************************************)
(* Filtering makes the relations fewer and better, never none of some: as  *)
(* long as a search found a relation with two ends, one is left, whatever  *)
(* its keywords and unless the reranker fails.  None is left twice, there  *)
(* are at most top_k, a relation without enough keywords stands in for     *)
(* none that has them, and a relation that is dropped for room is liked    *)
(* no better than one that is kept (filter_relationships).                 *)
(***************************************************************************)
RelationsKept ==
    sample.kind = "filter" /\ sample.backend # "outage" =>
        LET found == Select(sample.relations, WithEnds(sample.relations))
            lim   == sample.lim
            kept  == Filtered(sample.relations, sample.backend, sample.embedding, lim)
            good  == {r \in Range(Distinct(sample.relations)) : r.hits >= lim.minHits}
        IN /\ found # <<>> => kept # <<>>
           /\ Len(kept) <= lim.topK /\ Range(kept) \subseteq Range(found)
           /\ NoRepeats(kept, LAMBDA r : {r.edge[1], r.edge[2]})
           /\ good # {} => Range(kept) \subseteq good
           /\ \A i, j \in DOMAIN kept :
                 i < j => Liking(sample, kept[i]) >= Liking(sample, kept[j])
           /\ \A r \in good \ Range(kept), k \in Range(kept) :
                 Liking(sample, r) <= Liking(sample, k)

(***************************************************************************)
(* While the rerank API is down the documents are ranked by their          *)
(* embeddings, so that relations are still left (the docstring of          *)
(* _rerank_with_embedding_fallback, remote_rerank:193).                    *)
(***************************************************************************)
OutageFallsBack ==
    sample.kind = "filter" /\ sample.backend = "outage" /\ sample.embedding =>
        (Distinct(sample.relations) # <<>> =>
             Filtered(sample.relations, "outage", TRUE, sample.lim) # <<>>)

\* the text of the chunks, in characters
TextLen(chunks) == Total([i \in DOMAIN chunks |-> chunks[i].len])

(***************************************************************************)
(* What the model is given fits, and holds what fits.  Trimmed chunks have *)
(* no more characters than allowed, in their order and without a gap, only *)
(* the first is ever cut, and text that comes first leaves text.  Reports  *)
(* with the blank lines between them have no more tokens than allowed, at  *)
(* most the last one is cut, and one that fits is never left out.  There   *)
(* are no more pictures than allowed, none twice and none that cannot be   *)
(* read (multimodal_answer, image_refs, community injector).               *)
(***************************************************************************)
ContextFits ==
    /\ sample.kind = "trim" =>
          LET out    == Trimmed(sample.chunks, sample.count, sample.max)
              top    == Top(sample.chunks, sample.count)
              given  == Select(top, {i \in DOMAIN top : top[i].len > 0 \/ top[i].path})
              images == CollectImages(out, sample.count)
          IN /\ TextLen(out) <= sample.max
             /\ \/ IsPrefix(out, given)
                \/ Len(out) = 1 /\ out[1].len = sample.max /\ given[1].len > sample.max
             /\ given # <<>> /\ given[1].len > 0 => Pieces(out) # {}
             /\ Len(images) <= sample.count /\ NoRepeats(images, LAMBDA r : r)
             /\ \A r \in Range(images) :
                   r \notin {"url", "missing"} /\ \E c \in Range(out) : Contains(c.refs, r)
    /\ sample.kind = "render" =>
          LET out == Rendered(sample.costs, sample.max, sample.least)
          IN /\ TextTokens(out) <= sample.max
             /\ \A i \in DOMAIN out :
                   \/ out[i] = sample.costs[i]
                   \/ i = Len(out) /\ out[i] \in sample.least + 1 .. sample.costs[i] - 1
             /\ \A i \in DOMAIN sample.costs :
                   TextTokens(SubSeq(sample.costs, 1, i)) <= sample.max => Len(out) >= i

\* the small groups, in the order they are looked at
Touches(edges, group, nodes) == \E m \in group, n \in nodes : Linked(edges, m, n)

(***************************************************************************)
(* Merging small communities neither loses nor copies a node: each is in   *)
(* one community that is large enough, or in none; and it is in none only  *)
(* if its group touched no community when its turn came, merged groups     *)
(* counting as parts of theirs (merge_small_communities).                  *)
(***************************************************************************)
CommunitiesPartition ==
    sample.kind = "communities" =>
        LET merged == MergeSmall(sample.edges, sample.groups, sample.size)
            small  == SmallGroups(sample.groups, sample.size)
            larger == (UNION Range(sample.groups)) \ UNION Range(small)
            others(i) == UNION {merged.big[j] : j \in DOMAIN merged.big \ {i}}
        IN /\ (UNION Range(merged.big)) \cup merged.alone = Nodes
           /\ \A i \in DOMAIN merged.big :
                 /\ merged.big[i] \cap (others(i) \cup merged.alone) = {}
                 /\ Cardinality(merged.big[i]) >= sample.size
           /\ \A i \in DOMAIN small : small[i] \subseteq merged.alone =>
                 ~ Touches(sample.edges, small[i], larger \cup
                      UNION {small[j] : j \in {h \in 1 .. i - 1 : ~ small[h] \subseteq merged.alone}})

(***************************************************************************)
(* Communities get their numbers, the largest first, whatever order Leiden *)
(* found them in (assign_community_ids); and what a model is told of one   *)
(* is what says most about it: its entities with the most neighbours, the  *)
(* symbols only after all others, its own relations before those that lead *)
(* out of it, the heaviest first (_community_payload, sample_text).        *)
(***************************************************************************)
CommunitiesPresented ==
    sample.kind = "communities" =>
        LET ids == Detected(sample.edges, sample.groups, sample.size)
        IN /\ Numbered(Reverse(ids)) = ids
           /\ \A i, j \in DOMAIN ids : i < j => Cardinality(ids[i]) >= Cardinality(ids[j])
           /\ \A i \in DOMAIN ids :
                 LET few   == Material(sample.edges, ids[i], 1, 2)
                     shown == Range(RankedMembers(sample.edges, ids[i], {1}, 2))
                 IN /\ 1 \in shown => shown = ids[i]
                    /\ \A m \in shown \ {1}, n \in ids[i] \ (shown \cup {1}) :
                          Degree(sample.edges, n) <= Degree(sample.edges, m)
                    /\ IsPrefix(Inside(sample.edges, ids[i]), few)
                    /\ \A d \in Range(few) : ShownWeight(d) <= ShownWeight(Heaviest(few, 1)[1])

(***************************************************************************)
(* Two graphs with one fingerprint are the same graph, and the order in    *)
(* which its edges are read does not matter: otherwise a refresh would     *)
(* take a changed graph for up to date, or build anew for nothing          *)
(* (graph_fingerprint, build_graph).                                       *)
(***************************************************************************)
FingerprintTells ==
    sample.kind = "graphs" =>
        /\ Fingerprint(Nodes, sample.one) = Fingerprint(Nodes, sample.other) =>
              \A m, n \in Nodes :
                 /\ Linked(sample.one, m, n) = Linked(sample.other, m, n)
                 /\ GraphWeight(sample.one, m, n) = GraphWeight(sample.other, m, n)
        /\ Fingerprint(Nodes, sample.one) = Fingerprint(Nodes, Reverse(sample.one))

\* the resolutions that were tried: the middles, until one was right
Tried(count, target) ==
    LET at(k) == Searched(count, target, Top2, k)
    IN {Middle(at(k)) : k \in {j \in 0 .. Halvings - 1 : ~ at(j).stop}}

ClosestOf(best, count, target, resolutions) ==
    \A r \in resolutions : Distance(count[best], target) <= Distance(count[r], target)

(***************************************************************************)
(* The resolution that is used was tried, and of those that were tried it  *)
(* comes closest to the wanted number of communities.  Where more          *)
(* resolution never means fewer communities that are large enough, no      *)
(* other one comes closer, although few are tried (search_resolution).     *)
(***************************************************************************)
ResolutionFound ==
    sample.kind = "resolution" =>
        LET count == sample.count
            best  == SearchResolution(count, sample.target, Top2, Halvings)
            tried == Tried(count, sample.target)
        IN /\ best \in tried /\ ClosestOf(best, count, sample.target, tried)
           /\ (\A i, j \in DOMAIN count : i <= j => count[i] <= count[j])
                 => ClosestOf(best, count, sample.target, DOMAIN count)

(***************************************************************************)
(* No resolution comes closer than the one that halving finds, because     *)
(* the number of communities never falls as the resolution grows and so    *)
(* can be searched by halving (the docstring of search_resolution,         *)
(* partition.py:147).  The count does fall, and no run asks for this.      *)
(***************************************************************************)
ResolutionClosest ==
    sample.kind = "resolution" =>
        ClosestOf(SearchResolution(sample.count, sample.target, Top2, Halvings),
                  sample.count, sample.target, DOMAIN sample.count)

(***************************************************************************)
(* What is partitioned, numbered, shown and looked up again is the graph   *)
(* (partition, builder, summarizer).                                       *)
(***************************************************************************)
PartitionSound ==
    CommunitiesPartition /\ CommunitiesPresented /\ FingerprintTells /\ ResolutionFound

InRange(x) == x \in 0 .. 1000

(***************************************************************************)
(* Rates of the monitoring are rates, over the questions they are about: a *)
(* question in a mode that uses no graph is no empty graph and does not    *)
(* count as one with a graph, what was filtered or truncated is a part of  *)
(* what there was, and a percentile is one of the values, at least p per   *)
(* cent of which are no larger (online_monitor).                           *)
(***************************************************************************)
RatesAreRates ==
    sample.kind = "telemetry" =>
        LET bundles == sample.bundles
            finals  == [i \in DOMAIN bundles |-> bundles[i].final]
        IN /\ \A i \in DOMAIN bundles :
                 InRange(TruncationRate(bundles[i])) /\ InRange(FilterRate(bundles[i]))
           /\ InRange(EmptyRate(bundles))
           /\ EmptyRate(bundles) =
                    EmptyRate(Select(bundles, {i \in DOMAIN bundles : bundles[i].mode \in GraphModes}))
           /\ finals # <<>> => \A p \in {0, 50, 95} :
                 LET x == Percentile(finals, p)
                 IN /\ x \in Range(finals)
                    /\ 100 * Cardinality({i \in DOMAIN finals : finals[i] <= x}) >= p * Len(finals)

(***************************************************************************)
(* Scores of rankings can be compared, at every cut the report makes.      *)
(* Recall and precision lie between 0 and 1, and looking at more results   *)
(* never lowers the recall.  An NDCG is 0 exactly when the precision is,   *)
(* unless nothing was to be found.  For chunks it is at most 1.  For       *)
(* entities and relations it is so only as long as no more results match   *)
(* than there are items to be found (several that match one item gain for  *)
(* each of them); then it is 1 exactly for an ideal ranking, of which the  *)
(* first results all match (align_metrics).                                *)
(***************************************************************************)
RankingsComparable ==
    /\ sample.kind = "rank" => \A k \in 1 .. MaxK :
          LET g == sample.gold  r == sample.ranked  m == sample.match
              gold == Present(g)
              hits == Hits(m, gold, RankedSlice(r, k))
              n    == NdcgAligned(m, g, r, k)
          IN /\ InRange(RecallAligned(m, g, r, k)) /\ InRange(PrecisionAligned(m, g, r, k))
             /\ RecallAligned(m, g, r, k) <= RecallAligned(m, g, r, k + 1)
             /\ n = 0 <=> gold # <<>> /\ PrecisionAligned(m, g, r, k) = 0
             /\ Cardinality(hits) <= Len(gold) =>
                   /\ InRange(n)
                   /\ n = 1000 <=> 1 .. Min({Len(gold), k}) \subseteq hits
    /\ sample.kind = "chunks" => \A k \in 1 .. MaxK :
          LET recall == RecallChunks(sample.match, sample.sourceMatch, sample.gold,
                                     sample.ids, sample.sources, k)
              precision == PrecisionChunks(sample.match, sample.sourceMatch, sample.gold,
                                           sample.ids, sample.sources, k)
              ndcg == NdcgChunks(sample.match, sample.sourceMatch, sample.gold,
                                 sample.ids, sample.sources, k)
          IN /\ InRange(recall) /\ InRange(precision) /\ InRange(ndcg)
             /\ Present(sample.gold) # <<>> => (recall = 0 <=> ndcg = 0) /\ (recall = 0 <=> precision = 0)

(***************************************************************************)
(* Precision, recall and F1 of bags and sets lie between 0 and 1, F1       *)
(* between the other two; exchanging prediction and reference exchanges    *)
(* precision and recall and leaves F1, and the Jaccard score is no better  *)
(* than either (set_metrics, token_f1).                                    *)
(***************************************************************************)
BagsComparable ==
    sample.kind = "bags" =>
        LET a == BagF1(sample.predicted, sample.gold)
            b == BagF1(sample.gold, sample.predicted)
            t == TokenF1(sample.predicted, sample.gold)
        IN /\ a.f1 = b.f1 /\ a.precision = b.recall
           /\ \A x \in {a, t} : /\ InRange(x.precision) /\ InRange(x.recall)
                                /\ x.f1 + 1 >= Min({x.precision, x.recall})
                                /\ x.f1 <= Max({x.precision, x.recall})
           /\ SetJaccard(sample.predicted, sample.gold) <= Min({t.precision, t.recall})

(***************************************************************************)
(* Scores are about what was scored.  The mean of a judged metric is that  *)
(* of the rows it was computed for, and their number is given beside it:   *)
(* a row the judge failed for changes neither, and a mean of no rows, 0,   *)
(* is told by a number of 0.  Each row with something to judge is counted  *)
(* as scored or as unscored, unless the whole call fails; then none is.    *)
(* There is no rate of lost answers without a row that has one, and a      *)
(* prediction that matches nothing is not correct whatever there was to    *)
(* match (build_report, compute_ragas_batch, multihop_correct).            *)
(***************************************************************************)
ReportsFair ==
    /\ sample.kind = "multihop" =>
          LET correct(near, bullets) == MultihopCorrect(near, bullets, 4, sample.sentences,
                                                        sample.aliases, sample.long)
          IN /\ ~ correct({}, sample.bullets)
             /\ correct(sample.near, sample.bullets) => correct(Nodes, sample.bullets)
    /\ sample.kind = "report" =>
          LET rows   == sample.rows
              asked  == {i \in DOMAIN rows : rows[i].text}
              of(m)  == Select(rows, {i \in DOMAIN rows : rows[i].judged[m] # NA})
              report == Report(rows, sample.batch, {<<1, 1>>}, 2, 1)
          IN /\ \A m \in JudgedMetrics :
                   LET alone == Report(of(m), sample.batch, {<<1, 1>>}, 2, 1)
                   IN /\ report.mean[m] = alone.mean[m] /\ InRange(report.mean[m])
                      /\ report.scoredBy[m] = alone.scoredBy[m]
             /\ report.evaluated = IF sample.batch THEN Cardinality(asked) ELSE 0
             /\ report.scored + report.unscored = report.evaluated
             /\ report.scored = 0 <=> \A m \in JudgedMetrics : report.scoredBy[m] = 0
             /\ InRange(report.recall)
             /\ (report.refusal.lost = NA) <=> \A i \in DOMAIN rows : rows[i].label # "in_corpus"

(***************************************************************************)
(* Scores and rates of the evaluation and the monitoring can be compared   *)
(* from one run to the next.                                               *)
(***************************************************************************)
ScoresComparable == RatesAreRates /\ RankingsComparable /\ BagsComparable /\ ReportsFair

(***************************************************************************)
(* A reader of a streamed answer sees the answer and nothing of the block  *)
(* of thoughts before it, however the text is cut into chunks: what has    *)
(* been passed on is a beginning of it at all times, and all of it at the  *)
(* end; a block that is never closed leaves nothing (strip_think_stream).  *)
(***************************************************************************)
Answer(text) ==
    LET body == Stripped(text)
        rest == SubSeq(body, Len(Open) + 1, Len(body))
    IN CASE IsPrefix(Open, body)            -> IF Find(Close, rest) = 0 THEN <<>> ELSE After(Close, rest)
         [] IsStrictPrefix(body, Open)      -> <<>>
         [] OTHER                           -> text

StreamShowsAnswer ==
    sample.kind = "stream" =>
        /\ IsPrefix(sample.s.out, Answer(sample.text))
        /\ sample.at = Len(sample.text) => sample.s.out = Answer(sample.text)

\* the questions of a window that an answer of Redis let through
LetThrough(allowed, n) ==
    {i \in DOMAIN allowed : allowed[i][2] = "ok" /\ allowed[i][1] \div Window = n}

(***************************************************************************)
(* Limits hold over time.  In any stretch of time a token bucket lets no   *)
(* more questions through than its capacity and what that time adds; in a  *)
(* window no more than its maximum are let through by answers of Redis;    *)
(* and no more calls of a phase are with a model than its quota, whatever  *)
(* the calls of the other phase and those that wait to be repeated, none   *)
(* of which is tried more often than allowed (rate_limit, concurrency).    *)
(***************************************************************************)
LimitsHold ==
    /\ sample.kind = "bucket" => \A i, j \in DOMAIN sample.b.allowed : i <= j =>
          (j - i + 1) * sample.lim.unit <=
              sample.lim.capacity * sample.lim.unit
                  + (sample.b.allowed[j] - sample.b.allowed[i]) * sample.lim.rate
    /\ sample.kind = "window" => \A n \in 0 .. MaxTime \div Window :
          Cardinality(LetThrough(sample.b.allowed, n)) <= sample.max
    /\ sample.kind = "calls" =>
          /\ \A key \in {"query", "insert"} :
                Cardinality({c \in Callers : /\ sample.q.calls[c].pc = "in"
                                             /\ sample.q.sems[sample.q.calls[c].sem].key = key})
                    <= LimitOf(key)
          /\ \A c \in Callers : sample.q.calls[c].tries <= MaxRetries + 1
=============================================================================
