----------------------------- MODULE Retrieval -----------------------------
(***************************************************************************)
(* What a retrieval does to its results, from the searches of the          *)
(* knowledge graph to the text and the pictures a model is given.          *)
(*                                                                         *)
(* Names, relations, chunks and pictures are numbers or members of small   *)
(* sets; a text is its length, or the vector it is embedded to is named by *)
(* the text.  Scores are integers.  "" is an absent name.                  *)
(***************************************************************************)
EXTENDS Lists

-----------------------------------------------------------------------------
(***************************************************************************)
(* _parallel_perform_kg_search.                                            *)
(***************************************************************************)
\* ask: [mode, ll, hl, query : the texts or "", byVector, vdb, embeds : BOOLEAN]
ToEmbed(ask) ==
    LET parts == <<"query", "ll", "hl">>
    IN Select(parts, {i \in DOMAIN parts :
        CASE parts[i] = "query" -> ask.query # "" /\ (ask.byVector \/ ask.vdb)
          [] parts[i] = "ll"    -> ask.ll # "" /\ ask.mode \in {"local", "hybrid", "mix"}
          [] parts[i] = "hl"    -> ask.hl # "" /\ ask.mode \in {"global", "hybrid", "mix"}})

\* one call embeds all texts, or fails; its answer is taken apart by position
Embeddings(ask) ==
    LET texts == [i \in DOMAIN ToEmbed(ask) |-> ask[ToEmbed(ask)[i]]]
    IN [p \in {"query", "ll", "hl"} |->
           IF ask.embeds /\ Contains(ToEmbed(ask), p)
           THEN texts[SelectInSeq(ToEmbed(ask), LAMBDA x : x = p)] ELSE ""]

\* the searches that run; a mode whose keywords are missing runs the others
Searches(ask) ==
    CASE ask.mode = "local" /\ ask.ll # ""  -> {"local"}
      [] ask.mode = "global" /\ ask.hl # "" -> {"global"}
      [] OTHER -> {s \in {"local", "global", "vector"} :
                      CASE s = "local"  -> ask.ll # ""
                        [] s = "global" -> ask.hl # ""
                        [] s = "vector" -> ask.mode = "mix" /\ ask.vdb}

\* the text a search is given, and the vector beside it
SearchText(ask, s) == CASE s = "local" -> ask.ll [] s = "global" -> ask.hl [] s = "vector" -> ask.query

SearchVector(ask, s) ==
    Embeddings(ask)[CASE s = "local" -> "ll" [] s = "global" -> "hl" [] s = "vector" -> "query"]

\* one of each in turn, of the longer one alone at the end
Alternate(a, b) ==
    LET longer  == IF Len(a) > Len(b) THEN Len(a) ELSE Len(b)
        list(k) == IF k % 2 = 1 THEN a ELSE b
        turns   == {k \in 1 .. 2 * longer : (k + 1) \div 2 <= Len(list(k))}
    IN Select([k \in turns |-> list(k)[(k + 1) \div 2]], turns)

MergedEntities(local, global) ==
    LET all == Alternate(local, global)
    IN FirstOfEach(Select(all, {i \in DOMAIN all : all[i] # ""}), LAMBDA e : e)

\* Seeded fault: the ends are not sorted
EdgeKeyDirected(r) == r

\* the ends of a relation, whichever way round
EdgeKey(r) == {r[1], r[2]}

MergedRelations(local, global) == FirstOfEach(Alternate(local, global), EdgeKey)

-----------------------------------------------------------------------------
(***************************************************************************)
(* Reranking: remote_rerank and bge_rerank.                                *)
(***************************************************************************)
\* scores out of 100
Normalized(scores) ==
    LET lo == CHOOSE x \in Range(scores) : \A y \in Range(scores) : x <= y
        hi == CHOOSE x \in Range(scores) : \A y \in Range(scores) : x >= y
    IN [i \in DOMAIN scores |->
           IF hi = lo THEN 100 ELSE ((scores[i] - lo) * 100) \div (hi - lo)]

\* positions from the best score to the worst, equal ones in their order
Ranked(scores) ==
    Arranged(DOMAIN scores, {p \in (DOMAIN scores) \X (DOMAIN scores) :
        scores[p[1]] > scores[p[2]] \/ (scores[p[1]] = scores[p[2]] /\ p[1] < p[2])})

\* with top_n documents or more
Order(scores, topN) ==
    LET norm == Normalized(scores)
    IN [i \in DOMAIN Top(Ranked(norm), topN) |->
           [index |-> Ranked(norm)[i], score |-> norm[Ranked(norm)[i]]]]

\* the vectors are sorted by the `index` of a list, which is a method:
\* comparing two of them raises, and there are two with a single document
SortsEmbeddings(documents) == documents + 1 < 2

FallbackRanking(outage, topN) ==
    IF outage.embedding /\ SortsEmbeddings(Len(outage.scores))
    THEN Order(outage.scores, topN) ELSE <<>>

\* an API may return fewer results than there are documents
ApiCap == 2

\* the best of the documents: only their scores are normalised, and sorted again
Answered(scores, n) ==
    LET best  == Top(Ranked(scores), n)
        order == Order([i \in DOMAIN best |-> scores[best[i]]], Len(best))
    IN [i \in DOMAIN order |-> [index |-> best[order[i].index], score |-> order[i].score]]

\* backend: "api", "capped" (the API returns some of the documents), "outage"
\* (it does not answer, or did not when the same was asked before: whatever is
\* returned is cached; embedding tells whether that model answers), "local" or
\* "broken" (the local model raises and the order is kept)
Rerank(backend, scores, embedding) ==
    CASE scores = <<>>       -> <<>>
      [] backend = "broken"  -> [i \in DOMAIN scores |-> [index |-> i, score |-> 100]]
      [] backend = "outage"  ->
            FallbackRanking([embedding |-> embedding, scores |-> scores], Len(scores))
      [] backend = "capped"  -> Answered(scores, ApiCap)
      [] OTHER               -> Order(scores, Len(scores))

-----------------------------------------------------------------------------
(***************************************************************************)
(* filter_relationships.  A relation is [edge, hits, score]: its ends, how *)
(* many keywords it holds, and how well the reranker likes it.             *)
(***************************************************************************)
\* relations without two ends are left out
WithEnds(relations) ==
    {i \in DOMAIN relations : relations[i].edge[1] # "" /\ relations[i].edge[2] # ""}

Distinct(relations) ==
    FirstOfEach(Select(relations, WithEnds(relations)), LAMBDA r : EdgeKey(r.edge))

\* lim: [minHits, minScore, topK]
EnoughHits(relations, lim) == {i \in DOMAIN relations : relations[i].hits >= lim.minHits}

\* Seeded fault: nothing is kept if no relation holds enough keywords
ByKeywordsStrictly(relations, lim) == Select(relations, EnoughHits(relations, lim))

ByKeywords(relations, lim) ==
    LET kept == Select(relations, EnoughHits(relations, lim))
        hits == [i \in DOMAIN relations |-> relations[i].hits]
        best == Top(Ranked(hits), lim.topK)
    IN IF kept # <<>> THEN kept ELSE [i \in DOMAIN best |-> relations[best[i]]]

ByRank(relations, backend, embedding, lim) ==
    LET scores  == [i \in DOMAIN relations |-> relations[i].score]
        all     == Rerank(backend, scores, embedding)
        results == Select(all, {i \in DOMAIN all : all[i].score >= lim.minScore})
    IN [i \in DOMAIN results |-> relations[results[i].index]]

\* backend "none": no reranker is available, or relations are not reranked
Filtered(relations, backend, embedding, lim) ==
    LET kept == ByKeywords(Distinct(relations), lim)
    IN Top(IF backend = "none" \/ kept = <<>> THEN kept
           ELSE ByRank(kept, backend, embedding, lim), lim.topK)

-----------------------------------------------------------------------------
(***************************************************************************)
(* What the model is given: chunks, summaries of communities, pictures.    *)
(***************************************************************************)
\* a chunk is [len, path, refs]: the length of its text, whether it has a
\* path, and its pictures.  Only a first chunk is cut.
CutsFirst(out) == out.chunks = <<>>

TrimChunk(out, c, maxChars) ==
    IF out.stop \/ (c.len = 0 /\ ~ c.path) THEN out
    ELSE IF c.len > maxChars /\ CutsFirst(out)
         THEN [chunks |-> <<[c EXCEPT !.len = maxChars]>>, total |-> maxChars, stop |-> TRUE]
    ELSE IF out.total + c.len > maxChars THEN [out EXCEPT !.stop = TRUE]
    ELSE [out EXCEPT !.chunks = Append(@, c), !.total = @ + c.len]

\* _trim_chunks_for_reference
Trimmed(chunks, maxCount, maxChars) ==
    FoldLeft(LAMBDA out, c : TrimChunk(out, c, maxChars),
             [chunks |-> <<>>, total |-> 0, stop |-> FALSE], Top(chunks, maxCount)).chunks

\* _build_context_from_chunks: the pieces, numbered as the chunks are
Pieces(chunks) == {i \in DOMAIN chunks : chunks[i].len > 0}

\* Seeded fault: the blank line between two blocks costs nothing
SeparatorFree(out) == 0

\* tokens of the blank line before the next block
Separator(out) == IF out.blocks = <<>> THEN 0 ELSE 2

RenderBlock(out, cost, maxTokens, least) ==
    LET left == maxTokens - out.used - Separator(out)
    IN IF out.stop THEN out
       ELSE IF cost <= left
       THEN [out EXCEPT !.blocks = Append(@, cost), !.used = @ + cost + Separator(out)]
       ELSE IF left > least
       THEN [blocks |-> Append(out.blocks, left), used |-> maxTokens, stop |-> TRUE]
       ELSE [out EXCEPT !.stop = TRUE]

\* render_reports: the tokens of each block; a cut one has more than `least`
Rendered(costs, maxTokens, least) ==
    IF maxTokens <= 0 THEN <<>>
    ELSE FoldLeft(LAMBDA out, c : RenderBlock(out, c, maxTokens, least),
                  [blocks |-> <<>>, used |-> 0, stop |-> FALSE], costs).blocks

TextTokens(blocks) ==
    Total(blocks) + (IF blocks = <<>> THEN 0 ELSE 2 * (Len(blocks) - 1))

\* extract_image_refs: the first max different references that are no URLs
ImageRefs(refs, max) ==
    Top(FirstOfEach(Select(refs, {i \in DOMAIN refs : refs[i] # "url"}), LAMBDA r : r), max)

\* _collect_local_image_paths: a reference beyond the first that are still
\* wanted is not looked at, even if one of those is missing, too big or known
CollectFrom(out, c, max) ==
    LET refs == ImageRefs(c.refs, max - Len(out))
    IN out \o Select(refs, {i \in DOMAIN refs :
                  refs[i] \notin {"missing", "big"} /\ ~ Contains(out, refs[i])})

CollectImages(chunks, max) == FoldLeft(LAMBDA out, c : CollectFrom(out, c, max), <<>>, chunks)
=============================================================================
