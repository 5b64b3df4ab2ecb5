---------------------------- MODULE QueryService ----------------------------
(***************************************************************************)
(* Questions to the RAG service (src/service/rag_service.py) and to the    *)
(* retriever below it, with the two caches in Redis: answers, and what was *)
(* retrieved ("bundles").  Neither is ever invalidated.  Their keys hold   *)
(* the version of the index (modification time of the document manifest)   *)
(* as it was when the key was built; ingestions and removals go on         *)
(* meanwhile.  (The version of the community summaries, also in the keys,  *)
(* is in Communities.)                                                     *)
(*                                                                         *)
(* One action is one stretch of a coroutine between two awaits; stretches  *)
(* that touch nothing shared are joined with the next.  LightRAG, the      *)
(* models and Redis answer as they like: Redis may forget, refuse to store *)
(* or fail at any time, a model may raise after its last retry.            *)
(***************************************************************************)
EXTENDS Naturals, FiniteSets

CONSTANTS
    Queries,           \* callers of RAGService.query, one question each
    Requests,          \* what they may ask
    MaxQueries,        \* settings.service.max_concurrent_queries
    Writers,           \* ingestions, removals and deletions, one per document
    None

Modes == {"naive", "local", "global", "hybrid", "mix", "bypass"}
WordClasses == {"macro", "definition", "detail"}

\* a question is, to the router, the classes of key words that occur in it
Request ==
    [question : SUBSET WordClasses, mode : Modes \cup {"auto"},
     stream : BOOLEAN, multimodal : BOOLEAN, community : {"auto", "on", "off"}]

ASSUME QueryServiceAssumption ==
    /\ IsFiniteSet(Queries)
    /\ Requests \subseteq Request
    /\ MaxQueries \in Nat \ {0}

VARIABLES
    content,           \* changes of what LightRAG can retrieve, so far
    manifest,          \* writes of document_manifest.json, so far
    writer,            \* where each ingestion, removal or deletion is
    answers,           \* cached answers, by key
    bundles,           \* cached bundles, by key
    permits,           \* _query_sem
    query,             \* the state of each question
    settled            \* history: the content that completed ingestions and
                       \* removals had brought about at each manifest

indexVars == <<content, manifest, writer, settled>>
cacheVars == <<answers, bundles>>
vars == <<indexVars, cacheVars, permits, query>>

-----------------------------------------------------------------------------
(***************************************************************************)
(* Mode and parameters.                                                    *)
(***************************************************************************)
\* the first class that matches decides
Suggest(question) ==
    CASE "macro" \in question -> "global"
      [] "macro" \notin question /\ "definition" \in question -> "naive"
      [] question = {"detail"} -> "local"
      [] OTHER -> "hybrid"

\* a mode that is given is taken, bypass too
Mode(r) == IF r.mode = "auto" THEN Suggest(r.question) ELSE r.mode

\* chunks to retrieve: two modes have a number of their own
ChunkTopK(mode) ==
    CASE mode = "naive" -> 12 [] mode = "mix" -> 9 [] OTHER -> 20

\* multimodal answers are never streamed
Streams(r) == r.stream /\ ~ r.multimodal

\* Seeded fault: the key leaves the version out
AnswerKeyUnversioned(r) ==
    [question |-> r.question, mode |-> r.mode, multimodal |-> r.multimodal,
     flag |-> r.community, manifest |-> 0]

AnswerKey(r) ==
    [question |-> r.question, mode |-> r.mode, multimodal |-> r.multimodal,
     flag |-> r.community, manifest |-> manifest]

BundleKey(r) ==
    [question |-> r.question, mode |-> Mode(r), chunks |-> ChunkTopK(Mode(r)),
     flag |-> r.community, manifest |-> manifest]

-----------------------------------------------------------------------------
(***************************************************************************)
(* What a question may find.  "bare": entities, relations or chunks, but   *)
(* no text once picture links are taken out.  A retrieval that raises, or  *)
(* whose status is not "success", is an empty one.                         *)
(***************************************************************************)
Shapes == {"empty", "bare", "text"}

Bundle == [content : Nat, shape : Shapes]
Answer == [content : Nat, blank : BOOLEAN]

HasContent(bundle) == bundle.shape # "empty"
HasText(bundle) == bundle.shape = "text"

Key == [question : SUBSET WordClasses, mode : Modes \cup {"auto"},
        multimodal : BOOLEAN, flag : {"auto", "on", "off"},
        manifest : Nat]
ContextKey == [question : SUBSET WordClasses, mode : Modes, chunks : Nat,
               flag : {"auto", "on", "off"}, manifest : Nat]

\* inside `async with self._query_sem`
Holding == {"routing", "fetching", "retrieving", "storing", "images",
            "text", "asking", "streaming"}
Ended == {"done", "failed", "gone"}

QueryState ==
    [pc : {"new", "lookup", "waiting", "caching"} \cup Holding \cup Ended,
     request : Request \cup {None}, since : Nat,
     key : Key \cup {None}, path : {"images", "text"},
     bundleKey : ContextKey \cup {None}, bundle : Bundle \cup {None},
     answer : Answer \cup {None}]

TypeOK ==
    /\ content \in Nat /\ manifest \in Nat
    /\ writer \in [Writers -> {"idle", "deleted", "purged", "inserted",
                               "removed", "unlisted", "ended"}]
    /\ DOMAIN answers \subseteq Key
    /\ \A k \in DOMAIN answers : answers[k] \in Answer
    /\ DOMAIN bundles \subseteq ContextKey
    /\ \A k \in DOMAIN bundles : bundles[k] \in Bundle
    /\ permits \in Nat
    /\ query \in [Queries -> QueryState]
    /\ settled \in [0 .. manifest -> Nat]

Init ==
    /\ content = 0 /\ manifest = 0
    /\ writer = [w \in Writers |-> "idle"]
    /\ answers = [k \in {} |-> None] /\ bundles = [k \in {} |-> None]
    /\ permits = MaxQueries
    /\ query = [q \in Queries |->
          [pc |-> "new", request |-> None, since |-> 0, key |-> None,
           path |-> "text", bundleKey |-> None, bundle |-> None, answer |-> None]]
    /\ settled = [m \in {0} |-> 0]

-----------------------------------------------------------------------------
(***************************************************************************)
(* The index.  An ingestion deletes what the index has of the document,    *)
(* drops its manifest entry, inserts and registers; a run's removal        *)
(* deletes, then drops the entry; a DELETE request drops the entry first,  *)
(* so that what it deletes may still be cached under the new version: it   *)
(* does not count as settled here.  Each has an entry to drop when it has  *)
(* content to delete.  A writer may fail or be killed at any point: it     *)
(* does not complete then.                                                 *)
(***************************************************************************)
Change(w, from, to) ==
    /\ writer[w] = from
    /\ writer' = [writer EXCEPT ![w] = to]
    /\ content' = content + 1
    /\ UNCHANGED <<manifest, settled>>

WriteManifest(w, from, to) ==
    /\ writer[w] = from
    /\ writer' = [writer EXCEPT ![w] = to]
    /\ manifest' = manifest + 1
    /\ settled' = [m \in 0 .. manifest' |->
                      IF m \in DOMAIN settled THEN settled[m]
                      ELSE IF to = "ended" THEN content ELSE settled[manifest]]
    /\ UNCHANGED content

\* nothing is known of the document, or the upload does not replace
SkipDelete(w) ==
    /\ writer[w] = "idle"
    /\ writer' = [writer EXCEPT ![w] = "purged"]
    /\ UNCHANGED <<content, manifest, settled>>

Ingest(w) ==
    \/ SkipDelete(w)
    \/ Change(w, "idle", "deleted")
    \/ WriteManifest(w, "deleted", "purged")
    \/ Change(w, "purged", "inserted")
    \/ WriteManifest(w, "inserted", "ended")

Remove(w) ==
    \/ Change(w, "idle", "removed")
    \/ WriteManifest(w, "removed", "ended")

Delete(w) ==
    \/ WriteManifest(w, "idle", "unlisted")
    \/ Change(w, "unlisted", "ended")

Stop(w) ==
    /\ writer[w] \notin {"idle", "ended"}
    /\ writer' = [writer EXCEPT ![w] = "ended"]
    /\ UNCHANGED <<content, manifest, settled>>

Write(w) ==
    /\ Ingest(w) \/ Remove(w) \/ Delete(w) \/ Stop(w)
    /\ UNCHANGED <<cacheVars, permits, query>>

\* in a cache; what expires or is evicted is a miss of the next lookup
Put(cache, k, value) ==
    [x \in DOMAIN cache \cup {k} |-> IF x = k THEN value ELSE cache[x]]

-----------------------------------------------------------------------------
(***************************************************************************)
(* RAGService.query.                                                       *)
(***************************************************************************)
Goto(q, pc) == query' = [query EXCEPT ![q].pc = pc]

\* of a question that has ended only the answer counts
End(q, pc, answer) ==
    query' = [query EXCEPT ![q].pc = pc, ![q].answer = answer, ![q].key = None,
                           ![q].request = None, ![q].path = "text",
                           ![q].bundleKey = None, ![q].bundle = None]

\* a streamed answer is neither looked up nor stored
Ask(q) ==
    /\ query[q].pc = "new"
    /\ \E r \in Requests :
          query' = [query EXCEPT
              ![q].pc = IF r.stream THEN "waiting" ELSE "lookup",
              ![q].request = r,
              ![q].since = settled[manifest],
              ![q].key = IF r.stream THEN None ELSE AnswerKey(r)]
    /\ UNCHANGED <<indexVars, cacheVars, permits>>

\* a failing Redis and an expired entry are misses
LookUp(q) ==
    /\ query[q].pc = "lookup"
    /\ \/ /\ query[q].key \in DOMAIN answers
          /\ End(q, "done", answers[query[q].key])
       \/ Goto(q, "waiting")
    /\ UNCHANGED <<indexVars, cacheVars, permits>>

\* Seeded fault: questions do not wait
EnterUnbounded(q) ==
    /\ query[q].pc = "waiting"
    /\ permits' = permits - 1
    /\ Goto(q, "routing")
    /\ UNCHANGED <<indexVars, cacheVars>>

Enter(q) ==
    /\ query[q].pc = "waiting"
    /\ permits > 0
    /\ permits' = permits - 1
    /\ Goto(q, "routing")
    /\ UNCHANGED <<indexVars, cacheVars>>

\* Seeded fault: the permit is kept
LeaveWithPermit ==
    UNCHANGED <<indexVars, cacheVars, permits>>

\* out of the semaphore; an answer is stored unless it is blank
Leave ==
    /\ permits' = permits + 1
    /\ UNCHANGED <<indexVars, cacheVars>>

Reply(q, answer) ==
    /\ IF query[q].request.stream \/ answer.blank
       THEN End(q, "done", answer)
       ELSE query' = [query EXCEPT ![q].pc = "caching", ![q].answer = answer,
                                   ![q].path = "text", ![q].bundleKey = None, ![q].bundle = None]
    /\ Leave

StoreAnswer(q) ==
    /\ query[q].pc = "caching"
    /\ \/ answers' = Put(answers, query[q].key, query[q].answer)
       \/ UNCHANGED answers
    /\ End(q, "done", query[q].answer)
    /\ UNCHANGED <<indexVars, bundles, permits>>

-----------------------------------------------------------------------------
(***************************************************************************)
(* GraphRAGRetriever.query and _get_retrieval_bundle.                      *)
(***************************************************************************)
\* the key is built anew for each retrieval
BeginRetrieval(q, path) ==
    query' = [query EXCEPT ![q].pc = "fetching", ![q].path = path,
                           ![q].bundleKey = BundleKey(query[q].request),
                           ![q].bundle = None]

Route(q) ==
    /\ query[q].pc = "routing"
    /\ LET r == query[q].request IN
       BeginRetrieval(q, IF r.multimodal /\ Mode(r) # "bypass"
                         THEN "images" ELSE "text")
    /\ UNCHANGED <<indexVars, cacheVars, permits>>

Fetch(q) ==
    /\ query[q].pc = "fetching"
    /\ \/ /\ query[q].bundleKey \in DOMAIN bundles
          /\ query' = [query EXCEPT ![q].pc = query[q].path,
                                    ![q].bundle = bundles[query[q].bundleKey]]
       \/ Goto(q, "retrieving")
    /\ UNCHANGED <<indexVars, cacheVars, permits>>

\* aquery_data, then relations are refined and summaries added (what is lost
\* there is covered by the choice); an empty bundle is not stored
Retrieve(q) ==
    /\ query[q].pc = "retrieving"
    /\ \E shape \in Shapes :
          LET bundle == [content |-> content, shape |-> shape] IN
          query' = [query EXCEPT
              ![q].pc = IF HasContent(bundle) THEN "storing" ELSE query[q].path,
              ![q].bundle = bundle]
    /\ UNCHANGED <<indexVars, cacheVars, permits>>

StoreBundle(q) ==
    /\ query[q].pc = "storing"
    /\ \/ bundles' = Put(bundles, query[q].bundleKey, query[q].bundle)
       \/ UNCHANGED bundles
    /\ Goto(q, query[q].path)
    /\ UNCHANGED <<indexVars, answers, permits>>

-----------------------------------------------------------------------------
(***************************************************************************)
(* The answer: from text and pictures, else from the text alone, else from *)
(* LightRAG's own query, which retrieves again and answers even if it      *)
(* finds nothing.                                                          *)
(***************************************************************************)
FromBundle(q) ==
    /\ HasText(query[q].bundle)
    /\ \E blank \in BOOLEAN :
          Reply(q, [content |-> query[q].bundle.content, blank |-> blank])

\* answer_with_retrieved_images, and answer_with_retrieved_text_only in its place
AnswerFromImages(q) ==
    /\ query[q].pc = "images"
    /\ FromBundle(q)

\* no result, no text, or the models raised: the text path retrieves again
FallBack(q) ==
    /\ query[q].pc = "images"
    /\ BeginRetrieval(q, "text")
    /\ UNCHANGED <<indexVars, cacheVars, permits>>

AnswerFromText(q) ==
    /\ query[q].pc = "text"
    /\ ~ Streams(query[q].request)
    /\ \/ FromBundle(q)
       \/ /\ Goto(q, "asking")
          /\ UNCHANGED <<indexVars, cacheVars, permits>>

AskLightRAG(q) ==
    /\ query[q].pc = "asking"
    /\ \E blank \in BOOLEAN : Reply(q, [content |-> content, blank |-> blank])

StartStream(q) ==
    /\ query[q].pc = "text"
    /\ Streams(query[q].request)
    /\ query' = [query EXCEPT ![q].pc = "streaming",
                     ![q].answer = [content |-> content, blank |-> FALSE]]
    /\ UNCHANGED <<indexVars, cacheVars, permits>>

EndStream(q) ==
    /\ query[q].pc = "streaming"
    /\ End(q, "done", query[q].answer)
    /\ Leave

\* LightRAG raises
Fail(q) ==
    /\ \/ query[q].pc \in {"routing", "retrieving", "asking", "streaming"}
       \/ query[q].pc = "text" /\ Streams(query[q].request)
    /\ End(q, "failed", None)
    /\ Leave

\* Seeded fault: also who only waited gives a permit back
DisconnectReleases(q) ==
    /\ query[q].pc \in Holding \cup {"waiting"}
    /\ query[q].request.stream
    /\ permits' = permits + 1
    /\ End(q, "gone", None)
    /\ UNCHANGED <<indexVars, cacheVars>>

\* the client of a streamed answer goes away and the generator is closed
Disconnect(q) ==
    /\ query[q].pc \in Holding \cup {"waiting"}
    /\ query[q].request.stream
    /\ permits' = IF query[q].pc \in Holding THEN permits + 1 ELSE permits
    /\ End(q, "gone", None)
    /\ UNCHANGED <<indexVars, cacheVars>>

-----------------------------------------------------------------------------
Step(q) ==
    \/ LookUp(q) \/ Enter(q) \/ StoreAnswer(q)
    \/ Route(q) \/ Fetch(q) \/ Retrieve(q) \/ StoreBundle(q)
    \/ AnswerFromImages(q) \/ FallBack(q) \/ AnswerFromText(q) \/ AskLightRAG(q)
    \/ StartStream(q) \/ EndStream(q) \/ Fail(q)

Next ==
    \/ \E q \in Queries : Ask(q) \/ Step(q) \/ Disconnect(q)
    \/ \E w \in Writers : Write(w)

Spec == Init /\ [][Next]_vars

(***************************************************************************)
(* LightRAG, models and Redis return or time out, and the semaphore serves *)
(* its waiters in turn.  Nothing has to be written or asked.               *)
(***************************************************************************)
FairSpec == Spec /\ \A q \in Queries : WF_vars(Step(q))

-----------------------------------------------------------------------------
(***************************************************************************)
(* A question that is asked after an upload, or an ingestion or a removal  *)
(* of a run, has completed is not answered from what the index had before  *)
(* it, however answer and bundle were cached.                              *)
(***************************************************************************)
AnswerNotOlder ==
    \A q \in Queries :
        query[q].answer # None => query[q].answer.content >= query[q].since

(***************************************************************************)
(* What is cached under the version of a manifest is not older than what   *)
(* had been completed when that manifest was written.                      *)
(***************************************************************************)
CachedNotOlder ==
    /\ \A k \in DOMAIN answers : answers[k].content >= settled[k.manifest]
    /\ \A k \in DOMAIN bundles : bundles[k].content >= settled[k.manifest]

(***************************************************************************)
(* Every path out of the retriever gives back the permit it took, also a   *)
(* failing one and the one of a client that went away: none is lost and    *)
(* none is given back twice.                                               *)
(***************************************************************************)
PermitsReturned ==
    permits + Cardinality({q \in Queries : query[q].pc \in Holding}) = MaxQueries

(***************************************************************************)
(* Nobody waits for ever for a permit or an answer.                        *)
(***************************************************************************)
EveryQuestionEnds ==
    \A q \in Queries : query[q].pc # "new" ~> query[q].pc \in Ended
=============================================================================
