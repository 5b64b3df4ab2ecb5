------------------------- MODULE QueryServiceProofs -------------------------
(***************************************************************************)
(* For any number of questions, writers and permits: the types, no permit  *)
(* lost or given back twice, and no answer older than its question.        *)
(***************************************************************************)
EXTENDS QueryService, FiniteSetTheorems, TLAPS

Fetched == {"storing", "images", "text"}
Retrieving == {"fetching", "retrieving"} \cup Fetched

\* a question keeps its key, or none if it is streamed; bundle and answer are
\* not older than what was settled under the key and at the asking
QueryInv(q) ==
    LET s == query[q] IN
    /\ s.pc \notin {"new"} \cup Ended =>
          /\ s.request \in Request
          /\ s.request.stream => s.key = None
          /\ ~ s.request.stream =>
                /\ s.key \in Key
                /\ s.key.manifest \in 0 .. manifest
                /\ s.since = settled[s.key.manifest]
    /\ s.pc = "lookup" => ~ s.request.stream
    /\ s.pc = "caching" =>
          ~ s.request.stream /\ s.answer \in Answer /\ s.answer.content >= s.since
    /\ s.since <= settled[manifest]
    /\ s.pc \in Retrieving =>
          /\ s.bundleKey \in ContextKey
          /\ s.bundleKey.manifest \in 0 .. manifest
          /\ s.since <= settled[s.bundleKey.manifest]
    /\ s.pc \in Fetched =>
          s.bundle \in Bundle /\ s.bundle.content >= settled[s.bundleKey.manifest]
    /\ s.answer # None => s.answer \in Answer /\ s.answer.content >= s.since
    /\ s.pc \in {"new", "lookup", "waiting"} => s.answer = None

Current ==
    /\ TypeOK
    /\ \A m \in 0 .. manifest : settled[m] <= settled[manifest]
    /\ settled[manifest] <= content
    /\ \A k \in DOMAIN answers :
          k.manifest \in 0 .. manifest /\ answers[k].content >= settled[k.manifest]
    /\ \A k \in DOMAIN bundles :
          k.manifest \in 0 .. manifest /\ bundles[k].content >= settled[k.manifest]
    /\ \A q \in Queries : QueryInv(q)

-----------------------------------------------------------------------------
(***************************************************************************)
(* What is common to the steps of a question.                              *)
(***************************************************************************)
LEMMA Framed ==
    ASSUME Current, NEW q \in Queries, NEW new \in QueryState,
           UNCHANGED indexVars,
           query' = [query EXCEPT ![q] = new],
           QueryInv(q)'
    PROVE  /\ query' \in [Queries -> QueryState]
           /\ \A p \in Queries : QueryInv(p)'
<1>1. query' \in [Queries -> QueryState]
  BY DEF Current, TypeOK
<1>2. ASSUME NEW p \in Queries PROVE QueryInv(p)'
  <2>1. CASE p = q  BY <2>1
  <2>2. CASE p # q
    <3>1. query'[p] = query[p]  BY <2>2 DEF Current, TypeOK
    <3>2. QueryInv(p)  BY DEF Current
    <3> QED  BY <3>1, <3>2 DEF QueryInv, indexVars
  <2> QED  BY <2>1, <2>2
<1> QED  BY <1>1, <1>2

LEMMA AskCurrent == ASSUME Current, NEW q \in Queries, Ask(q) PROVE Current'
<1>1. PICK r \in Requests :
          query' = [query EXCEPT
              ![q].pc = IF r.stream THEN "waiting" ELSE "lookup",
              ![q].request = r,
              ![q].since = settled[manifest],
              ![q].key = IF r.stream THEN None ELSE AnswerKey(r)]
  BY DEF Ask
<1> DEFINE new == [query[q] EXCEPT
              !.pc = IF r.stream THEN "waiting" ELSE "lookup",
              !.request = r,
              !.since = settled[manifest],
              !.key = IF r.stream THEN None ELSE AnswerKey(r)]
<1>2. r \in Request /\ query[q] \in QueryState /\ query[q].pc = "new"
  BY QueryServiceAssumption DEF Current, TypeOK, Ask
<1>3. query' = [query EXCEPT ![q] = new]
  BY <1>1
<1>4. AnswerKey(r) \in Key /\ AnswerKey(r).manifest = manifest /\ settled[manifest] \in Nat
  BY <1>2 DEF AnswerKey, Key, Request, Current, TypeOK
<1>5. new \in QueryState
  BY <1>2, <1>4 DEF QueryState
<1>6. UNCHANGED <<indexVars, cacheVars, permits>>
  BY DEF Ask
<1>7. QueryInv(q)'
  BY <1>2, <1>3, <1>4, <1>6 DEF Current, TypeOK, QueryInv, QueryState, indexVars, Retrieving, Fetched, Ended, Request
<1> QED  BY <1>3, <1>5, <1>6, <1>7, Framed DEF Current, TypeOK, indexVars, cacheVars

LEMMA EndFrame ==
    ASSUME Current, NEW q \in Queries, NEW pc \in Ended, NEW answer \in Answer \cup {None},
           answer # None => answer.content >= query[q].since,
           End(q, pc, answer), UNCHANGED indexVars
    PROVE  /\ query' \in [Queries -> QueryState]
           /\ \A p \in Queries : QueryInv(p)'
<1> DEFINE new == [query[q] EXCEPT !.pc = pc, !.answer = answer, !.key = None,
                                   !.request = None, !.path = "text",
                                   !.bundleKey = None, !.bundle = None]
<1>1. query[q] \in QueryState
  BY DEF Current, TypeOK
<1>2. query' = [query EXCEPT ![q] = new]
  BY DEF End
<1>3. new \in QueryState
  BY <1>1 DEF QueryState
<1>4. QueryInv(q)'
  BY <1>1, <1>2, <1>3 DEF Current, TypeOK, QueryInv, QueryState, indexVars, Retrieving, Fetched, Ended
<1> QED  BY <1>2, <1>3, <1>4, Framed

LEMMA ReplyCurrent ==
    ASSUME Current, NEW q \in Queries, NEW answer \in Answer,
           query[q].pc \in Holding, answer.content >= query[q].since,
           Reply(q, answer)
    PROVE  Current'
<1>1. UNCHANGED <<indexVars, cacheVars>> /\ permits' = permits + 1
  BY DEF Reply, Leave
<1>2. CASE query[q].request.stream \/ answer.blank
  <2>1. End(q, "done", answer)
    BY <1>2 DEF Reply
  <2> QED  BY <1>1, <2>1, EndFrame DEF Current, TypeOK, indexVars, cacheVars, Ended
<1>3. CASE ~ (query[q].request.stream \/ answer.blank)
  <2> DEFINE new == [query[q] EXCEPT !.pc = "caching", !.answer = answer,
                                     !.path = "text", !.bundleKey = None, !.bundle = None]
  <2>1. query[q] \in QueryState /\ QueryInv(q)
    BY DEF Current, TypeOK
  <2>2. query' = [query EXCEPT ![q] = new]
    BY <1>3 DEF Reply
  <2>3. new \in QueryState
    BY <2>1 DEF QueryState
  <2>4. QueryInv(q)'
    BY <1>1, <1>3, <2>1, <2>2, <2>3
    DEF Current, TypeOK, QueryInv, QueryState, indexVars, Retrieving, Fetched, Holding, Ended
  <2>5. UNCHANGED indexVars
    BY <1>1
  <2>6. query' \in [Queries -> QueryState] /\ \A p \in Queries : QueryInv(p)'
    BY <2>2, <2>3, <2>4, <2>5, Framed
  <2> QED  BY <1>1, <2>6 DEF Current, TypeOK, indexVars, cacheVars
<1> QED  BY <1>2, <1>3

LEMMA RetrievalFrame ==
    ASSUME Current, NEW q \in Queries, NEW path \in {"images", "text"},
           query[q].pc \in Holding,
           BeginRetrieval(q, path), UNCHANGED indexVars
    PROVE  /\ query' \in [Queries -> QueryState]
           /\ \A p \in Queries : QueryInv(p)'
<1> DEFINE r == query[q].request
<1> DEFINE new == [query[q] EXCEPT !.pc = "fetching", !.path = path,
                                   !.bundleKey = BundleKey(r), !.bundle = None]
<1>1. query[q] \in QueryState /\ QueryInv(q) /\ manifest \in Nat
  BY DEF Current, TypeOK
<1>2. r \in Request
  BY <1>1 DEF QueryInv, Holding, Ended
<1>3. Mode(r) \in Modes
  BY <1>2 DEF Mode, Suggest, Modes, Request
<1>4. ChunkTopK(Mode(r)) \in Nat
  BY <1>3 DEF ChunkTopK, Modes
<1>5. BundleKey(r) \in ContextKey /\ BundleKey(r).manifest = manifest
  BY <1>1, <1>2, <1>3, <1>4 DEF BundleKey, ContextKey, Request
<1>6. query' = [query EXCEPT ![q] = new]
  BY DEF BeginRetrieval
<1>7. new \in QueryState
  <2>1. CASE path = "images"
    <3>1. new = [query[q] EXCEPT !.pc = "fetching", !.path = "images",
                                 !.bundleKey = BundleKey(r), !.bundle = None]
      BY <2>1
    <3> HIDE DEF new
    <3> QED  BY <1>1, <1>5, <3>1 DEF QueryState, Holding
  <2>2. CASE path = "text"
    <3>1. new = [query[q] EXCEPT !.pc = "fetching", !.path = "text",
                                 !.bundleKey = BundleKey(r), !.bundle = None]
      BY <2>2
    <3> HIDE DEF new
    <3> QED  BY <1>1, <1>5, <3>1 DEF QueryState, Holding
  <2> QED  BY <2>1, <2>2
<1>8. QueryInv(q)'
  BY <1>1, <1>5, <1>6, <1>7
  DEF Current, TypeOK, QueryInv, QueryState, indexVars, Retrieving, Fetched, Holding, Ended
<1> QED  BY <1>6, <1>7, <1>8, Framed

LEMMA GotoFrame ==
    ASSUME Current, NEW q \in Queries,
           NEW to \in {"waiting", "routing", "retrieving", "images", "text", "asking"},
           query[q].pc \notin {"new"} \cup Ended,
           to = "waiting" => query[q].pc = "lookup",
           to \in Retrieving => query[q].pc \in Retrieving,
           to \in Fetched => query[q].pc \in Fetched,
           Goto(q, to), UNCHANGED indexVars
    PROVE  /\ query' \in [Queries -> QueryState]
           /\ \A p \in Queries : QueryInv(p)'
<1> DEFINE new == [query[q] EXCEPT !.pc = to]
<1>1. query[q] \in QueryState /\ QueryInv(q)
  BY DEF Current, TypeOK
<1>2. query' = [query EXCEPT ![q] = new]
  BY DEF Goto
<1>3. new \in QueryState
  BY <1>1 DEF QueryState, Holding
<1>4. QueryInv(q)'
  BY <1>1, <1>2, <1>3
  DEF Current, TypeOK, QueryInv, QueryState, indexVars, Retrieving, Fetched, Ended
<1> QED  BY <1>2, <1>3, <1>4, Framed

LEMMA FillFrame ==
    ASSUME Current, NEW q \in Queries, NEW to \in Fetched, NEW bundle \in Bundle,
           query[q].pc \in Retrieving,
           bundle.content >= settled[query[q].bundleKey.manifest],
           query' = [query EXCEPT ![q].pc = to, ![q].bundle = bundle],
           UNCHANGED indexVars
    PROVE  /\ query' \in [Queries -> QueryState]
           /\ \A p \in Queries : QueryInv(p)'
<1> DEFINE new == [query[q] EXCEPT !.pc = to, !.bundle = bundle]
<1>1. query[q] \in QueryState /\ QueryInv(q)
  BY DEF Current, TypeOK
<1>2. query' = [query EXCEPT ![q] = new]
  OBVIOUS
<1>3. new \in QueryState
  BY <1>1 DEF QueryState, Holding, Fetched
<1>4. QueryInv(q)'
  BY <1>1, <1>2, <1>3
  DEF Current, TypeOK, QueryInv, QueryState, indexVars, Retrieving, Fetched, Ended
<1> QED  BY <1>2, <1>3, <1>4, Framed

-----------------------------------------------------------------------------
(***************************************************************************)
(* The steps of a question.                                                *)
(***************************************************************************)
LEMMA LookUpCurrent == ASSUME Current, NEW q \in Queries, LookUp(q) PROVE Current'
<1>1. UNCHANGED <<indexVars, cacheVars, permits>> /\ query[q].pc = "lookup"
  BY DEF LookUp
<1>2. query' \in [Queries -> QueryState] /\ \A p \in Queries : QueryInv(p)'
  <2>1. CASE query[q].key \in DOMAIN answers /\ End(q, "done", answers[query[q].key])
    <3>1. answers[query[q].key] \in Answer
      BY <2>1 DEF Current, TypeOK
    <3>2. answers[query[q].key].content >= query[q].since
      BY <1>1, <2>1 DEF Current, TypeOK, QueryInv, Ended
    <3> QED  BY <1>1, <2>1, <3>1, <3>2, EndFrame DEF Ended
  <2>2. CASE Goto(q, "waiting")
    BY <1>1, <2>2, GotoFrame DEF Ended, Retrieving, Fetched
  <2> QED  BY <2>1, <2>2 DEF LookUp
<1> QED  BY <1>1, <1>2 DEF Current, TypeOK, indexVars, cacheVars

LEMMA EnterCurrent == ASSUME Current, NEW q \in Queries, Enter(q) PROVE Current'
<1>1. UNCHANGED <<indexVars, cacheVars>> /\ permits' \in Nat
  BY DEF Enter, Current, TypeOK
<1>2. query' \in [Queries -> QueryState] /\ \A p \in Queries : QueryInv(p)'
  BY <1>1, GotoFrame DEF Enter, Ended, Retrieving, Fetched
<1> QED  BY <1>1, <1>2 DEF Current, TypeOK, indexVars, cacheVars

LEMMA StoreAnswerCurrent == ASSUME Current, NEW q \in Queries, StoreAnswer(q) PROVE Current'
<1>1. UNCHANGED <<indexVars, bundles, permits>> /\ query[q].pc = "caching"
  BY DEF StoreAnswer
<1>2. /\ query[q].answer \in Answer /\ query[q].answer.content >= query[q].since
      /\ query[q].key \in Key /\ query[q].key.manifest \in 0 .. manifest
      /\ query[q].since = settled[query[q].key.manifest]
  BY <1>1 DEF Current, QueryInv, Ended
<1>3. query' \in [Queries -> QueryState] /\ \A p \in Queries : QueryInv(p)'
  BY <1>1, <1>2, EndFrame DEF StoreAnswer, Ended
<1>4. /\ DOMAIN answers' \subseteq Key
      /\ \A k \in DOMAIN answers' :
            /\ answers'[k] \in Answer
            /\ k.manifest \in 0 .. manifest /\ answers'[k].content >= settled[k.manifest]
  BY <1>2 DEF StoreAnswer, Put, Current, TypeOK
<1> QED  BY <1>1, <1>3, <1>4 DEF Current, TypeOK, indexVars

LEMMA RouteCurrent == ASSUME Current, NEW q \in Queries, Route(q) PROVE Current'
<1>1. UNCHANGED <<indexVars, cacheVars, permits>> /\ query[q].pc \in Holding
  BY DEF Route, Holding
<1>2. PICK path \in {"images", "text"} : BeginRetrieval(q, path)
  BY DEF Route
<1>3. query' \in [Queries -> QueryState] /\ \A p \in Queries : QueryInv(p)'
  BY <1>1, <1>2, RetrievalFrame
<1> QED  BY <1>1, <1>3 DEF Current, TypeOK, indexVars, cacheVars

LEMMA FetchCurrent == ASSUME Current, NEW q \in Queries, Fetch(q) PROVE Current'
<1>1. UNCHANGED <<indexVars, cacheVars, permits>> /\ query[q].pc = "fetching"
  BY DEF Fetch
<1>2. query' \in [Queries -> QueryState] /\ \A p \in Queries : QueryInv(p)'
  <2>1. CASE /\ query[q].bundleKey \in DOMAIN bundles
             /\ query' = [query EXCEPT ![q].pc = query[q].path,
                                       ![q].bundle = bundles[query[q].bundleKey]]
    <3>1. /\ bundles[query[q].bundleKey] \in Bundle
          /\ bundles[query[q].bundleKey].content >= settled[query[q].bundleKey.manifest]
      BY <2>1 DEF Current, TypeOK
    <3>2. query[q].path \in Fetched /\ query[q].pc \in Retrieving
      BY <1>1 DEF Current, TypeOK, QueryState, Fetched, Retrieving
    <3>3. UNCHANGED indexVars
      BY <1>1
    <3> QED  BY <2>1, <3>1, <3>2, <3>3, FillFrame
  <2>2. CASE Goto(q, "retrieving")
    BY <1>1, <2>2, GotoFrame DEF Ended, Retrieving, Fetched
  <2> QED  BY <2>1, <2>2 DEF Fetch
<1> QED  BY <1>1, <1>2 DEF Current, TypeOK, indexVars, cacheVars

LEMMA RetrieveCurrent == ASSUME Current, NEW q \in Queries, Retrieve(q) PROVE Current'
<1>1. UNCHANGED <<indexVars, cacheVars, permits>> /\ query[q].pc = "retrieving"
  BY DEF Retrieve
<1>2. PICK shape \in Shapes :
          LET bundle == [content |-> content, shape |-> shape] IN
          query' = [query EXCEPT
              ![q].pc = IF HasContent(bundle) THEN "storing" ELSE query[q].path,
              ![q].bundle = bundle]
  BY DEF Retrieve
<1> DEFINE bundle == [content |-> content, shape |-> shape]
<1> DEFINE to == IF HasContent(bundle) THEN "storing" ELSE query[q].path
<1>3. bundle \in Bundle /\ bundle.content >= settled[query[q].bundleKey.manifest]
  BY <1>1 DEF Current, TypeOK, QueryInv, Retrieving, Bundle, ContextKey
<1>4. to \in Fetched /\ query[q].pc \in Retrieving
  BY <1>1 DEF Current, TypeOK, QueryState, Fetched, Retrieving
<1>5. query' = [query EXCEPT ![q].pc = to, ![q].bundle = bundle]
  BY <1>2
<1> HIDE DEF to, bundle
<1>6. UNCHANGED indexVars
  BY <1>1
<1>7. query' \in [Queries -> QueryState] /\ \A p \in Queries : QueryInv(p)'
  BY <1>3, <1>4, <1>5, <1>6, FillFrame
<1> QED  BY <1>1, <1>7 DEF Current, TypeOK, indexVars, cacheVars

LEMMA StoreBundleCurrent == ASSUME Current, NEW q \in Queries, StoreBundle(q) PROVE Current'
<1>1. UNCHANGED <<indexVars, answers, permits>> /\ query[q].pc = "storing"
  BY DEF StoreBundle
<1>2. /\ query[q].path \in {"images", "text"}
      /\ query[q].bundle \in Bundle /\ query[q].bundleKey \in ContextKey
      /\ query[q].bundleKey.manifest \in 0 .. manifest
      /\ query[q].bundle.content >= settled[query[q].bundleKey.manifest]
  BY <1>1 DEF Current, TypeOK, QueryState, QueryInv, Fetched, Retrieving
<1>3. query' \in [Queries -> QueryState] /\ \A p \in Queries : QueryInv(p)'
  BY <1>1, <1>2, GotoFrame DEF StoreBundle, Ended, Retrieving, Fetched
<1>4. /\ DOMAIN bundles' \subseteq ContextKey
      /\ \A k \in DOMAIN bundles' :
            /\ bundles'[k] \in Bundle
            /\ k.manifest \in 0 .. manifest /\ bundles'[k].content >= settled[k.manifest]
  BY <1>2 DEF StoreBundle, Put, Current, TypeOK
<1> QED  BY <1>1, <1>3, <1>4 DEF Current, TypeOK, indexVars

LEMMA FromBundleCurrent ==
    ASSUME Current, NEW q \in Queries, query[q].pc \in {"images", "text"}, FromBundle(q)
    PROVE  Current'
<1>1. PICK blank \in BOOLEAN :
          Reply(q, [content |-> query[q].bundle.content, blank |-> blank])
  BY DEF FromBundle
<1> DEFINE answer == [content |-> query[q].bundle.content, blank |-> blank]
<1>2. answer \in Answer /\ answer.content >= query[q].since /\ query[q].pc \in Holding
  BY DEF Current, TypeOK, QueryState, QueryInv, Fetched, Retrieving, Holding, Bundle, Answer, ContextKey
<1> QED  BY <1>1, <1>2, ReplyCurrent

LEMMA FallBackCurrent == ASSUME Current, NEW q \in Queries, FallBack(q) PROVE Current'
<1>1. UNCHANGED <<indexVars, cacheVars, permits>> /\ query[q].pc \in Holding
  BY DEF FallBack, Holding
<1>2. query' \in [Queries -> QueryState] /\ \A p \in Queries : QueryInv(p)'
  BY <1>1, RetrievalFrame DEF FallBack
<1> QED  BY <1>1, <1>2 DEF Current, TypeOK, indexVars, cacheVars

LEMMA AnswerFromTextCurrent ==
    ASSUME Current, NEW q \in Queries, AnswerFromText(q) PROVE Current'
<1>1. CASE FromBundle(q)
  BY <1>1, FromBundleCurrent DEF AnswerFromText
<1>2. CASE Goto(q, "asking") /\ UNCHANGED <<indexVars, cacheVars, permits>>
  <2>1. query' \in [Queries -> QueryState] /\ \A p \in Queries : QueryInv(p)'
    BY <1>2, GotoFrame DEF AnswerFromText, Ended, Retrieving, Fetched
  <2> QED  BY <1>2, <2>1 DEF Current, TypeOK, indexVars, cacheVars
<1> QED  BY <1>1, <1>2 DEF AnswerFromText

LEMMA AskLightRAGCurrent == ASSUME Current, NEW q \in Queries, AskLightRAG(q) PROVE Current'
<1>1. PICK blank \in BOOLEAN : Reply(q, [content |-> content, blank |-> blank])
  BY DEF AskLightRAG
<1>2. query[q].pc \in Holding
  BY DEF AskLightRAG, Holding
<1> DEFINE answer == [content |-> content, blank |-> blank]
<1>3. answer \in Answer /\ answer.content >= query[q].since
  BY DEF Current, TypeOK, QueryState, QueryInv, Answer
<1> QED  BY <1>1, <1>2, <1>3, ReplyCurrent

LEMMA StartStreamCurrent == ASSUME Current, NEW q \in Queries, StartStream(q) PROVE Current'
<1> DEFINE answer == [content |-> content, blank |-> FALSE]
<1> DEFINE new == [query[q] EXCEPT !.pc = "streaming", !.answer = answer]
<1>1. UNCHANGED <<indexVars, cacheVars, permits>> /\ query[q].pc = "text"
  BY DEF StartStream
<1>2. query[q] \in QueryState /\ QueryInv(q)
  BY DEF Current, TypeOK
<1>3. answer \in Answer /\ answer.content >= query[q].since
  BY <1>2 DEF Current, TypeOK, QueryState, QueryInv, Answer
<1>4. query' = [query EXCEPT ![q] = new]
  BY DEF StartStream
<1> HIDE DEF answer
<1>5. new \in QueryState
  BY <1>2, <1>3 DEF QueryState, Holding
<1>6. QueryInv(q)'
  BY <1>1, <1>2, <1>3, <1>4, <1>5
  DEF Current, TypeOK, QueryInv, QueryState, indexVars, Retrieving, Fetched, Ended
<1>7. UNCHANGED indexVars
  BY <1>1
<1>8. query' \in [Queries -> QueryState] /\ \A p \in Queries : QueryInv(p)'
  BY <1>4, <1>5, <1>6, <1>7, Framed
<1> QED  BY <1>1, <1>8 DEF Current, TypeOK, indexVars, cacheVars

LEMMA LeavingCurrent ==
    ASSUME Current, NEW q \in Queries,
           EndStream(q) \/ Fail(q) \/ Disconnect(q)
    PROVE  Current'
<1>1. UNCHANGED <<indexVars, cacheVars>> /\ permits' \in Nat
  BY DEF EndStream, Fail, Disconnect, Leave, Current, TypeOK
<1>2. query[q].answer \in Answer \cup {None}
      /\ (query[q].answer # None => query[q].answer.content >= query[q].since)
  BY DEF Current, TypeOK, QueryState, QueryInv
<1>3. PICK pc \in Ended, answer \in {None, query[q].answer} : End(q, pc, answer)
  BY DEF EndStream, Fail, Disconnect, Ended
<1>4. query' \in [Queries -> QueryState] /\ \A p \in Queries : QueryInv(p)'
  BY <1>1, <1>2, <1>3, EndFrame
<1> QED  BY <1>1, <1>4 DEF Current, TypeOK, indexVars, cacheVars

-----------------------------------------------------------------------------
(***************************************************************************)
(* The steps of the index: content and manifests only grow.                *)
(***************************************************************************)
LEMMA Grown ==
    ASSUME Current, UNCHANGED <<cacheVars, permits, query>>,
           writer' \in [Writers -> {"idle", "deleted", "purged", "inserted",
                                    "removed", "unlisted", "ended"}],
           content' \in Nat, content' >= content,
           manifest' \in Nat, manifest' >= manifest,
           settled' \in [0 .. manifest' -> Nat],
           \A m \in 0 .. manifest : settled'[m] = settled[m],
           \A m \in 0 .. manifest' : settled'[m] <= settled'[manifest'],
           settled'[manifest'] <= content'
    PROVE  Current'
<1>1. settled'[manifest] = settled[manifest] /\ settled[manifest] <= settled'[manifest']
  <2>1. manifest \in 0 .. manifest /\ manifest \in 0 .. manifest'
    BY DEF Current, TypeOK
  <2>2. settled'[manifest] = settled[manifest] /\ settled'[manifest] <= settled'[manifest']
    BY <2>1
  <2> QED  BY <2>2
<1>2. ASSUME NEW q \in Queries PROVE QueryInv(q)'
  <2>1. QueryInv(q) /\ query[q] \in QueryState
    BY DEF Current, TypeOK
  <2>2. query[q].since <= settled'[manifest']
    BY <1>1, <2>1 DEF QueryInv, QueryState, Current, TypeOK
  <2>3. \A m : m \in 0 .. manifest => m \in 0 .. manifest' /\ settled'[m] = settled[m]
    BY DEF Current, TypeOK
  <2>4. query'[q] = query[q]
    OBVIOUS
  <2> HIDE DEF Current
  <2>5. query[q].pc \in Retrieving =>
            /\ query[q].bundleKey.manifest \in 0 .. manifest'
            /\ settled'[query[q].bundleKey.manifest] = settled[query[q].bundleKey.manifest]
    BY <2>1, <2>3 DEF QueryInv
  <2>6. query[q].pc \in Fetched => query[q].pc \in Retrieving
    BY DEF Retrieving
  <2>7. query[q].pc \notin {"new"} \cup Ended /\ ~ query[q].request.stream =>
            /\ query[q].key.manifest \in 0 .. manifest'
            /\ settled'[query[q].key.manifest] = settled[query[q].key.manifest]
    BY <2>1, <2>3 DEF QueryInv
  <2> QED  BY <2>1, <2>2, <2>4, <2>5, <2>6, <2>7 DEF QueryInv
<1>3. \A k \in DOMAIN answers :
          k.manifest \in 0 .. manifest' /\ answers[k].content >= settled'[k.manifest]
  BY DEF Current, TypeOK
<1>4. \A k \in DOMAIN bundles :
          k.manifest \in 0 .. manifest' /\ bundles[k].content >= settled'[k.manifest]
  BY DEF Current, TypeOK
<1>5. TypeOK'
  BY DEF Current, TypeOK, cacheVars
<1> QED  BY <1>2, <1>3, <1>4, <1>5 DEF Current, cacheVars

LEMMA WriteCurrent == ASSUME Current, NEW w \in Writers, Write(w) PROVE Current'
<1> DEFINE Places == {"idle", "deleted", "purged", "inserted", "removed", "unlisted", "ended"}
<1>1. UNCHANGED <<cacheVars, permits, query>>
  BY DEF Write
<1>2. ASSUME NEW from \in Places, NEW to \in Places, Change(w, from, to) PROVE Current'
  BY <1>1, <1>2, Grown DEF Change, Current, TypeOK
<1>3. ASSUME NEW from \in Places, NEW to \in Places, WriteManifest(w, from, to) PROVE Current'
  <2>1. /\ manifest' = manifest + 1 /\ content' = content
        /\ writer' \in [Writers -> Places]
        /\ settled' \in [0 .. manifest' -> Nat]
        /\ \A m \in 0 .. manifest : settled'[m] = settled[m]
        /\ settled'[manifest'] \in {content, settled[manifest]}
    BY <1>3 DEF WriteManifest, Current, TypeOK
  <2>2. settled[manifest] <= settled'[manifest'] /\ settled'[manifest'] <= content
    BY <2>1 DEF Current, TypeOK
  <2>3. \A m \in 0 .. manifest' : settled'[m] <= settled'[manifest']
    BY <2>1, <2>2 DEF Current, TypeOK
  <2>4. manifest \in Nat /\ content \in Nat
    BY DEF Current, TypeOK
  <2> QED  BY <1>1, <2>1, <2>2, <2>3, <2>4, Grown
<1>4. CASE SkipDelete(w) \/ Stop(w)
  BY <1>1, <1>4, Grown DEF SkipDelete, Stop, Current, TypeOK
<1> QED  BY <1>2, <1>3, <1>4 DEF Write, Ingest, Remove, Delete

-----------------------------------------------------------------------------
LEMMA InitCurrent == ASSUME Init PROVE Current
<1>1. TypeOK
  BY QueryServiceAssumption DEF Init, TypeOK, QueryState
<1>2. \A q \in Queries : QueryInv(q)
  BY DEF Init, QueryInv, Ended, Retrieving, Fetched
<1> QED  BY <1>1, <1>2 DEF Init, Current

LEMMA NextCurrent == ASSUME Current, [Next]_vars PROVE Current'
<1>1. ASSUME NEW q \in Queries, Ask(q) PROVE Current'  BY <1>1, AskCurrent
<1>2. ASSUME NEW q \in Queries, Disconnect(q) PROVE Current'  BY <1>2, LeavingCurrent
<1>3. ASSUME NEW q \in Queries, Step(q) PROVE Current'
  <2>1. CASE AnswerFromImages(q)
    BY <2>1, FromBundleCurrent DEF AnswerFromImages
  <2> QED
    BY <1>3, <2>1, LookUpCurrent, EnterCurrent, StoreAnswerCurrent, RouteCurrent,
       FetchCurrent, RetrieveCurrent, StoreBundleCurrent, FallBackCurrent,
       AnswerFromTextCurrent, AskLightRAGCurrent, StartStreamCurrent, LeavingCurrent
    DEF Step
<1>4. ASSUME NEW w \in Writers, Write(w) PROVE Current'  BY <1>4, WriteCurrent
<1>5. CASE UNCHANGED vars
  BY <1>5 DEF Current, TypeOK, QueryInv, vars, indexVars, cacheVars
<1> QED  BY <1>1, <1>2, <1>3, <1>4, <1>5 DEF Next

(***************************************************************************)
(* The types of the state: in particular the semaphore never goes below 0. *)
(***************************************************************************)
THEOREM TypeCorrect == Spec => []TypeOK
<1>1. Current => TypeOK  BY DEF Current
<1> QED  BY <1>1, InitCurrent, NextCurrent, PTL DEF Spec

(***************************************************************************)
(* A question is never answered from what the index had before the last    *)
(* ingestion or removal that had completed when it was asked, and nothing  *)
(* older is in the caches under that version.                              *)
(***************************************************************************)
THEOREM NoAnswerOlder == Spec => [](AnswerNotOlder /\ CachedNotOlder)
<1>1. Current => AnswerNotOlder /\ CachedNotOlder
  BY DEF Current, QueryInv, AnswerNotOlder, CachedNotOlder
<1> QED  BY <1>1, InitCurrent, NextCurrent, PTL DEF Spec

-----------------------------------------------------------------------------
(***************************************************************************)
(* Permits.  A step changes the place of one question: it takes a permit,  *)
(* gives one back, or neither.                                             *)
(***************************************************************************)
Holders == {q \in Queries : query[q].pc \in Holding}

Kept(q) == permits' = permits /\ (query'[q].pc \in Holding <=> query[q].pc \in Holding)
Taken(q) ==
    /\ permits' = permits - 1 /\ permits > 0
    /\ query[q].pc \notin Holding /\ query'[q].pc \in Holding
Given(q) ==
    /\ permits' = permits + 1
    /\ query[q].pc \in Holding /\ query'[q].pc \notin Holding

LEMMA PermitsCounted ==
    ASSUME TypeOK, PermitsReturned, NEW q \in Queries,
           \A p \in Queries \ {q} : query'[p] = query[p],
           Kept(q) \/ Taken(q) \/ Given(q)
    PROVE  PermitsReturned'
<1>1. IsFiniteSet(Holders) /\ Cardinality(Holders) \in Nat /\ permits \in Nat
  BY QueryServiceAssumption, FS_Subset, FS_CardinalityType DEF Holders, TypeOK
<1>2. permits + Cardinality(Holders) = MaxQueries
  BY DEF PermitsReturned, Holders
<1>3. CASE Kept(q)
  <2>1. Holders' = Holders
    BY <1>3 DEF Kept, Holders
  <2> QED  BY <1>2, <1>3, <2>1 DEF Kept, PermitsReturned, Holders
<1>4. CASE Taken(q)
  <2>1. Holders' = Holders \cup {q} /\ q \notin Holders
    BY <1>4 DEF Taken, Holders
  <2>2. Cardinality(Holders') = Cardinality(Holders) + 1
    BY <1>1, <2>1, FS_AddElement
  <2> QED  BY <1>1, <1>2, <1>4, <2>2 DEF Taken, PermitsReturned, Holders
<1>5. CASE Given(q)
  <2>1. Holders' = Holders \ {q} /\ q \in Holders
    BY <1>5 DEF Given, Holders
  <2>2. Cardinality(Holders') = Cardinality(Holders) - 1
    BY <1>1, <2>1, FS_RemoveElement
  <2> QED  BY <1>1, <1>2, <1>5, <2>2 DEF Given, PermitsReturned, Holders
<1> QED  BY <1>3, <1>4, <1>5

LEMMA ReplyGives ==
    ASSUME TypeOK, NEW q \in Queries, NEW answer, query[q].pc \in Holding, Reply(q, answer)
    PROVE  Given(q) /\ \A p \in Queries \ {q} : query'[p] = query[p]
BY DEF Reply, End, Leave, Given, Holding, TypeOK, QueryState

LEMMA NextPermits == ASSUME TypeOK, PermitsReturned, [Next]_vars PROVE PermitsReturned'
<1>1. ASSUME NEW q \in Queries, Ask(q) \/ Step(q) \/ Disconnect(q)
      PROVE  PermitsReturned'
  <2>1. CASE Enter(q)
    BY <2>1, PermitsCounted DEF Enter, Goto, Taken, Holding, TypeOK, QueryState
  <2>2. ASSUME NEW answer, query[q].pc \in Holding, Reply(q, answer) PROVE PermitsReturned'
    BY <2>2, ReplyGives, PermitsCounted
  <2>3. CASE AnswerFromImages(q)
    BY <2>2, <2>3 DEF AnswerFromImages, FromBundle, Holding
  <2>4. CASE AskLightRAG(q)
    BY <2>2, <2>4 DEF AskLightRAG, Holding
  <2>5. CASE AnswerFromText(q)
    <3>1. CASE FromBundle(q)
      BY <2>2, <2>5, <3>1 DEF AnswerFromText, FromBundle, Holding
    <3>2. CASE Goto(q, "asking") /\ UNCHANGED permits
      BY <2>5, <3>2, PermitsCounted
      DEF AnswerFromText, Goto, Kept, Holding, TypeOK, QueryState
    <3> QED  BY <2>5, <3>1, <3>2 DEF AnswerFromText
  <2>6. CASE EndStream(q)
    BY <2>6, PermitsCounted DEF EndStream, End, Leave, Given, Holding, TypeOK, QueryState
  <2>7. CASE Fail(q)
    BY <2>7, PermitsCounted DEF Fail, End, Leave, Given, Holding, TypeOK, QueryState
  <2>8. CASE Disconnect(q)
    <3>1. CASE query[q].pc \in Holding
      BY <2>8, <3>1, PermitsCounted DEF Disconnect, End, Given, Holding, TypeOK, QueryState
    <3>2. CASE query[q].pc \notin Holding
      BY <2>8, <3>2, PermitsCounted DEF Disconnect, End, Kept, Holding, TypeOK, QueryState
    <3> QED  BY <3>1, <3>2
  <2>9. CASE Ask(q)
    <3>1. query[q].pc = "new" /\ query'[q].pc \in {"waiting", "lookup"}
      BY <2>9 DEF Ask, TypeOK, QueryState
    <3>2. permits' = permits /\ \A p \in Queries \ {q} : query'[p] = query[p]
      BY <2>9 DEF Ask, TypeOK
    <3> QED  BY <3>1, <3>2, PermitsCounted DEF Kept, Holding
  <2>10. CASE LookUp(q)
    <3>1. query[q].pc = "lookup" /\ query'[q].pc \in {"waiting", "done"}
      BY <2>10 DEF LookUp, End, Goto, TypeOK, QueryState
    <3>2. permits' = permits /\ \A p \in Queries \ {q} : query'[p] = query[p]
      BY <2>10 DEF LookUp, End, Goto, TypeOK
    <3> QED  BY <3>1, <3>2, PermitsCounted DEF Kept, Holding
  <2>11. CASE StoreAnswer(q)
    BY <2>11, PermitsCounted DEF StoreAnswer, End, Kept, Holding, TypeOK, QueryState
  <2>12. CASE Route(q) \/ FallBack(q)
    BY <2>12, PermitsCounted
    DEF Route, FallBack, BeginRetrieval, Kept, Holding, TypeOK, QueryState
  <2>13. CASE Fetch(q)
    BY <2>13, PermitsCounted DEF Fetch, Goto, Kept, Holding, TypeOK, QueryState
  <2>14. CASE Retrieve(q)
    BY <2>14, PermitsCounted DEF Retrieve, Kept, Holding, TypeOK, QueryState
  <2>15. CASE StoreBundle(q)
    BY <2>15, PermitsCounted DEF StoreBundle, Goto, Kept, Holding, TypeOK, QueryState
  <2>16. CASE StartStream(q)
    BY <2>16, PermitsCounted DEF StartStream, Kept, Holding, TypeOK, QueryState
  <2> QED
    BY <1>1, <2>1, <2>3, <2>4, <2>5, <2>6, <2>7, <2>8, <2>9, <2>10, <2>11, <2>12,
       <2>13, <2>14, <2>15, <2>16 DEF Step
<1>2. ASSUME NEW w \in Writers, Write(w) PROVE PermitsReturned'
  BY <1>2 DEF Write, PermitsReturned
<1>3. CASE UNCHANGED vars
  BY <1>3 DEF vars, PermitsReturned
<1> QED  BY <1>1, <1>2, <1>3 DEF Next

(***************************************************************************)
(* The free permits and the questions inside the semaphore always add up   *)
(* to max_concurrent_queries.                                              *)
(***************************************************************************)
THEOREM NoPermitLost == Spec => []PermitsReturned
<1>1. Init => PermitsReturned
  <2> SUFFICES ASSUME Init PROVE PermitsReturned
    OBVIOUS
  <2>1. Holders = {}
    BY DEF Init, Holding, Holders
  <2>2. Cardinality(Holders) = 0
    BY <2>1, FS_EmptySet
  <2>3. permits + 0 = MaxQueries
    BY QueryServiceAssumption DEF Init
  <2> QED  BY <2>2, <2>3 DEF PermitsReturned, Holders
<1> QED  BY <1>1, NextPermits, TypeCorrect, PTL DEF Spec
=============================================================================
