---------------------------- MODULE Communities ----------------------------
(***************************************************************************)
(* Community summaries (src/community/): builds by the service and by the  *)
(* command line, the two files they leave (reports and vector index), and  *)
(* the questions that inject summaries and are cached under the version of *)
(* the reports.                                                            *)
(*                                                                         *)
(* Partitioning is in Partition; here a graph is the set of communities it *)
(* finds.  A summary is the set of members it was written about.  The      *)
(* language model may fail for any of the communities, the embedding model *)
(* for all; a process may be killed between any two steps, also between    *)
(* the two files.                                                          *)
(***************************************************************************)
EXTENDS Integers, FiniteSets

CONSTANTS
    Graphs,            \* what the graph may become, each a set of communities
    Builders,          \* processes that build
    Service,           \* the one of them that answers questions as well
    Kinds,             \* of builds: see Kind
    ReuseNum, ReuseDen,\* reuse_jaccard
    Readers,           \* questions
    MaxChanges,        \* bound: changes of the graph
    MaxBuilds,         \* bound: builds that ignore what is up to date
    MaxCrashes,        \* bound: processes killed
    None, Blank

\* locked: refresh_communities; keep: mode "auto" without force; limit: calls
\* of the language model, None if unlimited
Kind == [locked : BOOLEAN, keep : BOOLEAN, limit : Nat \cup {None}]

Communities == UNION Graphs

\* a member of at most one community, and at most one old community is as
\* close as the threshold, so that `taken` never decides
ASSUME CommunitiesAssumption ==
    /\ \A g \in Graphs : \A c, d \in g : c = d \/ c \cap d = {}
    /\ \A c \in Communities : IsFiniteSet(c) /\ c # {}
    /\ Service \in Builders
    /\ Kinds \subseteq Kind
    /\ ReuseNum \in Nat /\ ReuseDen \in Nat \ {0} /\ 2 * ReuseNum > ReuseDen
    /\ None \notin Graphs \cup Builders /\ Blank \notin Communities
    /\ MaxChanges \in Nat /\ MaxBuilds \in Nat /\ MaxCrashes \in Nat

VARIABLES
    graph,             \* what is in Neo4j
    changes,           \* how often it has changed
    reports,           \* kv_store_community_reports.json, None while missing
    index,             \* community_index.npz, None while missing
    lock,              \* rag:lock:community:rebuild
    build,             \* the build of each process
    reader,            \* each question
    cached,            \* what was injected, in cached bundles, by version
    due,               \* due[b]: a run of b has changed the graph and comes to
                       \* its refresh
    missed,            \* no refresh was made of the graph as it is (a history
                       \* variable: nothing looks at it)
    others, crashes    \* counters for MaxBuilds and MaxCrashes

fileVars == <<reports, index>>
readVars == <<reader, cached>>
vars == <<graph, changes, fileVars, lock, build, readVars, due, missed, others, crashes>>

-----------------------------------------------------------------------------
(***************************************************************************)
(* Reports, index and version.                                             *)
(***************************************************************************)
\* graph_fingerprint, the graph's age and built_at (a number: no two builds
\* are saved at the same microsecond), and a summary, or Blank, per community
Report == [graph : Graphs, at : Nat, built : Nat,
           text : UNION {[g -> Communities \cup {Blank}] : g \in Graphs}]

Index == [graph : Graphs, ids : SUBSET Communities]

ASSUME NoneAssumption == None \notin Report

Written(r) == {c \in r.graph : r.text[c] # Blank}

\* community_version
Version == IF reports = None THEN 0 ELSE reports.built

\* what a question may inject: ids hold the fingerprint, so that an index of
\* another graph matches no report
Eligible ==
    IF reports = None \/ index = None \/ index.graph # reports.graph THEN {}
    ELSE {<<c, reports.text[c]>> : c \in index.ids \cap Written(reports)}

Similar(c, d) ==
    Cardinality(c \cap d) * ReuseDen >= Cardinality(c \cup d) * ReuseNum

Idle == [pc |-> "idle"]

Init ==
    /\ graph \in Graphs /\ changes = 0
    /\ reports = None /\ index = None /\ lock = None
    /\ build = [b \in Builders |-> Idle]
    /\ reader = [q \in Readers |-> [pc |-> "new"]]
    /\ cached = [v \in {} |-> {}]
    /\ due = [b \in Builders |-> b = Service] /\ missed = FALSE
    /\ others = 0 /\ crashes = 0

\* A run that adds, changes or removes documents refreshes when it is done; a
\* deletion through the API, and a document that fails halfway, do not.
ChangeGraph(b, refreshes) ==
    /\ changes < MaxChanges
    /\ changes' = changes + 1
    /\ graph' \in Graphs \ {graph}
    /\ IF refreshes
       THEN /\ build[b].pc = "idle"
            /\ due' = [due EXCEPT ![b] = TRUE]
            /\ missed' = FALSE
       ELSE /\ missed' = TRUE
            /\ UNCHANGED due
    /\ UNCHANGED <<fileVars, lock, build, readVars, others, crashes>>

-----------------------------------------------------------------------------
(***************************************************************************)
(* build_communities and refresh_communities.                              *)
(***************************************************************************)
\* Seeded fault: the refresh takes no lock
StartUnlocked(b, kind) ==
    /\ build[b].pc = "idle"
    /\ build' = [build EXCEPT ![b] =
          [pc |-> "loaded", kind |-> kind, graph |-> graph, at |-> changes]]
    /\ UNCHANGED lock

\* the graph is read before the files
Start(b, kind) ==
    /\ build[b].pc = "idle"
    /\ kind.locked => lock = None
    /\ build' = [build EXCEPT ![b] =
          [pc |-> "loaded", kind |-> kind, graph |-> graph, at |-> changes]]
    /\ lock' = IF kind.locked THEN b ELSE lock

\* Each run refreshes once; other builds are started by hand.
StartAny(b) ==
    /\ \E kind \in Kinds :
          /\ Start(b, kind)
          /\ IF kind.locked /\ kind.keep
             THEN /\ due[b]
                  /\ due' = [due EXCEPT ![b] = FALSE]
                  /\ UNCHANGED others
             ELSE /\ others < MaxBuilds
                  /\ others' = others + 1
                  /\ UNCHANGED due
    /\ UNCHANGED <<graph, changes, fileVars, readVars, missed, crashes>>

Current(b) == build[b].pc # "idle" /\ build[b].at = changes

\* A refresh that finds the lock taken is skipped, and not made up for: the
\* holder may have read an earlier graph, or be dead.
Skip(b) ==
    /\ due[b] /\ build[b].pc = "idle" /\ lock # None
    /\ due' = [due EXCEPT ![b] = FALSE]
    /\ missed' = IF Current(lock) THEN missed ELSE TRUE
    /\ UNCHANGED <<graph, changes, fileVars, lock, build, readVars, others, crashes>>

Release(b) == lock' = IF lock = b THEN None ELSE lock

Leave(b) ==
    /\ build' = [build EXCEPT ![b] = Idle]
    /\ Release(b)

\* Seeded fault: whatever was built is up to date
UpToDateOnceBuilt(b) ==
    build[b].kind.keep /\ reports # None

UpToDate(b) ==
    build[b].kind.keep /\ reports # None /\ reports.graph = build[b].graph

\* Seeded fault: only for the same members
ReusableIfSame(b, c) ==
    IF build[b].kind.keep /\ reports # None
    THEN {d \in reports.graph : c = d} ELSE {}

\* the old communities a new one may take its summary from, Blank or not
Reusable(b, c) ==
    IF build[b].kind.keep /\ reports # None
    THEN {d \in reports.graph : Similar(c, d)} ELSE {}

Draft(b) ==
    [c \in {x \in build[b].graph : Reusable(b, x) # {}} |->
        reports.text[CHOOSE d \in Reusable(b, c) : TRUE]]

\* the files are read and compared at once; what is beyond the limit is pending
Plan(b) ==
    /\ build[b].pc = "loaded"
    /\ \/ /\ UpToDate(b)
          /\ Leave(b)
       \/ /\ ~ UpToDate(b)
          /\ LET new == build[b].graph \ DOMAIN Draft(b)
                 limit == build[b].kind.limit
             IN \E todo \in SUBSET new :
                /\ IF limit = None THEN todo = new
                   ELSE Cardinality(todo) =
                           IF limit < Cardinality(new) THEN limit ELSE Cardinality(new)
                /\ build' = [build EXCEPT ![b] =
                      [pc |-> "summarizing", kind |-> @.kind, graph |-> @.graph,
                       at |-> @.at, text |-> Draft(b), todo |-> todo]]
          /\ UNCHANGED lock
    /\ UNCHANGED <<graph, changes, fileVars, readVars, due, missed, others, crashes>>

\* Seeded fault: a failed community is left out
GeneratedOnly(b, ok) ==
    [c \in DOMAIN build[b].text \cup ok |->
        IF c \in ok THEN c ELSE build[b].text[c]]

\* a failed or pending community has no summary: what `prev_rep` is taken from
\* holds only communities that are not generated
Generated(b, ok) ==
    [c \in build[b].graph |->
        IF c \in DOMAIN build[b].text THEN build[b].text[c]
        ELSE IF c \in ok THEN c ELSE Blank]

\* nothing is saved if a call failed and no summary is left
Summarize(b, ok) ==
    /\ build[b].pc = "summarizing"
    /\ LET text == Generated(b, ok)
           usable == {c \in DOMAIN text : text[c] # Blank}
       IN \/ /\ ok # build[b].todo /\ usable = {}
             /\ Leave(b)
             /\ missed' = IF Current(b) THEN TRUE ELSE missed
          \/ /\ ok = build[b].todo \/ usable # {}
             /\ build' = [build EXCEPT ![b] =
                   [pc |-> "embedding", graph |-> @.graph, at |-> @.at, text |-> text]]
             /\ UNCHANGED <<lock, missed>>
    /\ UNCHANGED <<graph, changes, fileVars, readVars, due, others, crashes>>

\* without usable summaries, or if the embedding model fails, the index stays
Embed(b, embedded) ==
    /\ build[b].pc = "embedding"
    /\ embedded \in {{}, {c \in DOMAIN build[b].text : build[b].text[c] # Blank}}
    /\ build' = [build EXCEPT ![b] =
          [pc |-> "saving", graph |-> @.graph, at |-> @.at, text |-> @.text, ids |-> embedded]]
    /\ UNCHANGED <<graph, changes, fileVars, lock, readVars, due, missed, others, crashes>>

SaveReports(b) ==
    /\ build[b].pc = "saving"
    /\ reports' = [graph |-> build[b].graph, at |-> build[b].at,
                   built |-> Version + 1, text |-> build[b].text]
    /\ IF build[b].ids = {} THEN Leave(b)
       ELSE /\ build' = [build EXCEPT ![b].pc = "indexing"]
            /\ UNCHANGED lock
    /\ UNCHANGED <<graph, changes, index, readVars, due, missed, others, crashes>>

SaveIndex(b) ==
    /\ build[b].pc = "indexing"
    /\ index' = [graph |-> build[b].graph, ids |-> build[b].ids]
    /\ Leave(b)
    /\ UNCHANGED <<graph, changes, reports, readVars, due, missed, others, crashes>>

\* questions of the service are lost with it, the lock stays until it expires
Crash(b) ==
    /\ build[b].pc # "idle" \/ due[b]
    /\ crashes < MaxCrashes
    /\ crashes' = crashes + 1
    /\ build' = [build EXCEPT ![b] = Idle]
    /\ due' = [due EXCEPT ![b] = FALSE]
    /\ missed' = IF due[b] \/ Current(b) THEN TRUE ELSE missed
    /\ reader' = IF b = Service THEN [q \in Readers |-> [pc |-> "new"]] ELSE reader
    /\ UNCHANGED <<graph, changes, fileVars, lock, cached, others>>

ExpireLock ==
    /\ lock # None /\ build[lock].pc = "idle"
    /\ lock' = None
    /\ UNCHANGED <<graph, changes, fileVars, build, readVars, due, missed, others, crashes>>

-----------------------------------------------------------------------------
(***************************************************************************)
(* A question: key, retrieval, selection, cache.  The service awaits       *)
(* nothing between its two files, so that it answers nothing there.        *)
(***************************************************************************)
Awake == build[Service].pc \notin {"saving", "indexing"}

\* Seeded fault: the version is not part of the key
KeyUnversioned == 0

Key == Version

\* a hit, here or of the whole answer, changes nothing; an entry may expire
Ask(q) ==
    /\ Awake /\ reader[q].pc = "new"
    /\ reader' = [reader EXCEPT ![q] = [pc |-> "retrieving", key |-> Key]]
    /\ UNCHANGED <<graph, changes, fileVars, lock, build, cached, due, missed, others, crashes>>

\* reports and index are read together; similarity picks some of the eligible
Select(q) ==
    /\ Awake /\ reader[q].pc = "retrieving"
    /\ \E picked \in SUBSET Eligible :
          reader' = [reader EXCEPT ![q] =
              [pc |-> "storing", key |-> @.key, picked |-> picked]]
    /\ UNCHANGED <<graph, changes, fileVars, lock, build, cached, due, missed, others, crashes>>

Store(q) ==
    /\ Awake /\ reader[q].pc = "storing"
    /\ cached' = [v \in DOMAIN cached \cup {reader[q].key} |->
                     IF v = reader[q].key THEN reader[q].picked ELSE cached[v]]
    /\ reader' = [reader EXCEPT ![q] = [pc |-> "new"]]
    /\ UNCHANGED <<graph, changes, fileVars, lock, build, due, missed, others, crashes>>

-----------------------------------------------------------------------------
Proceed(b) ==
    \/ Plan(b) \/ SaveReports(b) \/ SaveIndex(b)
    \/ \E ids \in SUBSET Communities : Embed(b, ids)

Next ==
    \/ ExpireLock
    \/ \E b \in Builders :
          \/ StartAny(b) \/ Skip(b) \/ Proceed(b) \/ Crash(b)
          \/ \E refreshes \in BOOLEAN : ChangeGraph(b, refreshes)
          \/ \E ok \in SUBSET Communities :
                /\ build[b].pc = "summarizing" /\ ok \subseteq build[b].todo
                /\ Summarize(b, ok)
    \/ \E q \in Readers : Ask(q) \/ Select(q) \/ Store(q)

Spec == Init /\ [][Next]_vars

(***************************************************************************)
(* A run comes to its refresh, a build that runs goes on, and a lock whose *)
(* holder died expires.                                                    *)
(***************************************************************************)
FairSpec ==
    /\ Spec
    /\ WF_vars(ExpireLock)
    /\ \A b \in Builders :
          /\ WF_vars(StartAny(b) \/ Skip(b))
          /\ WF_vars(Proceed(b))
          /\ WF_vars(\E ok \in SUBSET Communities :
                        /\ build[b].pc = "summarizing" /\ ok \subseteq build[b].todo
                        /\ Summarize(b, ok))

-----------------------------------------------------------------------------
TypeOK ==
    /\ graph \in Graphs /\ changes \in 0 .. MaxChanges
    /\ reports # None => reports \in Report /\ DOMAIN reports.text = reports.graph
    /\ index # None => index \in Index /\ index.ids \subseteq index.graph
    /\ lock \in Builders \cup {None}
    /\ \A b \in Builders :
          build[b].pc \in {"idle", "loaded", "summarizing", "embedding", "saving", "indexing"}
    /\ \A q \in Readers : reader[q].pc \in {"new", "retrieving", "storing"}
    /\ due \in [Builders -> BOOLEAN] /\ missed \in BOOLEAN
    /\ others \in 0 .. MaxBuilds /\ crashes \in 0 .. MaxCrashes

(***************************************************************************)
(* What a question finds cached under the current version of the summaries *)
(* was selected from these very summaries, although the key is built       *)
(* before the retrieval and the selection made after it.                   *)
(***************************************************************************)
SummariesOfVersion ==
    Key \in DOMAIN cached =>
        \A p \in cached[Key] :
            /\ reports # None
            /\ p[1] \in reports.graph /\ reports.text[p[1]] = p[2]

(***************************************************************************)
(* A build does not take away the summary of a community that is still in  *)
(* the graph, or is close enough to be reused for one that is, whatever    *)
(* calls of the language model fail.                                       *)
(***************************************************************************)
NoSummaryLost ==
    [][reports # None =>
          \A c \in Written(reports), d \in reports'.graph :
              Similar(d, c) => reports'.text[d] # Blank]_reports

(***************************************************************************)
(* The summaries of a later graph are never replaced by those of an        *)
(* earlier one: the lock makes a build read the graph only after the       *)
(* build before it was saved.                                              *)
(***************************************************************************)
NewerGraphWins ==
    [][reports # None => reports'.at >= reports.at]_reports

(***************************************************************************)
(* When the graph stays as it is, its communities are the ones that are    *)
(* reported in the end, unless its last change had no refresh, or that     *)
(* failed, was killed, or was skipped for a build that had read an earlier *)
(* graph or was dead.                                                      *)
(***************************************************************************)
EventuallyCurrent == <>[](missed \/ (reports # None /\ reports.graph = graph))
=============================================================================
