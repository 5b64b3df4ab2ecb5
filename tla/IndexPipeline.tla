--------------------------- MODULE IndexPipeline ---------------------------
(***************************************************************************)
(* How the LightRAG index follows the files of data/raw: incremental runs  *)
(* (UpdateManager.run_incremental), uploads and updates through the API    *)
(* (ingest_path), deletions through the API (delete_document_by_id), and   *)
(* users who edit files meanwhile.  An action runs from one `await` to the *)
(* next.                                                                   *)
(*                                                                         *)
(* A document is a Markdown file; its path is its doc_id.  Contents are    *)
(* version numbers, None is "no file" or "no entry", and comparing MD5     *)
(* digests is comparing versions.  The index is LightRAG's: adelete removes*)
(* all it holds of a document, ainsert adds to what is there.              *)
(***************************************************************************)
EXTENDS Naturals, FiniteSets

CONSTANTS
    Docs,        \* the files, by path
    NameOf,      \* NameOf[d]: the base name of d, the key of its lock
    Run,         \* the incremental run (one at a time: rag:lock:incremental)
    Api,         \* the workers that execute add_document / update_document
    None,
    Free,
    MaxEdits,    \* bound on what users do: edits, removals, delete requests
    MaxFaults,   \* bound on failures and crashes
    Blanks,      \* the versions that are only white space
    Requests,    \* the API requests that are made, among "add" "update" "delete"
    Faults,      \* what may fail
    OneTask,     \* TRUE: one task worker executes runs and requests in turn
    EditRaces,   \* TRUE: a file may change while the pipeline works on it
    Reverts      \* TRUE: a file may get an earlier content back

Versions == 1..MaxEdits
Workers == {Run} \cup Api
Names == {NameOf[d] : d \in Docs}
FaultKinds == {"insert_raises", "insert_fails", "delete_raises",
               "delete_refused", "crash"}

ASSUME PipelineAssumption ==
    /\ Run \notin Api
    /\ None \notin Docs /\ None \notin Nat
    /\ Free \notin Workers
    /\ NameOf \in [Docs -> {NameOf[d] : d \in Docs}]
    /\ MaxEdits \in Nat /\ MaxFaults \in Nat
    /\ Blanks \subseteq Nat
    /\ Requests \subseteq {"add", "update", "delete"}
    /\ Faults \subseteq FaultKinds
    /\ OneTask \in BOOLEAN /\ EditRaces \in BOOLEAN /\ Reverts \in BOOLEAN

VARIABLES
    file,      \* data/raw: the content of each file
    cache,     \* data/hash_cache.json: the content it vouches for
    full,      \* rag.full_docs: the content LightRAG was last given
    chunks,    \* the contents a query can retrieve for the document
    status,    \* rag.doc_status
    dup,       \* documents that left a DUPLICATE record in doc_status
    row,       \* the document has a row in the SQLite registry
    manifest,  \* the document has an entry in document_manifest.json
    lock,      \* rag:lock:doc:<name>
    pc,        \* where each worker stands
    job,       \* the document a worker has in hand
    report,    \* the ChangeReport of the run
    left,      \* documents of the report the run has not handled yet
    okDocs,    \* ingested_ok of the run
    queue,     \* uploads and updates accepted and not begun
    deleting,  \* DELETE requests between their purge and their cascade
    edits,     \* number of user steps
    faults     \* number of faults

stores == <<cache, full, chunks, status, dup, row, manifest>>
work == <<lock, pc, job, report, left, okDocs, deleting>>
vars == <<file, stores, work, queue, edits, faults>>

Maybe(S) == S \cup {None}
NoJob == [doc |-> None, text |-> None, replace |-> FALSE]
NoReport == [removed |-> {}, modified |-> {}, added |-> {}, unchanged |-> {}]
Ingesting == {"load", "clear", "drop", "insert", "verify"}

StatusValues == {"none", "processing", "processed", "failed"}
Steps == Ingesting \cup {"idle", "repair", "loop"}
Jobs == [doc : Maybe(Docs), text : Maybe(Versions), replace : BOOLEAN]

StoresOK ==
    /\ file \in [Docs -> Maybe(Versions)]
    /\ cache \in [Docs -> Maybe(Versions)]
    /\ full \in [Docs -> Maybe(Versions)]
    /\ chunks \in [Docs -> SUBSET Versions]
    /\ status \in [Docs -> StatusValues]
    /\ dup \in SUBSET Docs
    /\ row \in [Docs -> BOOLEAN]
    /\ manifest \in [Docs -> BOOLEAN]

WorkOK ==
    /\ lock \in [Names -> Workers \cup {Free}]
    /\ pc \in [Workers -> Steps]
    /\ job \in [Workers -> Jobs]
    /\ report \in [removed : SUBSET Docs, modified : SUBSET Docs,
                   added : SUBSET Docs, unchanged : SUBSET Docs]
    /\ left \in SUBSET Docs
    /\ queue \subseteq Docs \X {"add", "update"}
    /\ okDocs \in SUBSET Docs
    /\ deleting \in SUBSET Docs

CountersOK ==
    /\ edits \in 0..MaxEdits
    /\ faults \in 0..MaxFaults

(***************************************************************************)
(* Every variable has its type.                                            *)
(***************************************************************************)
TypeOK == StoresOK /\ WorkOK /\ CountersOK

Init ==
    /\ file = [d \in Docs |-> None]
    /\ cache = [d \in Docs |-> None]
    /\ full = [d \in Docs |-> None]
    /\ chunks = [d \in Docs |-> {}]
    /\ status = [d \in Docs |-> "none"]
    /\ dup = {}
    /\ row = [d \in Docs |-> FALSE]
    /\ manifest = [d \in Docs |-> FALSE]
    /\ lock = [n \in Names |-> Free]
    /\ pc = [w \in Workers |-> "idle"]
    /\ job = [w \in Workers |-> NoJob]
    /\ report = NoReport
    /\ left = {}
    /\ okDocs = {}
    /\ queue = {}
    /\ deleting = {}
    /\ edits = 0
    /\ faults = 0

-----------------------------------------------------------------------------
(* Users *)

Reported == report.removed \cup report.modified \cup report.added

\* The pipeline has d in hand: a worker holds it, or the run has reported it
\* and not yet recorded the outcome, or a DELETE is half done.
InHand(d) ==
    \/ \E w \in Workers : job[w].doc = d
    \/ d \in Reported \cup okDocs \cup deleting

UserMay(d) ==
    /\ edits < MaxEdits
    /\ EditRaces \/ ~InHand(d)
    /\ edits' = edits + 1
    /\ UNCHANGED <<stores, work, faults>>

\* What may be written: something new, or something the file once held.
Writable == IF Reverts THEN 1..(edits + 1) ELSE {edits + 1}

EditFile(d) ==
    /\ UserMay(d)
    /\ \E v \in Writable : v # file[d] /\ file' = [file EXCEPT ![d] = v]
    /\ UNCHANGED queue

RemoveFile(d) ==
    /\ file[d] # None
    /\ UserMay(d)
    /\ file' = [file EXCEPT ![d] = None]
    /\ UNCHANGED queue

\* POST and PUT: the handler writes the file, before any lock is taken, and
\* queues the work; only a registered document can be updated.
Upload(d, request) ==
    /\ request \in Requests
    /\ request = "update" => row[d]
    /\ UserMay(d)
    /\ \E v \in Writable \cup (Versions \cap {file[d]}) :
          file' = [file EXCEPT ![d] = v]
    /\ queue' = queue \cup {<<d, request>>}

-----------------------------------------------------------------------------
(* External: what LightRAG does with a document *)

Forget(d) ==
    /\ full' = [full EXCEPT ![d] = None]
    /\ chunks' = [chunks EXCEPT ![d] = {}]
    /\ status' = [status EXCEPT ![d] = "none"]

Fault(k) ==
    /\ k \in Faults
    /\ faults < MaxFaults
    /\ faults' = faults + 1

\* Seeded fault: only the registry row goes.
CascadeOfRowOnly(d) ==
    /\ row' = [row EXCEPT ![d] = FALSE]
    /\ UNCHANGED <<full, chunks, status, faults>>

\* cascade_delete_document: the outcome of adelete_by_doc_id is not looked
\* at, the registry row goes either way.  (An exception is the caller's.)
CascadeDelete(d) ==
    /\ \/ Forget(d) /\ UNCHANGED faults
       \/ Fault("delete_refused") /\ UNCHANGED <<full, chunks, status>>
    /\ row' = [row EXCEPT ![d] = FALSE]

\* Seeded fault: the artifacts stay.
KeepArtifacts(d) == UNCHANGED manifest

\* purge_document_artifacts: the manifest entry and the files it lists.
PurgeArtifacts(d) == manifest' = [manifest EXCEPT ![d] = FALSE]

\* ainsert: a document is refused as a DUPLICATE when doc_status already
\* knows its base name; otherwise it is recorded, and indexed or FAILED.
SameName(d) == {e \in Docs : NameOf[e] = NameOf[d]}

Insert(d, text) ==
    IF \E e \in SameName(d) : status[e] # "none"
    THEN /\ dup' = dup \cup {d}
         /\ UNCHANGED <<full, chunks, status, faults>>
    ELSE /\ full' = [full EXCEPT ![d] = text]
         /\ UNCHANGED dup
         /\ \/ /\ chunks' = [chunks EXCEPT ![d] = @ \cup ({text} \ Blanks)]
               /\ status' = [status EXCEPT ![d] = "processed"]
               /\ UNCHANGED faults
            \/ /\ Fault("insert_fails")
               /\ status' = [status EXCEPT ![d] = "failed"]
               /\ UNCHANGED chunks

-----------------------------------------------------------------------------
(* The incremental run *)

Goto(w, s) == pc' = [pc EXCEPT ![w] = s]

\* With async_document_processing (the default) runs and requests are tasks of
\* one queue; otherwise, or with the CLI next to the service, they overlap.
MayStart == OneTask => \A w \in Workers : pc[w] = "idle"

\* Seeded fault: every lock is taken for free.
LockIgnored(d) == TRUE

LockFree(d) == lock[NameOf[d]] = Free

\* detect_changes: the files against the hash cache.
StartRun ==
    /\ pc[Run] = "idle"
    /\ MayStart
    /\ report' =
         [removed   |-> {d \in Docs : cache[d] # None /\ file[d] = None},
          modified  |-> {d \in Docs : /\ cache[d] # None /\ file[d] # None
                                      /\ file[d] # cache[d]},
          added     |-> {d \in Docs : cache[d] = None /\ file[d] # None},
          unchanged |-> {d \in Docs : file[d] # None /\ file[d] = cache[d]}]
    /\ Goto(Run, "repair")
    /\ UNCHANGED <<file, stores, lock, job, left, okDocs, deleting, queue, edits, faults>>

\* An unchanged file LightRAG knows nothing about is added again.
RepairUnchanged ==
    /\ pc[Run] = "repair"
    /\ report' = [removed   |-> report.removed,
                  modified  |-> report.modified,
                  added     |-> report.added \cup
                                {d \in report.unchanged : full[d] = None},
                  unchanged |-> {}]
    /\ left' = report'.removed \cup report'.modified \cup report'.added
    /\ Goto(Run, "loop")
    /\ UNCHANGED <<file, stores, lock, job, okDocs, deleting, queue, edits, faults>>

\* The loops over removed, modified and added, in this order.
Upcoming ==
    LET removed == left \cap report.removed
        modified == left \cap report.modified
    IN  IF removed # {} THEN removed ELSE IF modified # {} THEN modified ELSE left

\* Index entry, registry row and manifest entry of a removed file go; when
\* there is no manifest entry, the legacy cleanup deletes the Markdown file
\* itself, should it be there.  No lock is taken.  An exception is counted.
RemoveDoc(d) ==
    /\ pc[Run] = "loop"
    /\ d \in Upcoming \cap report.removed
    /\ left' = left \ {d}
    /\ \/ /\ CascadeDelete(d)
          /\ PurgeArtifacts(d)
          /\ file' = [file EXCEPT ![d] = IF manifest[d] THEN @ ELSE None]
       \/ /\ Fault("delete_raises")
          /\ UNCHANGED <<full, chunks, status, row, manifest, file>>
    /\ UNCHANGED <<cache, dup, lock, pc, job, report, okDocs, deleting, queue, edits>>

\* _ingest_doc_locked: take the lock of the name, or skip the document.
TakeDoc(d) ==
    /\ pc[Run] = "loop"
    /\ d \in Upcoming \ report.removed
    /\ left' = left \ {d}
    /\ IF LockFree(d)
       THEN /\ lock' = [lock EXCEPT ![NameOf[d]] = Run]
            /\ job' = [job EXCEPT ![Run] =
                         [doc |-> d, text |-> None, replace |-> d \in report.modified]]
            /\ Goto(Run, "load")
       ELSE UNCHANGED <<lock, job, pc>>
    /\ UNCHANGED <<file, stores, report, okDocs, deleting, queue, edits, faults>>

\* Seeded fault: the cache vouches for all that was reported.
VouchForReported ==
    [d \in Docs |-> IF d \in Reported /\ file[d] # None THEN file[d]
                    ELSE IF d \in report.removed THEN None ELSE cache[d]]

\* The cache forgets what was removed and vouches, for what was ingested, for
\* the content the file has now.
Vouched ==
    [d \in Docs |-> IF d \in okDocs /\ file[d] # None THEN file[d]
                    ELSE IF d \in report.removed THEN None ELSE cache[d]]

\* The end of the run.
SaveCache ==
    /\ pc[Run] = "loop"
    /\ left = {}
    /\ cache' = Vouched
    /\ report' = NoReport
    /\ okDocs' = {}
    /\ Goto(Run, "idle")
    /\ UNCHANGED <<file, full, chunks, status, dup, row, manifest, lock, job,
                   left, deleting, queue, edits, faults>>

-----------------------------------------------------------------------------
(* One document: _ingest_doc (the run) and ingest_path (the API workers) *)

\* add_document / update_document: the lock, or an error and nothing done.
StartApi(w, d, request) ==
    /\ <<d, request>> \in queue
    /\ pc[w] = "idle"
    /\ MayStart
    /\ queue' = queue \ {<<d, request>>}
    /\ IF LockFree(d)
       THEN /\ lock' = [lock EXCEPT ![NameOf[d]] = w]
            /\ job' = [job EXCEPT ![w] =
                         [doc |-> d, text |-> None, replace |-> request = "update"]]
            /\ Goto(w, "clear")
       ELSE UNCHANGED <<lock, job, pc>>
    /\ UNCHANGED <<file, stores, report, left, okDocs, deleting, edits, faults>>

\* Seeded fault: ingest_path inserts before it has loaded the text.
AfterDropUnloaded(w) == "insert"

\* The order differs: the run loads the text before it drops the old index
\* entry, ingest_path after.
AfterLoad(w) == IF w = Run THEN "clear" ELSE "insert"
AfterDrop(w) == IF w = Run THEN "insert" ELSE "load"

\* Success or failure, the lock is released; the run goes on with its report.
Finish(w) ==
    /\ lock' = [lock EXCEPT ![NameOf[job[w].doc]] = Free]
    /\ job' = [job EXCEPT ![w] = NoJob]
    /\ Goto(w, IF w = Run THEN "loop" ELSE "idle")

\* load_document; the run refuses a blank file.
LoadDoc(w) ==
    /\ pc[w] = "load"
    /\ LET v == file[job[w].doc]
       IN  IF v = None \/ (w = Run /\ v \in Blanks)
           THEN Finish(w)
           ELSE /\ job' = [job EXCEPT ![w] = [doc     |-> job[w].doc,
                                              text    |-> v,
                                              replace |-> job[w].replace]]
                /\ Goto(w, AfterLoad(w))
                /\ UNCHANGED lock
    /\ UNCHANGED <<file, stores, report, left, okDocs, deleting, queue, edits, faults>>

\* Seeded fault: doc_status keeps what it has.
ClearNothing(w) ==
    /\ pc[w] = "clear"
    /\ Goto(w, "drop")
    /\ UNCHANGED <<file, stores, lock, job, report, left, okDocs, deleting,
                   queue, edits, faults>>

\* clear_doc_status_by_basename.
ClearStatus(w) ==
    /\ pc[w] = "clear"
    /\ LET same == SameName(job[w].doc)
       IN  /\ status' = [d \in Docs |-> IF d \in same THEN "none" ELSE status[d]]
           /\ dup' = dup \ same
    /\ Goto(w, "drop")
    /\ UNCHANGED <<file, cache, full, chunks, row, manifest, lock, job, report,
                   left, okDocs, deleting, queue, edits, faults>>

\* Seeded fault: a document that is to be replaced is added to.
DropWhenUnknown(d, replace) == full[d] = None

\* A modified or replaced document is deleted first, and so is one that is
\* not in full_docs; any other is left as it is.
MustDrop(d, replace) == replace \/ full[d] = None

DropOld(w) ==
    /\ pc[w] = "drop"
    /\ LET d == job[w].doc
       IN  IF MustDrop(d, job[w].replace)
           THEN \/ /\ CascadeDelete(d)
                   /\ PurgeArtifacts(d)
                   /\ Goto(w, AfterDrop(w))
                   /\ UNCHANGED <<lock, job>>
                \/ /\ Fault("delete_raises")
                   /\ Finish(w)
                   /\ UNCHANGED <<full, chunks, status, row, manifest>>
           ELSE /\ Goto(w, AfterDrop(w))
                /\ UNCHANGED <<full, chunks, status, row, manifest, lock, job, faults>>
    /\ UNCHANGED <<file, cache, dup, report, left, okDocs, deleting, queue, edits>>

\* ainsert, which may also raise.
InsertDoc(w) ==
    /\ pc[w] = "insert"
    /\ \/ /\ Insert(job[w].doc, job[w].text)
          /\ Goto(w, "verify")
          /\ UNCHANGED <<lock, job>>
       \/ /\ Fault("insert_raises")
          /\ Finish(w)
          /\ UNCHANGED <<full, chunks, status, dup>>
    /\ UNCHANGED <<file, cache, row, manifest, report, left, okDocs, deleting, queue, edits>>

\* Seeded fault: the outcome is not looked at.
IndexedUnchecked(d) == TRUE

\* _is_lightrag_doc_failed, negated.
Indexed(d) == status[d] # "failed"

\* FAILED is an error; otherwise registry and manifest get their entry.  The
\* run remembers the document for SaveCache, ingest_path hashes the file and
\* writes the cache at once.
VerifyDoc(w) ==
    /\ pc[w] = "verify"
    /\ LET d == job[w].doc
       IN  IF ~Indexed(d)
           THEN UNCHANGED <<cache, row, manifest, okDocs>>
           ELSE /\ row' = [row EXCEPT ![d] = TRUE]
                /\ manifest' = [manifest EXCEPT ![d] = TRUE]
                /\ okDocs' = IF w = Run THEN okDocs \cup {d} ELSE okDocs
                /\ cache' = IF w # Run /\ file[d] # None
                            THEN [cache EXCEPT ![d] = file[d]] ELSE cache
    /\ Finish(w)
    /\ UNCHANGED <<file, full, chunks, status, dup, report, left, deleting, queue, edits, faults>>

-----------------------------------------------------------------------------
(* delete_document_by_id: no lock; the manifest goes first, the index later *)

StartDelete(d) ==
    /\ "delete" \in Requests
    /\ d \notin deleting
    /\ edits < MaxEdits
    /\ edits' = edits + 1
    /\ PurgeArtifacts(d)
    /\ deleting' = deleting \cup {d}
    /\ UNCHANGED <<file, cache, full, chunks, status, dup, row, lock, pc, job,
                   report, left, okDocs, queue, faults>>

\* Seeded fault: the source file goes, too.
FinishDeleteWithSource(d) ==
    /\ d \in deleting
    /\ deleting' = deleting \ {d}
    /\ CascadeDelete(d)
    /\ file' = [file EXCEPT ![d] = None]
    /\ UNCHANGED <<cache, dup, manifest, lock, pc, job, report, left, okDocs,
                   queue, edits>>

FinishDelete(d) ==
    /\ d \in deleting
    /\ deleting' = deleting \ {d}
    /\ \/ CascadeDelete(d)
       \/ Fault("delete_raises") /\ UNCHANGED <<full, chunks, status, row>>
    /\ UNCHANGED <<file, cache, dup, manifest, lock, pc, job, report, left,
                   okDocs, queue, edits>>

\* The process is killed.  An insertion under way may have reached LightRAG's
\* stores already; everything in memory is gone.
Crash ==
    /\ deleting # {} \/ queue # {} \/ \E w \in Workers : pc[w] # "idle"
    /\ Fault("crash")
    /\ \E S \in SUBSET {w \in Workers : pc[w] = "insert"} :
          LET begun == {job[w].doc : w \in S}
              given(d) == job[CHOOSE w \in S : job[w].doc = d].text
          IN  /\ full' = [d \in Docs |-> IF d \in begun THEN given(d) ELSE full[d]]
              /\ status' = [d \in Docs |-> IF d \in begun THEN "processing"
                                           ELSE status[d]]
    /\ lock' = [n \in Names |-> Free]
    /\ pc' = [w \in Workers |-> "idle"]
    /\ job' = [w \in Workers |-> NoJob]
    /\ report' = NoReport
    /\ left' = {}
    /\ okDocs' = {}
    /\ deleting' = {}
    /\ queue' = {}
    /\ UNCHANGED <<file, cache, chunks, dup, row, manifest, edits>>

-----------------------------------------------------------------------------

IngestStep(w) ==
    LoadDoc(w) \/ ClearStatus(w) \/ DropOld(w) \/ InsertDoc(w) \/ VerifyDoc(w)

RunStep ==
    \/ StartRun \/ RepairUnchanged \/ SaveCache
    \/ \E d \in Docs : RemoveDoc(d) \/ TakeDoc(d)

UserStep(d) ==
    \/ EditFile(d) \/ RemoveFile(d)
    \/ \E request \in {"add", "update"} : Upload(d, request)

Next ==
    \/ RunStep
    \/ \E w \in Workers : IngestStep(w)
    \/ \E w \in Api, d \in Docs, request \in {"add", "update"} :
          StartApi(w, d, request)
    \/ \E d \in Docs : UserStep(d) \/ StartDelete(d) \/ FinishDelete(d)
    \/ Crash

Spec == Init /\ [][Next]_vars

(***************************************************************************)
(* Fairness: coroutines are scheduled, calls return or raise (LightRAG and *)
(* the stores have timeouts), and somebody keeps asking for incremental    *)
(* runs, from a cron job, the CLI or POST /api/rag/incremental-update; the *)
(* task queue is first in, first out, so such a run gets its turn (SF).    *)
(* Nobody has to upload, edit or delete.                                   *)
(***************************************************************************)
Fairness ==
    /\ SF_vars(StartRun)
    /\ WF_vars(RunStep)
    /\ \A w \in Workers : WF_vars(IngestStep(w))
    /\ \A d \in Docs : WF_vars(FinishDelete(d))

FairSpec == Spec /\ Fairness

-----------------------------------------------------------------------------

Content(d) == file[d] \notin Blanks \cup {None}

(***************************************************************************)
(* What a run treats as done is done: a file at rest whose content equals  *)
(* its hash cache entry, and which full_docs knows, can be retrieved with  *)
(* that content.  No later run would look at such a file again.            *)
(***************************************************************************)
UnchangedIsSearchable ==
    \A d \in Docs :
        ~InHand(d) /\ Content(d) /\ cache[d] = file[d] /\ full[d] # None
        => file[d] \in chunks[d]

(***************************************************************************)
(* Nothing outdated is retrieved for a file at rest that counts as done.   *)
(***************************************************************************)
NothingOutdated ==
    \A d \in Docs :
        ~InHand(d) /\ file[d] # None /\ cache[d] = file[d]
        => chunks[d] \subseteq {file[d]}

(***************************************************************************)
(* What verify_incremental_consistency.py checks, for documents at rest:   *)
(* the registry and the manifest list the same ones, and LightRAG has a    *)
(* text and a doc_status record of each.                                   *)
(***************************************************************************)
RegistryMatchesIndex ==
    \A d \in Docs :
        ~InHand(d) => /\ row[d] = manifest[d]
                      /\ row[d] => full[d] # None /\ status[d] # "none"

(***************************************************************************)
(* Requirement R3: concurrent insertions under one name never produce a    *)
(* DUPLICATE record.                                                       *)
(***************************************************************************)
NoDuplicateInsert == dup = {}

(***************************************************************************)
(* Two workers never have documents of the same base name in hand, and the *)
(* lock of a name is held as long as one has.                              *)
(***************************************************************************)
OneWorkerPerName ==
    \A w \in Workers :
        pc[w] \in Ingesting => lock[NameOf[job[w].doc]] = w

(***************************************************************************)
(* The pipeline never deletes a user's file of data/raw: when one goes,    *)
(* that is all that happens, and a user did it.                            *)
(***************************************************************************)
SourceKept ==
    [][\A d \in Docs :
          file[d] # None /\ file'[d] = None =>
              edits' = edits + 1 /\ UNCHANGED <<stores, work>>]_vars

(***************************************************************************)
(* Failures are retried until the file can be found: no file stays         *)
(* unsearchable for ever.                                                  *)
(***************************************************************************)
EventuallySearchable ==
    \A d \in Docs : []<>(Content(d) => file[d] \in chunks[d])

(***************************************************************************)
(* A removed file does not stay in the index for ever.                     *)
(***************************************************************************)
EventuallyForgotten ==
    \A d \in Docs : []<>(file[d] = None => chunks[d] = {})

=============================================================================
