------------------------ MODULE IndexPipelineProofs ------------------------
(***************************************************************************)
(* What holds of the index pipeline for every set of documents and every   *)
(* number of workers, edits and faults, whatever fails and whenever the    *)
(* process is killed; and, in the second half, what a finished run leaves  *)
(* behind.                                                                 *)
(***************************************************************************)
EXTENDS IndexPipeline, TLAPS

(***************************************************************************)
(* The inductive invariant.  JobOK: a worker that has a document in hand   *)
(* holds the lock of its base name, and has read a text by the time it     *)
(* inserts.  StatusCleared: from clear_doc_status to ainsert doc_status    *)
(* knows nothing of the name, since whoever could add a record needs the   *)
(* same lock.                                                              *)
(***************************************************************************)
HasText(w) == pc[w] = "insert" \/ (w = Run /\ pc[w] \in {"clear", "drop"})

JobOK ==
    \A w \in Workers :
        /\ pc[w] \in Ingesting =>
             job[w].doc \in Docs /\ lock[NameOf[job[w].doc]] = w
        /\ HasText(w) => job[w].text \in Versions

Cleared(w) == pc[w] \in {"drop", "insert"} \/ (w # Run /\ pc[w] = "load")

StatusCleared ==
    \A w \in Workers :
        Cleared(w) => \A e \in SameName(job[w].doc) : status[e] = "none"

IInv == TypeOK /\ JobOK /\ StatusCleared /\ NoDuplicateInsert

(***************************************************************************)
(* As long as users leave documents in hand alone, the files a run has     *)
(* reported as removed stay absent.                                        *)
(***************************************************************************)
ReportFresh ==
    ~EditRaces => \A d \in report.removed : file[d] = None

-----------------------------------------------------------------------------
(* Types *)

\* The bounds are numbers.
LEMMA Bounds == MaxEdits \in Nat /\ MaxFaults \in Nat
BY PipelineAssumption

\* The base name of a document is a lock key.
LEMMA NameType == \A d \in Docs : NameOf[d] \in Names
BY DEF Names

\* A fault keeps the counters within their bounds.
LEMMA FaultType == 
  ASSUME NEW k, Fault(k), CountersOK, UNCHANGED edits
  PROVE CountersOK'
BY Bounds DEF Fault, CountersOK

\* Editing or removing a file keeps the types.
LEMMA UserType ==
  ASSUME TypeOK, NEW d \in Docs, UserStep(d)
  PROVE  TypeOK'
<1>1. edits < MaxEdits /\ edits' = edits + 1 /\ UNCHANGED <<stores, work, faults>>
  BY DEF UserStep, EditFile, RemoveFile, Upload, UserMay
<1>2. CountersOK'
  BY <1>1, Bounds DEF TypeOK, CountersOK
<1>3. WorkOK'
  <2>1. UNCHANGED <<lock, pc, job, report, left, okDocs, deleting>>
    BY <1>1 DEF work
  <2>2. queue' \subseteq Docs \X {"add", "update"}
    BY DEF UserStep, EditFile, RemoveFile, Upload, TypeOK, WorkOK
  <2>3. QED  BY <2>1, <2>2 DEF TypeOK, WorkOK
<1>4. Writable \subseteq Versions
  BY <1>1, Bounds DEF Writable, TypeOK, CountersOK, Versions
<1>5. PICK v \in Maybe(Versions) : file' = [file EXCEPT ![d] = v]
  BY <1>4 DEF UserStep, EditFile, RemoveFile, Upload, Maybe
<1>6. StoresOK'
  BY <1>1, <1>5 DEF TypeOK, StoresOK, stores
<1>7. QED  BY <1>2, <1>3, <1>6 DEF TypeOK

\* cascade_delete_document keeps the types of what it writes.
LEMMA CascadeType ==
  ASSUME StoresOK, CountersOK, NEW d \in Docs, CascadeDelete(d), UNCHANGED edits
  PROVE  /\ full' \in [Docs -> Maybe(Versions)]
         /\ chunks' \in [Docs -> SUBSET Versions]
         /\ status' \in [Docs -> StatusValues]
         /\ row' \in [Docs -> BOOLEAN]
         /\ CountersOK'
<1>1. /\ full' \in [Docs -> Maybe(Versions)]
      /\ chunks' \in [Docs -> SUBSET Versions]
      /\ status' \in [Docs -> StatusValues]
  BY DEF CascadeDelete, Forget, StoresOK, Maybe, StatusValues
<1>2. row' \in [Docs -> BOOLEAN]
  BY DEF CascadeDelete, StoresOK
<1>3. CountersOK'
  BY FaultType DEF CascadeDelete, CountersOK
<1>4. QED  BY <1>1, <1>2, <1>3

\* The steps of a run that concern no single document keep the types.
LEMMA RunType ==
  ASSUME TypeOK, StartRun \/ RepairUnchanged \/ SaveCache
  PROVE  TypeOK'
<1>0. Run \in Workers
  BY DEF Workers
<1>1. CASE StartRun
  BY <1>0, <1>1 DEF StartRun, TypeOK, StoresOK, WorkOK, CountersOK, Goto, Steps, stores
<1>2. CASE RepairUnchanged
  BY <1>0, <1>2 DEF RepairUnchanged, TypeOK, StoresOK, WorkOK, CountersOK, Goto, Steps, stores
<1>3. CASE SaveCache
  <2>1. StoresOK'
     BY <1>3 DEF SaveCache, Vouched, TypeOK, StoresOK, Maybe
  <2>2. WorkOK' /\ CountersOK'
     BY <1>0, <1>3 DEF SaveCache, Vouched, TypeOK, WorkOK, CountersOK, Goto, Steps, NoReport
  <2>3. QED BY <2>1, <2>2 DEF TypeOK
<1>4. QED  BY <1>1, <1>2, <1>3

\* Removing a document and taking the lock of one keep the types.
LEMMA RunDocType ==
  ASSUME TypeOK, NEW d \in Docs, RemoveDoc(d) \/ TakeDoc(d)
  PROVE  TypeOK'
<1>0. Run \in Workers
  BY DEF Workers
<1>1. CASE RemoveDoc(d)
  <2>1. WorkOK'
    BY <1>1 DEF RemoveDoc, TypeOK, WorkOK
  <2>2. CASE CascadeDelete(d) /\ manifest' = [manifest EXCEPT ![d] = FALSE]
             /\ file' = [file EXCEPT ![d] = IF manifest[d] THEN @ ELSE None]
    <3>1. file' \in [Docs -> Maybe(Versions)] /\ manifest' \in [Docs -> BOOLEAN]
      BY <2>2 DEF TypeOK, StoresOK, Maybe
    <3>2. UNCHANGED <<cache, dup, edits>>
      BY <1>1 DEF RemoveDoc
    <3>3. QED BY <2>1, <2>2, <3>1, <3>2, CascadeType DEF TypeOK, StoresOK
  <2>3. CASE Fault("delete_raises") /\ UNCHANGED <<full, chunks, status, row, manifest, file>>
    <3>1. UNCHANGED <<cache, dup, edits>>
      BY <1>1 DEF RemoveDoc
    <3>2. QED BY <2>1, <2>3, <3>1, FaultType DEF TypeOK, StoresOK
  <2>4. QED BY <1>1, <2>2, <2>3 DEF RemoveDoc, PurgeArtifacts
<1>2. CASE TakeDoc(d)
  <2>0. lock \in [Names -> Workers \cup {Free}] /\ NameOf[d] \in Names
    BY NameType DEF TypeOK, WorkOK
  <2>1. lock' \in [Names -> Workers \cup {Free}]
    BY <1>0, <1>2, <2>0 DEF TakeDoc
  <2>2. job' \in [Workers -> Jobs]
    <3> DEFINE J == [doc |-> d, text |-> None, replace |-> d \in report.modified]
    <3>1. (d \in report.modified) \in BOOLEAN
      OBVIOUS
    <3>2. J \in Jobs
      BY <3>1 DEF Jobs, Maybe
    <3>3. UNCHANGED job \/ job' = [job EXCEPT ![Run] = J]
      BY <1>2 DEF TakeDoc
    <3> HIDE DEF J
    <3>4. QED  BY <1>0, <3>2, <3>3 DEF TypeOK, WorkOK
  <2>3. pc' \in [Workers -> Steps]
    BY <1>0, <1>2 DEF TakeDoc, TypeOK, WorkOK, Goto, Steps, Ingesting
  <2>4. QED BY <1>2, <2>1, <2>2, <2>3 DEF TakeDoc, TypeOK, StoresOK, WorkOK, CountersOK, stores
<1>3. QED  BY <1>1, <1>2

\* Moving a worker on keeps the type of pc.
LEMMA GotoType ==
  ASSUME WorkOK, NEW w \in Workers, NEW s \in Steps, Goto(w, s)
  PROVE  pc' \in [Workers -> Steps]
BY DEF WorkOK, Goto

\* Releasing the lock and putting the job down keeps their types.
LEMMA FinishType ==
  ASSUME WorkOK, NEW w \in Workers, job[w].doc \in Docs, Finish(w)
  PROVE  /\ lock' \in [Names -> Workers \cup {Free}]
         /\ job' \in [Workers -> Jobs]
         /\ pc' \in [Workers -> Steps]
<1>1. lock' \in [Names -> Workers \cup {Free}]
  BY NameType DEF Finish, WorkOK
<1>2. NoJob \in Jobs
  BY DEF NoJob, Jobs, Maybe
<1>3. job' \in [Workers -> Jobs]
  BY <1>2 DEF Finish, WorkOK
<1>4. pc' \in [Workers -> Steps]
  BY GotoType DEF Finish, Steps
<1>5. QED  BY <1>1, <1>3, <1>4

\* ainsert keeps the types of what it writes.
LEMMA InsertType ==
  ASSUME StoresOK, CountersOK, UNCHANGED edits,
         NEW d \in Docs, NEW text \in Versions, Insert(d, text)
  PROVE  /\ full' \in [Docs -> Maybe(Versions)]
         /\ chunks' \in [Docs -> SUBSET Versions]
         /\ status' \in [Docs -> StatusValues]
         /\ dup' \in SUBSET Docs
         /\ CountersOK'
<1>1. CountersOK'
  BY FaultType DEF Insert, CountersOK
<1>2. full' \in [Docs -> Maybe(Versions)] /\ dup' \in SUBSET Docs
  BY DEF Insert, StoresOK, Maybe
<1>3. chunks' \in [Docs -> SUBSET Versions]
  BY DEF Insert, StoresOK
<1>4. status' \in [Docs -> StatusValues]
  BY DEF Insert, StoresOK, StatusValues
<1>5. QED  BY <1>1, <1>2, <1>3, <1>4

\* Every step of _ingest_doc and ingest_path keeps the types.
LEMMA IngestType ==
  ASSUME TypeOK, JobOK, NEW w \in Workers, IngestStep(w)
  PROVE  TypeOK'
<1> DEFINE d == job[w].doc
<1>0. /\ WorkOK /\ StoresOK /\ CountersOK
      /\ pc[w] \in Ingesting => d \in Docs
      /\ HasText(w) => job[w].text \in Versions
  BY DEF TypeOK, JobOK
<1>1. CASE LoadDoc(w)
  <2>1. d \in Docs
    BY <1>0, <1>1 DEF LoadDoc, Ingesting
  <2>2. StoresOK' /\ CountersOK'
    BY <1>0, <1>1 DEF LoadDoc, stores, StoresOK, CountersOK
  <2>3. UNCHANGED <<report, left, okDocs, deleting, queue>>
    BY <1>1 DEF LoadDoc
  <2>4. CASE Finish(w)
    BY <1>0, <2>1, <2>2, <2>3, <2>4, FinishType DEF TypeOK, WorkOK
  <2>5. CASE /\ job' = [job EXCEPT ![w] = [doc |-> d, text |-> file[d], 
                                            replace |-> job[w].replace]]
             /\ Goto(w, AfterLoad(w))
             /\ UNCHANGED lock
    <3>1. pc' \in [Workers -> Steps]
      BY <1>0, <2>5, GotoType DEF AfterLoad, Steps, Ingesting
    <3>2. [doc |-> d, text |-> file[d], replace |-> job[w].replace] \in Jobs
      BY <1>0, <2>1 DEF StoresOK, WorkOK, Jobs, Maybe
    <3>3. job' \in [Workers -> Jobs]
      BY <1>0, <2>5, <3>2 DEF WorkOK
    <3>4. QED  BY <1>0, <2>2, <2>3, <2>5, <3>1, <3>3 DEF TypeOK, WorkOK
  <2>6. QED  BY <1>1, <2>4, <2>5 DEF LoadDoc
<1>2. CASE ClearStatus(w)
  <2>1. d \in Docs
    BY <1>0, <1>2 DEF ClearStatus, Ingesting
  <2>2. StoresOK' /\ CountersOK'
    BY <1>0, <1>2 DEF ClearStatus, StoresOK, CountersOK, StatusValues
  <2>3. pc' \in [Workers -> Steps]
    BY <1>0, <1>2, GotoType DEF ClearStatus, Steps, Ingesting
  <2>4. QED  BY <1>0, <1>2, <2>2, <2>3 DEF ClearStatus, TypeOK, WorkOK
<1>3. CASE DropOld(w)
  <2>1. d \in Docs
    BY <1>0, <1>3 DEF DropOld, Ingesting
  <2>2. UNCHANGED <<file, cache, dup, report, left, okDocs, deleting, queue, edits>>
    BY <1>3 DEF DropOld
  <2>3. ASSUME Goto(w, AfterDrop(w)), UNCHANGED <<lock, job>>
        PROVE  WorkOK'
    <3>1. pc' \in [Workers -> Steps]
      BY <1>0, <2>3, GotoType DEF AfterDrop, Steps, Ingesting
    <3>2. QED  BY <1>0, <2>2, <2>3, <3>1 DEF WorkOK
  <2>4. CASE /\ CascadeDelete(d)
             /\ manifest' = [manifest EXCEPT ![d] = FALSE]
             /\ Goto(w, AfterDrop(w))
             /\ UNCHANGED <<lock, job>>
    <3>1. manifest' \in [Docs -> BOOLEAN]
      BY <1>0, <2>4 DEF StoresOK
    <3>2. StoresOK' /\ CountersOK'
      BY <1>0, <2>1, <2>2, <2>4, <3>1, CascadeType DEF StoresOK
    <3>3. QED  BY <2>3, <2>4, <3>2 DEF TypeOK
  <2>5. CASE /\ Fault("delete_raises")
             /\ Finish(w)
             /\ UNCHANGED <<full, chunks, status, row, manifest>>
    <3>1. StoresOK' /\ CountersOK'
      BY <1>0, <2>2, <2>5, FaultType DEF StoresOK
    <3>2. WorkOK'
      BY <1>0, <2>1, <2>2, <2>5, FinishType DEF WorkOK
    <3>3. QED  BY <3>1, <3>2 DEF TypeOK
  <2>6. CASE /\ Goto(w, AfterDrop(w))
             /\ UNCHANGED <<full, chunks, status, row, manifest, lock, job, faults>>
    <3>1. StoresOK' /\ CountersOK'
      BY <1>0, <2>2, <2>6 DEF StoresOK, CountersOK
    <3>2. QED  BY <2>3, <2>6, <3>1 DEF TypeOK
  <2>7. QED  BY <1>3, <2>4, <2>5, <2>6 DEF DropOld, PurgeArtifacts
<1>4. CASE InsertDoc(w)
  <2>1. d \in Docs /\ job[w].text \in Versions
    BY <1>0, <1>4 DEF InsertDoc, Ingesting, HasText
  <2>2. UNCHANGED <<file, cache, row, manifest, report, left, okDocs, deleting, queue,
                   edits>>
    BY <1>4 DEF InsertDoc
  <2>3. CASE Insert(d, job[w].text) /\ Goto(w, "verify") /\ UNCHANGED <<lock, job>>
    <3>1. StoresOK' /\ CountersOK'
      BY <1>0, <2>1, <2>2, <2>3, InsertType DEF StoresOK
    <3>2. pc' \in [Workers -> Steps]
      BY <1>0, <2>3, GotoType DEF Steps, Ingesting
    <3>3. QED  BY <1>0, <2>2, <2>3, <3>1, <3>2 DEF TypeOK, WorkOK
  <2>4. CASE /\ Fault("insert_raises")
             /\ Finish(w)
             /\ UNCHANGED <<full, chunks, status, dup>>
    <3>1. StoresOK' /\ CountersOK'
      BY <1>0, <2>2, <2>4, FaultType DEF StoresOK
    <3>2. WorkOK'
      BY <1>0, <2>1, <2>2, <2>4, FinishType DEF WorkOK
    <3>3. QED  BY <3>1, <3>2 DEF TypeOK
  <2>5. QED  BY <1>4, <2>3, <2>4 DEF InsertDoc
<1>5. CASE VerifyDoc(w)
  <2>1. d \in Docs /\ Finish(w)
    BY <1>0, <1>5 DEF VerifyDoc, Ingesting
  <2>2. UNCHANGED <<file, full, chunks, status, dup, report, left, deleting, queue,
                   edits, faults>>
    BY <1>5 DEF VerifyDoc
  <2>3. cache' \in [Docs -> Maybe(Versions)] /\ okDocs' \in SUBSET Docs
    BY <1>0, <1>5, <2>1 DEF VerifyDoc, StoresOK, WorkOK, Maybe
  <2>4. row' \in [Docs -> BOOLEAN] /\ manifest' \in [Docs -> BOOLEAN]
    BY <1>0, <1>5 DEF VerifyDoc, StoresOK
  <2>5. StoresOK' /\ CountersOK'
    BY <1>0, <2>2, <2>3, <2>4 DEF StoresOK, CountersOK
  <2>6. WorkOK'
    BY <1>0, <2>1, <2>2, <2>3, FinishType DEF WorkOK
  <2>7. QED  BY <2>5, <2>6 DEF TypeOK
<1>6. QED  BY <1>1, <1>2, <1>3, <1>4, <1>5 DEF IngestStep

\* Accepting an upload or an update keeps the types.
LEMMA StartApiType ==
  ASSUME TypeOK, NEW w \in Api, NEW d \in Docs, NEW r \in {"add", "update"},
         StartApi(w, d, r)
  PROVE  TypeOK'
<1>0. w \in Workers
  BY DEF Workers
<1>1. UNCHANGED <<file, stores, report, left, okDocs, deleting, edits, faults>>
  BY DEF StartApi
<1>2. StoresOK' /\ CountersOK'
  BY <1>1 DEF stores, TypeOK, StoresOK, CountersOK
<1>3. lock' \in [Names -> Workers \cup {Free}]
  BY <1>0, NameType DEF StartApi, TypeOK, WorkOK
<1>4. (r = "update") \in BOOLEAN
  OBVIOUS
<1>5. [doc |-> d, text |-> None, replace |-> r = "update"] \in Jobs
  BY <1>4 DEF Jobs, Maybe
<1>6. job' \in [Workers -> Jobs]
  BY <1>0, <1>5 DEF StartApi, TypeOK, WorkOK
<1>7. pc' \in [Workers -> Steps]
  BY <1>0 DEF StartApi, TypeOK, WorkOK, Goto, Steps, Ingesting
<1>8. queue' \subseteq Docs \X {"add", "update"}
  BY DEF StartApi, TypeOK, WorkOK
<1>9. QED  BY <1>1, <1>2, <1>3, <1>6, <1>7, <1>8 DEF TypeOK, WorkOK

\* Both halves of delete_document_by_id keep the types.
LEMMA DeleteType ==
  ASSUME TypeOK, NEW d \in Docs, StartDelete(d) \/ FinishDelete(d)
  PROVE  TypeOK'
<1>1. CASE StartDelete(d)
  <2>1. CountersOK'
    BY <1>1, Bounds DEF StartDelete, TypeOK, CountersOK
  <2>2. WorkOK'
    BY <1>1 DEF StartDelete, TypeOK, WorkOK
  <2>3. StoresOK'
    BY <1>1 DEF StartDelete, TypeOK, StoresOK, PurgeArtifacts
  <2>4. QED  BY <2>1, <2>2, <2>3 DEF TypeOK
<1>2. CASE FinishDelete(d)
  <2>1. UNCHANGED <<file, cache, dup, manifest, edits>>
    BY <1>2 DEF FinishDelete
  <2>2. WorkOK'
    BY <1>2 DEF FinishDelete, TypeOK, WorkOK
  <2>3. CASE CascadeDelete(d)
    BY <2>1, <2>2, <2>3, CascadeType DEF TypeOK, StoresOK
  <2>4. CASE Fault("delete_raises") /\ UNCHANGED <<full, chunks, status, row>>
    BY <2>1, <2>2, <2>4, FaultType DEF TypeOK, StoresOK
  <2>5. QED  BY <1>2, <2>3, <2>4 DEF FinishDelete
<1>3. QED  BY <1>1, <1>2

\* A crash keeps the types.
LEMMA CrashType ==
  ASSUME TypeOK, JobOK, Crash
  PROVE  TypeOK'
<1>1. UNCHANGED <<file, cache, chunks, dup, row, manifest, edits>>
  BY DEF Crash
<1>2. CountersOK'
  BY <1>1, FaultType DEF Crash, TypeOK
<1>3. WorkOK'
  <2>1. NoJob \in Jobs /\ "idle" \in Steps
    BY DEF NoJob, Jobs, Maybe, Steps
  <2>2. QED  BY <2>1 DEF Crash, WorkOK, NoReport
<1>4. status' \in [Docs -> StatusValues]
  BY DEF Crash, TypeOK, StoresOK, StatusValues
<1>5. full' \in [Docs -> Maybe(Versions)]
  BY DEF Crash, TypeOK, StoresOK, JobOK, HasText, Maybe
<1>6. QED  BY <1>1, <1>2, <1>3, <1>4, <1>5 DEF TypeOK, StoresOK

-----------------------------------------------------------------------------
(* The lock of a name *)

\* JobOK depends on lock, pc and job only.
LEMMA LockKept ==
  ASSUME JobOK, UNCHANGED <<lock, pc, job>>
  PROVE  JobOK'
BY DEF JobOK, HasText

\* The steps of a run that concern no single document touch no lock.
LEMMA LockKeptByRun ==
  ASSUME JobOK, WorkOK, StartRun \/ RepairUnchanged \/ SaveCache
  PROVE  JobOK'
BY DEF JobOK, HasText, StartRun, RepairUnchanged, SaveCache, WorkOK, Goto, Ingesting, Workers

\* Free is not the name of a worker.
LEMMA FreeIsNoWorker == Free \notin Workers
BY PipelineAssumption

\* Taking a free lock takes it from nobody.
LEMMA LockTaken ==
  ASSUME JobOK, WorkOK, NEW w \in Workers, NEW d \in Docs,
         NEW s \in {"load", "clear"}, s = "clear" => w # Run,
         lock[NameOf[d]] = Free,
         lock' = [lock EXCEPT ![NameOf[d]] = w], Goto(w, s),
         NEW j, j.doc = d, job' = [job EXCEPT ![w] = j]
  PROVE  JobOK'
BY FreeIsNoWorker, NameType DEF JobOK, HasText, WorkOK, Goto, Ingesting

\* A worker that finishes releases its own lock only.
LEMMA LockReleased ==
  ASSUME JobOK, WorkOK, NEW w \in Workers, pc[w] \in Ingesting, Finish(w)
  PROVE  JobOK'
<1> SUFFICES ASSUME NEW v \in Workers
             PROVE /\ pc'[v] \in Ingesting =>
                        job'[v].doc \in Docs /\ lock'[NameOf[job'[v].doc]] = v
                   /\ (pc'[v] = "insert" \/ (v = Run /\ pc'[v] \in {"clear", "drop"})) => job'[v].text \in Versions
  BY DEF JobOK, HasText
<1>1. CASE v = w
  BY <1>1 DEF Finish, Goto, Ingesting, WorkOK
<1>2. CASE v # w
  BY <1>2, NameType DEF Finish, Goto, Ingesting, WorkOK, JobOK, HasText
<1>3. QED  BY <1>1, <1>2

\* A worker that moves on with its document still holds the lock.
LEMMA LockHeldOn ==
  ASSUME JobOK, WorkOK, NEW w \in Workers, pc[w] \in Ingesting,
         NEW s, Goto(w, s), UNCHANGED <<lock, job>>,
         (s = "insert" \/ (w = Run /\ s \in {"clear", "drop"})) => HasText(w)
  PROVE  JobOK'
BY DEF JobOK, HasText, Goto, WorkOK

\* Every step of _ingest_doc and ingest_path keeps JobOK.
LEMMA IngestLock ==
  ASSUME TypeOK, JobOK, NEW w \in Workers, IngestStep(w)
  PROVE  JobOK'
<1>0. WorkOK
  BY DEF TypeOK
<1>1. CASE LoadDoc(w)
  <2>1. CASE Finish(w)
    BY <1>0, <1>1, <2>1, LockReleased DEF LoadDoc, Ingesting
  <2>2. CASE /\ file[job[w].doc] # None
             /\ job' = [job EXCEPT ![w] = [doc     |-> job[w].doc,
                                           text    |-> file[job[w].doc],
                                           replace |-> job[w].replace]]
             /\ Goto(w, AfterLoad(w))
             /\ UNCHANGED lock
    <3>1. job[w].doc \in Docs
      BY <1>1 DEF LoadDoc, JobOK, Ingesting
    <3>2. file[job[w].doc] \in Versions
      BY <2>2, <3>1 DEF TypeOK, StoresOK, Maybe
    <3>3. pc[w] = "load"
      BY <1>1 DEF LoadDoc
    <3> DEFINE j == [doc |-> job[w].doc, text |-> file[job[w].doc], replace |-> job[w].replace]
    <3>4. j.doc = job[w].doc /\ j.text \in Versions /\ job' = [job EXCEPT ![w] = j]
      BY <2>2, <3>2
    <3> HIDE DEF j
    <3>5. QED  BY <1>0, <2>2, <3>3, <3>4 DEF JobOK, HasText, WorkOK, Goto, Ingesting
  <2>3. QED  BY <1>1, <2>1, <2>2 DEF LoadDoc
<1>2. CASE ClearStatus(w)
  <2>1. pc[w] = "clear" /\ Goto(w, "drop") /\ UNCHANGED <<lock, job>>
    BY <1>2 DEF ClearStatus
  <2>2. QED  BY <1>0, <2>1, LockHeldOn DEF HasText, Ingesting
<1>3. CASE DropOld(w)
  <2>1. pc[w] = "drop"
    BY <1>3 DEF DropOld
  <2>2. CASE Finish(w)
    BY <1>0, <2>1, <2>2, LockReleased DEF Ingesting
  <2>3. CASE Goto(w, AfterDrop(w)) /\ UNCHANGED <<lock, job>>
    BY <1>0, <2>1, <2>3, LockHeldOn DEF AfterDrop, HasText, Ingesting
  <2>4. QED  BY <1>3, <2>2, <2>3 DEF DropOld
<1>4. CASE InsertDoc(w)
  <2>1. pc[w] = "insert"
    BY <1>4 DEF InsertDoc
  <2>2. CASE Finish(w)
    BY <1>0, <2>1, <2>2, LockReleased DEF Ingesting
  <2>3. CASE Goto(w, "verify") /\ UNCHANGED <<lock, job>>
    BY <1>0, <2>1, <2>3, LockHeldOn DEF Ingesting
  <2>4. QED  BY <1>4, <2>2, <2>3 DEF InsertDoc
<1>5. CASE VerifyDoc(w)
  BY <1>0, <1>5, LockReleased DEF VerifyDoc, Ingesting
<1>6. QED  BY <1>1, <1>2, <1>3, <1>4, <1>5 DEF IngestStep

-----------------------------------------------------------------------------
(* doc_status from clear_doc_status to ainsert *)

\* A worker past clear_doc_status has a document in hand.
LEMMA ClearedIngests == ASSUME NEW w, Cleared(w) PROVE pc[w] \in Ingesting
BY DEF Cleared, Ingesting

\* Workers with different locks work on different base names.
LEMMA OthersUndisturbed ==
  ASSUME JobOK, NEW w \in Workers, pc[w] \in Ingesting,
         NEW v \in Workers, v # w, Cleared(v)
  PROVE  SameName(job[v].doc) \cap SameName(job[w].doc) = {}
BY ClearedIngests DEF JobOK, SameName

\* Forgetting and clearing status records never hurts StatusCleared.
LEMMA ClearedKept ==
  ASSUME StatusCleared,
         \A w \in Workers : Cleared(w)' => Cleared(w) /\ job'[w].doc = job[w].doc,
         \A e \in Docs : status[e] = "none" => status'[e] = "none"
  PROVE  StatusCleared'
BY DEF StatusCleared, SameName

\* cascade_delete_document adds no status record.
LEMMA CascadeClears ==
  ASSUME StoresOK, NEW d \in Docs, CascadeDelete(d)
  PROVE  \A e \in Docs : status[e] = "none" => status'[e] = "none"
BY DEF CascadeDelete, Forget, StoresOK

\* Users, DELETE requests and removals keep StatusCleared.
LEMMA ClearedOutside ==
  ASSUME IInv, NEW d \in Docs,
         UserStep(d) \/ StartDelete(d) \/ FinishDelete(d) \/ RemoveDoc(d)
  PROVE  StatusCleared'
<1>1. UNCHANGED <<pc, job>>
  BY DEF UserStep, EditFile, RemoveFile, Upload, UserMay, work, StartDelete,
         FinishDelete, RemoveDoc
<1>2. CascadeDelete(d) \/ UNCHANGED status
  BY DEF UserStep, EditFile, RemoveFile, Upload, UserMay, stores, StartDelete,
         FinishDelete, RemoveDoc
<1>3. \A e \in Docs : status[e] = "none" => status'[e] = "none"
  BY <1>2, CascadeClears DEF IInv, TypeOK
<1>4. QED  BY <1>1, <1>3, ClearedKept DEF IInv, Cleared

\* The other steps of a run keep StatusCleared.
LEMMA ClearedByRun ==
  ASSUME IInv, StartRun \/ RepairUnchanged \/ SaveCache
  PROVE  StatusCleared'
<1>1. UNCHANGED <<job, status>>
  BY DEF StartRun, RepairUnchanged, SaveCache, stores
<1>2. \A w \in Workers : Cleared(w)' => Cleared(w)
  BY DEF StartRun, RepairUnchanged, SaveCache, Goto, Cleared, IInv, TypeOK, WorkOK
<1>3. QED  BY <1>1, <1>2, ClearedKept DEF IInv

\* Taking a document keeps StatusCleared.
LEMMA ClearedByTake ==
  ASSUME IInv, NEW d \in Docs, TakeDoc(d)
  PROVE  StatusCleared'
<1>1. UNCHANGED status
  BY DEF TakeDoc, stores
<1>2. \A w \in Workers : Cleared(w)' => Cleared(w) /\ job'[w].doc = job[w].doc
  BY DEF TakeDoc, Goto, Cleared, IInv, TypeOK, WorkOK
<1>3. QED  BY <1>1, <1>2, ClearedKept DEF IInv

\* Accepting a request keeps StatusCleared.
LEMMA ClearedByApi ==
  ASSUME IInv, NEW w \in Api, NEW d \in Docs, NEW r \in {"add", "update"},
         StartApi(w, d, r)
  PROVE  StatusCleared'
<1>1. UNCHANGED status
  BY DEF StartApi, stores
<1>2. \A v \in Workers : Cleared(v)' => Cleared(v) /\ job'[v].doc = job[v].doc
  BY DEF StartApi, Goto, Cleared, IInv, TypeOK, WorkOK, Workers
<1>3. QED  BY <1>1, <1>2, ClearedKept DEF IInv

\* Finishing leaves the other workers where they are.
LEMMA FinishClears ==
  ASSUME WorkOK, NEW w \in Workers, Finish(w)
  PROVE  \A v \in Workers : Cleared(v)' => v # w /\ Cleared(v) /\ job'[v].doc = job[v].doc
BY DEF WorkOK, Finish, Goto, Cleared

\* ainsert never meets a status record of the same base name.
LEMMA InsertIsNew ==
  ASSUME IInv, NEW w \in Workers, InsertDoc(w)
  PROVE  NoDuplicateInsert'
<1>1. Cleared(w) /\ job[w].doc \in Docs
  BY DEF InsertDoc, Cleared, IInv, JobOK, Ingesting
<1>2. \A e \in SameName(job[w].doc) : status[e] = "none"
  BY <1>1 DEF IInv, StatusCleared
<1>3. QED  BY <1>2 DEF InsertDoc, Insert, IInv, NoDuplicateInsert

\* Every step of _ingest_doc and ingest_path keeps StatusCleared.
LEMMA ClearedByIngest ==
  ASSUME IInv, NEW w \in Workers, IngestStep(w)
  PROVE  StatusCleared'
<1> DEFINE d == job[w].doc
<1>0. /\ StoresOK /\ WorkOK /\ JobOK /\ StatusCleared
      /\ pc[w] \in Ingesting => d \in Docs
  BY DEF IInv, TypeOK, JobOK
<1>1. CASE LoadDoc(w)
  <2>1. UNCHANGED status /\ pc[w] = "load"
    BY <1>1 DEF LoadDoc, stores
  <2>2. CASE Finish(w)
    BY <1>0, <2>1, <2>2, FinishClears, ClearedKept
  <2>3. CASE /\ job' = [job EXCEPT ![w] = [doc     |-> d,
                                           text    |-> file[d],
                                           replace |-> job[w].replace]]
             /\ Goto(w, AfterLoad(w))
    <3>1. \A v \in Workers : Cleared(v)' => Cleared(v) /\ job'[v].doc = job[v].doc
      BY <1>0, <2>1, <2>3 DEF Goto, AfterLoad, Cleared, WorkOK
    <3>2. QED  BY <1>0, <2>1, <3>1, ClearedKept
  <2>4. QED  BY <1>1, <2>2, <2>3 DEF LoadDoc
<1>2. CASE ClearStatus(w)
  <2>1. \A e \in Docs : status[e] = "none" => status'[e] = "none"
    BY <1>2 DEF ClearStatus
  <2>2. \A e \in SameName(d) : status'[e] = "none"
    BY <1>2 DEF ClearStatus, SameName
  <2>3. UNCHANGED job /\ Goto(w, "drop")
    BY <1>2 DEF ClearStatus
  <2>4. \A v \in Workers : v # w /\ Cleared(v)' => Cleared(v)
    BY <1>0, <2>3 DEF Goto, Cleared, WorkOK
  <2>5. QED  BY <1>0, <2>1, <2>2, <2>3, <2>4 DEF StatusCleared, SameName
<1>3. CASE DropOld(w)
  <2>1. pc[w] = "drop" /\ d \in Docs
    BY <1>0, <1>3 DEF DropOld, Ingesting
  <2>2. CascadeDelete(d) \/ UNCHANGED status
    BY <1>3 DEF DropOld
  <2>3. \A e \in Docs : status[e] = "none" => status'[e] = "none"
    BY <1>0, <2>1, <2>2, CascadeClears
  <2>4. CASE Finish(w)
    BY <1>0, <2>3, <2>4, FinishClears, ClearedKept
  <2>5. CASE Goto(w, AfterDrop(w)) /\ UNCHANGED job
    <3>1. \A v \in Workers : Cleared(v)' => Cleared(v)
      BY <1>0, <2>1, <2>5 DEF Goto, AfterDrop, Cleared, WorkOK
    <3>2. QED  BY <1>0, <2>3, <2>5, <3>1, ClearedKept
  <2>6. QED  BY <1>3, <2>4, <2>5 DEF DropOld
<1>4. CASE InsertDoc(w)
  <2>1. pc[w] \in Ingesting /\ d \in Docs
    BY <1>0, <1>4 DEF InsertDoc, Ingesting
  <2>2. CASE Finish(w) /\ UNCHANGED status
    BY <1>0, <2>2, FinishClears, ClearedKept
  <2>3. CASE Insert(d, job[w].text) /\ Goto(w, "verify") /\ UNCHANGED job
    <3>1. \A v \in Workers : Cleared(v)' => v # w /\ Cleared(v)
      BY <1>0, <2>3 DEF Goto, Cleared, WorkOK
    <3>2. \A e \in Docs : e # d => status'[e] = status[e]
      BY <1>0, <2>3 DEF Insert, StoresOK
    <3>3. ASSUME NEW v \in Workers, v # w, Cleared(v)
          PROVE  d \notin SameName(job[v].doc)
      BY <1>0, <2>1, <3>3, OthersUndisturbed DEF SameName
    <3>4. QED  BY <1>0, <2>3, <3>1, <3>2, <3>3 DEF StatusCleared, SameName
  <2>4. QED  BY <1>4, <2>2, <2>3 DEF InsertDoc
<1>5. CASE VerifyDoc(w)
  BY <1>0, <1>5, FinishClears, ClearedKept DEF VerifyDoc
<1>6. QED  BY <1>1, <1>2, <1>3, <1>4, <1>5 DEF IngestStep

\* Without a new DUPLICATE record there is none.
LEMMA DupKept ==
  ASSUME NoDuplicateInsert, dup' \subseteq dup
  PROVE  NoDuplicateInsert'
BY DEF NoDuplicateInsert

-----------------------------------------------------------------------------
(* The steps together *)

\* A crash preserves the invariant.
LEMMA CrashStep ==
  ASSUME IInv, Crash
  PROVE  IInv'
<1>1. TypeOK'
  BY CrashType DEF IInv
<1>2. pc' = [v \in Workers |-> "idle"] /\ UNCHANGED dup
  BY DEF Crash
<1>3. JobOK'
  BY <1>2 DEF JobOK, HasText, Ingesting
<1>4. StatusCleared'
  BY <1>2 DEF StatusCleared, Cleared
<1>5. NoDuplicateInsert'
  BY <1>2, DupKept DEF IInv
<1>6. QED  BY <1>1, <1>3, <1>4, <1>5 DEF IInv

\* Every step of a worker preserves the invariant.
LEMMA IngestStepOK ==
  ASSUME IInv, NEW w \in Workers, IngestStep(w)
  PROVE  IInv'
<1>1. TypeOK' /\ JobOK' /\ StatusCleared'
  BY IngestType, IngestLock, ClearedByIngest DEF IInv
<1>2. InsertDoc(w) \/ dup' \subseteq dup
  BY DEF IngestStep, LoadDoc, ClearStatus, DropOld, VerifyDoc, stores
<1>3. NoDuplicateInsert'
  BY <1>2, InsertIsNew, DupKept DEF IInv
<1>4. QED  BY <1>1, <1>3 DEF IInv

\* Every step of the run preserves the invariant.
LEMMA RunStepOK ==
  ASSUME IInv, RunStep
  PROVE  IInv'
<1>0. TypeOK /\ WorkOK /\ JobOK /\ Run \in Workers
  BY DEF IInv, TypeOK, Workers
<1>1. CASE StartRun \/ RepairUnchanged \/ SaveCache
  <2>1. TypeOK' /\ JobOK' /\ StatusCleared'
    BY <1>0, <1>1, RunType, LockKeptByRun, ClearedByRun
  <2>2. NoDuplicateInsert'
    BY <1>1, DupKept DEF IInv, StartRun, RepairUnchanged, SaveCache, stores
  <2>3. QED  BY <2>1, <2>2 DEF IInv
<1>2. ASSUME NEW d \in Docs, RemoveDoc(d)
      PROVE  IInv'
  <2>1. TypeOK' /\ StatusCleared'
    BY <1>0, <1>2, RunDocType, ClearedOutside
  <2>2. JobOK'
    BY <1>0, <1>2, LockKept DEF RemoveDoc
  <2>3. NoDuplicateInsert'
    BY <1>2, DupKept DEF IInv, RemoveDoc
  <2>4. QED  BY <2>1, <2>2, <2>3 DEF IInv
<1>3. ASSUME NEW d \in Docs, TakeDoc(d)
      PROVE  IInv'
  <2>1. TypeOK' /\ StatusCleared'
    BY <1>0, <1>3, RunDocType, ClearedByTake
  <2>2. JobOK'
    <3> DEFINE j == [doc |-> d, text |-> None, replace |-> d \in report.modified]
    <3>1. j.doc = d
      OBVIOUS
    <3>2. \/ UNCHANGED <<lock, job, pc>>
          \/ /\ lock[NameOf[d]] = Free
             /\ lock' = [lock EXCEPT ![NameOf[d]] = Run]
             /\ job' = [job EXCEPT ![Run] = j]
             /\ Goto(Run, "load")
      BY <1>3 DEF TakeDoc, LockFree
    <3> HIDE DEF j
    <3>3. QED  BY <1>0, <3>1, <3>2, LockKept, LockTaken
  <2>3. NoDuplicateInsert'
    BY <1>3, DupKept DEF IInv, TakeDoc, stores
  <2>4. QED  BY <2>1, <2>2, <2>3 DEF IInv
<1>4. QED  BY <1>1, <1>2, <1>3 DEF RunStep

\* Accepting a request preserves the invariant.
LEMMA ApiStepOK ==
  ASSUME IInv, NEW w \in Api, NEW d \in Docs, NEW r \in {"add", "update"},
         StartApi(w, d, r)
  PROVE  IInv'
<1>0. TypeOK /\ WorkOK /\ JobOK /\ w \in Workers /\ w # Run
  BY PipelineAssumption DEF IInv, TypeOK, Workers
<1>1. TypeOK' /\ StatusCleared'
  BY <1>0, StartApiType, ClearedByApi
<1>2. JobOK'
  <2> DEFINE j == [doc |-> d, text |-> None, replace |-> r = "update"]
  <2>1. j.doc = d
    OBVIOUS
  <2>2. \/ UNCHANGED <<lock, job, pc>>
        \/ /\ lock[NameOf[d]] = Free
           /\ lock' = [lock EXCEPT ![NameOf[d]] = w]
           /\ job' = [job EXCEPT ![w] = j]
           /\ Goto(w, "clear")
    BY DEF StartApi, LockFree
  <2> HIDE DEF j
  <2>3. QED  BY <1>0, <2>1, <2>2, LockKept, LockTaken
<1>3. NoDuplicateInsert'
  BY DupKept DEF IInv, StartApi, stores
<1>4. QED  BY <1>1, <1>2, <1>3 DEF IInv

\* Users and DELETE requests preserve the invariant.
LEMMA UserStepOK ==
  ASSUME IInv, NEW d \in Docs,
         UserStep(d) \/ StartDelete(d) \/ FinishDelete(d)
  PROVE  IInv'
<1>1. TypeOK' /\ StatusCleared'
  BY UserType, DeleteType, ClearedOutside DEF IInv
<1>2. UNCHANGED <<lock, pc, job, dup>>
  BY DEF UserStep, EditFile, RemoveFile, Upload, UserMay, work, stores,
         StartDelete, FinishDelete
<1>3. QED  BY <1>1, <1>2, LockKept, DupKept DEF IInv

\* Stuttering preserves the invariant.
LEMMA StutterOK ==
  ASSUME IInv, UNCHANGED vars
  PROVE  IInv'
<1>1. UNCHANGED <<file, cache, full, chunks, status, dup, row, manifest, lock,
                  pc, job, report, left, okDocs, deleting, queue, edits, faults>>
  BY DEF vars, stores, work
<1>2. TypeOK'
  BY <1>1 DEF IInv, TypeOK, StoresOK, WorkOK, CountersOK
<1>3. JobOK'
  BY <1>1, LockKept DEF IInv
<1>4. StatusCleared' /\ NoDuplicateInsert'
  BY <1>1 DEF IInv, StatusCleared, Cleared, NoDuplicateInsert
<1>5. QED  BY <1>2, <1>3, <1>4 DEF IInv

\* The invariant holds initially.
LEMMA InitOK == Init => IInv
<1> SUFFICES ASSUME Init PROVE IInv
  OBVIOUS
<1>1. CountersOK
  BY Bounds DEF Init, CountersOK
<1>2. StoresOK
  BY DEF Init, StoresOK, StatusValues, Maybe
<1>3. NoJob \in Jobs
  BY DEF NoJob, Jobs, Maybe
<1>4. WorkOK
  BY <1>3 DEF Init, WorkOK, Steps, NoReport
<1>5. JobOK /\ StatusCleared /\ NoDuplicateInsert
  BY DEF Init, JobOK, HasText, Ingesting, StatusCleared, Cleared, NoDuplicateInsert
<1>6. QED  BY <1>1, <1>2, <1>4, <1>5 DEF IInv, TypeOK

\* The invariant is inductive.
LEMMA StepOK == IInv /\ [Next]_vars => IInv'
BY RunStepOK, IngestStepOK, ApiStepOK, UserStepOK, CrashStep, StutterOK DEF Next

\* The invariant holds throughout.
LEMMA Inductive == Spec => []IInv
BY InitOK, StepOK, PTL DEF Spec

(***************************************************************************)
(* Every variable of the pipeline keeps its type.                          *)
(***************************************************************************)
THEOREM PipelineTypeCorrect == Spec => []TypeOK
<1>1. IInv => TypeOK
  BY DEF IInv
<1>2. QED  BY <1>1, Inductive, PTL

(***************************************************************************)
(* Whoever ingests a document holds the lock of its base name, also when a *)
(* crash or an exception has released locks in between: no two workers     *)
(* ever ingest documents of one name.                                      *)
(***************************************************************************)
THEOREM LockIsHeld == Spec => []OneWorkerPerName
<1>1. IInv => OneWorkerPerName
  BY DEF IInv, JobOK, OneWorkerPerName
<1>2. QED  BY <1>1, Inductive, PTL

(***************************************************************************)
(* Clearing doc_status under the lock of the base name is enough to keep   *)
(* LightRAG from recording DUPLICATE failures.                             *)
(***************************************************************************)
THEOREM NoDuplicates == Spec => []NoDuplicateInsert
<1>1. IInv => NoDuplicateInsert
  BY DEF IInv
<1>2. QED  BY <1>1, Inductive, PTL

-----------------------------------------------------------------------------
(* Source files *)

FileLost(d) == file[d] # None /\ file'[d] = None

\* A step that writes no file and reports nothing new keeps ReportFresh.
LEMMA FilesLeftAlone ==
  ASSUME ReportFresh, UNCHANGED file, report'.removed \subseteq report.removed
  PROVE  ReportFresh'
BY DEF ReportFresh

\* Only users and RemoveDoc write files, only StartRun reports removals.
LEMMA OtherStepsKeepFiles ==
  ASSUME Next, ~StartRun,
         \A d \in Docs : ~UserStep(d) /\ ~RemoveDoc(d)
  PROVE  UNCHANGED file /\ report'.removed \subseteq report.removed
<1>1. CASE RunStep
  BY <1>1 DEF RunStep, RepairUnchanged, SaveCache, TakeDoc, stores, NoReport
<1>2. ASSUME NEW w \in Workers, IngestStep(w)
      PROVE  UNCHANGED <<file, report>>
  BY <1>2 DEF IngestStep, LoadDoc, ClearStatus, DropOld, InsertDoc, VerifyDoc
<1>3. ASSUME NEW w \in Api, NEW d \in Docs, NEW r \in {"add", "update"},
             StartApi(w, d, r)
      PROVE  UNCHANGED <<file, report>>
  BY <1>3 DEF StartApi
<1>4. ASSUME NEW d \in Docs, StartDelete(d) \/ FinishDelete(d)
      PROVE  UNCHANGED <<file, report>>
  BY <1>4 DEF StartDelete, FinishDelete
<1>5. CASE Crash
  BY <1>5 DEF Crash, NoReport
<1>6. QED  BY <1>1, <1>2, <1>3, <1>4, <1>5 DEF Next

\* The legacy cleanup finds no file when users leave it alone.
LEMMA RemovalFindsNoFile ==
  ASSUME TypeOK, ReportFresh, ~EditRaces, NEW d \in Docs, RemoveDoc(d)
  PROVE  UNCHANGED <<file, report>>
<1>1. file[d] = None
  BY DEF RemoveDoc, ReportFresh
<1>2. QED  BY <1>1 DEF RemoveDoc, TypeOK, StoresOK

\* ReportFresh is inductive relative to the types.
LEMMA FreshKept ==
  ASSUME TypeOK, ReportFresh, [Next]_vars
  PROVE  ReportFresh'
<1> SUFFICES ASSUME ~EditRaces PROVE ReportFresh'
  BY DEF ReportFresh
<1>1. CASE StartRun
  BY <1>1 DEF StartRun, ReportFresh
<1>2. ASSUME NEW d \in Docs, UserStep(d)
      PROVE  ReportFresh'
  <2>1. UNCHANGED report /\ d \notin report.removed
    BY <1>2 DEF UserStep, EditFile, RemoveFile, Upload, UserMay, InHand,
                Reported, work
  <2>2. \A e \in Docs : e # d => file'[e] = file[e]
    BY <1>2 DEF UserStep, EditFile, RemoveFile, Upload, TypeOK, StoresOK
  <2>3. report.removed \subseteq Docs
    BY DEF TypeOK, WorkOK
  <2>4. QED  BY <2>1, <2>2, <2>3 DEF ReportFresh
<1>3. ASSUME NEW d \in Docs, RemoveDoc(d)
      PROVE  ReportFresh'
  BY <1>3, RemovalFindsNoFile, FilesLeftAlone
<1>4. CASE UNCHANGED vars
  BY <1>4, FilesLeftAlone DEF vars, work
<1>5. QED  BY <1>1, <1>2, <1>3, <1>4, OtherStepsKeepFiles, FilesLeftAlone

\* Only a user can make a file disappear.
LEMMA NoFileLost ==
  ASSUME TypeOK, ReportFresh, ~EditRaces, [Next]_vars, NEW d \in Docs, FileLost(d)
  PROVE  edits' = edits + 1 /\ UNCHANGED <<stores, work>>
<1>1. CASE StartRun
  BY <1>1 DEF StartRun, FileLost
<1>2. ASSUME NEW e \in Docs, UserStep(e)
      PROVE  edits' = edits + 1 /\ UNCHANGED <<stores, work>>
  BY <1>2 DEF UserStep, EditFile, RemoveFile, Upload, UserMay
<1>3. ASSUME NEW e \in Docs, RemoveDoc(e)
      PROVE  UNCHANGED file
  BY <1>3, RemovalFindsNoFile
<1>4. CASE UNCHANGED vars
  BY <1>4 DEF vars, FileLost
<1>5. QED  BY <1>1, <1>2, <1>3, <1>4, OtherStepsKeepFiles DEF FileLost

(***************************************************************************)
(* As long as users do not touch a document the pipeline has in hand, the  *)
(* legacy cleanup of the manifest never finds a file to delete.            *)
(***************************************************************************)
THEOREM SourcesSurvive == ~EditRaces /\ Spec => SourceKept
<1>1. Init => ReportFresh
  BY DEF Init, ReportFresh, NoReport
<1>2. TypeOK /\ ReportFresh /\ [Next]_vars => ReportFresh'
  BY FreshKept
<1>3. ~EditRaces /\ TypeOK /\ ReportFresh /\ [Next]_vars =>
        [\A d \in Docs :
            file[d] # None /\ file'[d] = None =>
                edits' = edits + 1 /\ UNCHANGED <<stores, work>>]_vars
  BY NoFileLost DEF FileLost
<1>4. Spec => []ReportFresh
  BY <1>1, <1>2, PipelineTypeCorrect, PTL DEF Spec
<1>5. CASE ~EditRaces
  BY <1>3, <1>4, <1>5, PipelineTypeCorrect, PTL DEF Spec, SourceKept
<1>6. QED  BY <1>5

-----------------------------------------------------------------------------
(***************************************************************************)
(* What a finished run leaves behind: the index, the registry and the hash *)
(* cache agree on every document at rest.  These properties need what the  *)
(* service provides by default: one task worker (OneTask), and users who   *)
(* leave a document alone while the pipeline has it in hand (~EditRaces).  *)
(***************************************************************************)

(***************************************************************************)
(* The common part of the two inductive invariants.  With one task worker  *)
(* at most one worker is anywhere but idle; the text it holds is what the  *)
(* file still contains; the run's own documents, the ones left to do and   *)
(* the ones already ingested are disjoint, and forgotten between runs.     *)
(***************************************************************************)
Alone == \A v, w \in Workers : pc[v] # "idle" /\ pc[w] # "idle" => v = w

HoldsText(w) == HasText(w) \/ pc[w] = "verify"

TextIsFile ==
    \A w \in Workers :
        HoldsText(w) => job[w].text = file[job[w].doc] /\ job[w].text # None

RunTidy ==
    /\ pc[Run] = "idle" => report = NoReport /\ left = {}
    /\ pc[Run] \in {"idle", "repair"} => okDocs = {}
    /\ left \subseteq Reported
    /\ left \cap okDocs = {}
    /\ pc[Run] \in Ingesting => job[Run].doc \notin left \cup okDocs

RequestsOK ==
    /\ \A q \in queue : q[2] \in Requests
    /\ deleting # {} => "delete" \in Requests

\* An API worker replaces the document exactly when the request is an update.
ReplaceOK ==
    \A w \in Api :
        pc[w] \in Ingesting =>
            /\ job[w].replace => "update" \in Requests
            /\ ~job[w].replace => "add" \in Requests

Orderly == Alone /\ TextIsFile /\ RunTidy /\ RequestsOK /\ ReplaceOK

Quiet == IInv /\ ReportFresh /\ Orderly

(***************************************************************************)
(* For UnchangedIsSearchable.                                              *)
(***************************************************************************)
Fresh ==
    \A d \in Docs : /\ cache[d] # None => cache[d] <= edits
                    /\ file[d] # None => file[d] <= edits

Found(d) == file[d] \in chunks[d] \cup Blanks

Searchable ==
    \A d \in Docs :
        /\ chunks[d] # {} => full[d] # None
        /\ file[d] # None /\ cache[d] = file[d] => Found(d)
        /\ d \in okDocs => file[d] # None /\ Found(d)
        /\ d \in report.modified => file[d] # cache[d]

JobSearchable ==
    \A w \in Workers :
        /\ pc[w] \in Ingesting /\ job[w].replace =>
              file[job[w].doc] # cache[job[w].doc]
        /\ pc[w] = "verify" /\ status[job[w].doc] # "failed" => Found(job[w].doc)

SInv == Quiet /\ Fresh /\ Searchable /\ JobSearchable

(***************************************************************************)
(* For RegistryMatchesIndex and NothingOutdated.                           *)
(***************************************************************************)
At(d, s) == \E w \in Workers : pc[w] = s /\ job[w].doc = d

RegistryOK ==
    /\ row = manifest
    /\ \A d \in Docs :
        /\ row[d] => full[d] # None
        /\ row[d] => status[d] # "none" \/ At(d, "drop")
        /\ row[d] => cache[d] = full[d] \/ d \in okDocs
        /\ chunks[d] \subseteq {full[d]}
        /\ chunks[d] # {} => row[d] \/ (At(d, "verify") /\ status[d] = "processed")

Absent(d) == chunks[d] = {} /\ ~row[d]

OutcomesOK ==
    \A d \in Docs :
        /\ d \in okDocs => file[d] # None /\ full[d] = file[d]
        /\ d \in report.removed \ left /\ pc[Run] # "repair" => ~row[d]
        /\ d \in report.added /\ (d \in left \/ pc[Run] = "repair") => Absent(d)

\* The worker knows that nothing of its document is in the index.
Emptied(w) ==
    \/ pc[w] = "insert"
    \/ w # Run /\ pc[w] = "load"
    \/ w = Run /\ pc[w] \in {"load", "clear", "drop"} /\ ~job[w].replace

JobRegistered ==
    \A w \in Workers :
        /\ Emptied(w) => Absent(job[w].doc)
        /\ pc[w] = "verify" => /\ full[job[w].doc] = job[w].text
                               /\ status[job[w].doc] # "none"

RInv == Quiet /\ RegistryOK /\ OutcomesOK /\ JobRegistered
-----------------------------------------------------------------------------
(* What a step does to the workers *)

\* The worker of a step is the only one that is not idle.
LEMMA OthersIdle ==
  ASSUME Alone, NEW w \in Workers, pc[w] # "idle", NEW v \in Workers, v # w
  PROVE  pc[v] = "idle"
BY DEF Alone

\* Finishing puts the job down.
LEMMA FinishEffect ==
  ASSUME WorkOK, NEW w \in Workers, Finish(w)
  PROVE  /\ pc'[w] = (IF w = Run THEN "loop" ELSE "idle")
         /\ job'[w] = NoJob
         /\ \A v \in Workers : v # w => pc'[v] = pc[v] /\ job'[v] = job[v]
BY DEF Finish, Goto, WorkOK

\* Moving on with the job in hand.
LEMMA GotoEffect ==
  ASSUME WorkOK, NEW w \in Workers, NEW s, Goto(w, s)
  PROVE  /\ pc'[w] = s
         /\ \A v \in Workers : v # w => pc'[v] = pc[v]
BY DEF Goto, WorkOK

\* load_document: the job ends, or holds what the file contains.
LEMMA LoadEffect ==
  ASSUME WorkOK, NEW w \in Workers, LoadDoc(w)
  PROVE  \/ Finish(w)
         \/ /\ file[job[w].doc] # None
            /\ job'[w].doc = job[w].doc
            /\ job'[w].text = file[job[w].doc]
            /\ job'[w].replace = job[w].replace
            /\ \A v \in Workers : v # w => job'[v] = job[v]
            /\ Goto(w, AfterLoad(w))
<1> DEFINE j == [doc |-> job[w].doc, text |-> file[job[w].doc], replace |-> job[w].replace]
<1>1. j.doc = job[w].doc /\ j.text = file[job[w].doc] /\ j.replace = job[w].replace
  OBVIOUS
<1>2. \/ Finish(w)
      \/ /\ file[job[w].doc] # None
         /\ job' = [job EXCEPT ![w] = j]
         /\ Goto(w, AfterLoad(w))
  BY DEF LoadDoc
<1> HIDE DEF j
<1>3. QED  BY <1>1, <1>2 DEF WorkOK

\* The run takes a document of its report, or skips it.
LEMMA TakeEffect ==
  ASSUME WorkOK, NEW d \in Docs, TakeDoc(d)
  PROVE  \/ UNCHANGED <<job, pc>>
         \/ /\ job'[Run].doc = d
            /\ job'[Run].replace = (d \in report.modified)
            /\ \A v \in Workers : v # Run => job'[v] = job[v]
            /\ Goto(Run, "load")
<1> DEFINE j == [doc |-> d, text |-> None, replace |-> d \in report.modified]
<1>1. j.doc = d /\ j.replace = (d \in report.modified)
  OBVIOUS
<1>2. \/ UNCHANGED <<job, pc>>
      \/ job' = [job EXCEPT ![Run] = j] /\ Goto(Run, "load")
  BY DEF TakeDoc
<1> HIDE DEF j
<1>3. QED  BY <1>1, <1>2 DEF WorkOK, Workers

\* An API worker takes the document of its request, or gives up.
LEMMA ApiEffect ==
  ASSUME WorkOK, NEW w \in Api, NEW d \in Docs, NEW r \in {"add", "update"},
         StartApi(w, d, r)
  PROVE  \/ UNCHANGED <<job, pc>>
         \/ /\ job'[w].doc = d
            /\ job'[w].replace = (r = "update")
            /\ \A v \in Workers : v # w => job'[v] = job[v]
            /\ Goto(w, "clear")
<1> DEFINE j == [doc |-> d, text |-> None, replace |-> r = "update"]
<1>1. j.doc = d /\ j.replace = (r = "update")
  OBVIOUS
<1>2. \/ UNCHANGED <<job, pc>>
      \/ job' = [job EXCEPT ![w] = j] /\ Goto(w, "clear")
  BY DEF StartApi
<1> HIDE DEF j
<1>3. QED  BY <1>1, <1>2 DEF WorkOK, Workers

\* The five steps of an ingestion, as far as the workers are concerned: the
\* job ends or goes on, always for the same document and in the same mode.
LEMMA IngestEffect ==
  ASSUME TypeOK, JobOK, NEW w \in Workers, IngestStep(w)
  PROVE  /\ pc[w] \in Ingesting
         /\ job[w].doc \in Docs
         /\ UNCHANGED <<file, report, left, deleting, queue, edits>>
         /\ okDocs' = okDocs \/ (w = Run /\ okDocs' = okDocs \cup {job[w].doc})
         /\ \A v \in Workers : v # w => pc'[v] = pc[v] /\ job'[v] = job[v]
         /\ \/ pc'[w] = (IF w = Run THEN "loop" ELSE "idle")
            \/ /\ pc'[w] \in Ingesting
               /\ job'[w].doc = job[w].doc
               /\ job'[w].replace = job[w].replace
<1>0. WorkOK
  BY DEF TypeOK
<1>1. pc[w] \in Ingesting
  BY DEF IngestStep, LoadDoc, ClearStatus, DropOld, InsertDoc, VerifyDoc, Ingesting
<1>2. job[w].doc \in Docs
  BY <1>1 DEF JobOK
<1>3. UNCHANGED <<file, report, left, deleting, queue, edits>>
  BY DEF IngestStep, LoadDoc, ClearStatus, DropOld, InsertDoc, VerifyDoc
<1>4. okDocs' = okDocs \/ (w = Run /\ okDocs' = okDocs \cup {job[w].doc})
  BY DEF IngestStep, LoadDoc, ClearStatus, DropOld, InsertDoc, VerifyDoc
<1>5. \/ Finish(w)
      \/ LoadDoc(w)
      \/ /\ UNCHANGED job
         /\ \E s \in {"drop", "insert", "load", "verify"} : Goto(w, s)
  BY DEF IngestStep, ClearStatus, DropOld, InsertDoc, VerifyDoc, AfterDrop
<1>6. CASE Finish(w)
  BY <1>0, <1>1, <1>2, <1>3, <1>4, <1>6, FinishEffect
<1>7. CASE LoadDoc(w)
  <2>1. AfterLoad(w) \in Ingesting
    BY DEF AfterLoad, Ingesting
  <2>2. QED  BY <1>0, <1>1, <1>2, <1>3, <1>4, <1>6, <1>7, <2>1, LoadEffect, GotoEffect
<1>8. CASE /\ UNCHANGED job
           /\ \E s \in {"drop", "insert", "load", "verify"} : Goto(w, s)
  BY <1>0, <1>1, <1>2, <1>3, <1>4, <1>8, GotoEffect DEF Ingesting
<1>9. QED  BY <1>5, <1>6, <1>7, <1>8

\* A user changes a file that is in nobody's hands.
LEMMA UserEffect ==
  ASSUME TypeOK, ~EditRaces, NEW d \in Docs, UserStep(d)
  PROVE  /\ edits' = edits + 1
         /\ UNCHANGED <<stores, work>>
         /\ ~InHand(d)
         /\ \A e \in Docs : e # d => file'[e] = file[e]
         /\ \A q \in queue' : q \in queue \/ q[2] \in Requests
<1>1. edits' = edits + 1 /\ UNCHANGED <<stores, work>> /\ ~InHand(d)
  BY DEF UserStep, EditFile, RemoveFile, Upload, UserMay
<1>2. \A e \in Docs : e # d => file'[e] = file[e]
  BY DEF UserStep, EditFile, RemoveFile, Upload, TypeOK, StoresOK
<1>3. \A q \in queue' : q \in queue \/ q[2] \in Requests
  BY DEF UserStep, EditFile, RemoveFile, Upload
<1>4. QED  BY <1>1, <1>2, <1>3

\* A crash leaves every worker idle and nothing in memory.
LEMMA CrashEffect ==
  ASSUME Crash
  PROVE  /\ \A v \in Workers : pc'[v] = "idle" /\ job'[v] = NoJob
         /\ report' = NoReport /\ left' = {} /\ okDocs' = {}
         /\ deleting' = {} /\ queue' = {}
         /\ UNCHANGED <<file, cache, chunks, edits>>
BY DEF Crash

-----------------------------------------------------------------------------
(* Orderly is inductive *)

\* A step after which every worker is idle or where it was.
LEMMA AloneKept ==
  ASSUME Alone, \A v \in Workers : pc'[v] # "idle" => pc[v] # "idle"
  PROVE  Alone'
BY DEF Alone

\* A worker that starts, when all were idle.
LEMMA AloneStarted ==
  ASSUME NEW w \in Workers, \A v \in Workers : v # w => pc'[v] = "idle"
  PROVE  Alone'
BY DEF Alone

\* A worker that holds a text holds a document.
LEMMA HoldsDocument ==
  ASSUME JobOK, NEW w \in Workers, HoldsText(w)
  PROVE  pc[w] \in Ingesting /\ job[w].doc \in Docs
BY DEF JobOK, HoldsText, HasText, Ingesting

\* Users keep it.
LEMMA UserOrderly ==
  ASSUME TypeOK, JobOK, Orderly, ~EditRaces, NEW d \in Docs, UserStep(d)
  PROVE  Orderly'
<1>1. UNCHANGED <<pc, job, report, left, okDocs, deleting>>
  BY UserEffect DEF work
<1>2. Alone' /\ RunTidy' /\ ReplaceOK'
  BY <1>1 DEF Orderly, Alone, RunTidy, ReplaceOK, Reported
<1>3. TextIsFile'
  <2>1. \A w \in Workers : HoldsText(w)' <=> HoldsText(w)
    BY <1>1 DEF HoldsText, HasText
  <2>2. \A w \in Workers : job[w].doc # d
    BY UserEffect DEF InHand
  <2>3. \A w \in Workers : HoldsText(w) => job[w].doc \in Docs
    BY HoldsDocument
  <2>4. \A w \in Workers : HoldsText(w) => file'[job[w].doc] = file[job[w].doc]
    BY <2>2, <2>3, UserEffect
  <2>5. QED  BY <1>1, <2>1, <2>4 DEF Orderly, TextIsFile
<1>4. RequestsOK'
  BY <1>1, UserEffect DEF Orderly, RequestsOK
<1>5. QED  BY <1>2, <1>3, <1>4 DEF Orderly

\* Both halves of a deletion keep it.
LEMMA DeleteOrderly ==
  ASSUME Orderly, NEW d \in Docs, StartDelete(d) \/ FinishDelete(d)
  PROVE  Orderly'
<1>1. UNCHANGED <<file, pc, job, report, left, okDocs, queue>>
  BY DEF StartDelete, FinishDelete
<1>2. deleting' # {} => "delete" \in Requests
  BY DEF StartDelete, FinishDelete, Orderly, RequestsOK
<1>3. Alone' /\ RunTidy' /\ ReplaceOK' /\ RequestsOK'
  BY <1>1, <1>2 DEF Orderly, Alone, RunTidy, ReplaceOK, RequestsOK, Reported
<1>4. TextIsFile'
  BY <1>1 DEF Orderly, TextIsFile, HoldsText, HasText
<1>5. QED  BY <1>3, <1>4 DEF Orderly

\* A crash establishes it.
LEMMA CrashOrderly ==
  ASSUME Crash
  PROVE  Orderly'
<1>1. Run \in Workers /\ \A w \in Api : w \in Workers
  BY DEF Workers
<1>2. Alone' /\ TextIsFile' /\ ReplaceOK'
  BY <1>1, CrashEffect DEF Alone, TextIsFile, HoldsText, HasText, ReplaceOK, Ingesting
<1>3. RunTidy' /\ RequestsOK'
  BY <1>1, CrashEffect DEF RunTidy, RequestsOK, Ingesting
<1>4. QED  BY <1>2, <1>3 DEF Orderly

\* The begin and the end of a run keep it.
LEMMA RunOrderly ==
  ASSUME TypeOK, Orderly, OneTask, StartRun \/ RepairUnchanged \/ SaveCache
  PROVE  Orderly'
<1>0. WorkOK /\ Run \in Workers
  BY DEF TypeOK, Workers
<1>1. UNCHANGED <<file, job, deleting, queue>>
  BY DEF StartRun, RepairUnchanged, SaveCache
<1>2. /\ pc'[Run] \in {"repair", "loop", "idle"}
      /\ \A v \in Workers : v # Run => pc'[v] = pc[v]
  BY <1>0, GotoEffect DEF StartRun, RepairUnchanged, SaveCache
<1>3. Alone'
  <2>1. CASE StartRun
    BY <1>0, <1>2, <2>1, AloneStarted DEF StartRun, MayStart
  <2>2. CASE RepairUnchanged \/ SaveCache
    BY <1>0, <1>2, <2>2, AloneKept DEF RepairUnchanged, SaveCache, Orderly
  <2>3. QED  BY <2>1, <2>2
<1>4. TextIsFile' /\ RequestsOK'
  BY <1>0, <1>1, <1>2 DEF Orderly, TextIsFile, RequestsOK, HoldsText, HasText
<1>5. ReplaceOK'
  BY <1>1, <1>2, PipelineAssumption DEF Orderly, ReplaceOK, Workers
<1>6. RunTidy'
  <2>1. CASE StartRun
    <3>1. pc[Run] = "idle" /\ pc'[Run] = "repair" /\ UNCHANGED <<left, okDocs>>
      BY <1>0, <2>1, GotoEffect DEF StartRun
    <3>2. left' = {} /\ okDocs' = {}
      BY <3>1 DEF Orderly, RunTidy
    <3>3. QED  BY <3>1, <3>2 DEF RunTidy, Ingesting
  <2>2. CASE RepairUnchanged
    <3>1. pc'[Run] = "loop" /\ okDocs' = {}
      BY <1>0, <2>2, GotoEffect DEF RepairUnchanged, Orderly, RunTidy
    <3>2. left' \subseteq Reported'
      BY <2>2 DEF RepairUnchanged, Reported
    <3>3. QED  BY <3>1, <3>2 DEF RunTidy, Ingesting
  <2>3. CASE SaveCache
    BY <1>0, <2>3, GotoEffect DEF SaveCache, RunTidy, Ingesting
  <2>4. QED  BY <2>1, <2>2, <2>3
<1>7. QED  BY <1>3, <1>4, <1>5, <1>6 DEF Orderly

\* Taking a document and removing one keep it.
LEMMA RunDocOrderly ==
  ASSUME TypeOK, Orderly, ReportFresh, ~EditRaces, NEW d \in Docs,
         RemoveDoc(d) \/ TakeDoc(d)
  PROVE  Orderly'
<1>0. WorkOK /\ Run \in Workers
  BY DEF TypeOK, Workers
<1>1. UNCHANGED <<file, report, okDocs, deleting, queue>> /\ left' = left \ {d}
  BY RemovalFindsNoFile DEF RemoveDoc, TakeDoc
<1>2. pc[Run] = "loop" /\ d \in left
  BY DEF RemoveDoc, TakeDoc, Upcoming
<1>3. RequestsOK'
  BY <1>1 DEF Orderly, RequestsOK
<1>4. CASE UNCHANGED <<job, pc>>
  <2>1. Alone' /\ ReplaceOK'
    BY <1>4 DEF Orderly, Alone, ReplaceOK
  <2>2. TextIsFile'
    BY <1>1, <1>4 DEF Orderly, TextIsFile, HoldsText, HasText
  <2>3. RunTidy'
    BY <1>1, <1>2, <1>4 DEF Orderly, RunTidy, Reported
  <2>4. QED  BY <1>3, <2>1, <2>2, <2>3 DEF Orderly
<1>5. CASE /\ job'[Run].doc = d
           /\ \A v \in Workers : v # Run => job'[v] = job[v]
           /\ Goto(Run, "load")
  <2>1. pc'[Run] = "load" /\ \A v \in Workers : v # Run => pc'[v] = pc[v]
    BY <1>0, <1>5, GotoEffect
  <2>2. Alone'
    BY <1>0, <1>2, <2>1, AloneKept DEF Orderly
  <2>3. ReplaceOK'
    BY <1>5, <2>1, PipelineAssumption DEF Orderly, ReplaceOK, Workers
  <2>4. TextIsFile'
    BY <1>1, <1>5, <2>1 DEF Orderly, TextIsFile, HoldsText, HasText
  <2>5. RunTidy'
    BY <1>1, <1>2, <1>5, <2>1 DEF Orderly, RunTidy, Reported
  <2>6. QED  BY <1>3, <2>2, <2>3, <2>4, <2>5 DEF Orderly
<1>6. QED  BY <1>0, <1>4, <1>5, TakeEffect DEF RemoveDoc

\* Accepting a request keeps it.
LEMMA ApiOrderly ==
  ASSUME TypeOK, Orderly, OneTask, NEW w \in Api, NEW d \in Docs,
         NEW r \in {"add", "update"}, StartApi(w, d, r)
  PROVE  Orderly'
<1>0. WorkOK /\ w \in Workers /\ w # Run /\ Run \in Workers
  BY PipelineAssumption DEF TypeOK, Workers
<1>1. UNCHANGED <<file, report, left, okDocs, deleting>> /\ queue' \subseteq queue
  BY DEF StartApi
<1>2. \A v \in Workers : pc[v] = "idle"
  BY DEF StartApi, MayStart
<1>3. r \in Requests
  BY DEF StartApi, Orderly, RequestsOK
<1>4. RequestsOK'
  BY <1>1 DEF Orderly, RequestsOK
<1>5. CASE UNCHANGED <<job, pc>>
  <2>1. Alone' /\ ReplaceOK'
    BY <1>5 DEF Orderly, Alone, ReplaceOK
  <2>2. TextIsFile'
    BY <1>1, <1>5 DEF Orderly, TextIsFile, HoldsText, HasText
  <2>3. RunTidy'
    BY <1>1, <1>5 DEF Orderly, RunTidy, Reported
  <2>4. QED  BY <1>4, <2>1, <2>2, <2>3 DEF Orderly
<1>6. CASE /\ job'[w].doc = d
           /\ job'[w].replace = (r = "update")
           /\ \A v \in Workers : v # w => job'[v] = job[v]
           /\ Goto(w, "clear")
  <2>1. pc'[w] = "clear" /\ \A v \in Workers : v # w => pc'[v] = pc[v]
    BY <1>0, <1>6, GotoEffect
  <2>2. Alone'
    BY <1>0, <1>2, <2>1, AloneStarted
  <2>3. ReplaceOK'
    BY <1>2, <1>3, <1>6, <2>1 DEF ReplaceOK, Workers, Ingesting
  <2>4. TextIsFile'
    BY <1>0, <1>2, <2>1 DEF TextIsFile, HoldsText, HasText
  <2>5. RunTidy'
    BY <1>0, <1>1, <1>2, <2>1 DEF Orderly, RunTidy, Reported, Ingesting
  <2>6. QED  BY <1>4, <2>2, <2>3, <2>4, <2>5 DEF Orderly
<1>7. QED  BY <1>0, <1>5, <1>6, ApiEffect

\* The steps of an ingestion keep it.
LEMMA IngestOrderly ==
  ASSUME TypeOK, JobOK, Orderly, NEW w \in Workers, IngestStep(w)
  PROVE  Orderly'
<1>0. WorkOK /\ Run \in Workers /\ pc[w] \in Ingesting /\ pc[w] # "idle"
  BY IngestEffect DEF TypeOK, Workers, Ingesting
<1>1. Alone'
  BY <1>0, IngestEffect, AloneKept DEF Orderly
<1>2. \A v \in Workers : v # w => pc'[v] = "idle"
  BY <1>0, IngestEffect, OthersIdle DEF Orderly
<1>3. RequestsOK'
  BY IngestEffect DEF Orderly, RequestsOK
<1>4. ReplaceOK'
  <2> SUFFICES ASSUME NEW v \in Api, pc'[v] \in Ingesting
               PROVE  /\ job'[v].replace => "update" \in Requests
                      /\ ~job'[v].replace => "add" \in Requests
    BY DEF ReplaceOK
  <2>1. v = w /\ w # Run
    BY <1>2, PipelineAssumption DEF Ingesting, Workers
  <2>2. job'[w].replace = job[w].replace
    BY <2>1, IngestEffect DEF Ingesting
  <2>3. QED  BY <1>0, <2>1, <2>2 DEF Orderly, ReplaceOK
<1>5. RunTidy'
  <2>1. CASE w = Run
    <3>1. pc'[Run] # "idle" /\ pc'[Run] # "repair"
      BY <2>1, IngestEffect DEF Ingesting
    <3>2. pc'[Run] \in Ingesting => UNCHANGED okDocs /\ job'[Run].doc = job[Run].doc
      <4>1. VerifyDoc(w) \/ UNCHANGED okDocs
        BY DEF IngestStep, LoadDoc, ClearStatus, DropOld, InsertDoc
      <4>2. VerifyDoc(w) => pc'[w] = "loop"
        BY <1>0, <2>1, FinishEffect DEF VerifyDoc
      <4>3. QED  BY <2>1, <4>1, <4>2, IngestEffect DEF Ingesting
    <3>3. job[Run].doc \notin left
      BY <1>0, <2>1 DEF Orderly, RunTidy
    <3>4. left' \cap okDocs' = {}
      BY <2>1, <3>3, IngestEffect DEF Orderly, RunTidy
    <3>5. left' \subseteq Reported'
      BY IngestEffect DEF Orderly, RunTidy, Reported
    <3>6. pc'[Run] \in Ingesting => job'[Run].doc \notin left' \cup okDocs'
      BY <1>0, <2>1, <3>2, IngestEffect DEF Orderly, RunTidy
    <3>7. QED  BY <3>1, <3>4, <3>5, <3>6 DEF RunTidy
  <2>2. CASE w # Run
    BY <1>0, <2>2, IngestEffect DEF Orderly, RunTidy, Reported
  <2>3. QED  BY <2>1, <2>2
<1>6. TextIsFile'
  <2>1. HoldsText(w)' => job'[w].text = file[job[w].doc] /\ job'[w].text # None
                         /\ job'[w].doc = job[w].doc
    <3>1. CASE LoadDoc(w)
      <4>1. CASE Finish(w)
        BY <1>0, <4>1, FinishEffect DEF HoldsText, HasText
      <4>2. QED  BY <1>0, <3>1, <4>1, LoadEffect
    <3>2. CASE Finish(w)
      BY <1>0, <3>2, FinishEffect DEF HoldsText, HasText
    <3>3. ASSUME NEW s, Goto(w, s), UNCHANGED job,
                 s = "verify" \/ s = "insert" \/ w = Run => HoldsText(w)
          PROVE  HoldsText(w)' => job'[w].text = file[job[w].doc] /\ job'[w].text # None
                                  /\ job'[w].doc = job[w].doc
      BY <1>0, <3>3, GotoEffect DEF HoldsText, HasText, Orderly, TextIsFile
    <3>4. CASE ClearStatus(w) /\ ~Finish(w)
      <4>1. Goto(w, "drop") /\ UNCHANGED job /\ pc[w] = "clear"
        BY <3>4 DEF ClearStatus
      <4>2. QED  BY <3>3, <4>1 DEF HoldsText, HasText
    <3>5. CASE DropOld(w) /\ ~Finish(w)
      <4>1. Goto(w, AfterDrop(w)) /\ UNCHANGED job /\ pc[w] = "drop"
        BY <3>5 DEF DropOld
      <4>2. AfterDrop(w) = "insert" => w = Run
        BY DEF AfterDrop
      <4>3. AfterDrop(w) # "verify"
        BY DEF AfterDrop
      <4>4. QED  BY <3>3, <4>1, <4>2, <4>3 DEF HoldsText, HasText
    <3>6. CASE InsertDoc(w) /\ ~Finish(w)
      <4>1. Goto(w, "verify") /\ UNCHANGED job /\ pc[w] = "insert"
        BY <3>6 DEF InsertDoc
      <4>2. QED  BY <3>3, <4>1 DEF HoldsText, HasText
    <3>7. CASE VerifyDoc(w)
      BY <3>2, <3>7 DEF VerifyDoc
    <3>8. QED  BY <3>1, <3>2, <3>4, <3>5, <3>6, <3>7 DEF IngestStep
  <2>2. \A v \in Workers : HoldsText(v)' => v = w
    BY <1>2 DEF HoldsText, HasText
  <2>3. QED  BY <2>1, <2>2, IngestEffect DEF TextIsFile
<1>7. QED  BY <1>1, <1>3, <1>4, <1>5, <1>6 DEF Orderly

\* Stuttering keeps it.
LEMMA StutterOrderly ==
  ASSUME Orderly, UNCHANGED vars
  PROVE  Orderly'
<1>1. UNCHANGED <<file, pc, job, report, left, okDocs, queue, deleting>>
  BY DEF vars, work
<1>2. Alone' /\ RunTidy' /\ ReplaceOK' /\ RequestsOK'
  BY <1>1 DEF Orderly, Alone, RunTidy, ReplaceOK, RequestsOK, Reported
<1>3. TextIsFile'
  BY <1>1 DEF Orderly, TextIsFile, HoldsText, HasText
<1>4. QED  BY <1>2, <1>3 DEF Orderly

\* Quiet is inductive for one task worker and users who keep off.
LEMMA QuietKept ==
  ASSUME OneTask, ~EditRaces, Quiet, [Next]_vars
  PROVE  Quiet'
<1>1. TypeOK /\ JobOK /\ IInv' /\ ReportFresh'
  BY StepOK, FreshKept DEF Quiet, IInv
<1>2. Orderly'
  BY <1>1, UserOrderly, DeleteOrderly, CrashOrderly, RunOrderly, RunDocOrderly,
     ApiOrderly, IngestOrderly, StutterOrderly DEF Quiet, Next, RunStep
<1>3. QED  BY <1>1, <1>2 DEF Quiet

\* It holds initially.
LEMMA QuietInit == Init => Quiet
<1> SUFFICES ASSUME Init PROVE Quiet
  OBVIOUS
<1>1. Run \in Workers /\ \A w \in Api : w \in Workers
  BY DEF Workers
<1>2. IInv /\ ReportFresh
  BY InitOK DEF Init, ReportFresh, NoReport
<1>3. Alone /\ TextIsFile /\ ReplaceOK
  BY <1>1 DEF Init, Alone, TextIsFile, HoldsText, HasText, ReplaceOK, Ingesting
<1>4. RunTidy /\ RequestsOK
  BY <1>1 DEF Init, RunTidy, RequestsOK, Ingesting
<1>5. QED  BY <1>2, <1>3, <1>4 DEF Quiet, Orderly

-----------------------------------------------------------------------------
(* UnchangedIsSearchable *)

\* Only what a worker ingests changes in the index and in the cache.
LEMMA StoresElsewhere ==
  ASSUME TypeOK, JobOK, NEW w \in Workers, IngestStep(w)
  PROVE  \A e \in Docs : e # job[w].doc =>
            /\ cache'[e] = cache[e] /\ full'[e] = full[e]
            /\ chunks'[e] = chunks[e]
            /\ row'[e] = row[e] /\ manifest'[e] = manifest[e]
<1> DEFINE d == job[w].doc
<1>0. /\ cache \in [Docs -> Maybe(Versions)] /\ full \in [Docs -> Maybe(Versions)]
      /\ chunks \in [Docs -> SUBSET Versions]
      /\ row \in [Docs -> BOOLEAN] /\ manifest \in [Docs -> BOOLEAN]
      /\ d \in Docs
  BY IngestEffect DEF TypeOK, StoresOK
<1>1. CASE LoadDoc(w) \/ ClearStatus(w)
  BY <1>1 DEF LoadDoc, ClearStatus, stores
<1>2. CASE DropOld(w)
  BY <1>0, <1>2 DEF DropOld, CascadeDelete, Forget, PurgeArtifacts
<1>3. CASE InsertDoc(w)
  BY <1>0, <1>3 DEF InsertDoc, Insert
<1>4. CASE VerifyDoc(w)
  BY <1>0, <1>4 DEF VerifyDoc
<1>5. QED  BY <1>1, <1>2, <1>3, <1>4 DEF IngestStep

\* Without reverts a user writes what no file has held before.
LEMMA NewContent ==
  ASSUME TypeOK, ~Reverts, NEW d \in Docs, UserStep(d)
  PROVE  file'[d] \in {file[d], None, edits + 1}
BY DEF UserStep, EditFile, RemoveFile, Upload, Writable, TypeOK, StoresOK

\* Once the job of w has ended, no worker has one.
LEMMA JobsDone ==
  ASSUME TypeOK, JobOK, Alone, NEW w \in Workers, IngestStep(w), Finish(w)
  PROVE  \A v \in Workers : pc'[v] \notin Ingesting
<1>1. pc[w] # "idle"
  BY IngestEffect DEF Ingesting
<1>2. \A v \in Workers : v # w => pc'[v] = "idle"
  BY <1>1, IngestEffect, OthersIdle
<1>3. QED  BY <1>2, FinishEffect DEF TypeOK, Ingesting

\* While the job of w goes on, it is the only one.
LEMMA JobGoesOn ==
  ASSUME TypeOK, JobOK, Alone, JobSearchable, NEW w \in Workers, IngestStep(w),
         UNCHANGED cache,
         pc'[w] = "verify" /\ status'[job[w].doc] # "failed" => Found(job[w].doc)'
  PROVE  JobSearchable'
<1>1. pc[w] \in Ingesting /\ pc[w] # "idle"
  BY IngestEffect DEF Ingesting
<1>2. \A v \in Workers : v # w => pc'[v] = "idle"
  BY <1>1, IngestEffect, OthersIdle
<1>3. pc'[w] \in Ingesting => job'[w].doc = job[w].doc /\ job'[w].replace = job[w].replace
  BY IngestEffect DEF Ingesting
<1>4. UNCHANGED file
  BY IngestEffect
<1>5. \A v \in Workers : pc'[v] \in Ingesting => v = w
  BY <1>2 DEF Ingesting
<1>6. "verify" \in Ingesting
  BY DEF Ingesting
<1>7. QED  BY <1>1, <1>3, <1>4, <1>5, <1>6 DEF JobSearchable

\* Users keep it: what they write is not what the cache knows.
LEMMA UserSearchable ==
  ASSUME SInv, ~EditRaces, ~Reverts, NEW d \in Docs, UserStep(d)
  PROVE  Fresh' /\ Searchable' /\ JobSearchable'
<1>0. TypeOK /\ JobOK /\ edits \in Nat
  BY DEF SInv, Quiet, IInv, TypeOK, CountersOK
<1>1. /\ UNCHANGED <<cache, full, chunks, status, pc, job, report, okDocs>>
      /\ edits' = edits + 1
      /\ \A e \in Docs : e # d => file'[e] = file[e]
  BY <1>0, UserEffect DEF stores, work
<1>2. d \notin okDocs /\ d \notin report.modified /\ \A w \in Workers : job[w].doc # d
  BY <1>0, UserEffect DEF InHand, Reported
<1>3. file'[d] \in {file[d], None, edits + 1}
  BY <1>0, NewContent
<1>4. \A e \in Docs : cache[e] \in Maybe(Versions) /\ file[e] \in Maybe(Versions)
  BY <1>0 DEF TypeOK, StoresOK
<1>5. \A x \in Versions : x \in Nat
  BY Bounds DEF Versions
<1>6. Fresh'
  BY <1>0, <1>1, <1>3, <1>4, <1>5 DEF SInv, Fresh, Maybe
<1>7. Searchable'
  <2> SUFFICES ASSUME NEW e \in Docs
               PROVE  /\ chunks'[e] # {} => full'[e] # None
                      /\ file'[e] # None /\ cache'[e] = file'[e] => Found(e)'
                      /\ e \in okDocs' => file'[e] # None /\ Found(e)'
                      /\ e \in report'.modified => file'[e] # cache'[e]
    BY DEF Searchable
  <2>1. CASE e # d
    BY <1>1, <2>1 DEF SInv, Searchable, Found
  <2>2. CASE e = d
    <3>1. file'[d] = edits + 1 => cache[d] # file'[d]
      BY <1>0, <1>4, <1>5, PipelineAssumption DEF SInv, Fresh, Maybe
    <3>2. file'[d] # None /\ cache[d] = file'[d] => file'[d] = file[d]
      BY <1>3, <3>1
    <3>3. QED  BY <1>1, <1>2, <2>2, <3>2 DEF SInv, Searchable, Found
  <2>3. QED  BY <2>1, <2>2
<1>8. JobSearchable'
  <2>1. \A w \in Workers : pc[w] \in Ingesting => job[w].doc \in Docs
    BY <1>0 DEF JobOK
  <2>2. "verify" \in Ingesting
    BY DEF Ingesting
  <2>3. QED  BY <1>1, <1>2, <2>1, <2>2 DEF SInv, JobSearchable, Found
<1>9. QED  BY <1>6, <1>7, <1>8

\* The begin and the end of a run keep it: the cache vouches for what was
\* ingested.
LEMMA RunSearchable ==
  ASSUME SInv, StartRun \/ RepairUnchanged \/ SaveCache
  PROVE  Fresh' /\ Searchable' /\ JobSearchable'
<1>0. TypeOK /\ WorkOK /\ Run \in Workers
  BY DEF SInv, Quiet, IInv, TypeOK, Workers
<1>1. UNCHANGED <<file, full, chunks, status, job, edits>>
  BY DEF StartRun, RepairUnchanged, SaveCache, stores
<1>2. \A v \in Workers : pc'[v] \notin Ingesting \/ (v # Run /\ pc'[v] = pc[v])
  BY <1>0, GotoEffect DEF StartRun, RepairUnchanged, SaveCache, Ingesting
<1>3. CASE StartRun
  <2>1. UNCHANGED <<cache, okDocs>>
    BY <1>3 DEF StartRun, stores
  <2>2. \A d \in report'.modified : file[d] # cache[d]
    BY <1>3 DEF StartRun
  <2>3. Fresh' /\ Searchable'
    BY <1>1, <2>1, <2>2 DEF SInv, Fresh, Searchable, Found
  <2>4. JobSearchable'
    BY <1>1, <1>2, <2>1 DEF SInv, JobSearchable, Found, Ingesting
  <2>5. QED  BY <2>3, <2>4
<1>4. CASE RepairUnchanged
  <2>1. UNCHANGED <<cache, okDocs>> /\ report'.modified = report.modified
    BY <1>4 DEF RepairUnchanged, stores
  <2>2. Fresh' /\ Searchable'
    BY <1>1, <2>1 DEF SInv, Fresh, Searchable, Found
  <2>3. JobSearchable'
    BY <1>1, <1>2, <2>1 DEF SInv, JobSearchable, Found, Ingesting
  <2>4. QED  BY <2>2, <2>3
<1>5. CASE SaveCache
  <2>1. cache' = Vouched /\ okDocs' = {} /\ report'.modified = {}
    BY <1>5 DEF SaveCache, NoReport
  <2>2. Fresh'
    BY <1>1, <2>1 DEF SInv, Fresh, Vouched
  <2>3. Searchable'
    BY <1>1, <2>1 DEF SInv, Searchable, Found, Vouched
  <2>4. \A v \in Workers : pc[v] = "idle" \/ v = Run
    BY <1>0, <1>5 DEF SaveCache, SInv, Quiet, Orderly, Alone
  <2>5. \A v \in Workers : pc'[v] \notin Ingesting
    BY <1>2, <2>4 DEF Ingesting
  <2>6. JobSearchable'
    BY <2>5 DEF JobSearchable, Ingesting
  <2>7. QED  BY <2>2, <2>3, <2>6
<1>6. QED  BY <1>3, <1>4, <1>5

\* Removing a document that has no file keeps it.
LEMMA RemoveSearchable ==
  ASSUME SInv, ~EditRaces, NEW d \in Docs, RemoveDoc(d)
  PROVE  Fresh' /\ Searchable' /\ JobSearchable'
<1>0. TypeOK /\ StoresOK /\ Run \in Workers
  BY DEF SInv, Quiet, IInv, TypeOK, Workers
<1>1. UNCHANGED <<file, cache, report, okDocs, edits, pc, job>> /\ file[d] = None
  <2>1. UNCHANGED <<file, report>>
    BY <1>0, RemovalFindsNoFile DEF SInv, Quiet
  <2>2. file[d] = None
    BY DEF RemoveDoc, SInv, Quiet, ReportFresh
  <2>3. QED  BY <2>1, <2>2 DEF RemoveDoc
<1>2. /\ \A e \in Docs : e # d => chunks'[e] = chunks[e] /\ full'[e] = full[e]
      /\ \/ chunks'[d] = {}
         \/ chunks'[d] = chunks[d] /\ full'[d] = full[d]
  BY <1>0 DEF RemoveDoc, CascadeDelete, Forget, StoresOK
<1>3. Fresh' /\ Searchable'
  BY <1>1, <1>2 DEF SInv, Fresh, Searchable, Found
<1>4. \A v \in Workers : pc'[v] \notin Ingesting
  BY <1>0, <1>1 DEF RemoveDoc, SInv, Quiet, Orderly, Alone, Ingesting
<1>5. QED  BY <1>3, <1>4 DEF JobSearchable, Ingesting

\* Starting on a document keeps it: a modified one is not what the cache
\* knows, and an API worker does not replace.
LEMMA TakeSearchable ==
  ASSUME SInv, "update" \notin Requests, Quiet', UNCHANGED <<file, stores, report, okDocs, edits>>,
         (\E d \in Docs : TakeDoc(d)) \/
         (\E w \in Api, d \in Docs, r \in {"add", "update"} : StartApi(w, d, r))
  PROVE  Fresh' /\ Searchable' /\ JobSearchable'
<1>0. WorkOK /\ Run \in Workers /\ \A w \in Api : w \in Workers /\ w # Run
  BY PipelineAssumption DEF SInv, Quiet, IInv, TypeOK, Workers
<1>1. UNCHANGED <<cache, full, chunks, status>>
  BY DEF stores
<1>2. Fresh' /\ Searchable'
  BY <1>1 DEF SInv, Fresh, Searchable, Found
<1>3. ASSUME NEW d \in Docs, TakeDoc(d)
      PROVE  JobSearchable'
  <2>1. CASE UNCHANGED <<job, pc>>
    BY <1>1, <2>1 DEF SInv, JobSearchable, Found
  <2>2. CASE /\ job'[Run].doc = d
             /\ job'[Run].replace = (d \in report.modified)
             /\ \A v \in Workers : v # Run => job'[v] = job[v]
             /\ Goto(Run, "load")
    <3>1. pc'[Run] = "load" /\ \A v \in Workers : v # Run => pc'[v] = pc[v]
      BY <1>0, <2>2, GotoEffect
    <3>2. QED  BY <1>1, <2>2, <3>1 DEF SInv, Searchable, JobSearchable, Found
  <2>3. QED  BY <1>0, <1>3, <2>1, <2>2, TakeEffect
<1>4. ASSUME NEW w \in Api, NEW d \in Docs, NEW r \in {"add", "update"}, StartApi(w, d, r)
      PROVE  JobSearchable'
  <2>1. CASE UNCHANGED <<job, pc>>
    BY <1>1, <2>1 DEF SInv, JobSearchable, Found
  <2>2. CASE /\ job'[w].doc = d
             /\ job'[w].replace = (r = "update")
             /\ \A v \in Workers : v # w => job'[v] = job[v]
             /\ Goto(w, "clear")
    <3>1. pc'[w] = "clear" /\ \A v \in Workers : v # w => pc'[v] = pc[v]
      BY <1>0, <2>2, GotoEffect
    <3>2. ~job'[w].replace
      BY <3>1 DEF Quiet, Orderly, ReplaceOK, Ingesting
    <3>3. QED  BY <1>1, <2>2, <3>1, <3>2 DEF SInv, JobSearchable, Found
  <2>3. QED  BY <1>0, <1>4, <2>1, <2>2, ApiEffect
<1>5. QED  BY <1>2, <1>3, <1>4

\* The steps of an ingestion keep it.
LEMMA IngestSearchable ==
  ASSUME SInv, NEW w \in Workers, IngestStep(w)
  PROVE  Fresh' /\ Searchable' /\ JobSearchable'
<1> DEFINE d == job[w].doc
<1>0. /\ TypeOK /\ StoresOK /\ WorkOK /\ JobOK /\ Alone /\ IInv
      /\ pc[w] \in Ingesting /\ d \in Docs
      /\ UNCHANGED <<file, report, edits>>
  BY IngestEffect DEF SInv, Quiet, Orderly, IInv, TypeOK
<1>1. d \notin okDocs
  <2>1. CASE w = Run
    BY <1>0, <2>1 DEF SInv, Quiet, Orderly, RunTidy
  <2>2. CASE w # Run
    BY <1>0, <2>2, OthersIdle DEF SInv, Quiet, Orderly, RunTidy, Ingesting, Workers
  <2>3. QED  BY <2>1, <2>2
<1>2. CASE UNCHANGED <<cache, full, chunks, okDocs>> /\ pc'[w] # "verify"
  <2>1. Fresh' /\ Searchable'
    BY <1>0, <1>2 DEF SInv, Fresh, Searchable, Found
  <2>2. QED  BY <1>0, <1>2, <2>1, JobGoesOn DEF SInv
<1>3. CASE LoadDoc(w) \/ ClearStatus(w)
  <2>1. UNCHANGED <<cache, full, chunks, okDocs>>
    BY <1>3 DEF LoadDoc, ClearStatus, stores
  <2>2. pc'[w] # "verify"
    BY <1>0, <1>3, LoadEffect, FinishEffect, GotoEffect DEF AfterLoad, ClearStatus
  <2>3. QED  BY <1>2, <2>1, <2>2
<1>4. CASE DropOld(w)
  <2>1. UNCHANGED <<cache, okDocs>> /\ pc'[w] # "verify"
    BY <1>0, <1>4, GotoEffect, FinishEffect DEF DropOld, AfterDrop
  <2>2. CASE UNCHANGED <<full, chunks>>
    BY <1>2, <2>1, <2>2
  <2>3. CASE MustDrop(d, job[w].replace) /\ Forget(d)
    <3>1. chunks'[d] = {} /\ full'[d] = None
      BY <1>0, <2>3 DEF Forget, StoresOK
    <3>2. file[d] # None /\ cache[d] = file[d] => chunks[d] = {}
      BY <1>0, <2>3 DEF MustDrop, SInv, Searchable, JobSearchable
    <3>3. Fresh'
      BY <1>0, <2>1 DEF SInv, Fresh
    <3>4. \A e \in Docs : e # d => chunks'[e] = chunks[e] /\ full'[e] = full[e]
      BY <1>0, StoresElsewhere
    <3>5. Searchable'
      BY <1>0, <1>1, <2>1, <3>1, <3>2, <3>4 DEF SInv, Searchable, Found
    <3>6. QED  BY <1>0, <2>1, <3>3, <3>5, JobGoesOn DEF SInv
  <2>4. QED  BY <1>4, <2>2, <2>3 DEF DropOld, CascadeDelete
<1>5. CASE InsertDoc(w)
  <2>1. UNCHANGED <<cache, okDocs>> /\ pc[w] = "insert"
    BY <1>5 DEF InsertDoc
  <2>2. CASE Finish(w) /\ UNCHANGED <<full, chunks>>
    BY <1>0, <1>2, <2>1, <2>2, FinishEffect
  <2>3. CASE Insert(d, job[w].text) /\ UNCHANGED job
    <3>1. \A e \in SameName(d) : status[e] = "none"
      BY <1>0, <2>1 DEF IInv, StatusCleared, Cleared
    <3>2. /\ full' = [full EXCEPT ![d] = job[w].text]
          /\ \/ /\ chunks' = [chunks EXCEPT ![d] = @ \cup ({job[w].text} \ Blanks)]
                /\ status' = [status EXCEPT ![d] = "processed"]
             \/ status' = [status EXCEPT ![d] = "failed"] /\ UNCHANGED chunks
      BY <2>3, <3>1 DEF Insert
    <3>3. job[w].text = file[d] /\ job[w].text # None
      BY <2>1 DEF SInv, Quiet, Orderly, TextIsFile, HoldsText, HasText
    <3>4. full'[d] # None /\ chunks[d] \subseteq chunks'[d]
      BY <1>0, <3>2, <3>3 DEF StoresOK
    <3>5. status'[d] # "failed" => Found(d)'
      BY <1>0, <2>3, <3>2, <3>3 DEF StoresOK, Found
    <3>6. Fresh'
      BY <1>0, <2>1 DEF SInv, Fresh
    <3>7. \A e \in Docs : e # d => chunks'[e] = chunks[e] /\ full'[e] = full[e]
      BY <1>0, StoresElsewhere
    <3>8. Searchable'
      BY <1>0, <2>1, <3>4, <3>7 DEF SInv, Searchable, Found
    <3>9. QED  BY <1>0, <2>1, <3>5, <3>6, <3>8, JobGoesOn DEF SInv
  <2>4. QED  BY <1>5, <2>2, <2>3 DEF InsertDoc
<1>6. CASE VerifyDoc(w)
  <2>1. Finish(w) /\ pc[w] = "verify" /\ UNCHANGED <<full, chunks>>
    BY <1>6 DEF VerifyDoc
  <2>2. JobSearchable'
    BY <1>0, <2>1, JobsDone DEF JobSearchable, Ingesting
  <2>3. file[d] # None
    BY <2>1 DEF SInv, Quiet, Orderly, TextIsFile, HoldsText
  <2>4. CASE status[d] = "failed"
    <3>1. UNCHANGED <<cache, okDocs>>
      BY <1>6, <2>4 DEF VerifyDoc, Indexed
    <3>2. QED  BY <1>0, <2>1, <2>2, <3>1 DEF SInv, Fresh, Searchable, Found
  <2>5. CASE status[d] # "failed"
    <3>1. Found(d)
      BY <2>1, <2>5 DEF SInv, JobSearchable
    <3>2. /\ okDocs' \subseteq okDocs \cup {d}
          /\ \A e \in Docs : e # d => cache'[e] = cache[e]
          /\ cache'[d] = cache[d] \/ (w # Run /\ cache'[d] = file[d])
      BY <1>0, <1>6 DEF VerifyDoc, StoresOK
    <3>3. Fresh'
      BY <1>0, <2>3, <3>2 DEF SInv, Fresh
    <3>4. w # Run => report.modified = {}
      BY <1>0, OthersIdle DEF SInv, Quiet, Orderly, RunTidy, NoReport, Ingesting, Workers
    <3>5. Searchable'
      BY <1>0, <2>1, <2>3, <3>1, <3>2, <3>4 DEF SInv, Searchable, Found
    <3>6. QED  BY <2>2, <3>3, <3>5
  <2>6. QED  BY <2>4, <2>5
<1>7. QED  BY <1>3, <1>4, <1>5, <1>6 DEF IngestStep

\* A crash keeps it: what was given to LightRAG is recorded, the rest stays.
LEMMA CrashSearchable ==
  ASSUME SInv, Crash
  PROVE  Fresh' /\ Searchable' /\ JobSearchable'
<1>0. TypeOK /\ JobOK
  BY DEF SInv, Quiet, IInv
<1>1. \A v \in Workers : pc'[v] \notin Ingesting
  BY CrashEffect DEF Ingesting
<1>2. JobSearchable'
  BY <1>1 DEF JobSearchable, Ingesting
<1>3. \A e \in Docs : full[e] # None => full'[e] # None
  <2> SUFFICES ASSUME NEW e \in Docs, full[e] # None PROVE full'[e] # None
    OBVIOUS
  <2>1. PICK S \in SUBSET {w \in Workers : pc[w] = "insert"} :
           full' = [d \in Docs |->
                      IF d \in {job[w].doc : w \in S}
                      THEN job[CHOOSE w \in S : job[w].doc = d].text
                      ELSE full[d]]
    BY DEF Crash
  <2>2. CASE e \in {job[w].doc : w \in S}
    <3>1. (CHOOSE w \in S : job[w].doc = e) \in S
      BY <2>2
    <3>2. job[CHOOSE w \in S : job[w].doc = e].text \in Versions
      BY <1>0, <3>1 DEF JobOK, HasText
    <3>3. None \notin Versions
      BY PipelineAssumption, Bounds DEF Versions
    <3>4. QED  BY <2>1, <2>2, <3>2, <3>3
  <2>3. CASE e \notin {job[w].doc : w \in S}
    BY <2>1, <2>3
  <2>4. QED  BY <2>2, <2>3
<1>4. Fresh' /\ Searchable'
  BY <1>3, CrashEffect DEF SInv, Fresh, Searchable, Found, NoReport
<1>5. QED  BY <1>2, <1>4

\* Stuttering keeps it.
LEMMA StutterSearchable ==
  ASSUME SInv, UNCHANGED vars
  PROVE  Fresh' /\ Searchable' /\ JobSearchable'
BY DEF vars, stores, work, SInv, Fresh, Searchable, JobSearchable, Found

\* The invariant is inductive.
LEMMA SearchableKept ==
  ASSUME OneTask, ~EditRaces, ~Reverts, Requests \subseteq {"add"}, SInv, [Next]_vars
  PROVE  SInv'
<1>1. Quiet'
  BY QuietKept DEF SInv
<1>2. Fresh' /\ Searchable' /\ JobSearchable'
  <2>1. CASE RunStep
    <3>1. ASSUME NEW d \in Docs, TakeDoc(d)
          PROVE  Fresh' /\ Searchable' /\ JobSearchable'
      BY <1>1, <3>1, TakeSearchable DEF TakeDoc
    <3>2. QED  BY <2>1, <3>1, RunSearchable, RemoveSearchable DEF RunStep
  <2>2. ASSUME NEW w \in Api, NEW d \in Docs, NEW r \in {"add", "update"},
               StartApi(w, d, r)
        PROVE  Fresh' /\ Searchable' /\ JobSearchable'
    <3>1. UNCHANGED <<file, stores, report, okDocs, edits>>
      BY <2>2 DEF StartApi
    <3>2. QED  BY <1>1, <2>2, <3>1, TakeSearchable
  <2>3. ASSUME NEW d \in Docs, StartDelete(d) \/ FinishDelete(d)
        PROVE  FALSE
    BY <2>3 DEF StartDelete, FinishDelete, SInv, Quiet, Orderly, RequestsOK
  <2>4. QED  BY <2>1, <2>2, <2>3, IngestSearchable, UserSearchable, CrashSearchable,
                StutterSearchable DEF Next
<1>3. QED  BY <1>1, <1>2 DEF SInv

(***************************************************************************)
(* Whatever fails and whenever the process is killed, a file that the hash *)
(* cache vouches for can be retrieved with its present content, as long as *)
(* one worker does all tasks, uploads are the only requests, users leave   *)
(* documents in hand alone and give no file an earlier content back.       *)
(***************************************************************************)
THEOREM CrashesKeepIndexSearchable ==
  OneTask /\ ~EditRaces /\ ~Reverts /\ Requests \subseteq {"add"} /\ Spec
  => []UnchangedIsSearchable
<1>1. Init => SInv
  <2> SUFFICES ASSUME Init PROVE SInv
    OBVIOUS
  <2>1. Fresh /\ Searchable /\ JobSearchable
    BY DEF Init, Fresh, Searchable, JobSearchable, Ingesting, NoReport
  <2>2. QED  BY <2>1, QuietInit DEF SInv
<1>2. SInv => UnchangedIsSearchable
  BY DEF SInv, Searchable, Found, UnchangedIsSearchable, Content
<1>3. CASE OneTask /\ ~EditRaces /\ ~Reverts /\ Requests \subseteq {"add"}
  <2>1. SInv /\ [Next]_vars => SInv'
    BY <1>3, SearchableKept
  <2>2. QED  BY <1>1, <1>2, <2>1, PTL DEF Spec
<1>4. QED  BY <1>3

-----------------------------------------------------------------------------
(* RegistryMatchesIndex and NothingOutdated *)

(***************************************************************************)
(* What these two need besides: no two documents share a base name,        *)
(* updates are the only requests, deletions do not fail and the process is *)
(* not killed.                                                             *)
(***************************************************************************)
UpdatesOnly ==
    /\ OneTask /\ ~EditRaces
    /\ \A d, e \in Docs : NameOf[d] = NameOf[e] => d = e
    /\ Requests \subseteq {"update"}
    /\ Faults \subseteq {"insert_raises", "insert_fails"}

\* Where the busy worker stands is where its document stands.
LEMMA BusyAt ==
  ASSUME Alone, NEW w \in Workers, pc[w] # "idle", NEW e, NEW s, s # "idle"
  PROVE  At(e, s) <=> pc[w] = s /\ job[w].doc = e
BY DEF Alone, At

\* The same after the step.
LEMMA BusyAtNext ==
  ASSUME TypeOK, JobOK, Alone, NEW w \in Workers, IngestStep(w),
         NEW e \in Docs, NEW s \in Ingesting
  PROVE  At(e, s)' <=> pc'[w] = s /\ job'[w].doc = e
<1>1. pc[w] # "idle"
  BY IngestEffect DEF Ingesting
<1>2. \A v \in Workers : v # w => pc'[v] = "idle"
  BY <1>1, IngestEffect, OthersIdle
<1>3. QED  BY <1>2 DEF At, Ingesting

\* Deletions go through.
LEMMA DeletionsWork ==
  ASSUME UpdatesOnly
  PROVE  ~Fault("delete_raises") /\ ~Fault("delete_refused") /\ ~Crash
BY DEF UpdatesOnly, Fault, Crash

\* A document LightRAG has no text of is not there at all.
LEMMA UnknownIsAbsent ==
  ASSUME TypeOK, RegistryOK, NEW d \in Docs, full[d] = None
  PROVE  Absent(d)
<1>1. None \notin Versions
  BY PipelineAssumption, Bounds DEF Versions
<1>2. chunks[d] \subseteq Versions /\ chunks[d] \subseteq {None}
  BY DEF TypeOK, StoresOK, RegistryOK
<1>3. QED  BY <1>1, <1>2 DEF Absent, RegistryOK

\* When the only job that could matter is gone, nothing is asked of the jobs.
LEMMA NoJobsRegistered ==
  ASSUME \A v \in Workers : pc'[v] \notin Ingesting
  PROVE  JobRegistered'
BY DEF JobRegistered, Emptied, Ingesting

\* The jobs after a step of the only worker.
LEMMA OneJobRegistered ==
  ASSUME TypeOK, JobOK, Alone, NEW w \in Workers, IngestStep(w),
         Emptied(w)' => Absent(job[w].doc)',
         pc'[w] = "verify" => full'[job[w].doc] = job'[w].text
                              /\ status'[job[w].doc] # "none",
         job'[w].doc = job[w].doc
  PROVE  JobRegistered'
<1>1. pc[w] # "idle"
  BY IngestEffect DEF Ingesting
<1>2. \A v \in Workers : v # w => pc'[v] = "idle"
  BY <1>1, IngestEffect, OthersIdle
<1>3. QED  BY <1>2 DEF JobRegistered, Emptied

\* Users keep it: the stores do not change, and the file is in no report.
LEMMA UserRegistered ==
  ASSUME RInv, ~EditRaces, NEW d \in Docs, UserStep(d)
  PROVE  RegistryOK' /\ OutcomesOK' /\ JobRegistered'
<1>0. TypeOK
  BY DEF RInv, Quiet, IInv
<1>1. /\ UNCHANGED <<cache, full, chunks, status, row, manifest, pc, job, report, left, okDocs>>
      /\ d \notin okDocs
      /\ \A e \in Docs : e # d => file'[e] = file[e]
  BY <1>0, UserEffect DEF stores, work, InHand
<1>2. RegistryOK' /\ JobRegistered'
  BY <1>1 DEF RInv, RegistryOK, JobRegistered, At, Emptied, Absent
<1>3. OutcomesOK'
  BY <1>1 DEF RInv, OutcomesOK, Absent
<1>4. QED  BY <1>2, <1>3

\* detect_changes keeps it: what the cache does not know is not there.
LEMMA StartRegistered ==
  ASSUME RInv, OneTask, StartRun
  PROVE  RegistryOK' /\ OutcomesOK' /\ JobRegistered'
<1>0. TypeOK /\ WorkOK /\ Run \in Workers
  BY DEF RInv, Quiet, IInv, TypeOK, Workers
<1>1. UNCHANGED <<file, cache, full, chunks, status, row, manifest, job, left, okDocs>>
  BY DEF StartRun, stores
<1>2. \A v \in Workers : pc[v] = "idle" /\ pc'[v] = (IF v = Run THEN "repair" ELSE "idle")
  BY <1>0, GotoEffect DEF StartRun, MayStart
<1>3. okDocs = {}
  BY <1>0, <1>2 DEF RInv, Quiet, Orderly, RunTidy
<1>4. RegistryOK'
  BY <1>1, <1>2 DEF RInv, RegistryOK, At
<1>5. JobRegistered'
  BY <1>2, NoJobsRegistered DEF Ingesting
<1>6. \A d \in Docs : cache[d] = None => Absent(d)
  BY <1>2, <1>3 DEF RInv, RegistryOK, At, Absent
<1>7. OutcomesOK'
  <2>1. \A d \in report'.added : cache[d] = None
    BY DEF StartRun
  <2>2. pc'[Run] = "repair" /\ okDocs' = {}
    BY <1>0, <1>1, <1>2, <1>3
  <2>3. QED  BY <1>1, <1>6, <2>1, <2>2 DEF OutcomesOK, Absent
<1>8. QED  BY <1>4, <1>5, <1>7

\* The repair of unchanged files keeps it: what LightRAG has no text of is
\* not there.
LEMMA RepairRegistered ==
  ASSUME RInv, RepairUnchanged
  PROVE  RegistryOK' /\ OutcomesOK' /\ JobRegistered'
<1>0. TypeOK /\ WorkOK /\ Run \in Workers /\ Alone
  BY DEF RInv, Quiet, Orderly, IInv, TypeOK, Workers
<1>1. UNCHANGED <<file, cache, full, chunks, status, row, manifest, job, okDocs>>
  BY DEF RepairUnchanged, stores
<1>2. pc[Run] = "repair" /\ pc'[Run] = "loop"
      /\ \A v \in Workers : v # Run => pc[v] = "idle" /\ pc'[v] = "idle"
  BY <1>0, GotoEffect, OthersIdle DEF RepairUnchanged
<1>3. RegistryOK'
  BY <1>1, <1>2 DEF RInv, RegistryOK, At
<1>4. JobRegistered'
  BY <1>2, NoJobsRegistered DEF Ingesting
<1>5. OutcomesOK'
  <2>1. /\ report'.removed = report.removed
        /\ report'.added = report.added \cup {d \in report.unchanged : full[d] = None}
        /\ left' = report'.removed \cup report'.modified \cup report'.added
    BY DEF RepairUnchanged
  <2>2. \A d \in Docs : d \in report'.added => Absent(d)
    BY <1>0, <1>2, <2>1, UnknownIsAbsent DEF RInv, OutcomesOK
  <2>3. okDocs' = {}
    BY <1>1, <1>2 DEF RInv, Quiet, Orderly, RunTidy
  <2>4. report'.removed \ left' = {}
    BY <2>1
  <2>5. QED  BY <1>1, <2>2, <2>3, <2>4 DEF OutcomesOK, Absent
<1>6. QED  BY <1>3, <1>4, <1>5

\* The new hash cache vouches for what LightRAG was given.
LEMMA SaveRegistered ==
  ASSUME RInv, SaveCache
  PROVE  RegistryOK' /\ OutcomesOK' /\ JobRegistered'
<1>0. TypeOK /\ WorkOK /\ Run \in Workers /\ Alone
  BY DEF RInv, Quiet, Orderly, IInv, TypeOK, Workers
<1>1. UNCHANGED <<file, full, chunks, status, row, manifest, job, left>>
  BY DEF SaveCache
<1>2. pc[Run] = "loop" /\ pc'[Run] = "idle"
      /\ \A v \in Workers : v # Run => pc[v] = "idle" /\ pc'[v] = "idle"
  BY <1>0, GotoEffect, OthersIdle DEF SaveCache
<1>3. cache' = Vouched /\ okDocs' = {} /\ report' = NoReport /\ left = {}
  BY DEF SaveCache
<1>4. \A d \in Docs : row[d] => cache'[d] = full[d]
  BY <1>2, <1>3 DEF Vouched, RInv, RegistryOK, OutcomesOK
<1>5. RegistryOK'
  BY <1>1, <1>2, <1>4 DEF RInv, RegistryOK, At
<1>6. JobRegistered'
  BY <1>2, NoJobsRegistered DEF Ingesting
<1>7. OutcomesOK'
  BY <1>3 DEF OutcomesOK, NoReport
<1>8. QED  BY <1>5, <1>6, <1>7

\* Removing a document removes it everywhere.
LEMMA RemoveRegistered ==
  ASSUME RInv, UpdatesOnly, NEW d \in Docs, RemoveDoc(d)
  PROVE  RegistryOK' /\ OutcomesOK' /\ JobRegistered'
<1>0. TypeOK /\ StoresOK /\ Run \in Workers /\ Alone /\ pc[Run] = "loop" /\ d \in left
  BY DEF RInv, Quiet, Orderly, IInv, TypeOK, Workers, RemoveDoc, Upcoming
<1>1. UNCHANGED <<file, cache, report, okDocs, pc, job>> /\ left' = left \ {d}
  BY <1>0, RemovalFindsNoFile DEF RemoveDoc, RInv, Quiet, UpdatesOnly
<1>2. Forget(d) /\ row' = [row EXCEPT ![d] = FALSE] /\ manifest' = [manifest EXCEPT ![d] = FALSE]
  BY DeletionsWork DEF RemoveDoc, CascadeDelete, PurgeArtifacts
<1>3. \A v \in Workers : v # Run => pc[v] = "idle"
  BY <1>0, OthersIdle
<1>4. RegistryOK'
  BY <1>0, <1>1, <1>2, <1>3 DEF RInv, RegistryOK, At, Forget, StoresOK
<1>5. JobRegistered'
  BY <1>0, <1>1, <1>3, NoJobsRegistered DEF Ingesting
<1>6. d \notin okDocs
  BY <1>0 DEF RInv, Quiet, Orderly, RunTidy
<1>7. OutcomesOK'
  BY <1>0, <1>1, <1>2, <1>6 DEF RInv, OutcomesOK, Absent, Forget, StoresOK
<1>8. QED  BY <1>4, <1>5, <1>7

\* The run starts on a document: an added one is not there.
LEMMA TakeRegistered ==
  ASSUME RInv, NEW d \in Docs, TakeDoc(d)
  PROVE  RegistryOK' /\ OutcomesOK' /\ JobRegistered'
<1>0. TypeOK /\ WorkOK /\ Run \in Workers /\ Alone /\ pc[Run] = "loop"
      /\ d \in left /\ d \notin report.removed
  BY DEF RInv, Quiet, Orderly, IInv, TypeOK, Workers, TakeDoc, Upcoming
<1>1. /\ UNCHANGED <<file, cache, full, chunks, status, row, manifest, report, okDocs>>
      /\ left' = left \ {d}
  BY DEF TakeDoc, stores
<1>2. \A v \in Workers : v # Run => pc[v] = "idle"
  BY <1>0, OthersIdle
<1>3. /\ \A v \in Workers : v # Run => pc'[v] = "idle"
      /\ \/ pc'[Run] = "loop"
         \/ pc'[Run] = "load" /\ job'[Run].doc = d /\ job'[Run].replace = (d \in report.modified)
  BY <1>0, <1>2, TakeEffect, GotoEffect
<1>4. RegistryOK'
  BY <1>0, <1>1, <1>2, <1>3 DEF RInv, RegistryOK, At
<1>5. OutcomesOK'
  BY <1>0, <1>1, <1>3 DEF RInv, OutcomesOK, Absent
<1>6. JobRegistered'
  <2>1. d \notin report.modified => Absent(d)
    BY <1>0 DEF RInv, OutcomesOK, Quiet, Orderly, RunTidy, Reported
  <2>2. QED  BY <1>1, <1>3, <2>1 DEF JobRegistered, Emptied, Absent
<1>7. QED  BY <1>4, <1>5, <1>6

\* An API worker that starts has not read anything yet.
LEMMA ApiRegistered ==
  ASSUME RInv, OneTask, NEW w \in Api, NEW d \in Docs, NEW r \in {"add", "update"},
         StartApi(w, d, r)
  PROVE  RegistryOK' /\ OutcomesOK' /\ JobRegistered'
<1>0. TypeOK /\ WorkOK /\ w \in Workers /\ w # Run /\ Run \in Workers
  BY PipelineAssumption DEF RInv, Quiet, IInv, TypeOK, Workers
<1>1. UNCHANGED <<file, cache, full, chunks, status, row, manifest, report, left, okDocs>>
  BY DEF StartApi, stores
<1>2. \A v \in Workers : pc[v] = "idle"
  BY DEF StartApi, MayStart
<1>3. \A v \in Workers : pc'[v] \in {"idle", "clear"} /\ (v = Run => pc'[v] = "idle")
  BY <1>0, <1>2, ApiEffect, GotoEffect
<1>4. RegistryOK' /\ OutcomesOK'
  BY <1>0, <1>1, <1>2, <1>3 DEF RInv, RegistryOK, OutcomesOK, At, Absent
<1>5. JobRegistered'
  BY <1>3 DEF JobRegistered, Emptied
<1>6. QED  BY <1>4, <1>5

\* load_document keeps it: it writes no store.
LEMMA LoadRegistered ==
  ASSUME RInv, NEW w \in Workers, LoadDoc(w)
  PROVE  RegistryOK' /\ OutcomesOK' /\ JobRegistered'
<1> DEFINE d == job[w].doc
<1>0. /\ TypeOK /\ WorkOK /\ JobOK /\ Alone /\ IngestStep(w)
      /\ pc[w] = "load" /\ pc[w] # "idle" /\ d \in Docs
      /\ UNCHANGED <<file, cache, full, chunks, status, row, manifest, report, left, okDocs>>
  BY IngestEffect DEF RInv, Quiet, Orderly, IInv, TypeOK, LoadDoc, IngestStep, stores
<1>1. \A e \in Docs : ~At(e, "drop") /\ ~At(e, "verify")
  BY <1>0, BusyAt
<1>2. RegistryOK'
  BY <1>0, <1>1 DEF RInv, RegistryOK
<1>3. OutcomesOK'
  <2>1. pc[Run] = "repair" <=> pc'[Run] = "repair"
    BY <1>0, IngestEffect DEF Ingesting, Workers
  <2>2. QED  BY <1>0, <2>1 DEF RInv, OutcomesOK, Absent
<1>4. JobRegistered'
  <2>1. CASE Finish(w)
    BY <1>0, <2>1, JobsDone, NoJobsRegistered
  <2>2. CASE /\ job'[w].doc = d /\ job'[w].replace = job[w].replace
             /\ Goto(w, AfterLoad(w))
    <3>1. pc'[w] = AfterLoad(w)
      BY <1>0, <2>2, GotoEffect
    <3>2. Emptied(w)' => Emptied(w)
      BY <1>0, <2>2, <3>1 DEF Emptied, AfterLoad
    <3>3. Emptied(w)' => Absent(d)
      BY <3>2 DEF RInv, JobRegistered
    <3>4. Absent(d) => Absent(d)'
      BY <1>0, <2>2 DEF Absent
    <3>5. pc'[w] # "verify"
      BY <3>1 DEF AfterLoad
    <3>6. QED  BY <1>0, <2>2, <3>3, <3>4, <3>5, OneJobRegistered
  <2>3. QED  BY <1>0, <2>1, <2>2, LoadEffect
<1>5. QED  BY <1>2, <1>3, <1>4

\* clear_doc_status keeps it: the worker is about to drop the document.
LEMMA ClearRegistered ==
  ASSUME RInv, UpdatesOnly, NEW w \in Workers, ClearStatus(w)
  PROVE  RegistryOK' /\ OutcomesOK' /\ JobRegistered'
<1> DEFINE d == job[w].doc
<1>0. /\ TypeOK /\ WorkOK /\ JobOK /\ Alone /\ IngestStep(w)
      /\ pc[w] = "clear" /\ pc[w] # "idle" /\ d \in Docs
      /\ UNCHANGED <<file, cache, full, chunks, row, manifest, job, report, left, okDocs>>
  BY IngestEffect DEF RInv, Quiet, Orderly, IInv, TypeOK, ClearStatus, IngestStep
<1>1. pc'[w] = "drop"
  BY <1>0, GotoEffect DEF ClearStatus
<1>2. \A e \in Docs : e # d => status'[e] = status[e]
  BY <1>0 DEF ClearStatus, SameName, UpdatesOnly
<1>3. \A e \in Docs : ~At(e, "drop") /\ ~At(e, "verify")
  BY <1>0, BusyAt
<1>4. At(d, "drop")'
  BY <1>0, <1>1 DEF At
<1>5. RegistryOK'
  BY <1>0, <1>2, <1>3, <1>4 DEF RInv, RegistryOK
<1>6. OutcomesOK'
  <2>1. pc[Run] = "repair" <=> pc'[Run] = "repair"
    BY <1>0, IngestEffect DEF Ingesting, Workers
  <2>2. QED  BY <1>0, <2>1 DEF RInv, OutcomesOK, Absent
<1>7. Emptied(w)' => Absent(d)
  BY <1>0, <1>1 DEF Emptied, RInv, JobRegistered
<1>8. JobRegistered'
  BY <1>0, <1>1, <1>7, OneJobRegistered DEF Absent
<1>9. QED  BY <1>5, <1>6, <1>8

\* What is dropped is gone everywhere; what is kept was not there.
LEMMA DropRegistered ==
  ASSUME RInv, UpdatesOnly, NEW w \in Workers, DropOld(w)
  PROVE  RegistryOK' /\ OutcomesOK' /\ JobRegistered'
<1> DEFINE d == job[w].doc
<1>0. /\ TypeOK /\ StoresOK /\ WorkOK /\ JobOK /\ Alone /\ IngestStep(w)
      /\ pc[w] = "drop" /\ pc[w] # "idle" /\ d \in Docs
      /\ UNCHANGED <<file, cache, report, left, okDocs>>
  BY IngestEffect DEF RInv, Quiet, Orderly, IInv, TypeOK, DropOld, IngestStep
<1>1. UNCHANGED job /\ pc'[w] = AfterDrop(w)
  BY <1>0, DeletionsWork, GotoEffect DEF DropOld
<1>2. \A e \in Docs : e # d => ~At(e, "drop")
  BY <1>0, BusyAt
<1>3. \A e \in Docs : ~At(e, "verify")
  BY <1>0, BusyAt
<1>4. pc'[w] \in {"insert", "load"}
  BY <1>1 DEF AfterDrop
<1>5. d \notin okDocs /\ (pc[Run] = "repair" <=> pc'[Run] = "repair")
  <2>1. CASE w = Run
    BY <1>0, <1>4, <2>1 DEF RInv, Quiet, Orderly, RunTidy, Ingesting
  <2>2. CASE w # Run
    BY <1>0, <2>2, OthersIdle, IngestEffect DEF RInv, Quiet, Orderly, RunTidy, Workers
  <2>3. QED  BY <2>1, <2>2
<1>6. /\ \/ /\ full' = [full EXCEPT ![d] = None]
            /\ chunks' = [chunks EXCEPT ![d] = {}]
            /\ status' = [status EXCEPT ![d] = "none"]
            /\ row' = [row EXCEPT ![d] = FALSE]
            /\ manifest' = [manifest EXCEPT ![d] = FALSE]
         \/ /\ ~job[w].replace
            /\ UNCHANGED <<full, chunks, status, row, manifest>>
  BY DeletionsWork DEF DropOld, MustDrop, CascadeDelete, Forget, PurgeArtifacts
<1>7. ~job[w].replace => Absent(d)
  <2>1. ~job[w].replace => w = Run
    BY <1>0 DEF RInv, Quiet, Orderly, ReplaceOK, UpdatesOnly, Workers, Ingesting
  <2>2. QED  BY <1>0, <2>1 DEF RInv, JobRegistered, Emptied
<1>8. row' = manifest' /\ Absent(d)'
  BY <1>0, <1>1, <1>6, <1>7 DEF StoresOK, Absent, RInv, RegistryOK
<1>9. \A e \in Docs : e # d => /\ full'[e] = full[e] /\ chunks'[e] = chunks[e]
                               /\ status'[e] = status[e] /\ row'[e] = row[e]
  BY <1>0, <1>6 DEF StoresOK
<1>10. RegistryOK'
  BY <1>0, <1>1, <1>2, <1>3, <1>8, <1>9 DEF RInv, RegistryOK, Absent
<1>11. OutcomesOK'
  BY <1>0, <1>1, <1>5, <1>8, <1>9 DEF RInv, OutcomesOK, Absent
<1>12. JobRegistered'
  BY <1>0, <1>1, <1>4, <1>8, OneJobRegistered
<1>13. QED  BY <1>10, <1>11, <1>12

\* ainsert adds to nothing.
LEMMA InsertRegistered ==
  ASSUME RInv, NEW w \in Workers, InsertDoc(w)
  PROVE  RegistryOK' /\ OutcomesOK' /\ JobRegistered'
<1> DEFINE d == job[w].doc
<1>0. /\ TypeOK /\ StoresOK /\ WorkOK /\ JobOK /\ Alone /\ IngestStep(w) /\ IInv
      /\ pc[w] = "insert" /\ pc[w] # "idle" /\ d \in Docs
      /\ UNCHANGED <<file, cache, row, manifest, report, left, okDocs>>
  BY IngestEffect DEF RInv, Quiet, Orderly, IInv, TypeOK, InsertDoc, IngestStep
<1>1. \A e \in Docs : ~At(e, "drop") /\ ~At(e, "verify")
  BY <1>0, BusyAt
<1>2. d \notin okDocs /\ (pc[Run] = "repair" <=> pc'[Run] = "repair")
  <2>1. CASE w = Run
    BY <1>0, <2>1, IngestEffect DEF RInv, Quiet, Orderly, RunTidy, Ingesting
  <2>2. CASE w # Run
    BY <1>0, <2>2, OthersIdle, IngestEffect DEF RInv, Quiet, Orderly, RunTidy, Workers
  <2>3. QED  BY <2>1, <2>2
<1>3. Absent(d)
  BY <1>0 DEF RInv, JobRegistered, Emptied
<1>4. CASE Finish(w) /\ UNCHANGED <<full, chunks, status>>
  <2>1. RegistryOK'
    BY <1>0, <1>1, <1>4 DEF RInv, RegistryOK
  <2>2. OutcomesOK'
    BY <1>0, <1>2, <1>4 DEF RInv, OutcomesOK, Absent
  <2>3. QED  BY <1>0, <1>4, <2>1, <2>2, JobsDone, NoJobsRegistered
<1>5. CASE Insert(d, job[w].text) /\ Goto(w, "verify") /\ UNCHANGED job
  <2>1. \A e \in SameName(d) : status[e] = "none"
    BY <1>0 DEF IInv, StatusCleared, Cleared
  <2>2. /\ full' = [full EXCEPT ![d] = job[w].text]
        /\ \/ /\ chunks' = [chunks EXCEPT ![d] = @ \cup ({job[w].text} \ Blanks)]
              /\ status' = [status EXCEPT ![d] = "processed"]
           \/ status' = [status EXCEPT ![d] = "failed"] /\ UNCHANGED chunks
    BY <1>5, <2>1 DEF Insert
  <2>3. /\ full'[d] = job[w].text /\ status'[d] # "none"
        /\ chunks'[d] \subseteq {job[w].text}
        /\ chunks'[d] # {} => status'[d] = "processed"
        /\ ~row'[d]
    BY <1>0, <1>3, <2>2 DEF StoresOK, Absent
  <2>4. \A e \in Docs : e # d => /\ full'[e] = full[e] /\ chunks'[e] = chunks[e]
                                 /\ status'[e] = status[e]
    BY <1>0, <2>2 DEF StoresOK
  <2>5. pc'[w] = "verify"
    BY <1>0, <1>5, GotoEffect
  <2>6. At(d, "verify")'
    BY <1>5, <2>5 DEF At
  <2>7. RegistryOK'
    BY <1>0, <1>1, <1>5, <2>3, <2>4, <2>6 DEF RInv, RegistryOK
  <2>8. OutcomesOK'
    <3>1. d \notin left /\ pc[Run] # "repair"
      <4>1. CASE w = Run
        BY <1>0, <4>1 DEF RInv, Quiet, Orderly, RunTidy, Ingesting
      <4>2. CASE w # Run
        BY <1>0, <4>2, OthersIdle DEF RInv, Quiet, Orderly, RunTidy, Workers
      <4>3. QED  BY <4>1, <4>2
    <3>2. QED  BY <1>0, <1>2, <2>4, <3>1 DEF RInv, OutcomesOK, Absent
  <2>9. ~Emptied(w)'
    BY <2>5 DEF Emptied
  <2>10. JobRegistered'
    BY <1>0, <1>5, <2>3, <2>9, OneJobRegistered
  <2>11. QED  BY <2>7, <2>8, <2>10
<1>6. QED  BY <1>4, <1>5 DEF InsertDoc

\* Registry and manifest list what was processed, and the cache is to vouch
\* for the text LightRAG was given.
LEMMA VerifyRegistered ==
  ASSUME RInv, UpdatesOnly, NEW w \in Workers, VerifyDoc(w)
  PROVE  RegistryOK' /\ OutcomesOK' /\ JobRegistered'
<1> DEFINE d == job[w].doc
<1>0. /\ TypeOK /\ StoresOK /\ WorkOK /\ JobOK /\ Alone /\ IngestStep(w)
      /\ pc[w] = "verify" /\ pc[w] # "idle" /\ d \in Docs /\ Finish(w)
      /\ UNCHANGED <<file, full, chunks, status, report, left>>
  BY IngestEffect DEF RInv, Quiet, Orderly, IInv, TypeOK, VerifyDoc, IngestStep
<1>1. \A e \in Docs : ~At(e, "drop") /\ (At(e, "verify") => e = d)
  BY <1>0, BusyAt
<1>2. JobRegistered'
  BY <1>0, JobsDone, NoJobsRegistered
<1>3. /\ d \notin okDocs /\ d \notin left
      /\ pc[Run] # "repair" /\ pc'[Run] # "repair"
      /\ w # Run => report = NoReport /\ left = {} /\ okDocs = {}
  <2>1. CASE w = Run
    BY <1>0, <2>1, IngestEffect DEF RInv, Quiet, Orderly, RunTidy, Ingesting
  <2>2. CASE w # Run
    BY <1>0, <2>2, OthersIdle, IngestEffect DEF RInv, Quiet, Orderly, RunTidy, Workers
  <2>3. QED  BY <2>1, <2>2
<1>4. file[d] # None /\ full[d] = file[d] /\ status[d] # "none"
  BY <1>0 DEF RInv, Quiet, Orderly, TextIsFile, HoldsText, JobRegistered
<1>5. CASE status[d] = "failed"
  <2>1. UNCHANGED <<cache, row, manifest, okDocs>>
    BY <1>5 DEF VerifyDoc, Indexed
  <2>2. RegistryOK'
    BY <1>0, <1>1, <1>5, <2>1 DEF RInv, RegistryOK
  <2>3. OutcomesOK'
    BY <1>0, <1>3, <2>1 DEF RInv, OutcomesOK, Absent
  <2>4. QED  BY <1>2, <2>2, <2>3
<1>6. CASE status[d] # "failed"
  <2>1. /\ row' = [row EXCEPT ![d] = TRUE]
        /\ manifest' = [manifest EXCEPT ![d] = TRUE]
        /\ okDocs' = IF w = Run THEN okDocs \cup {d} ELSE okDocs
        /\ cache' = IF w # Run THEN [cache EXCEPT ![d] = file[d]] ELSE cache
    BY <1>4, <1>6 DEF VerifyDoc, Indexed
  <2>2. cache'[d] = full[d] \/ d \in okDocs'
    BY <1>0, <1>4, <2>1 DEF StoresOK
  <2>3. \A e \in Docs : e # d => cache'[e] = cache[e] /\ row'[e] = row[e]
    BY <1>0, <2>1 DEF StoresOK
  <2>4. okDocs \subseteq okDocs' /\ okDocs' \subseteq okDocs \cup {d} /\ row'[d]
        /\ row' = manifest'
    BY <1>0, <2>1 DEF StoresOK, RInv, RegistryOK
  <2>5. RegistryOK'
    BY <1>0, <1>1, <1>4, <2>2, <2>3, <2>4 DEF RInv, RegistryOK
  <2>6. d \notin report.removed
    BY <1>4 DEF RInv, Quiet, ReportFresh, UpdatesOnly
  <2>7. OutcomesOK'
    BY <1>0, <1>3, <1>4, <2>3, <2>4, <2>6 DEF RInv, OutcomesOK, Absent
  <2>8. QED  BY <1>2, <2>5, <2>7
<1>7. QED  BY <1>5, <1>6

\* Stuttering keeps it.
LEMMA StutterRegistered ==
  ASSUME RInv, UNCHANGED vars
  PROVE  RegistryOK' /\ OutcomesOK' /\ JobRegistered'
BY DEF vars, stores, work, RInv, RegistryOK, OutcomesOK, JobRegistered, Absent, Emptied, At

\* The invariant is inductive.
LEMMA RegisteredKept ==
  ASSUME UpdatesOnly, RInv, [Next]_vars
  PROVE  RInv'
<1>0. OneTask /\ ~EditRaces
  BY DEF UpdatesOnly
<1>1. Quiet'
  BY <1>0, QuietKept DEF RInv
<1>2. RegistryOK' /\ OutcomesOK' /\ JobRegistered'
  <2>1. CASE RunStep
    BY <1>0, <2>1, StartRegistered, RepairRegistered, SaveRegistered,
       RemoveRegistered, TakeRegistered DEF RunStep
  <2>2. ASSUME NEW w \in Workers, IngestStep(w)
        PROVE  RegistryOK' /\ OutcomesOK' /\ JobRegistered'
    BY <2>2, LoadRegistered, ClearRegistered, DropRegistered, InsertRegistered,
       VerifyRegistered DEF IngestStep
  <2>3. ASSUME NEW d \in Docs, StartDelete(d) \/ FinishDelete(d)
        PROVE  FALSE
    BY <2>3 DEF StartDelete, FinishDelete, RInv, Quiet, Orderly, RequestsOK, UpdatesOnly
  <2>4. QED  BY <1>0, <2>1, <2>2, <2>3, ApiRegistered, UserRegistered, DeletionsWork,
                StutterRegistered DEF Next
<1>3. QED  BY <1>1, <1>2 DEF RInv

\* It holds initially.
LEMMA RegisteredInit == Init => RInv
<1> SUFFICES ASSUME Init PROVE RInv
  OBVIOUS
<1>1. RegistryOK /\ OutcomesOK /\ JobRegistered
  BY DEF Init, RegistryOK, OutcomesOK, JobRegistered, Emptied, NoReport
<1>2. QED  BY <1>1, QuietInit DEF RInv

(***************************************************************************)
(* For documents at rest the registry, the manifest and LightRAG agree,    *)
(* whichever insertions fail: as long as one worker does all tasks, users  *)
(* leave documents in hand alone, base names are distinct and updates are  *)
(* the only requests.                                                      *)
(***************************************************************************)
THEOREM RegistryStaysConsistent ==
  UpdatesOnly /\ Spec => []RegistryMatchesIndex
<1>1. RInv => RegistryMatchesIndex
  <2> SUFFICES ASSUME RInv, NEW d \in Docs, ~InHand(d)
               PROVE  /\ row[d] = manifest[d]
                      /\ row[d] => full[d] # None /\ status[d] # "none"
    BY DEF RegistryMatchesIndex
  <2>1. ~At(d, "drop")
    BY DEF At, InHand
  <2>2. QED  BY <2>1 DEF RInv, RegistryOK
<1>2. CASE UpdatesOnly
  <2>1. RInv /\ [Next]_vars => RInv'
    BY <1>2, RegisteredKept
  <2>2. QED  BY <1>1, <2>1, RegisteredInit, PTL DEF Spec
<1>3. QED  BY <1>2

(***************************************************************************)
(* In the same setting, what can be retrieved for a document at rest that  *)
(* the hash cache vouches for is its present content: no answer quotes an  *)
(* earlier version, also when users give files an earlier content back.    *)
(***************************************************************************)
THEOREM UpdatesLeaveNothingOutdated ==
  UpdatesOnly /\ Spec => []NothingOutdated
<1>1. RInv => NothingOutdated
  <2> SUFFICES ASSUME RInv, NEW d \in Docs, ~InHand(d), cache[d] = file[d]
               PROVE  chunks[d] \subseteq {file[d]}
    BY DEF NothingOutdated
  <2>1. ~At(d, "verify") /\ d \notin okDocs
    BY DEF At, InHand
  <2>2. chunks[d] # {} => full[d] = file[d]
    BY <2>1 DEF RInv, RegistryOK
  <2>3. QED  BY <2>2 DEF RInv, RegistryOK
<1>2. CASE UpdatesOnly
  <2>1. RInv /\ [Next]_vars => RInv'
    BY <1>2, RegisteredKept
  <2>2. QED  BY <1>1, <2>1, RegisteredInit, PTL DEF Spec
<1>3. QED  BY <1>2

=============================================================================
