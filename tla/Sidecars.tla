------------------------------ MODULE Sidecars ------------------------------
(***************************************************************************)
(* The files that belong to a PDF of data/raw in two_stage mode: MinerU    *)
(* turns foo.pdf into foo.md, pictures under images/ and the metadata      *)
(* .foo.mineru.json, an index run indexes foo.md and lists in              *)
(* document_manifest.json the files to delete with it, and three cleanups  *)
(* delete such files.  The processes are the conversion (scripts/convert.py*)
(* incremental, or convert_first), the index run and one upload at a time  *)
(* through the API; users add, replace and remove files meanwhile.         *)
(*                                                                         *)
(* The content of a PDF is a version number; a Markdown file holds the     *)
(* version it was converted from, or Own, which a user wrote.  Pictures    *)
(* lie in the images/ of a directory under names of their own, and several *)
(* texts may show the same one: another version of the document, another   *)
(* document of the directory, a text of the user.  What LightRAG does with *)
(* a document is IndexPipeline's business: here it has it or has not.      *)
(***************************************************************************)
EXTENDS Naturals, FiniteSets

CONSTANTS
    Stems,          \* foo, of foo.pdf and foo.md
    DirOf,          \* DirOf[s]: the directory of s; it has one images/
    None,
    Own,
    Names,          \* the names of pictures
    Shown,          \* Shown[t]: the pictures the text t refers to
    PdfStems,       \* where users put PDFs
    OwnStems,       \* where users put Markdown of their own
    DeleteStems,    \* what users delete through the API
    MaxUser,        \* bound on what users do
    MaxFaults,      \* bound on failures and crashes
    Faults,         \* what may fail
    Dying,          \* the groups of processes that may be killed
    OneTask,        \* TRUE: conversions, runs and uploads are tasks of the
                    \* service, which executes them in turn
    FilesWhileBusy  \* TRUE: users touch files the processes work on

Versions == 1..MaxUser
Texts == Versions \cup {Own}
Pictures == {DirOf[s] : s \in Stems} \X Names
Procs == {"conversion", "run", "api"}

ASSUME SidecarsAssumption ==
    /\ DirOf \in [Stems -> {DirOf[s] : s \in Stems}]
    /\ None \notin Nat \cup Stems /\ Own \notin Nat \cup {None}
    /\ Shown \in [Texts -> SUBSET Names]
    /\ PdfStems \subseteq Stems /\ OwnStems \subseteq Stems
    /\ DeleteStems \subseteq Stems
    /\ MaxUser \in Nat /\ MaxFaults \in Nat
    /\ Faults \subseteq {"convert", "insert", "crash"}
    /\ Dying \subseteq {{"conversion"}, {"run", "api"}}
    /\ OneTask \in BOOLEAN /\ FilesWhileBusy \in BOOLEAN

VARIABLES
    pdf, md,     \* the files: version, Own or None
    meta,        \* .foo.mineru.json: the version converted, or None
    images,      \* the pictures on disk: <<directory, name>>
    theirs,      \* where a user was the last to write or delete the Markdown
                 \* (a history variable: no process looks at it)
    converted,   \* conversion_cache.json
    hashed,      \* hash_cache.json
    index,       \* the content LightRAG has for foo.md
    manifest,    \* document_manifest.json: the artifact files, or None
    pc,          \* where each process stands
    cur,         \* the document it has in hand, with the content it read
    report,      \* of the conversion and of the run: what is gone (and left to
                 \* clean up), what is to do, what went well
    user,        \* number of user steps
    faults       \* number of failures

disk == <<pdf, md, meta, images, theirs>>
records == <<converted, hashed, index, manifest>>
work == <<pc, cur, report>>
vars == <<disk, records, work, user, faults>>

NoDoc == [doc |-> None, text |-> None]
NoReport == [gone |-> {}, left |-> {}, todo |-> {}, ok |-> {}]

Init ==
    /\ pdf = [s \in Stems |-> None]
    /\ md = [s \in Stems |-> None]
    /\ meta = [s \in Stems |-> None]
    /\ images = {}
    /\ theirs = {}
    /\ converted = [s \in Stems |-> None]
    /\ hashed = [s \in Stems |-> None]
    /\ index = [s \in Stems |-> None]
    /\ manifest = [s \in Stems |-> None]
    /\ pc = [p \in Procs |-> "idle"]
    /\ cur = [p \in Procs |-> NoDoc]
    /\ report = [p \in {"conversion", "run"} |-> NoReport]
    /\ user = 0
    /\ faults = 0

-----------------------------------------------------------------------------
(* Users *)

Reported(p) == report[p].gone \cup report[p].todo \cup report[p].ok

InHand(s) ==
    \/ \E p \in Procs : cur[p].doc = s
    \/ s \in Reported("conversion") \cup Reported("run")

UserMay(s) ==
    /\ user < MaxUser
    /\ FilesWhileBusy \/ ~InHand(s)
    /\ user' = user + 1
    /\ UNCHANGED <<records, report, faults>>

\* The pictures a Markdown text refers to, and all those next to it.
Refs(s, text) == IF text = None THEN {} ELSE {DirOf[s]} \X Shown[text]
Beside(s) == {x \in images : x[1] = DirOf[s]}

PutPdf(s) ==
    /\ s \in PdfStems
    /\ UserMay(s)
    /\ pdf' = [pdf EXCEPT ![s] = user + 1]
    /\ UNCHANGED <<md, meta, images, theirs, pc, cur>>

\* The same through POST /api/rag/documents, which queues the conversion and
\* the indexing.
UploadPdf(s) ==
    /\ s \in PdfStems
    /\ pc["api"] = "idle"
    /\ UserMay(s)
    /\ pdf' = [pdf EXCEPT ![s] = user + 1]
    /\ pc' = [pc EXCEPT !["api"] = "queued"]
    /\ cur' = [cur EXCEPT !["api"] = [doc |-> s, text |-> None]]
    /\ UNCHANGED <<md, meta, images, theirs>>

\* PUT /api/rag/documents/{doc_id}: what is uploaded is written to the path of
\* the registered document, its Markdown, and a replacement is queued.
UpdateDoc(s) ==
    /\ s \in OwnStems
    /\ pc["api"] = "idle"
    /\ index[s] # None
    /\ UserMay(s)
    /\ md' = [md EXCEPT ![s] = Own]
    /\ theirs' = theirs \cup {s}
    /\ pc' = [pc EXCEPT !["api"] = "put"]
    /\ cur' = [cur EXCEPT !["api"] = [doc |-> s, text |-> None]]
    /\ UNCHANGED <<pdf, meta, images>>

RemovePdf(s) ==
    /\ pdf[s] # None
    /\ UserMay(s)
    /\ pdf' = [pdf EXCEPT ![s] = None]
    /\ UNCHANGED <<md, meta, images, theirs, pc, cur>>

\* Users write Markdown with its pictures, beside a PDF or not, or edit what
\* MinerU made.
WriteMd(s) ==
    /\ s \in OwnStems
    /\ UserMay(s)
    /\ md' = [md EXCEPT ![s] = Own]
    /\ images' = images \cup Refs(s, Own)
    /\ theirs' = theirs \cup {s}
    /\ UNCHANGED <<pdf, meta, pc, cur>>

RemoveMd(s) ==
    /\ s \in OwnStems
    /\ md[s] # None
    /\ UserMay(s)
    /\ md' = [md EXCEPT ![s] = None]
    /\ theirs' = theirs \cup {s}
    /\ UNCHANGED <<pdf, meta, images, pc, cur>>

-----------------------------------------------------------------------------
(* The files of a document, and the three cleanups *)

Fault(k) ==
    /\ k \in Faults
    /\ faults < MaxFaults
    /\ faults' = faults + 1

\* Seeded fault: the cleanup does not ask whether MinerU made the Markdown.
HasSidecarsOrMd(s) == md[s] # None

\* remove_mineru_sidecars_for_pdf: nothing without metadata; otherwise the
\* pictures the Markdown refers to, the Markdown and the metadata.
HasSidecars(s) == meta[s] # None

RemoveForPdfs(S) ==
    LET T == {s \in S : HasSidecars(s)}
    IN  /\ images' = images \ UNION {Refs(s, md[s]) : s \in T}
        /\ md' = [s \in Stems |-> IF s \in T THEN None ELSE md[s]]
        /\ meta' = [s \in Stems |-> IF s \in T THEN None ELSE meta[s]]

\* purge_for_doc_id: the files the manifest lists, and the entry.
Purge(s) ==
    /\ IF manifest[s] = None
       THEN UNCHANGED <<images, meta>>
       ELSE /\ images' = images \ manifest[s].pictures
            /\ meta' = IF manifest[s].meta THEN [meta EXCEPT ![s] = None] ELSE meta
    /\ manifest' = [manifest EXCEPT ![s] = None]

\* remove_mineru_sidecars_for_markdown, for a document without manifest entry:
\* by its text when it is there again, else all of images/.
RemoveForMarkdown(s) ==
    /\ images' = IF md[s] # None THEN images \ Refs(s, md[s])
                 ELSE IF meta[s] # None THEN images \ Beside(s)
                 ELSE images
    /\ md' = [md EXCEPT ![s] = None]
    /\ meta' = [meta EXCEPT ![s] = None]

\* _collect_artifact_paths: with metadata all pictures of the directory.
Collect(s, text) ==
    [meta     |-> meta[s] # None,
     pictures |-> (Refs(s, text) \cap images)
                  \cup (IF meta[s] # None THEN Beside(s) ELSE {})]

-----------------------------------------------------------------------------
(* Conversion: ConversionManager.run_incremental, and convert_path          *)

MayStart == OneTask => \A p \in Procs : pc[p] \in {"idle", "queued", "put"}

Goto(p, s) == pc' = [pc EXCEPT ![p] = s]
Take(p, s, text) == cur' = [cur EXCEPT ![p] = [doc |-> s, text |-> text]]
Drop(p) == cur' = [cur EXCEPT ![p] = NoDoc]
Gone == {s \in Stems : converted[s] # None /\ pdf[s] = None}

\* detect_conversion_changes.
StartConversion ==
    /\ pc["conversion"] = "idle"
    /\ MayStart
    /\ report' = [report EXCEPT !["conversion"] =
          [NoReport EXCEPT
             !.gone = Gone,
             !.todo = {s \in Stems : pdf[s] # None /\ pdf[s] # converted[s]}]]
    /\ Goto("conversion", "clean")
    /\ UNCHANGED <<disk, records, cur, user, faults>>

CleanRemovedPdfs ==
    /\ pc["conversion"] = "clean"
    /\ RemoveForPdfs(report["conversion"].gone)
    /\ Goto("conversion", "loop")
    /\ UNCHANGED <<pdf, theirs, records, cur, report, user, faults>>

\* ensure_pdf_markdown_beside_source: digest first; a Markdown whose metadata
\* has that digest is used again.
Reusable(s) == md[s] # None /\ meta[s] = pdf[s]

ConvertPdf(s) ==
    /\ pc["conversion"] = "loop"
    /\ s \in report["conversion"].todo
    /\ LET rest == report["conversion"].todo \ {s}
       IN  IF pdf[s] = None
           THEN /\ report' = [report EXCEPT !["conversion"].todo = rest]
                /\ UNCHANGED <<pc, cur>>
           ELSE IF Reusable(s)
           THEN /\ report' = [report EXCEPT !["conversion"].todo = rest,
                                            !["conversion"].ok = @ \cup {s}]
                /\ UNCHANGED <<pc, cur>>
           ELSE /\ report' = [report EXCEPT !["conversion"].todo = rest]
                /\ Goto("conversion", "mineru")
                /\ Take("conversion", s, pdf[s])
    /\ UNCHANGED <<disk, records, user, faults>>

\* add_document, first half: convert_path.  The conversion cache stays as it is.
StartUpload ==
    /\ pc["api"] = "queued"
    /\ MayStart
    /\ LET s == cur["api"].doc
       IN  IF pdf[s] = None
           THEN Goto("api", "idle") /\ Drop("api")
           ELSE IF Reusable(s)
           THEN Goto("api", "load") /\ UNCHANGED cur
           ELSE Goto("api", "mineru") /\ Take("api", s, pdf[s])
    /\ UNCHANGED <<disk, records, report, user, faults>>

\* update_document: no conversion.
StartUpdate ==
    /\ pc["api"] = "put"
    /\ MayStart
    /\ Goto("api", "replace")
    /\ UNCHANGED <<disk, records, cur, report, user, faults>>

\* MinerU ends: the Markdown is written over whatever stands there, the
\* pictures are copied.
MineruDone(p) ==
    /\ pc[p] = "mineru"
    /\ LET s == cur[p].doc
           v == cur[p].text
       IN  \/ /\ md' = [md EXCEPT ![s] = v]
              /\ images' = images \cup Refs(s, v)
              /\ theirs' = theirs \ {s}
              /\ Goto(p, "meta")
              /\ UNCHANGED <<cur, faults>>
           \/ /\ Fault("convert")
              /\ Goto(p, IF p = "api" THEN "idle" ELSE "loop")
              /\ Drop(p)
              /\ UNCHANGED <<md, images, theirs>>
    /\ UNCHANGED <<pdf, meta, records, report, user>>

\* Then the metadata.  An upload goes on with the index.
WriteMeta(p) ==
    /\ pc[p] = "meta"
    /\ LET s == cur[p].doc
       IN  /\ meta' = [meta EXCEPT ![s] = cur[p].text]
           /\ IF p = "api"
              THEN Goto(p, "load") /\ UNCHANGED <<cur, report>>
              ELSE /\ Goto(p, "loop")
                   /\ Drop(p)
                   /\ report' = [report EXCEPT ![p].ok = @ \cup {s}]
    /\ UNCHANGED <<pdf, md, images, theirs, records, user, faults>>

\* Seeded fault: what was to be converted counts as converted.
VouchForAll(s) == pdf[s] # None

\* A PDF is recorded with the digest it has at the end.
VouchedFor(s) == s \in report["conversion"].ok /\ pdf[s] # None

SaveConversionCache ==
    /\ pc["conversion"] = "loop"
    /\ report["conversion"].todo = {}
    /\ converted' = [s \in Stems |->
          IF VouchedFor(s) THEN pdf[s]
          ELSE IF s \in report["conversion"].gone THEN None ELSE converted[s]]
    /\ report' = [report EXCEPT !["conversion"] = NoReport]
    /\ Goto("conversion", "idle")
    /\ UNCHANGED <<disk, hashed, index, manifest, cur, user, faults>>

-----------------------------------------------------------------------------
(* The index run, and the second half of an upload *)

\* The sidecars of removed PDFs go first.
StartRun ==
    /\ pc["run"] = "idle"
    /\ MayStart
    /\ report' = [report EXCEPT !["run"].gone = Gone]
    /\ RemoveForPdfs(Gone)
    /\ Goto("run", "clean")
    /\ UNCHANGED <<pdf, theirs, records, cur, user, faults>>

RemovedMds == {s \in Stems : hashed[s] # None /\ md[s] = None}

\* They leave the conversion cache; then the Markdown files are compared with
\* the hash cache and with full_docs.
ForgetPdfs ==
    /\ pc["run"] = "clean"
    /\ converted' = [s \in Stems |->
          IF s \in report["run"].gone THEN None ELSE converted[s]]
    /\ report' = [report EXCEPT !["run"] =
          [NoReport EXCEPT
             !.gone = RemovedMds,
             !.left = RemovedMds,
             !.todo = {s \in Stems : /\ md[s] # None
                                     /\ md[s] # hashed[s] \/ index[s] = None}]]
    /\ Goto("run", "loop")
    /\ UNCHANGED <<disk, hashed, index, manifest, cur, user, faults>>

\* A removed Markdown file: index entry, registry and what the manifest lists.
RemoveDoc(s) ==
    /\ pc["run"] = "loop"
    /\ s \in report["run"].left
    /\ report' = [report EXCEPT !["run"].left = @ \ {s}]
    /\ index' = [index EXCEPT ![s] = None]
    /\ IF manifest[s] # None
       THEN Purge(s) /\ UNCHANGED md
       ELSE RemoveForMarkdown(s) /\ UNCHANGED manifest
    /\ UNCHANGED <<pdf, theirs, converted, hashed, pc, cur, user, faults>>

\* A new or changed one is loaded, and what there was of it deleted.
LoadDoc(p, s) ==
    /\ \/ /\ p = "run" /\ pc[p] = "loop"
          /\ report[p].left = {} /\ s \in report[p].todo
       \/ p = "api" /\ pc[p] = "load" /\ s = cur[p].doc
    /\ report' = IF p = "run" THEN [report EXCEPT ![p].todo = @ \ {s}] ELSE report
    /\ IF md[s] = None
       THEN /\ Goto(p, IF p = "run" THEN "loop" ELSE "idle")
            /\ Drop(p)
            /\ UNCHANGED <<images, meta, index, manifest>>
       ELSE /\ Take(p, s, md[s])
            /\ Goto(p, "insert")
            /\ IF index[s] = None \/ (p = "run" /\ hashed[s] # None)
               THEN Purge(s) /\ index' = [index EXCEPT ![s] = None]
               ELSE UNCHANGED <<images, meta, index, manifest>>
    /\ UNCHANGED <<pdf, md, theirs, converted, hashed, user, faults>>

\* ingest_path with replace: what there was is deleted first.
ReplaceDoc(s) ==
    /\ pc["api"] = "replace" /\ s = cur["api"].doc
    /\ Purge(s)
    /\ index' = [index EXCEPT ![s] = None]
    /\ IF md[s] = None
       THEN Goto("api", "idle") /\ Drop("api")
       ELSE Goto("api", "insert") /\ Take("api", s, md[s])
    /\ UNCHANGED <<pdf, md, theirs, converted, hashed, report, user, faults>>

\* ainsert; then the registry and the manifest.
InsertDoc(p) ==
    /\ pc[p] = "insert"
    /\ LET s == cur[p].doc
           text == cur[p].text
       IN  \/ /\ index' = [index EXCEPT ![s] = text]
              /\ manifest' = [manifest EXCEPT ![s] = Collect(s, text)]
              /\ hashed' = IF p = "api" /\ md[s] # None
                           THEN [hashed EXCEPT ![s] = md[s]] ELSE hashed
              /\ report' = IF p = "run" THEN [report EXCEPT ![p].ok = @ \cup {s}]
                           ELSE report
              /\ UNCHANGED faults
           \/ Fault("insert") /\ UNCHANGED <<index, manifest, hashed, report>>
    /\ Goto(p, IF p = "run" THEN "loop" ELSE "idle")
    /\ Drop(p)
    /\ UNCHANGED <<disk, converted, user>>

SaveHashCache ==
    /\ pc["run"] = "loop"
    /\ report["run"].left = {} /\ report["run"].todo = {}
    /\ hashed' = [s \in Stems |->
          IF s \in report["run"].ok /\ md[s] # None THEN md[s]
          ELSE IF s \in report["run"].gone THEN None ELSE hashed[s]]
    /\ report' = [report EXCEPT !["run"] = NoReport]
    /\ Goto("run", "idle")
    /\ UNCHANGED <<disk, converted, index, manifest, cur, user, faults>>

\* delete_document_by_id: what the manifest lists, or the metadata alone.
DeleteDoc(s) ==
    /\ s \in DeleteStems
    /\ user < MaxUser
    /\ user' = user + 1
    /\ IF manifest[s] # None
       THEN Purge(s)
       ELSE /\ meta' = IF index[s] # None THEN [meta EXCEPT ![s] = None] ELSE meta
            /\ UNCHANGED <<images, manifest>>
    /\ index' = [index EXCEPT ![s] = None]
    /\ UNCHANGED <<pdf, md, theirs, converted, hashed, work, faults>>

\* A process is killed: the conversion, or the service with run and upload.
Crash(S) ==
    /\ \E p \in S : pc[p] # "idle"
    /\ Fault("crash")
    /\ pc' = [p \in Procs |-> IF p \in S THEN "idle" ELSE pc[p]]
    /\ cur' = [p \in Procs |-> IF p \in S THEN NoDoc ELSE cur[p]]
    /\ report' = [p \in {"conversion", "run"} |->
                    IF p \in S THEN NoReport ELSE report[p]]
    /\ UNCHANGED <<disk, records, user>>

-----------------------------------------------------------------------------

ConversionStep ==
    \/ StartConversion \/ CleanRemovedPdfs \/ SaveConversionCache
    \/ MineruDone("conversion") \/ WriteMeta("conversion")
    \/ \E s \in Stems : ConvertPdf(s)

RunStep ==
    \/ StartRun \/ ForgetPdfs \/ SaveHashCache \/ InsertDoc("run")
    \/ \E s \in Stems : RemoveDoc(s) \/ LoadDoc("run", s)

UploadStep ==
    \/ StartUpload \/ StartUpdate
    \/ MineruDone("api") \/ WriteMeta("api") \/ InsertDoc("api")
    \/ \E s \in Stems : LoadDoc("api", s) \/ ReplaceDoc(s)

UserStep(s) ==
    \/ PutPdf(s) \/ UploadPdf(s) \/ RemovePdf(s)
    \/ WriteMd(s) \/ RemoveMd(s) \/ UpdateDoc(s) \/ DeleteDoc(s)

Next ==
    \/ ConversionStep \/ RunStep \/ UploadStep
    \/ \E s \in Stems : UserStep(s)
    \/ \E S \in Dying : Crash(S)

Spec == Init /\ [][Next]_vars

(***************************************************************************)
(* Fairness: conversions and index runs recur (cron) and what has begun    *)
(* goes on; the task queue is first in, first out, so that each of them    *)
(* gets its turn (SF).                                                     *)
(***************************************************************************)
Fairness == SF_vars(ConversionStep) /\ SF_vars(RunStep) /\ SF_vars(UploadStep)

FairSpec == Spec /\ Fairness

-----------------------------------------------------------------------------

(***************************************************************************)
(* A PDF the conversion cache vouches for has been converted: its Markdown *)
(* is there and comes from its content, unless a user has changed or       *)
(* deleted that since.  No later conversion looks at it.                   *)
(***************************************************************************)
ConvertedIsCurrent ==
    \A s \in Stems :
        /\ ~InHand(s) /\ s \notin theirs
        /\ pdf[s] # None /\ converted[s] = pdf[s]
        => md[s] = pdf[s]

(***************************************************************************)
(* No PDF stays unconverted for ever, unless a user takes its Markdown in  *)
(* hand.                                                                   *)
(***************************************************************************)
EventuallyConverted ==
    \A s \in Stems : []<>(pdf[s] # None /\ s \notin theirs => md[s] = pdf[s])

(***************************************************************************)
(* The pictures an indexed Markdown file refers to are on disk when it is  *)
(* at rest: the manifest lists the files "to be deleted when the document  *)
(* is deleted".  The code breaks it: it deletes them when the document is  *)
(* updated as well, and what the new text shows too is among them; no run  *)
(* asks for it.                                                            *)
(***************************************************************************)
PicturesPresent ==
    \A s \in Stems :
        ~InHand(s) /\ index[s] # None /\ index[s] = md[s]
        => Refs(s, md[s]) \subseteq images

(***************************************************************************)
(* Markdown that a user wrote, or edited, goes only by its user, by the    *)
(* conversion of a PDF of that name, or, when that PDF is gone, beside     *)
(* metadata that says MinerU had made it; whatever runs, updates, deletes  *)
(* through the API and kills have done to manifest and metadata before.    *)
(***************************************************************************)
OwnMarkdownKept ==
    [][\A s \in Stems :
          md[s] = Own /\ md'[s] # Own =>
              \/ user' = user + 1
              \/ \E p \in Procs : pc[p] = "mineru" /\ cur[p].doc = s
              \/ pdf[s] = None /\ meta[s] # None]_vars

=============================================================================
