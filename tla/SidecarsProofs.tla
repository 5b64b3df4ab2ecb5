--------------------------- MODULE SidecarsProofs ---------------------------
(***************************************************************************)
(* What holds of the files beside the PDFs for every set of documents,     *)
(* every number of user steps and every number of failures.                *)
(***************************************************************************)
EXTENDS Sidecars, TLAPS

Maybe(S) == S \cup {None}
Contents == Versions \cup {None, Own}
Steps == {"idle", "queued", "put", "clean", "loop", "mineru", "meta", "load",
          "replace", "insert"}
Reports == [gone : SUBSET Stems, left : SUBSET Stems,
            todo : SUBSET Stems, ok : SUBSET Stems]
Artifacts == [meta : BOOLEAN, pictures : SUBSET Pictures]

DiskOK ==
    /\ pdf \in [Stems -> Maybe(Versions)]
    /\ md \in [Stems -> Contents]
    /\ meta \in [Stems -> Maybe(Versions)]
    /\ images \in SUBSET Pictures
    /\ theirs \in SUBSET Stems

RecordsOK ==
    /\ converted \in [Stems -> Maybe(Versions)]
    /\ hashed \in [Stems -> Contents]
    /\ index \in [Stems -> Contents]
    /\ manifest \in [Stems -> Maybe(Artifacts)]

WorkOK ==
    /\ pc \in [Procs -> Steps]
    /\ cur \in [Procs -> [doc : Maybe(Stems), text : Contents]]
    /\ report \in [{"conversion", "run"} -> Reports]

CountersOK == user \in 0..MaxUser /\ faults \in 0..MaxFaults

TypeOK == DiskOK /\ RecordsOK /\ WorkOK /\ CountersOK

(***************************************************************************)
(* For OwnMarkdownKept.  The PDFs a conversion has found gone do not come  *)
(* back while it cleans up, and a run that has found a Markdown file       *)
(* removed finds no new one of a user.                                     *)
(***************************************************************************)
Converting(p) == pc[p] \in {"mineru", "meta"}

JobOK ==
    \A p \in Procs :
        /\ pc[p] \in {"queued", "put", "mineru", "meta", "load", "replace", "insert"}
              => cur[p].doc \in Stems
        /\ Converting(p) => cur[p].text \in Versions
        /\ pc[p] = "insert" => cur[p].text # None

OwnApart ==
    /\ \A s \in report["conversion"].gone : pdf[s] = None
    /\ \A s \in report["run"].left : md[s] # Own

LeftReported ==
    /\ report["run"].left \subseteq report["run"].gone
    /\ report["run"].left # {} => pc["run"] \in {"loop", "insert"}

OInv == TypeOK /\ JobOK /\ OwnApart /\ LeftReported

(***************************************************************************)
(* For ConvertedIsCurrent.  One process is at work at a time; PDFs are     *)
(* newer than everything made of earlier ones.                             *)
(***************************************************************************)
Busy(p) == pc[p] \notin {"idle", "queued", "put"}

Alone == \A p, q \in Procs : Busy(p) /\ Busy(q) => p = q

ReportsTidy ==
    /\ \A p \in {"conversion", "run"} : pc[p] = "idle" => report[p] = NoReport
    /\ pc["run"] = "clean" => report["run"].left = {} /\ report["run"].todo = {}
                              /\ report["run"].ok = {}
    /\ pc["run"] # "clean" => \A s \in report["run"].gone : md[s] = None
    /\ pc["run"] \in {"idle", "clean", "loop", "insert"}
    /\ pc["conversion"] \in {"idle", "clean", "loop", "mineru", "meta"}

Fresh ==
    \A s \in Stems : /\ pdf[s] # None => pdf[s] <= user
                     /\ converted[s] # None => converted[s] <= user
                     /\ meta[s] # None => meta[s] <= user

FromPdf(s) == md[s] = pdf[s] \/ s \in theirs

ConvertedOK ==
    \A s \in Stems :
        pdf[s] # None =>
            /\ meta[s] = pdf[s] => md[s] = None \/ FromPdf(s)
            /\ converted[s] = pdf[s] => FromPdf(s)
            /\ s \in report["conversion"].ok => FromPdf(s)

ConversionOK ==
    \A p \in Procs :
        Converting(p) => /\ pdf[cur[p].doc] = cur[p].text
                         /\ pc[p] = "meta" => md[cur[p].doc] = cur[p].text

CInv == OInv /\ Alone /\ ReportsTidy /\ Fresh /\ ConvertedOK /\ ConversionOK

-----------------------------------------------------------------------------
(* What the steps do to reports, jobs and program counters *)

\* The bounds are numbers, and None and Own are no versions.
LEMMA Constants ==
  /\ MaxUser \in Nat /\ MaxFaults \in Nat
  /\ None \notin Versions /\ Own \notin Versions /\ Own # None /\ None \notin Stems
  /\ \A v \in Versions : v \in Nat
BY SidecarsAssumption DEF Versions

\* Moving on, with or without a document.
LEMMA GotoEffect ==
  ASSUME WorkOK, NEW p \in Procs, NEW s \in Steps, Goto(p, s)
  PROVE  /\ pc' \in [Procs -> Steps]
         /\ pc'[p] = s
         /\ \A q \in Procs : q # p => pc'[q] = pc[q]
BY DEF Goto, WorkOK

LEMMA TakeEffect ==
  ASSUME WorkOK, NEW p \in Procs, NEW s \in Stems, NEW t \in Contents, Take(p, s, t)
  PROVE  /\ cur' \in [Procs -> [doc : Maybe(Stems), text : Contents]]
         /\ cur'[p].doc = s /\ cur'[p].text = t
         /\ \A q \in Procs : q # p => cur'[q] = cur[q]
<1> DEFINE c == [doc |-> s, text |-> t]
<1>1. c.doc = s /\ c.text = t /\ c \in [doc : Maybe(Stems), text : Contents]
  BY DEF Maybe
<1>2. cur' = [cur EXCEPT ![p] = c]
  BY DEF Take
<1> HIDE DEF c
<1>3. QED  BY <1>1, <1>2 DEF WorkOK

LEMMA DropEffect ==
  ASSUME WorkOK, NEW p \in Procs, Drop(p)
  PROVE  /\ cur' \in [Procs -> [doc : Maybe(Stems), text : Contents]]
         /\ cur'[p] = NoDoc
         /\ \A q \in Procs : q # p => cur'[q] = cur[q]
<1>1. NoDoc \in [doc : Maybe(Stems), text : Contents]
  BY DEF NoDoc, Maybe, Contents
<1>2. QED  BY <1>1 DEF Drop, WorkOK

\* A report that is replaced.
LEMMA NewReport ==
  ASSUME WorkOK, NEW p \in {"conversion", "run"}, NEW r \in Reports,
         report' = [report EXCEPT ![p] = r]
  PROVE  /\ report' \in [{"conversion", "run"} -> Reports]
         /\ report'[p] = r
         /\ \A q \in {"conversion", "run"} : q # p => report'[q] = report[q]
BY DEF WorkOK

LEMMA NoReportType == NoReport \in Reports
BY DEF NoReport, Reports

\* The conversion finds the PDFs that are gone and those that are new.
LEMMA StartConversionReport ==
  ASSUME WorkOK, StartConversion
  PROVE  /\ report' \in [{"conversion", "run"} -> Reports]
         /\ report'["run"] = report["run"]
         /\ report'["conversion"].gone = Gone
         /\ report'["conversion"].ok = {}
<1> DEFINE r == [NoReport EXCEPT
             !.gone = Gone,
             !.todo = {s \in Stems : pdf[s] # None /\ pdf[s] # converted[s]}]
<1>1. r \in Reports /\ r.gone = Gone /\ r.ok = {}
  BY DEF NoReport, Reports, Gone
<1>2. report' = [report EXCEPT !["conversion"] = r]
  BY DEF StartConversion
<1> HIDE DEF r
<1>3. QED  BY <1>1, <1>2, NewReport

\* One PDF less to do, and perhaps one more converted.
LEMMA ConvertReport ==
  ASSUME WorkOK, NEW s \in Stems, ConvertPdf(s)
  PROVE  /\ report' \in [{"conversion", "run"} -> Reports]
         /\ report'["run"] = report["run"]
         /\ report'["conversion"].gone = report["conversion"].gone
         /\ \/ report'["conversion"].ok = report["conversion"].ok
            \/ /\ report'["conversion"].ok = report["conversion"].ok \cup {s}
               /\ Reusable(s)
BY DEF WorkOK, ConvertPdf, Reports

LEMMA MetaReport ==
  ASSUME WorkOK, NEW p \in {"conversion", "api"}, WriteMeta(p), cur[p].doc \in Stems
  PROVE  /\ report' \in [{"conversion", "run"} -> Reports]
         /\ report'["run"] = report["run"]
         /\ report'["conversion"].gone = report["conversion"].gone
         /\ \/ report'["conversion"].ok = report["conversion"].ok
            \/ report'["conversion"].ok = report["conversion"].ok \cup {cur[p].doc}
BY DEF WorkOK, WriteMeta, Reports

LEMMA StartRunReport ==
  ASSUME WorkOK, StartRun
  PROVE  /\ report' \in [{"conversion", "run"} -> Reports]
         /\ report'["conversion"] = report["conversion"]
         /\ report'["run"].gone = Gone
         /\ report'["run"].left = report["run"].left
         /\ report'["run"].todo = report["run"].todo
         /\ report'["run"].ok = report["run"].ok
BY DEF WorkOK, StartRun, Reports, Gone

LEMMA ForgetReport ==
  ASSUME WorkOK, ForgetPdfs
  PROVE  /\ report' \in [{"conversion", "run"} -> Reports]
         /\ report'["conversion"] = report["conversion"]
         /\ report'["run"].gone = RemovedMds
         /\ report'["run"].left = RemovedMds
         /\ report'["run"].todo = {s \in Stems : /\ md[s] # None
                                                 /\ md[s] # hashed[s] \/ index[s] = None}
         /\ report'["run"].ok = {}
<1> DEFINE t == {s \in Stems : md[s] # None /\ (md[s] # hashed[s] \/ index[s] = None)}
           r == [NoReport EXCEPT !.gone = RemovedMds, !.left = RemovedMds, !.todo = t]
<1>1. r \in Reports /\ r.gone = RemovedMds /\ r.left = RemovedMds /\ r.todo = t /\ r.ok = {}
  BY DEF NoReport, Reports, RemovedMds
<1>2. report' = [report EXCEPT !["run"] = r]
  BY DEF ForgetPdfs
<1> HIDE DEF r
<1>3. QED  BY <1>1, <1>2, NewReport

LEMMA RemoveReport ==
  ASSUME WorkOK, NEW s \in Stems, RemoveDoc(s)
  PROVE  /\ report' \in [{"conversion", "run"} -> Reports]
         /\ report'["conversion"] = report["conversion"]
         /\ report'["run"].gone = report["run"].gone
         /\ report'["run"].left = report["run"].left \ {s}
         /\ report'["run"].todo = report["run"].todo
         /\ report'["run"].ok = report["run"].ok
BY DEF WorkOK, RemoveDoc, Reports

LEMMA LoadReport ==
  ASSUME WorkOK, NEW p \in {"run", "api"}, NEW s \in Stems, LoadDoc(p, s)
  PROVE  /\ report' \in [{"conversion", "run"} -> Reports]
         /\ report'["conversion"] = report["conversion"]
         /\ report'["run"].gone = report["run"].gone
         /\ report'["run"].left = report["run"].left
         /\ report'["run"].todo = (IF p = "run" THEN report["run"].todo \ {s}
                                   ELSE report["run"].todo)
         /\ report'["run"].ok = report["run"].ok
BY DEF WorkOK, LoadDoc, Reports

LEMMA InsertReport ==
  ASSUME WorkOK, NEW p \in {"run", "api"}, InsertDoc(p), cur[p].doc \in Stems
  PROVE  /\ report' \in [{"conversion", "run"} -> Reports]
         /\ report'["conversion"] = report["conversion"]
         /\ report'["run"].gone = report["run"].gone
         /\ report'["run"].left = report["run"].left
         /\ report'["run"].todo = report["run"].todo
         /\ \/ report'["run"].ok = report["run"].ok
            \/ p = "run" /\ report'["run"].ok = report["run"].ok \cup {cur[p].doc}
BY DEF WorkOK, InsertDoc, Reports

-----------------------------------------------------------------------------
(* Types, jobs and the Markdown of users *)

\* The processes of a step stand where the step begins.
LEMMA ProcTypes == "conversion" \in Procs /\ "run" \in Procs /\ "api" \in Procs
BY DEF Procs

\* What a version refers to lies in the directory of its document.
LEMMA RefsOf ==
  ASSUME NEW s \in Stems, NEW t \in Contents
  PROVE  Refs(s, t) \in SUBSET Pictures
BY SidecarsAssumption DEF Refs, Pictures, Contents, Texts

\* What users do, as far as the invariants are concerned.
Users(s) ==
    \/ PutPdf(s) \/ UploadPdf(s) \/ RemovePdf(s)
    \/ WriteMd(s) \/ RemoveMd(s) \/ UpdateDoc(s)

LEMMA UserEffect ==
  ASSUME TypeOK, ~FilesWhileBusy, NEW s \in Stems, Users(s)
  PROVE  /\ ~InHand(s)
         /\ user < MaxUser /\ user' = user + 1
         /\ UNCHANGED <<meta, records, report, faults>>
         /\ images' \in SUBSET Pictures
         /\ theirs' \in SUBSET Stems /\ theirs \subseteq theirs'
         /\ pdf' \in [Stems -> Maybe(Versions)] /\ md' \in [Stems -> Contents]
         /\ \A t \in Stems : t # s => pdf'[t] = pdf[t] /\ md'[t] = md[t]
         /\ \/ md' = md /\ pdf'[s] = user + 1
            \/ md' = md /\ pdf'[s] = None
            \/ pdf' = pdf /\ md'[s] \in {Own, None} /\ s \in theirs'
         /\ \/ UNCHANGED <<pc, cur>>
            \/ /\ pc["api"] = "idle" /\ pc'["api"] \in {"queued", "put"} /\ cur'["api"].doc = s
               /\ pc' \in [Procs -> Steps]
               /\ cur' \in [Procs -> [doc : Maybe(Stems), text : Contents]]
               /\ \A p \in Procs : p # "api" => pc'[p] = pc[p] /\ cur'[p] = cur[p]
<1> USE DEF Users
<1>1. /\ ~InHand(s) /\ user < MaxUser /\ user' = user + 1
      /\ UNCHANGED <<meta, records, report, faults>>
  BY DEF PutPdf, UploadPdf, RemovePdf, WriteMd, RemoveMd, UpdateDoc, UserMay
<1>2. user + 1 \in Versions
  BY <1>1, Constants DEF TypeOK, CountersOK, Versions
<1>3. images' \in SUBSET Pictures /\ theirs' \in SUBSET Stems /\ theirs \subseteq theirs'
  <2>1. Refs(s, Own) \in SUBSET Pictures
    BY RefsOf DEF Contents
  <2>2. \/ images' = images \/ images' = images \cup Refs(s, Own)
    BY DEF PutPdf, UploadPdf, RemovePdf, WriteMd, RemoveMd, UpdateDoc
  <2>3. theirs' = theirs \/ theirs' = theirs \cup {s}
    BY DEF PutPdf, UploadPdf, RemovePdf, WriteMd, RemoveMd, UpdateDoc
  <2>4. QED  BY <2>1, <2>2, <2>3 DEF TypeOK, DiskOK
<1>4. /\ pdf' \in [Stems -> Maybe(Versions)] /\ md' \in [Stems -> Contents]
      /\ \A t \in Stems : t # s => pdf'[t] = pdf[t] /\ md'[t] = md[t]
  BY <1>2 DEF PutPdf, UploadPdf, RemovePdf, WriteMd, RemoveMd, UpdateDoc, TypeOK, DiskOK,
     Maybe, Contents
<1>5. \/ md' = md /\ pdf'[s] = user + 1
      \/ md' = md /\ pdf'[s] = None
      \/ pdf' = pdf /\ md'[s] \in {Own, None} /\ s \in theirs'
  BY DEF PutPdf, UploadPdf, RemovePdf, WriteMd, RemoveMd, UpdateDoc, TypeOK, DiskOK
<1>6. CASE UploadPdf(s) \/ UpdateDoc(s)
  <2> DEFINE c == [doc |-> s, text |-> None]
  <2>1. c.doc = s /\ c \in [doc : Maybe(Stems), text : Contents]
    BY DEF Maybe, Contents
  <2>2. /\ cur' = [cur EXCEPT !["api"] = c] /\ pc["api"] = "idle"
        /\ \/ pc' = [pc EXCEPT !["api"] = "queued"]
           \/ pc' = [pc EXCEPT !["api"] = "put"]
    BY <1>6 DEF UploadPdf, UpdateDoc
  <2> HIDE DEF c
  <2>3. /\ pc'["api"] \in {"queued", "put"} /\ cur'["api"].doc = s
        /\ pc' \in [Procs -> Steps]
        /\ cur' \in [Procs -> [doc : Maybe(Stems), text : Contents]]
        /\ \A p \in Procs : p # "api" => pc'[p] = pc[p] /\ cur'[p] = cur[p]
    BY <2>1, <2>2 DEF TypeOK, WorkOK, Procs, Steps
  <2>4. QED  BY <1>1, <1>3, <1>4, <1>5, <2>2, <2>3
<1>7. CASE UNCHANGED <<pc, cur>>
  BY <1>1, <1>3, <1>4, <1>5, <1>7
<1>8. QED  BY <1>6, <1>7 DEF PutPdf, RemovePdf, WriteMd, RemoveMd

\* Users keep it.
LEMMA UserOwn ==
  ASSUME OInv, ~FilesWhileBusy, NEW s \in Stems, Users(s)
  PROVE  OInv'
<1>0. TypeOK /\ JobOK
  BY DEF OInv
<1>1. TypeOK'
  <2>1. DiskOK' /\ RecordsOK'
    BY <1>0, UserEffect DEF TypeOK, DiskOK, RecordsOK, records
  <2>2. WorkOK'
    BY <1>0, UserEffect DEF TypeOK, WorkOK
  <2>3. CountersOK'
    BY <1>0, UserEffect, Constants DEF TypeOK, CountersOK
  <2>4. QED  BY <2>1, <2>2, <2>3 DEF TypeOK
<1>2. JobOK'
  BY <1>0, UserEffect DEF JobOK, Converting
<1>3. OwnApart'
  <2>1. s \notin report["run"].left /\ s \notin report["conversion"].gone
    BY <1>0, UserEffect DEF InHand, Reported, OInv, LeftReported
  <2>2. UNCHANGED report
    BY <1>0, UserEffect
  <2>3. report["run"].left \subseteq Stems /\ report["conversion"].gone \subseteq Stems
    BY <1>0 DEF TypeOK, WorkOK, Reports
  <2>4. QED  BY <1>0, <2>1, <2>2, <2>3, UserEffect DEF OInv, OwnApart
<1>4. LeftReported'
  BY <1>0, UserEffect, ProcTypes DEF OInv, LeftReported
<1>5. QED  BY <1>1, <1>2, <1>3, <1>4 DEF OInv

\* Purging what the manifest lists keeps the types.
LEMMA PurgeEffect ==
  ASSUME TypeOK, NEW s \in Stems, Purge(s)
  PROVE  /\ images' \in SUBSET Pictures /\ images' \subseteq images
         /\ meta' \in [Stems -> Maybe(Versions)]
         /\ \A t \in Stems : meta'[t] = meta[t] \/ meta'[t] = None
         /\ manifest' \in [Stems -> Maybe(Artifacts)]
         /\ manifest'[s] = None
         /\ \A t \in Stems : t # s => manifest'[t] = manifest[t]
BY DEF Purge, TypeOK, DiskOK, RecordsOK, Maybe

\* A deletion keeps it.
LEMMA DeleteOwn ==
  ASSUME OInv, NEW s \in Stems, DeleteDoc(s)
  PROVE  OInv'
<1>0. TypeOK /\ JobOK
  BY DEF OInv
<1>1. /\ images' \in SUBSET Pictures
      /\ meta' \in [Stems -> Maybe(Versions)]
      /\ \A t \in Stems : meta'[t] = meta[t] \/ meta'[t] = None
      /\ manifest' \in [Stems -> Maybe(Artifacts)]
  BY <1>0, PurgeEffect DEF DeleteDoc, TypeOK, DiskOK, RecordsOK, Maybe
<1>2. UNCHANGED <<pdf, md, theirs, converted, hashed, pc, cur, report, faults>>
      /\ user < MaxUser /\ user' = user + 1 /\ index' = [index EXCEPT ![s] = None]
  BY DEF DeleteDoc, work
<1>3. TypeOK'
  <2>1. DiskOK' /\ RecordsOK' /\ WorkOK'
    BY <1>0, <1>1, <1>2 DEF TypeOK, DiskOK, RecordsOK, WorkOK, Contents
  <2>2. CountersOK'
    BY <1>0, <1>2, Constants DEF TypeOK, CountersOK
  <2>3. QED  BY <2>1, <2>2 DEF TypeOK
<1>4. JobOK' /\ LeftReported'
  BY <1>0, <1>2 DEF OInv, JobOK, LeftReported, Converting
<1>5. OwnApart'
  BY <1>1, <1>2 DEF OInv, OwnApart, Converting
<1>6. QED  BY <1>3, <1>4, <1>5 DEF OInv

\* remove_mineru_sidecars_for_pdf deletes Markdown with metadata only.
LEMMA RemoveForPdfsEffect ==
  ASSUME TypeOK, NEW S \in SUBSET Stems, RemoveForPdfs(S)
  PROVE  /\ images' \in SUBSET Pictures /\ images' \subseteq images
         /\ md' \in [Stems -> Contents]
         /\ meta' \in [Stems -> Maybe(Versions)]
         /\ \A t \in Stems :
               \/ md'[t] = md[t] /\ meta'[t] = meta[t]
               \/ t \in S /\ meta[t] # None /\ md'[t] = None /\ meta'[t] = None
<1> DEFINE T == {s \in S : HasSidecars(s)}
<1>1. /\ images' = images \ UNION {Refs(s, md[s]) : s \in T}
      /\ md' = [s \in Stems |-> IF s \in T THEN None ELSE md[s]]
      /\ meta' = [s \in Stems |-> IF s \in T THEN None ELSE meta[s]]
  BY DEF RemoveForPdfs
<1>2. images' \in SUBSET Pictures /\ images' \subseteq images
  BY <1>1 DEF TypeOK, DiskOK
<1>3. \A t \in T : t \in S /\ meta[t] # None
  BY DEF HasSidecars
<1> HIDE DEF T
<1>4. md' \in [Stems -> Contents] /\ meta' \in [Stems -> Maybe(Versions)]
  BY <1>1 DEF TypeOK, DiskOK, Contents, Maybe
<1>5. \A t \in Stems :
         \/ md'[t] = md[t] /\ meta'[t] = meta[t]
         \/ t \in S /\ meta[t] # None /\ md'[t] = None /\ meta'[t] = None
  BY <1>1, <1>3
<1>6. QED  BY <1>2, <1>4, <1>5

\* A process that moves on keeps the jobs of the others.
LEMMA JobMoved ==
  ASSUME JobOK, NEW p \in Procs,
         \A q \in Procs : q # p => pc'[q] = pc[q] /\ cur'[q] = cur[q],
         pc'[p] \in {"queued", "put", "mineru", "meta", "load", "replace", "insert"}
            => cur'[p].doc \in Stems,
         pc'[p] \in {"mineru", "meta"} => cur'[p].text \in Versions,
         pc'[p] = "insert" => cur'[p].text # None
  PROVE  JobOK'
BY DEF JobOK, Converting

\* So do the steps that begin, clean up and end a conversion or a run.
LEMMA PhaseMoved ==
  ASSUME JobOK, WorkOK, NEW p \in Procs, UNCHANGED cur,
         NEW s \in {"idle", "clean", "loop"}, Goto(p, s)
  PROVE  /\ JobOK'
         /\ pc' \in [Procs -> Steps]
         /\ pc'[p] = s /\ \A q \in Procs : q # p => pc'[q] = pc[q]
         /\ \A q \in Procs : Converting(q)' => Converting(q)
<1>1. s \in Steps
  BY DEF Steps
<1>2. /\ pc' \in [Procs -> Steps] /\ pc'[p] = s
      /\ \A q \in Procs : q # p => pc'[q] = pc[q]
  BY <1>1, GotoEffect
<1>3. JobOK'
  BY <1>2, JobMoved
<1>4. \A q \in Procs : Converting(q)' => Converting(q)
  BY <1>2 DEF Converting
<1>5. QED  BY <1>2, <1>3, <1>4

\* A conversion begins.
LEMMA StartConversionOwn ==
  ASSUME OInv, StartConversion
  PROVE  OInv'
<1>0. TypeOK /\ WorkOK /\ JobOK /\ Goto("conversion", "clean") /\ UNCHANGED <<disk, records, cur, user, faults>>
  BY DEF OInv, TypeOK, StartConversion
<1>1. /\ JobOK' /\ pc' \in [Procs -> Steps] /\ pc'["run"] = pc["run"]
      /\ \A q \in Procs : Converting(q)' => Converting(q)
  BY <1>0, PhaseMoved, ProcTypes
<1>2. WorkOK'
  BY <1>0, <1>1, StartConversionReport DEF WorkOK
<1>3. TypeOK'
  BY <1>0, <1>2 DEF TypeOK, DiskOK, RecordsOK, CountersOK, disk, records
<1>4. OwnApart' /\ LeftReported'
  BY <1>0, <1>1, StartConversionReport DEF OInv, OwnApart, LeftReported, Gone, disk
<1>5. QED  BY <1>1, <1>3, <1>4 DEF OInv

\* The sidecars of removed PDFs go.
LEMMA CleanOwn ==
  ASSUME OInv, CleanRemovedPdfs
  PROVE  OInv'
<1>0. /\ TypeOK /\ WorkOK /\ JobOK /\ Goto("conversion", "loop")
      /\ UNCHANGED <<pdf, theirs, records, cur, report, user, faults>>
      /\ report["conversion"].gone \in SUBSET Stems
      /\ RemoveForPdfs(report["conversion"].gone)
  BY DEF OInv, TypeOK, WorkOK, Reports, CleanRemovedPdfs
<1>1. /\ JobOK' /\ pc' \in [Procs -> Steps] /\ pc'["run"] = pc["run"]
      /\ \A q \in Procs : Converting(q)' => Converting(q)
  BY <1>0, PhaseMoved, ProcTypes
<1>2. TypeOK'
  BY <1>0, <1>1, RemoveForPdfsEffect DEF TypeOK, DiskOK, RecordsOK, WorkOK, CountersOK, records
<1>3. OwnApart' /\ LeftReported'
  <2>1. report["run"].left \subseteq Stems
    BY <1>0 DEF WorkOK, Reports
  <2>2. QED  BY <1>0, <1>1, <2>1, RemoveForPdfsEffect, Constants DEF OInv, OwnApart, LeftReported
<1>4. QED  BY <1>1, <1>2, <1>3 DEF OInv

\* A PDF is taken up, or its Markdown used again.
LEMMA ConvertOwn ==
  ASSUME OInv, NEW s \in Stems, ConvertPdf(s)
  PROVE  OInv'
<1>0. TypeOK /\ WorkOK /\ JobOK /\ UNCHANGED <<disk, records, user, faults>>
  BY DEF OInv, TypeOK, ConvertPdf
<1>1. CASE UNCHANGED <<pc, cur>>
  <2>1. WorkOK'
    BY <1>0, <1>1, ConvertReport DEF WorkOK
  <2>2. TypeOK'
    BY <1>0, <2>1 DEF TypeOK, DiskOK, RecordsOK, CountersOK, disk, records
  <2>3. JobOK' /\ OwnApart' /\ LeftReported'
    BY <1>0, <1>1, ConvertReport DEF OInv, JobOK, OwnApart, LeftReported, Converting, disk
  <2>4. QED  BY <2>2, <2>3 DEF OInv
<1>2. CASE /\ pdf[s] # None
           /\ Goto("conversion", "mineru")
           /\ Take("conversion", s, pdf[s])
  <2>1. pdf[s] \in Versions /\ pdf[s] \in Contents /\ "mineru" \in Steps
    BY <1>0, <1>2 DEF TypeOK, DiskOK, Maybe, Contents, Steps
  <2>2. /\ pc' \in [Procs -> Steps] /\ pc'["conversion"] = "mineru"
        /\ \A q \in Procs : q # "conversion" => pc'[q] = pc[q]
    BY <1>0, <1>2, <2>1, GotoEffect, ProcTypes
  <2>3. /\ cur' \in [Procs -> [doc : Maybe(Stems), text : Contents]]
        /\ cur'["conversion"].doc = s /\ cur'["conversion"].text = pdf[s]
        /\ \A q \in Procs : q # "conversion" => cur'[q] = cur[q]
    BY <1>0, <1>2, <2>1, TakeEffect, ProcTypes
  <2>4. TypeOK'
    BY <1>0, <2>2, <2>3, ConvertReport DEF TypeOK, DiskOK, RecordsOK, WorkOK, CountersOK, disk, records
  <2>5. JobOK'
    BY <1>0, <2>1, <2>2, <2>3, JobMoved, ProcTypes
  <2>6. \A q \in Procs : Converting(q)' =>
           q = "conversion" \/ (Converting(q) /\ cur'[q] = cur[q])
    BY <2>2, <2>3 DEF Converting
  <2>7. OwnApart' /\ LeftReported'
    BY <1>0, <1>2, <2>2, <2>3, <2>6, ConvertReport, ProcTypes DEF OInv, OwnApart, LeftReported, disk
  <2>8. QED  BY <2>4, <2>5, <2>7 DEF OInv
<1>3. QED  BY <1>1, <1>2 DEF ConvertPdf

\* The conversion cache is written.
LEMMA SaveConversionOwn ==
  ASSUME OInv, SaveConversionCache
  PROVE  OInv'
<1>0. /\ TypeOK /\ WorkOK /\ JobOK /\ Goto("conversion", "idle")
      /\ UNCHANGED <<disk, hashed, index, manifest, cur, user, faults>>
      /\ report' = [report EXCEPT !["conversion"] = NoReport]
  BY DEF OInv, TypeOK, SaveConversionCache
<1>1. /\ JobOK' /\ pc' \in [Procs -> Steps] /\ pc'["run"] = pc["run"]
      /\ \A q \in Procs : Converting(q)' => Converting(q)
  BY <1>0, PhaseMoved, ProcTypes
<1>2. /\ report' \in [{"conversion", "run"} -> Reports] /\ report'["run"] = report["run"]
      /\ report'["conversion"].gone = {}
  BY <1>0, NewReport, NoReportType DEF NoReport
<1>3. converted' \in [Stems -> Maybe(Versions)]
  BY <1>0 DEF SaveConversionCache, TypeOK, DiskOK, RecordsOK, Maybe
<1>4. TypeOK'
  BY <1>0, <1>1, <1>2, <1>3 DEF TypeOK, DiskOK, RecordsOK, WorkOK, CountersOK, disk
<1>5. OwnApart' /\ LeftReported'
  BY <1>0, <1>1, <1>2 DEF OInv, OwnApart, LeftReported, disk
<1>6. QED  BY <1>1, <1>4, <1>5 DEF OInv

\* A step of an upload or a conversion that leaves files and reports alone.
LEMMA OwnMoved ==
  ASSUME OInv, UNCHANGED <<pdf, md, report>>
  PROVE  OwnApart'
BY DEF OInv, OwnApart

\* convert_path begins.
LEMMA UploadOwn ==
  ASSUME OInv, StartUpload
  PROVE  OInv'
<1> DEFINE s == cur["api"].doc
<1>0. /\ TypeOK /\ WorkOK /\ JobOK /\ UNCHANGED <<disk, records, report, user, faults>>
      /\ s \in Stems /\ pc["api"] = "queued"
  BY ProcTypes DEF OInv, TypeOK, StartUpload, JobOK
<1>1. CASE Goto("api", "idle") /\ Drop("api")
  <2>1. pc' \in [Procs -> Steps] /\ pc'["api"] = "idle"
        /\ \A q \in Procs : q # "api" => pc'[q] = pc[q]
    BY <1>0, <1>1, GotoEffect, ProcTypes DEF Steps
  <2>2. cur' \in [Procs -> [doc : Maybe(Stems), text : Contents]]
        /\ \A q \in Procs : q # "api" => cur'[q] = cur[q]
    BY <1>0, <1>1, DropEffect, ProcTypes
  <2>3. TypeOK'
    BY <1>0, <2>1, <2>2 DEF TypeOK, DiskOK, RecordsOK, WorkOK, CountersOK, disk, records
  <2>4. JobOK' /\ OwnApart' /\ LeftReported'
    BY <1>0, <2>1, <2>2, JobMoved, OwnMoved, ProcTypes DEF OInv, LeftReported, disk
  <2>5. QED  BY <2>3, <2>4 DEF OInv
<1>2. CASE Goto("api", "load") /\ UNCHANGED cur
  <2>1. pc' \in [Procs -> Steps] /\ pc'["api"] = "load"
        /\ \A q \in Procs : q # "api" => pc'[q] = pc[q]
    BY <1>0, <1>2, GotoEffect, ProcTypes DEF Steps
  <2>2. TypeOK'
    BY <1>0, <1>2, <2>1 DEF TypeOK, DiskOK, RecordsOK, WorkOK, CountersOK, disk, records
  <2>3. JobOK' /\ OwnApart' /\ LeftReported'
    BY <1>0, <1>2, <2>1, JobMoved, OwnMoved, ProcTypes DEF OInv, LeftReported, disk
  <2>4. QED  BY <2>2, <2>3 DEF OInv
<1>3. CASE pdf[s] # None /\ Goto("api", "mineru") /\ Take("api", s, pdf[s])
  <2>1. pdf[s] \in Versions /\ pdf[s] \in Contents /\ "mineru" \in Steps
    BY <1>0, <1>3 DEF TypeOK, DiskOK, Maybe, Contents, Steps
  <2>2. /\ pc' \in [Procs -> Steps] /\ pc'["api"] = "mineru"
        /\ \A q \in Procs : q # "api" => pc'[q] = pc[q]
    BY <1>0, <1>3, <2>1, GotoEffect, ProcTypes
  <2>3. /\ cur' \in [Procs -> [doc : Maybe(Stems), text : Contents]]
        /\ cur'["api"].doc = s /\ cur'["api"].text = pdf[s]
        /\ \A q \in Procs : q # "api" => cur'[q] = cur[q]
    BY <1>0, <1>3, <2>1, TakeEffect, ProcTypes
  <2>4. TypeOK'
    BY <1>0, <2>2, <2>3 DEF TypeOK, DiskOK, RecordsOK, WorkOK, CountersOK, disk, records
  <2>5. JobOK' /\ OwnApart' /\ LeftReported'
    BY <1>0, <2>1, <2>2, <2>3, JobMoved, OwnMoved, ProcTypes DEF OInv, LeftReported, disk
  <2>6. QED  BY <2>4, <2>5 DEF OInv
<1>4. QED  BY <1>1, <1>2, <1>3 DEF StartUpload

\* update_document begins, and deletes what there was.
LEMMA UpdateOwn ==
  ASSUME OInv, StartUpdate
  PROVE  OInv'
<1>0. /\ TypeOK /\ WorkOK /\ JobOK /\ UNCHANGED <<disk, records, cur, report, user, faults>>
      /\ pc["api"] = "put" /\ Goto("api", "replace") /\ "replace" \in Steps
  BY DEF OInv, TypeOK, StartUpdate, Steps
<1>1. pc' \in [Procs -> Steps] /\ pc'["api"] = "replace"
      /\ \A q \in Procs : q # "api" => pc'[q] = pc[q]
  BY <1>0, GotoEffect, ProcTypes
<1>2. TypeOK'
  BY <1>0, <1>1 DEF TypeOK, DiskOK, RecordsOK, WorkOK, CountersOK, disk, records
<1>3. cur["api"].doc \in Stems
  BY <1>0, ProcTypes DEF JobOK
<1>4. JobOK' /\ OwnApart' /\ LeftReported'
  BY <1>0, <1>1, <1>3, JobMoved, OwnMoved, ProcTypes DEF OInv, LeftReported, disk
<1>5. QED  BY <1>2, <1>4 DEF OInv

LEMMA ReplaceEffect ==
  ASSUME TypeOK, NEW s \in Stems, ReplaceDoc(s)
  PROVE  /\ Purge(s) /\ index' = [index EXCEPT ![s] = None]
         /\ \/ pc'["api"] = "idle" /\ cur'["api"] = NoDoc
            \/ /\ md[s] # None /\ pc'["api"] = "insert"
               /\ cur'["api"].doc = s /\ cur'["api"].text = md[s]
         /\ pc["api"] = "replace"
         /\ UNCHANGED <<pdf, md, theirs, converted, hashed, report, user, faults>>
         /\ pc' \in [Procs -> Steps]
         /\ cur' \in [Procs -> [doc : Maybe(Stems), text : Contents]]
         /\ \A q \in Procs : q # "api" => pc'[q] = pc[q] /\ cur'[q] = cur[q]
<1>0. "api" \in Procs /\ WorkOK /\ md[s] \in Contents /\ "idle" \in Steps /\ "insert" \in Steps
  BY ProcTypes DEF TypeOK, DiskOK, Steps
<1>1. CASE md[s] = None
  <2>1. Goto("api", "idle") /\ Drop("api")
    BY <1>1 DEF ReplaceDoc
  <2>2. QED  BY <1>0, <2>1, GotoEffect, DropEffect DEF ReplaceDoc
<1>2. CASE md[s] # None
  <2>1. Goto("api", "insert") /\ Take("api", s, md[s])
    BY <1>2 DEF ReplaceDoc
  <2>2. QED  BY <1>0, <1>2, <2>1, GotoEffect, TakeEffect DEF ReplaceDoc
<1>3. QED  BY <1>1, <1>2

LEMMA ReplaceOwn ==
  ASSUME OInv, NEW s \in Stems, ReplaceDoc(s)
  PROVE  OInv'
<1>0. TypeOK /\ WorkOK /\ JobOK
  BY DEF OInv, TypeOK
<1>1. index' \in [Stems -> Contents]
  BY <1>0, ReplaceEffect DEF TypeOK, RecordsOK, Contents
<1>2. TypeOK'
  BY <1>0, <1>1, ReplaceEffect, PurgeEffect DEF TypeOK, DiskOK, RecordsOK, WorkOK, CountersOK
<1>3. JobOK' /\ OwnApart' /\ LeftReported'
  BY <1>0, ReplaceEffect, JobMoved, OwnMoved, ProcTypes DEF OInv, LeftReported
<1>4. QED  BY <1>2, <1>3 DEF OInv

\* MinerU writes Markdown, which is no user's.
LEMMA MineruOwn ==
  ASSUME OInv, NEW p \in {"conversion", "api"}, MineruDone(p)
  PROVE  OInv'
<1> DEFINE s == cur[p].doc
           v == cur[p].text
<1>0. /\ TypeOK /\ WorkOK /\ JobOK /\ UNCHANGED <<pdf, meta, records, report, user>>
      /\ p \in Procs /\ pc[p] = "mineru" /\ s \in Stems /\ v \in Versions
  BY DEF OInv, TypeOK, MineruDone, JobOK, Converting, Procs
<1>2. CASE /\ md' = [md EXCEPT ![s] = v]
           /\ images' = images \cup Refs(s, v)
           /\ theirs' = theirs \ {s}
           /\ Goto(p, "meta")
           /\ UNCHANGED <<cur, faults>>
  <2>1. pc' \in [Procs -> Steps] /\ pc'[p] = "meta"
        /\ \A q \in Procs : q # p => pc'[q] = pc[q]
    BY <1>0, <1>2, GotoEffect DEF Steps
  <2>2. md' \in [Stems -> Contents] /\ md'[s] = v /\ v # Own /\ \A t \in Stems : t # s => md'[t] = md[t]
    BY <1>0, <1>2, Constants DEF TypeOK, DiskOK, Contents
  <2>3. images' \in SUBSET Pictures /\ theirs' \in SUBSET Stems
    <3>1. Refs(s, v) \in SUBSET Pictures
      BY <1>0, RefsOf DEF Contents
    <3>2. QED  BY <1>2, <3>1, <1>0 DEF TypeOK, DiskOK
  <2>4. TypeOK'
    BY <1>0, <1>2, <2>1, <2>2, <2>3 DEF TypeOK, DiskOK, RecordsOK, WorkOK, CountersOK, records
  <2>5. JobOK' /\ LeftReported'
    BY <1>0, <1>2, <2>1, JobMoved, ProcTypes DEF OInv, LeftReported
  <2>6. OwnApart'
    <3>1. report["run"].left \subseteq Stems
      BY <1>0 DEF WorkOK, Reports
    <3>2. QED  BY <1>0, <2>2, <3>1 DEF OInv, OwnApart
  <2>7. QED  BY <2>4, <2>5, <2>6 DEF OInv
<1>3. CASE /\ Fault("convert")
           /\ Goto(p, IF p = "api" THEN "idle" ELSE "loop")
           /\ Drop(p)
           /\ UNCHANGED <<md, images, theirs>>
  <2>1. pc' \in [Procs -> Steps] /\ pc'[p] \in {"idle", "loop"}
        /\ \A q \in Procs : q # p => pc'[q] = pc[q]
    BY <1>0, <1>3, GotoEffect DEF Steps
  <2>2. cur' \in [Procs -> [doc : Maybe(Stems), text : Contents]]
        /\ \A q \in Procs : q # p => cur'[q] = cur[q]
    BY <1>0, <1>3, DropEffect
  <2>3. CountersOK'
    BY <1>0, <1>3, Constants DEF Fault, TypeOK, CountersOK
  <2>4. TypeOK'
    BY <1>0, <1>3, <2>1, <2>2, <2>3 DEF TypeOK, DiskOK, RecordsOK, WorkOK, records
  <2>5. JobOK' /\ LeftReported' /\ OwnApart'
    BY <1>0, <1>3, <2>1, <2>2, JobMoved, OwnMoved, ProcTypes DEF OInv, LeftReported
  <2>6. QED  BY <2>4, <2>5 DEF OInv
<1>4. QED  BY <1>2, <1>3 DEF MineruDone

\* The metadata are written.
LEMMA MetaOwn ==
  ASSUME OInv, NEW p \in {"conversion", "api"}, WriteMeta(p)
  PROVE  OInv'
<1> DEFINE s == cur[p].doc
<1>0. /\ TypeOK /\ WorkOK /\ JobOK /\ UNCHANGED <<pdf, md, images, theirs, records, user, faults>>
      /\ p \in Procs /\ pc[p] = "meta" /\ s \in Stems /\ cur[p].text \in Versions
      /\ meta' = [meta EXCEPT ![s] = cur[p].text]
  BY DEF OInv, TypeOK, WriteMeta, JobOK, Converting, Procs
<1>2. pc' \in [Procs -> Steps] /\ pc'[p] \in {"load", "loop"}
      /\ (pc'[p] = "load" => UNCHANGED cur)
      /\ \A q \in Procs : q # p => pc'[q] = pc[q]
  BY <1>0, GotoEffect DEF WriteMeta, Steps
<1>3. cur' \in [Procs -> [doc : Maybe(Stems), text : Contents]]
      /\ \A q \in Procs : q # p => cur'[q] = cur[q]
  BY <1>0, DropEffect DEF WriteMeta, WorkOK
<1>4. /\ meta' \in [Stems -> Maybe(Versions)]
      /\ \A t \in Stems : t # s => meta'[t] = meta[t]
  BY <1>0 DEF TypeOK, DiskOK, Maybe
<1>5. TypeOK'
  BY <1>0, <1>2, <1>3, <1>4, MetaReport DEF TypeOK, DiskOK, RecordsOK, WorkOK, CountersOK, records
<1>6. JobOK' /\ LeftReported'
  BY <1>0, <1>2, <1>3, JobMoved, MetaReport, ProcTypes DEF OInv, LeftReported
<1>7. OwnApart'
  BY <1>0, MetaReport DEF OInv, OwnApart
<1>8. QED  BY <1>5, <1>6, <1>7 DEF OInv

\* A run begins with the sidecars of removed PDFs.
LEMMA StartRunOwn ==
  ASSUME OInv, StartRun
  PROVE  OInv'
<1>0. /\ report["run"].left = {}
      /\ TypeOK /\ WorkOK /\ JobOK /\ Goto("run", "clean") /\ Gone \in SUBSET Stems
      /\ RemoveForPdfs(Gone) /\ UNCHANGED <<pdf, theirs, records, cur, user, faults>>
  BY DEF OInv, TypeOK, StartRun, Gone, LeftReported
<1>1. JobOK' /\ pc' \in [Procs -> Steps] /\ \A q \in Procs : Converting(q)' => Converting(q)
  BY <1>0, PhaseMoved, ProcTypes
<1>2. TypeOK'
  BY <1>0, <1>1, StartRunReport, RemoveForPdfsEffect DEF TypeOK, DiskOK, RecordsOK, WorkOK, CountersOK, records
<1>3. OwnApart' /\ LeftReported'
  BY <1>0, <1>1, StartRunReport, RemoveForPdfsEffect, Constants DEF OInv, OwnApart, LeftReported
<1>4. QED  BY <1>1, <1>2, <1>3 DEF OInv

\* A run compares the Markdown files with the hash cache.
LEMMA ForgetOwn ==
  ASSUME OInv, ForgetPdfs
  PROVE  OInv'
<1>0. /\ TypeOK /\ WorkOK /\ JobOK /\ Goto("run", "loop")
      /\ UNCHANGED <<disk, hashed, index, manifest, cur, user, faults>>
  BY DEF OInv, TypeOK, ForgetPdfs
<1>1. /\ JobOK' /\ pc' \in [Procs -> Steps] /\ pc'["run"] = "loop"
      /\ \A q \in Procs : Converting(q)' => Converting(q)
  BY <1>0, PhaseMoved, ProcTypes
<1>2. converted' \in [Stems -> Maybe(Versions)]
  BY <1>0 DEF ForgetPdfs, TypeOK, RecordsOK, Maybe
<1>3. TypeOK'
  BY <1>0, <1>1, <1>2, ForgetReport DEF TypeOK, DiskOK, RecordsOK, WorkOK, CountersOK, disk
<1>4. OwnApart' /\ LeftReported'
  BY <1>0, <1>1, ForgetReport, Constants DEF OInv, OwnApart, LeftReported, RemovedMds, disk
<1>5. QED  BY <1>1, <1>3, <1>4 DEF OInv

\* What removing a document does to the files: its Markdown, when no manifest
\* entry says what to delete, its metadata, and pictures.
LEMMA RemoveDocEffect ==
  ASSUME TypeOK, NEW s \in Stems, RemoveDoc(s)
  PROVE  /\ images' \in SUBSET Pictures /\ images' \subseteq images
         /\ md' \in [Stems -> Contents]
         /\ meta' \in [Stems -> Maybe(Versions)]
         /\ \A t \in Stems : /\ meta'[t] = meta[t] \/ meta'[t] = None
                             /\ md'[t] = md[t] \/ (t = s /\ md'[t] = None)
         /\ manifest' \in [Stems -> Maybe(Artifacts)] /\ manifest'[s] = None
         /\ \A t \in Stems : t # s => manifest'[t] = manifest[t]
<1>1. CASE manifest[s] # None
  BY <1>1, PurgeEffect DEF RemoveDoc, TypeOK, DiskOK
<1>2. CASE manifest[s] = None
  BY <1>2 DEF RemoveDoc, RemoveForMarkdown, TypeOK, DiskOK, RecordsOK, Maybe, Contents
<1>3. QED  BY <1>1, <1>2

\* A document is removed only where its Markdown is gone.
LEMMA RemoveOwn ==
  ASSUME OInv, NEW s \in Stems, RemoveDoc(s)
  PROVE  OInv'
<1>0. /\ TypeOK /\ WorkOK /\ JobOK /\ pc["run"] = "loop"
      /\ UNCHANGED <<pdf, theirs, converted, hashed, pc, cur, user, faults>>
      /\ index' = [index EXCEPT ![s] = None]
  BY DEF OInv, TypeOK, RemoveDoc
<1>1. TypeOK'
  <2>1. index' \in [Stems -> Contents]
    BY <1>0 DEF TypeOK, RecordsOK, Contents
  <2>2. QED  BY <1>0, <2>1, RemoveDocEffect, RemoveReport DEF TypeOK, DiskOK, RecordsOK, WorkOK, CountersOK
<1>2. JobOK'
  BY <1>0 DEF JobOK, Converting
<1>3. LeftReported'
  BY <1>0, RemoveReport DEF OInv, LeftReported
<1>4. OwnApart'
  <2>1. report["run"].left \subseteq Stems
    BY <1>0 DEF WorkOK, Reports
  <2>2. QED  BY <1>0, <2>1, RemoveDocEffect, RemoveReport, Constants DEF OInv, OwnApart
<1>5. QED  BY <1>1, <1>2, <1>3, <1>4 DEF OInv

\* What loading a document does: a job for its text, or none, and perhaps the
\* old entry purged.
LEMMA LoadEffect ==
  ASSUME TypeOK, NEW p \in {"run", "api"}, NEW s \in Stems, LoadDoc(p, s)
  PROVE  /\ \/ /\ md[s] = None
               /\ pc'[p] \in {"loop", "idle"} /\ cur'[p] = NoDoc
               /\ UNCHANGED <<images, meta, index, manifest>>
            \/ /\ md[s] # None
               /\ pc'[p] = "insert" /\ cur'[p].doc = s /\ cur'[p].text = md[s]
               /\ \/ UNCHANGED <<images, meta, index, manifest>>
                  \/ /\ Purge(s)
                     /\ index' = [index EXCEPT ![s] = None]
                     /\ index[s] = None \/ (p = "run" /\ hashed[s] # None)
         /\ p = "run" => pc'[p] \in {"loop", "insert"}
         /\ p = "api" => pc'[p] \in {"idle", "insert"}
         /\ pc' \in [Procs -> Steps]
         /\ cur' \in [Procs -> [doc : Maybe(Stems), text : Contents]]
         /\ \A q \in Procs : q # p => pc'[q] = pc[q] /\ cur'[q] = cur[q]
<1>0. p \in Procs /\ WorkOK /\ md[s] \in Contents
  BY DEF TypeOK, DiskOK, Procs
<1>1. CASE md[s] = None
  <2> DEFINE next == IF p = "run" THEN "loop" ELSE "idle"
  <2>1. next \in Steps /\ next \in {"loop", "idle"} /\ Goto(p, next) /\ Drop(p)
        /\ UNCHANGED <<images, meta, index, manifest>>
        /\ (p = "run" => next = "loop") /\ (p = "api" => next = "idle")
    BY <1>1 DEF LoadDoc, Steps
  <2> HIDE DEF next
  <2>2. QED  BY <1>0, <1>1, <2>1, GotoEffect, DropEffect
<1>2. CASE md[s] # None
  <2>1. "insert" \in Steps /\ Goto(p, "insert") /\ Take(p, s, md[s])
    BY <1>2 DEF LoadDoc, Steps
  <2>2. \/ UNCHANGED <<images, meta, index, manifest>>
        \/ /\ Purge(s)
           /\ index' = [index EXCEPT ![s] = None]
           /\ index[s] = None \/ (p = "run" /\ hashed[s] # None)
    BY <1>2 DEF LoadDoc
  <2>3. QED  BY <1>0, <1>2, <2>1, <2>2, GotoEffect, TakeEffect
<1>3. QED  BY <1>1, <1>2

LEMMA LoadOwn ==
  ASSUME OInv, NEW p \in {"run", "api"}, NEW s \in Stems, LoadDoc(p, s)
  PROVE  OInv'
<1>0. /\ TypeOK /\ WorkOK /\ JobOK /\ p \in Procs
      /\ UNCHANGED <<pdf, md, theirs, converted, hashed, user, faults>>
      /\ p = "run" => pc["run"] = "loop"
  BY DEF OInv, TypeOK, LoadDoc, Procs
<1>1. /\ images' \in SUBSET Pictures
      /\ meta' \in [Stems -> Maybe(Versions)]
      /\ \A t \in Stems : meta'[t] = meta[t] \/ meta'[t] = None
      /\ manifest' \in [Stems -> Maybe(Artifacts)]
      /\ index' \in [Stems -> Contents]
  <2>1. CASE UNCHANGED <<images, meta, index, manifest>>
    BY <1>0, <2>1 DEF TypeOK, DiskOK, RecordsOK
  <2>2. CASE Purge(s) /\ index' = [index EXCEPT ![s] = None]
    BY <1>0, <2>2, PurgeEffect DEF TypeOK, RecordsOK, Contents
  <2>3. QED  BY <1>0, <2>1, <2>2, LoadEffect
<1>2. TypeOK'
  BY <1>0, <1>1, LoadEffect, LoadReport DEF TypeOK, DiskOK, RecordsOK, WorkOK, CountersOK
<1>3. JobOK'
  BY <1>0, LoadEffect, JobMoved
<1>4. LeftReported'
  BY <1>0, LoadEffect, LoadReport, ProcTypes DEF OInv, LeftReported
<1>5. OwnApart'
  BY <1>0, <1>1, LoadEffect, LoadReport DEF OInv, OwnApart, Converting
<1>6. QED  BY <1>2, <1>3, <1>4, <1>5 DEF OInv

\* What inserting a document does: the entry, its manifest and perhaps its
\* hash, or nothing; the job is done.
LEMMA InsertEffect ==
  ASSUME TypeOK, JobOK, NEW p \in {"run", "api"}, InsertDoc(p)
  PROVE  LET s == cur[p].doc
             text == cur[p].text
         IN  /\ s \in Stems /\ text \in Contents /\ text # None /\ pc[p] = "insert"
             /\ UNCHANGED <<disk, converted, user>>
             /\ \/ /\ index' = [index EXCEPT ![s] = text]
                   /\ manifest' = [manifest EXCEPT ![s] = Collect(s, text)]
                   /\ \/ p = "api" /\ md[s] # None /\ hashed' = [hashed EXCEPT ![s] = md[s]]
                      \/ (p = "run" \/ md[s] = None) /\ hashed' = hashed
                   /\ p = "run" => report'["run"].ok = report["run"].ok \cup {s}
                   /\ p = "api" => report' = report
                   /\ UNCHANGED faults
                \/ Fault("insert") /\ UNCHANGED <<index, manifest, hashed, report>>
             /\ p = "run" => pc'[p] = "loop"
             /\ p = "api" => pc'[p] = "idle"
             /\ cur'[p] = NoDoc
             /\ pc' \in [Procs -> Steps]
             /\ cur' \in [Procs -> [doc : Maybe(Stems), text : Contents]]
             /\ \A q \in Procs : q # p => pc'[q] = pc[q] /\ cur'[q] = cur[q]
<1> DEFINE s == cur[p].doc
           text == cur[p].text
<1>0. /\ p \in Procs /\ WorkOK /\ pc[p] = "insert" /\ s \in Stems /\ text \in Contents /\ text # None
      /\ UNCHANGED <<disk, converted, user>>
  BY DEF InsertDoc, TypeOK, WorkOK, JobOK, Procs
<1>1. \/ /\ index' = [index EXCEPT ![s] = text]
         /\ manifest' = [manifest EXCEPT ![s] = Collect(s, text)]
         /\ \/ p = "api" /\ md[s] # None /\ hashed' = [hashed EXCEPT ![s] = md[s]]
            \/ (p = "run" \/ md[s] = None) /\ hashed' = hashed
         /\ p = "run" => report'["run"].ok = report["run"].ok \cup {s}
         /\ p = "api" => report' = report
         /\ UNCHANGED faults
      \/ Fault("insert") /\ UNCHANGED <<index, manifest, hashed, report>>
  <2>1. CASE Fault("insert") /\ UNCHANGED <<index, manifest, hashed, report>>
    BY <2>1
  <2>2. CASE /\ index' = [index EXCEPT ![s] = text]
             /\ manifest' = [manifest EXCEPT ![s] = Collect(s, text)]
             /\ hashed' = IF p = "api" /\ md[s] # None
                          THEN [hashed EXCEPT ![s] = md[s]] ELSE hashed
             /\ report' = IF p = "run" THEN [report EXCEPT ![p].ok = @ \cup {s}]
                          ELSE report
             /\ UNCHANGED faults
    BY <1>0, <2>2 DEF WorkOK, Reports
  <2>3. QED  BY <2>1, <2>2 DEF InsertDoc
<1> DEFINE next == IF p = "run" THEN "loop" ELSE "idle"
<1>2. next \in Steps /\ Goto(p, next) /\ Drop(p)
      /\ (p = "run" => next = "loop") /\ (p = "api" => next = "idle")
  BY DEF InsertDoc, Steps
<1> HIDE DEF next
<1>3. QED  BY <1>0, <1>1, <1>2, GotoEffect, DropEffect

LEMMA InsertOwn ==
  ASSUME OInv, NEW p \in {"run", "api"}, InsertDoc(p)
  PROVE  OInv'
<1> DEFINE s == cur[p].doc
           text == cur[p].text
<1>0. TypeOK /\ WorkOK /\ JobOK /\ p \in Procs /\ s \in Stems /\ text \in Contents
      /\ pc[p] = "insert" /\ UNCHANGED <<disk, converted, user>>
  BY InsertEffect DEF OInv, TypeOK, Procs
<1>1. Collect(s, text) \in Artifacts
  <2>1. Refs(s, text) \in SUBSET Pictures
    BY <1>0, RefsOf
  <2>2. QED  BY <1>0, <2>1 DEF Collect, Artifacts, Beside, TypeOK, DiskOK
<1>2. /\ index' \in [Stems -> Contents] /\ hashed' \in [Stems -> Contents]
      /\ manifest' \in [Stems -> Maybe(Artifacts)] /\ faults' \in 0..MaxFaults
  <2>1. CASE Fault("insert") /\ UNCHANGED <<index, manifest, hashed>>
    BY <1>0, <2>1, Constants DEF Fault, TypeOK, RecordsOK, CountersOK
  <2>2. CASE /\ index' = [index EXCEPT ![s] = text]
             /\ manifest' = [manifest EXCEPT ![s] = Collect(s, text)]
             /\ hashed' = [hashed EXCEPT ![s] = md[s]] \/ hashed' = hashed
             /\ UNCHANGED faults
    BY <1>0, <1>1, <2>2 DEF TypeOK, RecordsOK, DiskOK, CountersOK, Maybe
  <2>3. QED  BY <1>0, <2>1, <2>2, InsertEffect
<1>3. TypeOK'
  BY <1>0, <1>2, InsertEffect, InsertReport DEF TypeOK, DiskOK, RecordsOK, WorkOK, CountersOK, disk
<1>4. JobOK'
  BY <1>0, InsertEffect, JobMoved
<1>5. LeftReported'
  BY <1>0, InsertEffect, InsertReport, ProcTypes DEF OInv, LeftReported
<1>6. OwnApart'
  BY <1>0, InsertEffect, InsertReport DEF OInv, OwnApart, Converting, disk
<1>7. QED  BY <1>3, <1>4, <1>5, <1>6 DEF OInv

\* The hash cache is written.
LEMMA SaveHashOwn ==
  ASSUME OInv, SaveHashCache
  PROVE  OInv'
<1>0. /\ TypeOK /\ WorkOK /\ JobOK /\ Goto("run", "idle")
      /\ UNCHANGED <<disk, converted, index, manifest, cur, user, faults>>
      /\ report' = [report EXCEPT !["run"] = NoReport]
  BY DEF OInv, TypeOK, SaveHashCache
<1>1. /\ JobOK' /\ pc' \in [Procs -> Steps]
      /\ \A q \in Procs : Converting(q)' => Converting(q)
  BY <1>0, PhaseMoved, ProcTypes
<1>2. report' \in [{"conversion", "run"} -> Reports] /\ report'["run"] = NoReport
  BY <1>0, NewReport, NoReportType
<1>3. hashed' \in [Stems -> Contents]
  BY <1>0 DEF SaveHashCache, TypeOK, DiskOK, RecordsOK, Contents
<1>4. TypeOK'
  BY <1>0, <1>1, <1>2, <1>3 DEF TypeOK, DiskOK, RecordsOK, WorkOK, CountersOK, disk
<1>5. OwnApart' /\ LeftReported'
  BY <1>0, <1>1, <1>2 DEF OInv, OwnApart, LeftReported, disk, NoReport
<1>6. QED  BY <1>1, <1>4, <1>5 DEF OInv

\* What a crash does: the processes that die have neither job nor report.
LEMMA CrashEffect ==
  ASSUME TypeOK, NEW S \in Dying, Crash(S)
  PROVE  /\ UNCHANGED <<disk, records, user>>
         /\ WorkOK' /\ CountersOK'
         /\ \A p \in Procs : IF p \in S THEN pc'[p] = "idle" /\ cur'[p] = NoDoc
                                        ELSE pc'[p] = pc[p] /\ cur'[p] = cur[p]
         /\ \A p \in {"conversion", "run"} :
               IF p \in S THEN report'[p] = NoReport ELSE report'[p] = report[p]
<1>1. NoDoc \in [doc : Maybe(Stems), text : Contents] /\ "idle" \in Steps
  BY DEF NoDoc, Maybe, Contents, Steps
<1>2. /\ pc' = [p \in Procs |-> IF p \in S THEN "idle" ELSE pc[p]]
      /\ cur' = [p \in Procs |-> IF p \in S THEN NoDoc ELSE cur[p]]
      /\ report' = [p \in {"conversion", "run"} |->
                      IF p \in S THEN NoReport ELSE report[p]]
      /\ UNCHANGED <<disk, records, user>>
  BY DEF Crash
<1>3. WorkOK'
  BY <1>1, <1>2, NoReportType DEF TypeOK, WorkOK
<1>4. CountersOK'
  BY <1>2, Constants DEF Crash, Fault, TypeOK, CountersOK
<1>5. QED  BY <1>2, <1>3, <1>4

LEMMA CrashOwn ==
  ASSUME OInv, NEW S \in Dying, Crash(S)
  PROVE  OInv'
<1>0. TypeOK /\ JobOK
  BY DEF OInv
<1>1. TypeOK'
  BY <1>0, CrashEffect DEF TypeOK, DiskOK, RecordsOK, disk, records
<1>2. \A p \in Procs : pc'[p] = "idle" \/ (pc'[p] = pc[p] /\ cur'[p] = cur[p])
  BY <1>0, CrashEffect
<1>3. JobOK'
  BY <1>0, <1>2 DEF JobOK, Converting
<1>4. /\ report'["run"].left \subseteq report["run"].left
      /\ LeftReported'
  BY <1>0, CrashEffect, ProcTypes DEF OInv, LeftReported, NoReport
<1>5. OwnApart'
  <2>1. report'["conversion"].gone \subseteq report["conversion"].gone
    BY <1>0, CrashEffect DEF NoReport
  <2>2. QED  BY <1>0, <1>4, <2>1, CrashEffect DEF OInv, OwnApart, disk
<1>6. QED  BY <1>1, <1>3, <1>4, <1>5 DEF OInv

LEMMA StutterOwn ==
  ASSUME OInv, UNCHANGED vars
  PROVE  OInv'
BY DEF OInv, TypeOK, DiskOK, RecordsOK, WorkOK, CountersOK, JobOK, OwnApart,
       LeftReported, Converting, vars, disk, records, work

LEMMA InitOwn ==
  ASSUME Init
  PROVE  OInv
<1>1. NoDoc \in [doc : Maybe(Stems), text : Contents] /\ "idle" \in Steps
  BY DEF NoDoc, Maybe, Contents, Steps
<1>2. TypeOK
  BY <1>1, NoReportType, Constants DEF Init, TypeOK, DiskOK, RecordsOK, WorkOK,
     CountersOK, Maybe, Contents
<1>3. JobOK /\ OwnApart /\ LeftReported
  BY Constants DEF Init, JobOK, Converting, OwnApart, LeftReported, NoReport
<1>4. QED  BY <1>2, <1>3 DEF OInv

LEMMA NextOwn ==
  ASSUME OInv, ~FilesWhileBusy, [Next]_vars
  PROVE  OInv'
<1>1. CASE ConversionStep
  BY <1>1, StartConversionOwn, CleanOwn, SaveConversionOwn, MineruOwn, MetaOwn, ConvertOwn
     DEF ConversionStep
<1>2. CASE RunStep
  BY <1>2, StartRunOwn, ForgetOwn, SaveHashOwn, InsertOwn, RemoveOwn, LoadOwn DEF RunStep
<1>3. CASE UploadStep
  BY <1>3, UploadOwn, UpdateOwn, ReplaceOwn, MineruOwn, MetaOwn, InsertOwn, LoadOwn
     DEF UploadStep
<1>4. ASSUME NEW s \in Stems, UserStep(s)
      PROVE  OInv'
  BY <1>4, UserOwn, DeleteOwn DEF UserStep, Users
<1>5. ASSUME NEW S \in Dying, Crash(S)
      PROVE  OInv'
  BY <1>5, CrashOwn
<1>6. CASE UNCHANGED vars
  BY <1>6, StutterOwn
<1>7. QED  BY <1>1, <1>2, <1>3, <1>4, <1>5, <1>6 DEF Next

\* Its user, a conversion of that name, and the cleanup after a removed PDF
\* are the only ones that touch it.
MayTake(s) ==
    \/ user' = user + 1
    \/ \E p \in Procs : pc[p] = "mineru" /\ cur[p].doc = s
    \/ pdf[s] = None /\ meta[s] # None

LEMMA StepKeepsOwn ==
  ASSUME OInv, [Next]_vars, NEW s \in Stems, md[s] = Own, md'[s] # Own
  PROVE  MayTake(s)
<1>0. TypeOK /\ JobOK
  BY DEF OInv
<1>1. CASE ConversionStep \/ UploadStep
  <2>1. ASSUME CleanRemovedPdfs
        PROVE  MayTake(s)
    <3>1. report["conversion"].gone \in SUBSET Stems /\ RemoveForPdfs(report["conversion"].gone)
      BY <1>0, <2>1 DEF CleanRemovedPdfs, TypeOK, WorkOK, Reports
    <3>2. s \in report["conversion"].gone /\ meta[s] # None
      BY <1>0, <3>1, RemoveForPdfsEffect
    <3>3. QED  BY <3>2 DEF OInv, OwnApart, MayTake
  <2>2. ASSUME NEW p \in {"conversion", "api"}, MineruDone(p)
        PROVE  MayTake(s)
    <3>1. p \in Procs /\ pc[p] = "mineru" /\ (cur[p].doc = s \/ md'[s] = md[s])
      BY <1>0, <2>2 DEF MineruDone, Procs, TypeOK, DiskOK
    <3>2. QED  BY <3>1 DEF MayTake
  <2>3. CASE UNCHANGED md
    BY <2>3
  <2>4. QED
    BY <1>1, <2>1, <2>2, <2>3 DEF ConversionStep, UploadStep, StartConversion, ConvertPdf,
       SaveConversionCache, WriteMeta, StartUpload, StartUpdate, LoadDoc, ReplaceDoc,
       InsertDoc, disk
<1>2. CASE RunStep
  <2>1. ASSUME StartRun
        PROVE  MayTake(s)
    <3>1. Gone \in SUBSET Stems /\ RemoveForPdfs(Gone)
      BY <2>1 DEF StartRun, Gone
    <3>2. s \in Gone /\ meta[s] # None
      BY <1>0, <3>1, RemoveForPdfsEffect
    <3>3. QED  BY <3>2 DEF Gone, MayTake
  <2>2. ASSUME NEW t \in Stems, RemoveDoc(t)
        PROVE  FALSE
    BY <1>0, <2>2, RemoveDocEffect DEF RemoveDoc, OInv, OwnApart
  <2>3. CASE UNCHANGED md
    BY <2>3
  <2>4. QED
    BY <1>2, <2>1, <2>2, <2>3 DEF RunStep, ForgetPdfs, SaveHashCache, InsertDoc, LoadDoc, disk
<1>3. ASSUME NEW t \in Stems, UserStep(t)
      PROVE  MayTake(s)
  <2>1. user' = user + 1
    BY <1>3 DEF UserStep, PutPdf, UploadPdf, RemovePdf, WriteMd, RemoveMd, UpdateDoc,
       DeleteDoc, UserMay
  <2>2. QED  BY <2>1 DEF MayTake
<1>4. ASSUME NEW S \in Dying, Crash(S)
      PROVE  FALSE
  BY <1>4 DEF Crash, disk
<1>5. CASE UNCHANGED vars
  BY <1>5 DEF vars, disk
<1>6. QED  BY <1>1, <1>2, <1>3, <1>4, <1>5 DEF Next

\* Type correctness, of any documents, users and failures.
THEOREM SidecarTypes == ~FilesWhileBusy /\ Spec => []TypeOK
<1>1. Init => OInv
  BY InitOwn
<1>2. OInv => TypeOK
  BY DEF OInv
<1>3. CASE ~FilesWhileBusy
  <2>1. OInv /\ [Next]_vars => OInv'
    BY <1>3, NextOwn
  <2>2. QED  BY <1>1, <1>2, <2>1, PTL DEF Spec
<1>4. QED  BY <1>3

\* Whatever conversions, runs, uploads, replacements and deletions overlap,
\* fail or are killed, Markdown that a user wrote goes only by its user, by the
\* conversion of a PDF of its name, or beside the metadata of one when the PDF
\* is gone, as long as users leave the files alone that a process has in hand.
THEOREM UsersKeepTheirMarkdown == ~FilesWhileBusy /\ Spec => OwnMarkdownKept
<1>1. Init => OInv
  BY InitOwn
<1>2. OInv /\ [Next]_vars =>
        [\A s \in Stems : md[s] = Own /\ md'[s] # Own =>
              \/ user' = user + 1
              \/ \E p \in Procs : pc[p] = "mineru" /\ cur[p].doc = s
              \/ pdf[s] = None /\ meta[s] # None]_vars
  BY StepKeepsOwn DEF MayTake
<1>3. CASE ~FilesWhileBusy
  <2>1. OInv /\ [Next]_vars => OInv'
    BY <1>3, NextOwn
  <2>2. QED  BY <1>1, <1>2, <2>1, PTL DEF Spec, OwnMarkdownKept
<1>4. QED  BY <1>3

-----------------------------------------------------------------------------
(* The conversion cache: one task at a time *)

\* While one process works, or a task may start, the others rest and have
\* nothing reported.
LEMMA OthersRest ==
  ASSUME CInv, OneTask, NEW p \in Procs, Busy(p) \/ MayStart, NEW q \in Procs, q # p
  PROVE  /\ ~Busy(q) /\ ~Converting(q)
         /\ q \in {"conversion", "run"} => pc[q] = "idle" /\ report[q] = NoReport
<1>1. ~Busy(q)
  BY DEF CInv, Alone, MayStart, Busy
<1>2. ~Converting(q)
  BY <1>1 DEF Busy, Converting
<1>3. q \in {"conversion", "run"} => pc[q] = "idle"
  BY <1>1 DEF CInv, ReportsTidy, Busy
<1>4. QED  BY <1>1, <1>2, <1>3 DEF CInv, ReportsTidy

\* So it stays when that process moves on.
LEMMA AloneMoved ==
  ASSUME CInv, OneTask, NEW p \in Procs, Busy(p) \/ MayStart,
         \A q \in Procs : q # p => pc'[q] = pc[q]
  PROVE  /\ Alone'
         /\ \A q \in Procs : Converting(q)' => q = p
<1>1. \A q \in Procs : q # p => ~Busy(q)' /\ ~Converting(q)'
  BY OthersRest DEF Busy, Converting
<1>2. QED  BY <1>1 DEF Alone

\* Users do not touch what a process has in hand.
LEMMA UserCurrent ==
  ASSUME CInv, ~FilesWhileBusy, NEW s \in Stems, Users(s)
  PROVE  CInv'
<1>0. TypeOK /\ OInv /\ OInv' /\ user \in Nat
  BY UserOwn, Constants DEF CInv, OInv, TypeOK, CountersOK
<1>1. \A q \in Procs : /\ Busy(q)' => Busy(q)
                       /\ Converting(q)' => Converting(q) /\ cur'[q] = cur[q]
                                            /\ pc'[q] = pc[q] /\ cur[q].doc # s
                       /\ q # "api" => pc'[q] = pc[q]
  BY <1>0, UserEffect DEF Busy, Converting, InHand
<1>2. Alone'
  BY <1>1 DEF CInv, Alone
<1>3. ReportsTidy'
  <2>1. s \notin report["run"].gone
    BY <1>0, UserEffect DEF InHand, Reported
  <2>2. UNCHANGED report /\ pc'["run"] = pc["run"] /\ pc'["conversion"] = pc["conversion"]
    BY <1>0, <1>1, UserEffect, ProcTypes
  <2>3. report \in [{"conversion", "run"} -> Reports]
    BY <1>0 DEF TypeOK, WorkOK
  <2>4. \A t \in report["run"].gone : md'[t] = md[t]
    BY <1>0, <2>1, <2>3, UserEffect DEF Reports
  <2>5. QED  BY <2>2, <2>4 DEF CInv, ReportsTidy
<1>4. Fresh'
  <2>1. \A t \in Stems : pdf'[t] = pdf[t] \/ pdf'[t] = None \/ pdf'[t] = user + 1
    BY <1>0, UserEffect
  <2>2. /\ pdf \in [Stems -> Maybe(Versions)] /\ meta \in [Stems -> Maybe(Versions)]
        /\ converted \in [Stems -> Maybe(Versions)]
    BY <1>0 DEF TypeOK, DiskOK, RecordsOK
  <2>3. UNCHANGED <<meta, converted>> /\ user' = user + 1
    BY <1>0, UserEffect DEF records
  <2>4. \A n \in Versions : n <= user => n <= user + 1
    BY <1>0, Constants
  <2>5. QED  BY <1>0, <2>1, <2>2, <2>3, <2>4 DEF CInv, Fresh, Maybe
<1>5. ConvertedOK'
  <2>1. s \notin report["conversion"].ok
    BY <1>0, UserEffect DEF InHand, Reported
  <2>2. user + 1 # meta[s] /\ user + 1 # converted[s]
    <3>1. /\ meta[s] # None => meta[s] \in Nat /\ meta[s] <= user
          /\ converted[s] # None => converted[s] \in Nat /\ converted[s] <= user
      BY <1>0, Constants DEF TypeOK, DiskOK, RecordsOK, Maybe, CInv, Fresh
    <3>2. user + 1 # None
      BY <1>0, SidecarsAssumption
    <3>3. QED  BY <1>0, <3>1, <3>2
  <2>3. UNCHANGED <<meta, converted, report>>
    BY <1>0, UserEffect DEF records
  <2>4. /\ \A t \in Stems : t # s => pdf'[t] = pdf[t] /\ md'[t] = md[t]
        /\ theirs \subseteq theirs'
    BY <1>0, UserEffect
  <2>5. \/ pdf'[s] = user + 1
        \/ pdf'[s] = None
        \/ s \in theirs'
    BY <1>0, UserEffect
  <2>6. QED  BY <2>1, <2>2, <2>3, <2>4, <2>5 DEF CInv, ConvertedOK, FromPdf
<1>6. ConversionOK'
  <2>1. \A q \in Procs : Converting(q)' => cur[q].doc \in Stems
    BY <1>0, <1>1 DEF OInv, JobOK, Converting
  <2>2. QED  BY <1>0, <1>1, <2>1, UserEffect DEF CInv, ConversionOK
<1>7. QED  BY <1>0, <1>2, <1>3, <1>4, <1>5, <1>6 DEF CInv

\* A deletion through the API takes metadata at most.
LEMMA DeleteCurrent ==
  ASSUME CInv, NEW s \in Stems, DeleteDoc(s)
  PROVE  CInv'
<1>0. TypeOK /\ OInv' /\ user \in Nat
  BY DeleteOwn, Constants DEF CInv, OInv, TypeOK, CountersOK
<1>1. /\ \A t \in Stems : meta'[t] = meta[t] \/ meta'[t] = None
      /\ UNCHANGED <<pdf, md, theirs, converted, pc, cur, report>> /\ user' = user + 1
  BY <1>0, PurgeEffect DEF DeleteDoc, TypeOK, DiskOK, work
<1>2. Alone' /\ ReportsTidy' /\ ConversionOK'
  BY <1>1 DEF CInv, Alone, Busy, ReportsTidy, ConversionOK, Converting
<1>3. Fresh'
  <2>1. \A n \in Versions : n <= user => n <= user + 1
    BY <1>0, Constants
  <2>2. QED  BY <1>0, <1>1, <2>1 DEF CInv, Fresh, TypeOK, DiskOK, RecordsOK, Maybe
<1>4. ConvertedOK'
  BY <1>1 DEF CInv, ConvertedOK, FromPdf
<1>5. QED  BY <1>0, <1>2, <1>3, <1>4 DEF CInv

\* Steps that begin, clean up and end a conversion or a run change none of
\* what the conversions at work rely on.
LEMMA PhaseCurrent ==
  ASSUME CInv, OneTask, NEW p \in {"conversion", "run"}, Busy(p) \/ MayStart,
         UNCHANGED cur, NEW s \in {"idle", "clean", "loop"}, Goto(p, s)
  PROVE  /\ Alone' /\ ConversionOK'
         /\ pc'[p] = s /\ \A q \in Procs : q # p => pc'[q] = pc[q]
         /\ \A q \in Procs : ~Converting(q)'
<1>0. JobOK /\ WorkOK /\ p \in Procs
  BY DEF CInv, OInv, TypeOK, Procs
<1>1. pc'[p] = s /\ \A q \in Procs : q # p => pc'[q] = pc[q]
  BY <1>0, PhaseMoved
<1>2. Alone' /\ \A q \in Procs : Converting(q)' => q = p
  BY <1>0, <1>1, AloneMoved
<1>3. \A q \in Procs : ~Converting(q)'
  BY <1>1, <1>2 DEF Converting
<1>4. QED  BY <1>1, <1>2, <1>3 DEF ConversionOK

LEMMA StartConversionCurrent ==
  ASSUME CInv, OneTask, StartConversion
  PROVE  CInv'
<1>0. /\ TypeOK /\ WorkOK /\ OInv' /\ MayStart /\ Goto("conversion", "clean")
      /\ UNCHANGED <<disk, records, cur, user, faults>>
  BY StartConversionOwn DEF CInv, OInv, TypeOK, StartConversion
<1>1. /\ Alone' /\ ConversionOK' /\ pc'["conversion"] = "clean" /\ pc'["run"] = pc["run"]
  BY <1>0, PhaseCurrent, ProcTypes
<1>2. ReportsTidy'
  BY <1>0, <1>1, StartConversionReport DEF CInv, ReportsTidy, Gone, disk
<1>3. Fresh' /\ ConvertedOK'
  BY <1>0, StartConversionReport DEF CInv, Fresh, ConvertedOK, FromPdf, disk, records
<1>4. QED  BY <1>0, <1>1, <1>2, <1>3 DEF CInv

\* Cleanups touch the Markdown of removed PDFs only.
LEMMA CleanedCurrent ==
  ASSUME CInv, NEW S \in SUBSET Stems, \A s \in S : pdf[s] = None,
         RemoveForPdfs(S), UNCHANGED <<pdf, theirs, converted, user>>,
         report'["conversion"] = report["conversion"]
  PROVE  Fresh' /\ ConvertedOK'
BY RemoveForPdfsEffect DEF CInv, OInv, Fresh, ConvertedOK, FromPdf

LEMMA CleanCurrent ==
  ASSUME CInv, OneTask, CleanRemovedPdfs
  PROVE  CInv'
<1>0. /\ TypeOK /\ WorkOK /\ OInv' /\ pc["conversion"] = "clean" /\ Goto("conversion", "loop")
      /\ UNCHANGED <<pdf, theirs, records, cur, report, user, faults>>
      /\ report["conversion"].gone \in SUBSET Stems
      /\ report["run"].gone \in SUBSET Stems
      /\ RemoveForPdfs(report["conversion"].gone)
  BY CleanOwn DEF CInv, OInv, TypeOK, WorkOK, Reports, CleanRemovedPdfs
<1>1. /\ Alone' /\ ConversionOK' /\ pc'["conversion"] = "loop" /\ pc'["run"] = pc["run"]
  BY <1>0, PhaseCurrent, ProcTypes DEF Busy
<1>2. ReportsTidy'
  BY <1>0, <1>1, RemoveForPdfsEffect DEF CInv, ReportsTidy
<1>3. Fresh' /\ ConvertedOK'
  BY <1>0, CleanedCurrent DEF CInv, OInv, OwnApart, records
<1>4. QED  BY <1>0, <1>1, <1>2, <1>3 DEF CInv

\* A PDF is taken up with the content it has; Markdown whose metadata are
\* current comes from it.
LEMMA ConvertCurrent ==
  ASSUME CInv, OneTask, NEW s \in Stems, ConvertPdf(s)
  PROVE  CInv'
<1>0. /\ TypeOK /\ WorkOK /\ OInv' /\ pc["conversion"] = "loop"
      /\ UNCHANGED <<disk, records, user, faults>>
  BY ConvertOwn DEF CInv, OInv, TypeOK, ConvertPdf
<1>1. \/ UNCHANGED <<pc, cur>>
      \/ /\ pdf[s] # None
         /\ pc'["conversion"] = "mineru"
         /\ cur'["conversion"].doc = s /\ cur'["conversion"].text = pdf[s]
  <2>1. CASE UNCHANGED <<pc, cur>>
    BY <2>1
  <2>2. CASE /\ pdf[s] # None
             /\ Goto("conversion", "mineru")
             /\ Take("conversion", s, pdf[s])
    <3>1. pdf[s] \in Contents /\ "mineru" \in Steps
      BY <1>0 DEF TypeOK, DiskOK, Maybe, Contents, Steps
    <3>2. QED  BY <1>0, <2>2, <3>1, GotoEffect, TakeEffect, ProcTypes
  <2>3. QED  BY <2>1, <2>2 DEF ConvertPdf
<1>2. \A q \in Procs : q # "conversion" => pc'[q] = pc[q]
  BY <1>0 DEF ConvertPdf, Goto, WorkOK
<1>3. Alone' /\ \A q \in Procs : Converting(q)' => q = "conversion"
  BY <1>0, <1>2, AloneMoved, ProcTypes DEF Busy
<1>4. ConversionOK'
  BY <1>0, <1>1, <1>3 DEF CInv, ConversionOK, Converting, disk
<1>5. ReportsTidy'
  BY <1>0, <1>1, <1>2, ConvertReport, ProcTypes DEF CInv, ReportsTidy, disk
<1>6. Fresh' /\ ConvertedOK'
  BY <1>0, ConvertReport DEF CInv, Fresh, ConvertedOK, FromPdf, Reusable, disk, records
<1>7. QED  BY <1>0, <1>3, <1>4, <1>5, <1>6 DEF CInv

\* The digests recorded are those of PDFs whose Markdown is current.
LEMMA SaveConversionCurrent ==
  ASSUME CInv, OneTask, SaveConversionCache
  PROVE  CInv'
<1>0. /\ TypeOK /\ WorkOK /\ OInv' /\ pc["conversion"] = "loop" /\ Goto("conversion", "idle")
      /\ UNCHANGED <<disk, hashed, index, manifest, cur, user, faults>>
      /\ report' = [report EXCEPT !["conversion"] = NoReport]
  BY SaveConversionOwn DEF CInv, OInv, TypeOK, SaveConversionCache
<1>1. Alone' /\ ConversionOK' /\ pc'["conversion"] = "idle" /\ pc'["run"] = pc["run"]
  BY <1>0, PhaseCurrent, ProcTypes DEF Busy
<1>2. report'["conversion"] = NoReport /\ report'["run"] = report["run"]
  BY <1>0, NewReport, NoReportType
<1>3. ReportsTidy'
  BY <1>0, <1>1, <1>2 DEF CInv, ReportsTidy, NoReport, disk
<1>4. \A s \in Stems :
         \/ converted'[s] = pdf[s] /\ pdf[s] # None /\ s \in report["conversion"].ok
         \/ converted'[s] = None
         \/ converted'[s] = converted[s]
  BY <1>0 DEF SaveConversionCache, VouchedFor
<1>5. Fresh' /\ ConvertedOK'
  BY <1>0, <1>2, <1>4 DEF CInv, Fresh, ConvertedOK, FromPdf, NoReport, disk
<1>6. QED  BY <1>0, <1>1, <1>3, <1>5 DEF CInv

\* The conversion of an upload begins with the content the PDF has.
LEMMA UploadCurrent ==
  ASSUME CInv, OneTask, StartUpload
  PROVE  CInv'
<1> DEFINE s == cur["api"].doc
<1>0. /\ TypeOK /\ WorkOK /\ OInv' /\ pc["api"] = "queued" /\ MayStart /\ s \in Stems
      /\ UNCHANGED <<disk, records, report, user, faults>>
  BY UploadOwn, ProcTypes DEF CInv, OInv, TypeOK, StartUpload, JobOK
<1>1. \A q \in Procs : q # "api" => pc'[q] = pc[q]
  BY <1>0 DEF StartUpload, Goto, WorkOK
<1>2. \/ pc'["api"] \in {"idle", "load"}
      \/ /\ pc'["api"] = "mineru" /\ cur'["api"].doc = s /\ cur'["api"].text = pdf[s]
  <2>1. pdf[s] \in Contents /\ "mineru" \in Steps /\ "idle" \in Steps /\ "load" \in Steps
    BY <1>0 DEF TypeOK, DiskOK, Maybe, Contents, Steps
  <2>2. \/ Goto("api", "idle") \/ Goto("api", "load")
        \/ Goto("api", "mineru") /\ Take("api", s, pdf[s])
    BY DEF StartUpload
  <2>3. QED  BY <1>0, <2>1, <2>2, GotoEffect, TakeEffect, ProcTypes
<1>3. Alone' /\ \A q \in Procs : Converting(q)' => q = "api"
  BY <1>0, <1>1, AloneMoved, ProcTypes
<1>4. ConversionOK'
  BY <1>0, <1>2, <1>3 DEF ConversionOK, Converting, disk
<1>5. ReportsTidy' /\ Fresh' /\ ConvertedOK'
  BY <1>0, <1>1, ProcTypes DEF CInv, ReportsTidy, Fresh, ConvertedOK, FromPdf, disk, records
<1>6. QED  BY <1>0, <1>3, <1>4, <1>5 DEF CInv

\* A replacement begins, and touches metadata at most.
LEMMA UpdateCurrent ==
  ASSUME CInv, OneTask, StartUpdate \/ \E s \in Stems : ReplaceDoc(s)
  PROVE  CInv'
<1>0. TypeOK /\ WorkOK /\ OInv' /\ "replace" \in Steps
  BY UpdateOwn, ReplaceOwn DEF CInv, OInv, TypeOK, Steps
<1>1. /\ UNCHANGED <<pdf, md, theirs, converted, report, user>>
      /\ \A t \in Stems : meta'[t] = meta[t] \/ meta'[t] = None
      /\ pc'["api"] \notin {"mineru", "meta"}
      /\ \A q \in Procs : q # "api" => pc'[q] = pc[q]
      /\ Busy("api") \/ MayStart
  <2>1. CASE StartUpdate
    <3>1. Goto("api", "replace") /\ MayStart /\ UNCHANGED <<disk, records, report, user>>
      BY <2>1 DEF StartUpdate
    <3>2. QED  BY <1>0, <3>1, GotoEffect, ProcTypes DEF disk, records
  <2>2. CASE \E s \in Stems : ReplaceDoc(s)
    <3>1. PICK s \in Stems : ReplaceDoc(s)
      BY <2>2
    <3>2. QED  BY <1>0, <3>1, ReplaceEffect, PurgeEffect DEF Busy
  <2>3. QED  BY <2>1, <2>2
<1>2. Alone' /\ \A q \in Procs : Converting(q)' => q = "api"
  BY <1>1, AloneMoved, ProcTypes
<1>3. ConversionOK'
  BY <1>1, <1>2 DEF ConversionOK, Converting
<1>4. ReportsTidy' /\ Fresh' /\ ConvertedOK'
  BY <1>0, <1>1, ProcTypes DEF CInv, ReportsTidy, Fresh, ConvertedOK, FromPdf
<1>5. QED  BY <1>0, <1>2, <1>3, <1>4 DEF CInv

\* MinerU's Markdown comes from the content the PDF still has.
LEMMA MineruCurrent ==
  ASSUME CInv, OneTask, NEW p \in {"conversion", "api"}, MineruDone(p)
  PROVE  CInv'
<1> DEFINE s == cur[p].doc
           v == cur[p].text
<1>0. /\ TypeOK /\ WorkOK /\ OInv' /\ p \in Procs /\ pc[p] = "mineru" /\ s \in Stems
      /\ v \in Versions /\ v = pdf[s] /\ Busy(p)
      /\ UNCHANGED <<pdf, meta, records, report, user>>
  BY MineruOwn DEF CInv, OInv, TypeOK, MineruDone, JobOK, Converting, ConversionOK, Procs, Busy
<1>1. \A q \in Procs : q # p => pc'[q] = pc[q]
  BY <1>0 DEF MineruDone, Goto, WorkOK
<1>2. \/ /\ md' = [md EXCEPT ![s] = v] /\ theirs' = theirs \ {s}
         /\ pc'[p] = "meta" /\ UNCHANGED cur
      \/ /\ md' = md /\ theirs' = theirs
         /\ pc'[p] = (IF p = "api" THEN "idle" ELSE "loop")
  BY <1>0 DEF MineruDone, Goto, WorkOK
<1>3. Alone' /\ \A q \in Procs : Converting(q)' => q = p
  BY <1>0, <1>1, AloneMoved
<1>4. /\ \A t \in Stems : t # s => md'[t] = md[t] /\ (t \in theirs => t \in theirs')
      /\ md'[s] = v \/ (md' = md /\ theirs' = theirs)
      /\ pc'[p] = "meta" => md'[s] = v
  BY <1>0, <1>2 DEF TypeOK, DiskOK
<1>5. ConversionOK'
  BY <1>0, <1>2, <1>3, <1>4 DEF ConversionOK, Converting
<1>6. ReportsTidy'
  <2>1. report["run"] = NoReport /\ pc["run"] = "idle"
    BY <1>0, OthersRest, ProcTypes
  <2>2. pc'["run"] = pc["run"] /\ pc'["conversion"] \in {pc["conversion"], "meta", "loop"}
    BY <1>0, <1>1, <1>2, ProcTypes
  <2>3. pc["conversion"] = "idle" <=> pc'["conversion"] = "idle"
    BY <1>0, <1>1, <1>2, ProcTypes
  <2>4. QED  BY <1>0, <2>1, <2>2, <2>3 DEF CInv, ReportsTidy, NoReport
<1>7. Fresh' /\ ConvertedOK'
  BY <1>0, <1>4 DEF CInv, Fresh, ConvertedOK, FromPdf, records
<1>8. QED  BY <1>0, <1>3, <1>5, <1>6, <1>7 DEF CInv

\* Metadata name the content the Markdown comes from.
LEMMA MetaCurrent ==
  ASSUME CInv, OneTask, NEW p \in {"conversion", "api"}, WriteMeta(p)
  PROVE  CInv'
<1> DEFINE s == cur[p].doc
           v == cur[p].text
<1>0. /\ TypeOK /\ WorkOK /\ OInv' /\ p \in Procs /\ pc[p] = "meta" /\ s \in Stems
      /\ v \in Versions /\ v = pdf[s] /\ md[s] = v /\ Busy(p)
      /\ UNCHANGED <<pdf, md, images, theirs, records, user, faults>>
      /\ meta' = [meta EXCEPT ![s] = v]
  BY MetaOwn DEF CInv, OInv, TypeOK, WriteMeta, JobOK, Converting, ConversionOK, Procs, Busy
<1>1. pc'[p] = (IF p = "api" THEN "load" ELSE "loop") /\ \A q \in Procs : q # p => pc'[q] = pc[q]
  BY <1>0 DEF WriteMeta, Goto, WorkOK
<1>2. Alone' /\ \A q \in Procs : Converting(q)' => q = p
  BY <1>0, <1>1, AloneMoved
<1>3. ConversionOK'
  BY <1>1, <1>2 DEF ConversionOK, Converting
<1>4. ReportsTidy'
  <2>1. p = "api" => UNCHANGED report
    BY DEF WriteMeta
  <2>2. p = "conversion" => pc'["conversion"] = "loop" /\ pc["run"] = "idle"
    BY <1>0, <1>1, OthersRest, ProcTypes
  <2>3. pc'["run"] = pc["run"] /\ (p = "api" => pc'["conversion"] = pc["conversion"])
    BY <1>1, ProcTypes
  <2>4. QED  BY <1>0, <2>1, <2>2, <2>3, MetaReport DEF CInv, ReportsTidy
<1>5. Fresh' /\ ConvertedOK'
  <2>1. meta'[s] = v /\ \A t \in Stems : t # s => meta'[t] = meta[t]
    BY <1>0 DEF TypeOK, DiskOK
  <2>2. v # None
    BY <1>0, Constants
  <2>3. Fresh'
    BY <1>0, <2>1, <2>2 DEF CInv, Fresh, records
  <2>4. ConvertedOK'
    BY <1>0, <2>1, MetaReport DEF CInv, ConvertedOK, FromPdf, records
  <2>5. QED  BY <2>3, <2>4
<1>6. QED  BY <1>0, <1>2, <1>3, <1>4, <1>5 DEF CInv

LEMMA StartRunCurrent ==
  ASSUME CInv, OneTask, StartRun
  PROVE  CInv'
<1>0. /\ TypeOK /\ WorkOK /\ OInv' /\ MayStart /\ Goto("run", "clean")
      /\ Gone \in SUBSET Stems /\ RemoveForPdfs(Gone)
      /\ pc["run"] = "idle" /\ report["run"] = NoReport
      /\ UNCHANGED <<pdf, theirs, records, cur, user, faults>>
  BY StartRunOwn DEF CInv, OInv, TypeOK, StartRun, Gone, ReportsTidy
<1>1. Alone' /\ ConversionOK' /\ pc'["run"] = "clean" /\ pc'["conversion"] = pc["conversion"]
  BY <1>0, PhaseCurrent, ProcTypes
<1>2. ReportsTidy'
  BY <1>0, <1>1, StartRunReport DEF CInv, ReportsTidy, NoReport
<1>3. Fresh' /\ ConvertedOK'
  BY <1>0, StartRunReport, CleanedCurrent DEF Gone, records
<1>4. QED  BY <1>0, <1>1, <1>2, <1>3 DEF CInv

LEMMA ForgetCurrent ==
  ASSUME CInv, OneTask, ForgetPdfs
  PROVE  CInv'
<1>0. /\ TypeOK /\ WorkOK /\ OInv' /\ pc["run"] = "clean" /\ Goto("run", "loop")
      /\ UNCHANGED <<disk, hashed, index, manifest, cur, user, faults>>
  BY ForgetOwn DEF CInv, OInv, TypeOK, ForgetPdfs
<1>1. Alone' /\ ConversionOK' /\ pc'["run"] = "loop" /\ pc'["conversion"] = pc["conversion"]
  BY <1>0, PhaseCurrent, ProcTypes DEF Busy
<1>2. ReportsTidy'
  BY <1>0, <1>1, ForgetReport DEF CInv, ReportsTidy, RemovedMds, disk
<1>3. \A s \in Stems : converted'[s] \in {None, converted[s]}
  BY DEF ForgetPdfs
<1>4. Fresh' /\ ConvertedOK'
  BY <1>0, <1>3, ForgetReport DEF CInv, Fresh, ConvertedOK, FromPdf, disk
<1>5. QED  BY <1>0, <1>1, <1>2, <1>4 DEF CInv

\* No Markdown goes that was not gone already.
LEMMA RemoveCurrent ==
  ASSUME CInv, OneTask, NEW s \in Stems, RemoveDoc(s)
  PROVE  CInv'
<1>0. /\ TypeOK /\ WorkOK /\ OInv' /\ pc["run"] = "loop" /\ s \in report["run"].left
      /\ UNCHANGED <<pdf, theirs, converted, hashed, pc, cur, user, faults>>
  BY RemoveOwn DEF CInv, OInv, TypeOK, RemoveDoc
<1>1. md[s] = None
  BY <1>0 DEF CInv, OInv, LeftReported, ReportsTidy
<1>2. md' = md
  BY <1>0, <1>1, RemoveDocEffect DEF TypeOK, DiskOK
<1>3. Alone' /\ ConversionOK' /\ ReportsTidy'
  BY <1>0, <1>2, RemoveReport DEF CInv, Alone, Busy, ConversionOK, Converting, ReportsTidy
<1>4. Fresh' /\ ConvertedOK'
  BY <1>0, <1>2, RemoveDocEffect, RemoveReport DEF CInv, Fresh, ConvertedOK, FromPdf
<1>5. QED  BY <1>0, <1>3, <1>4 DEF CInv

LEMMA LoadCurrent ==
  ASSUME CInv, OneTask, NEW p \in {"run", "api"}, NEW s \in Stems, LoadDoc(p, s)
  PROVE  CInv'
<1>0. /\ TypeOK /\ WorkOK /\ OInv' /\ p \in Procs /\ Busy(p) /\ (p = "run" => pc[p] = "loop")
      /\ UNCHANGED <<pdf, md, theirs, converted, hashed, user, faults>>
  BY LoadOwn DEF CInv, OInv, TypeOK, LoadDoc, Procs, Busy
<1>1. \A t \in Stems : meta'[t] = meta[t] \/ meta'[t] = None
  BY <1>0, LoadEffect, PurgeEffect
<1>2. /\ Alone' /\ \A q \in Procs : Converting(q)' => q = p
      /\ \A q \in Procs : q # p => pc'[q] = pc[q]
  BY <1>0, LoadEffect, AloneMoved
<1>3. ConversionOK'
  BY <1>0, <1>2, LoadEffect DEF ConversionOK, Converting
<1>4. ReportsTidy'
  <2>1. CASE p = "api"
    <3>1. report' = report /\ pc'["run"] = pc["run"] /\ pc'["conversion"] = pc["conversion"]
      BY <1>2, <2>1, ProcTypes DEF LoadDoc
    <3>2. QED  BY <1>0, <3>1 DEF CInv, ReportsTidy
  <2>2. CASE p = "run"
    <3>1. pc'["run"] \in {"loop", "insert"} /\ pc'["conversion"] = pc["conversion"]
      BY <1>0, <1>2, <2>2, LoadEffect, ProcTypes
    <3>2. QED  BY <1>0, <2>2, <3>1, LoadReport DEF CInv, ReportsTidy
  <2>3. QED  BY <2>1, <2>2
<1>5. Fresh' /\ ConvertedOK'
  BY <1>0, <1>1, LoadReport DEF CInv, Fresh, ConvertedOK, FromPdf
<1>6. QED  BY <1>0, <1>2, <1>3, <1>4, <1>5 DEF CInv

LEMMA InsertCurrent ==
  ASSUME CInv, OneTask, NEW p \in {"run", "api"}, InsertDoc(p)
  PROVE  CInv'
<1>0. /\ TypeOK /\ WorkOK /\ JobOK /\ OInv' /\ p \in Procs /\ pc[p] = "insert" /\ Busy(p)
      /\ cur[p].doc \in Stems
      /\ UNCHANGED <<disk, converted, user>>
  BY InsertOwn, InsertEffect DEF CInv, OInv, TypeOK, Procs, Busy
<1>1. /\ Alone' /\ \A q \in Procs : Converting(q)' => q = p
      /\ \A q \in Procs : q # p => pc'[q] = pc[q]
  BY <1>0, InsertEffect, AloneMoved
<1>2. ConversionOK'
  BY <1>0, <1>1, InsertEffect DEF ConversionOK, Converting
<1>3. ReportsTidy'
  BY <1>0, <1>1, InsertEffect, InsertReport, ProcTypes DEF CInv, ReportsTidy, disk
<1>4. Fresh' /\ ConvertedOK'
  BY <1>0, InsertReport DEF CInv, Fresh, ConvertedOK, FromPdf, disk
<1>5. QED  BY <1>0, <1>1, <1>2, <1>3, <1>4 DEF CInv

LEMMA SaveHashCurrent ==
  ASSUME CInv, OneTask, SaveHashCache
  PROVE  CInv'
<1>0. /\ TypeOK /\ WorkOK /\ OInv' /\ pc["run"] = "loop" /\ Goto("run", "idle")
      /\ UNCHANGED <<disk, converted, index, manifest, cur, user, faults>>
      /\ report' = [report EXCEPT !["run"] = NoReport]
  BY SaveHashOwn DEF CInv, OInv, TypeOK, SaveHashCache
<1>1. Alone' /\ ConversionOK' /\ pc'["run"] = "idle" /\ pc'["conversion"] = pc["conversion"]
  BY <1>0, PhaseCurrent, ProcTypes DEF Busy
<1>2. report'["run"] = NoReport /\ report'["conversion"] = report["conversion"]
  BY <1>0, NewReport, NoReportType
<1>3. ReportsTidy' /\ Fresh' /\ ConvertedOK'
  BY <1>0, <1>1, <1>2 DEF CInv, ReportsTidy, Fresh, ConvertedOK, FromPdf, NoReport, disk
<1>4. QED  BY <1>0, <1>1, <1>3 DEF CInv

LEMMA CrashCurrent ==
  ASSUME CInv, NEW S \in Dying, Crash(S)
  PROVE  CInv'
<1>0. /\ TypeOK /\ OInv' /\ UNCHANGED <<disk, records, user>>
      /\ \A p \in Procs : pc'[p] = "idle" \/ (pc'[p] = pc[p] /\ cur'[p] = cur[p])
      /\ \A p \in {"conversion", "run"} :
            \/ pc'[p] = "idle" /\ report'[p] = NoReport
            \/ pc'[p] = pc[p] /\ report'[p] = report[p]
  BY CrashOwn, CrashEffect, ProcTypes DEF CInv, OInv
<1>1. Alone' /\ ConversionOK'
  BY <1>0 DEF CInv, Alone, Busy, ConversionOK, Converting, disk
<1>2. ReportsTidy'
  BY <1>0 DEF CInv, ReportsTidy, NoReport, disk
<1>3. Fresh' /\ ConvertedOK'
  BY <1>0 DEF CInv, Fresh, ConvertedOK, FromPdf, NoReport, disk, records
<1>4. QED  BY <1>0, <1>1, <1>2, <1>3 DEF CInv

LEMMA InitCurrent ==
  ASSUME Init
  PROVE  CInv
BY InitOwn, ProcTypes DEF Init, CInv, Alone, Busy, ReportsTidy, Fresh, ConvertedOK, FromPdf, ConversionOK,
   Converting, NoReport

LEMMA NextCurrent ==
  ASSUME CInv, OneTask, ~FilesWhileBusy, [Next]_vars
  PROVE  CInv'
<1>1. CASE ConversionStep
  BY <1>1, StartConversionCurrent, CleanCurrent, SaveConversionCurrent, MineruCurrent,
     MetaCurrent, ConvertCurrent DEF ConversionStep
<1>2. CASE RunStep
  BY <1>2, StartRunCurrent, ForgetCurrent, SaveHashCurrent, InsertCurrent, RemoveCurrent,
     LoadCurrent DEF RunStep
<1>3. CASE UploadStep
  BY <1>3, UploadCurrent, UpdateCurrent, MineruCurrent, MetaCurrent, InsertCurrent,
     LoadCurrent DEF UploadStep
<1>4. ASSUME NEW s \in Stems, UserStep(s)
      PROVE  CInv'
  BY <1>4, UserCurrent, DeleteCurrent DEF UserStep, Users
<1>5. ASSUME NEW S \in Dying, Crash(S)
      PROVE  CInv'
  BY <1>5, CrashCurrent
<1>6. CASE UNCHANGED vars
  <2>1. OInv'
    BY <1>6, StutterOwn DEF CInv
  <2>2. QED  BY <1>6, <2>1 DEF CInv, Alone, Busy, ReportsTidy, Fresh, ConvertedOK, FromPdf, ConversionOK,
             Converting, vars, disk, records, work
<1>7. QED  BY <1>1, <1>2, <1>3, <1>4, <1>5, <1>6 DEF Next

\* When conversions, runs and uploads take turns and users leave alone what is
\* in hand, the conversion cache vouches only for PDFs whose Markdown comes
\* from their content, whatever fails and whoever is killed.
THEOREM ConversionCacheTrue == OneTask /\ ~FilesWhileBusy /\ Spec => []ConvertedIsCurrent
<1>1. Init => CInv
  BY InitCurrent
<1>2. CInv => ConvertedIsCurrent
  BY DEF CInv, ConvertedOK, FromPdf, ConvertedIsCurrent
<1>3. CASE OneTask /\ ~FilesWhileBusy
  <2>1. CInv /\ [Next]_vars => CInv'
    BY <1>3, NextCurrent
  <2>2. QED  BY <1>1, <1>2, <2>1, PTL DEF Spec
<1>4. QED  BY <1>3

=============================================================================
