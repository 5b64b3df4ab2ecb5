------------------------- MODULE CommunitiesProofs --------------------------
(***************************************************************************)
(* For any graphs, builders and questions: what is cached under a version  *)
(* of the summaries is of that version; and while builds take the lock, a  *)
(* later graph wins and no summary is lost that could be kept.             *)
(***************************************************************************)
EXTENDS Communities, FiniteSetTheorems, TLAPS

-----------------------------------------------------------------------------
(***************************************************************************)
(* Types: what a build carries along gets longer with each of its steps.   *)
(***************************************************************************)
Texts == Communities \cup {Blank}

BuildType(b) ==
    LET s == build[b] IN
    /\ s.pc \in {"idle", "loaded", "summarizing", "embedding", "saving", "indexing"}
    /\ s.pc # "idle" => s.graph \in Graphs /\ s.at \in 0 .. changes
    /\ s.pc \in {"loaded", "summarizing"} => s.kind \in Kinds
    /\ s.pc = "summarizing" =>
          /\ DOMAIN s.text \in SUBSET s.graph
          /\ s.text \in [DOMAIN s.text -> Texts]
          /\ s.todo \in SUBSET s.graph
    /\ s.pc \in {"embedding", "saving", "indexing"} => s.text \in [s.graph -> Texts]
    /\ s.pc \in {"saving", "indexing"} => s.ids \in SUBSET s.graph

FileTypes ==
    /\ reports # None => /\ reports \in Report /\ DOMAIN reports.text = reports.graph
                         /\ reports.at <= changes
    /\ index # None => index \in Index /\ index.ids \subseteq index.graph

BuildTypes == DOMAIN build = Builders /\ \A b \in Builders : BuildType(b)

ReaderTypes ==
    DOMAIN reader = Readers /\ \A q \in Readers : reader[q].pc \in {"new", "retrieving", "storing"}

OtherTypes ==
    /\ graph \in Graphs /\ changes \in 0 .. MaxChanges
    /\ lock \in Builders \cup {None}
    /\ due \in [Builders -> BOOLEAN] /\ missed \in BOOLEAN
    /\ others \in 0 .. MaxBuilds /\ crashes \in 0 .. MaxCrashes

TypeInv == FileTypes /\ BuildTypes /\ ReaderTypes /\ OtherTypes

LEMMA TypesImply == ASSUME TypeInv PROVE TypeOK
  BY DEF TypeInv, FileTypes, BuildTypes, BuildType, ReaderTypes, OtherTypes, TypeOK

\* a step of one build
LEMMA OthersKeepType ==
    ASSUME BuildTypes, changes' = changes, NEW b \in Builders, NEW new,
           build' = [build EXCEPT ![b] = new], BuildType(b)'
    PROVE  BuildTypes'
<1>1. ASSUME NEW c \in Builders, c # b PROVE BuildType(c)'
  BY <1>1 DEF BuildTypes, BuildType
<1> QED  BY <1>1 DEF BuildTypes

LEMMA LeaveTypes ==
    ASSUME BuildTypes, OtherTypes, changes' = changes, NEW b \in Builders, Leave(b)
    PROVE  BuildTypes' /\ lock' \in Builders \cup {None}
<1>1. build' = [build EXCEPT ![b] = [pc |-> "idle"]]  BY DEF Leave, Idle
<1>2. BuildType(b)'  BY <1>1 DEF BuildTypes, BuildType
<1> QED  BY <1>1, <1>2, OthersKeepType DEF Leave, Release, OtherTypes

\* what leaves the files, the clock and the questions alone
LEMMA BuildStepTypes ==
    ASSUME TypeInv, UNCHANGED <<fileVars, reader, graph, changes>>, BuildTypes', OtherTypes'
    PROVE  TypeInv'
  BY DEF TypeInv, FileTypes, ReaderTypes, fileVars

\* a refresh that is to come, or no more
LEMMA DueTypes ==
    ASSUME due \in [Builders -> BOOLEAN], NEW b \in Builders, NEW value \in BOOLEAN,
           due' = [due EXCEPT ![b] = value]
    PROVE  due' \in [Builders -> BOOLEAN]
  OBVIOUS

LEMMA StartTypes == ASSUME TypeInv, NEW b \in Builders, StartAny(b) PROVE TypeInv'
<1>1. PICK kind \in Kinds :
        /\ Start(b, kind)
        /\ \/ due' = [due EXCEPT ![b] = FALSE] /\ others' = others
           \/ others < MaxBuilds /\ others' = others + 1 /\ due' = due
  BY DEF StartAny
<1>2. build' = [build EXCEPT ![b] =
          [pc |-> "loaded", kind |-> kind, graph |-> graph, at |-> changes]]
  BY <1>1 DEF Start
<1>3. BuildType(b)'
  BY <1>2 DEF StartAny, TypeInv, BuildTypes, BuildType, OtherTypes
<1>4. BuildTypes'  BY <1>2, <1>3, OthersKeepType DEF StartAny, TypeInv
<1>5. OtherTypes'
  <2>1. due' \in [Builders -> BOOLEAN]  BY <1>1, DueTypes DEF TypeInv, OtherTypes
  <2> QED
    BY <1>1, <2>1, CommunitiesAssumption DEF StartAny, Start, TypeInv, OtherTypes
<1> QED  BY <1>4, <1>5, BuildStepTypes DEF StartAny, readVars

LEMMA ReusableTypes ==
    ASSUME FileTypes, NEW b \in Builders, NEW c, Reusable(b, c) # {}
    PROVE  reports.text[CHOOSE d \in Reusable(b, c) : TRUE] \in Texts
<1> DEFINE d == CHOOSE d \in Reusable(b, c) : TRUE
<1>1. d \in Reusable(b, c)  OBVIOUS
<1>2. reports # None /\ d \in reports.graph  BY <1>1 DEF Reusable
<1>3. reports \in Report /\ DOMAIN reports.text = reports.graph  BY <1>2 DEF FileTypes
<1>4. PICK g \in Graphs : reports.text \in [g -> Communities \cup {Blank}]
  BY <1>3 DEF Report
<1> QED  BY <1>2, <1>3, <1>4 DEF Texts

LEMMA PlanTypes == ASSUME TypeInv, NEW b \in Builders, Plan(b) PROVE TypeInv'
<1>1. CASE Leave(b)
  <2>1. BuildTypes' /\ lock' \in Builders \cup {None}
    BY <1>1, LeaveTypes DEF Plan, TypeInv
  <2>2. OtherTypes'  BY <2>1 DEF Plan, TypeInv, OtherTypes
  <2> QED  BY <2>1, <2>2, BuildStepTypes DEF Plan, readVars
<1>2. CASE ~ Leave(b)
  <2>1. PICK todo \in SUBSET (build[b].graph \ DOMAIN Draft(b)) :
          build' = [build EXCEPT ![b] =
                      [pc |-> "summarizing", kind |-> @.kind, graph |-> @.graph,
                       at |-> @.at, text |-> Draft(b), todo |-> todo]]
    BY <1>2 DEF Plan
  <2>2. /\ Draft(b) \in [DOMAIN Draft(b) -> Texts]
        /\ DOMAIN Draft(b) \in SUBSET build[b].graph
    BY ReusableTypes DEF Draft, TypeInv
  <2>3. BuildType(b)'
    BY <2>1, <2>2 DEF Plan, TypeInv, BuildTypes, BuildType
  <2>4. BuildTypes'  BY <2>1, <2>3, OthersKeepType DEF Plan, TypeInv
  <2>5. OtherTypes'  BY <1>2 DEF Plan, TypeInv, OtherTypes
  <2> QED  BY <2>4, <2>5, BuildStepTypes DEF Plan, readVars
<1> QED  BY <1>1, <1>2

LEMMA GeneratedTypes ==
    ASSUME TypeInv, NEW b \in Builders, build[b].pc = "summarizing",
           NEW ok \in SUBSET build[b].todo
    PROVE  Generated(b, ok) \in [build[b].graph -> Texts]
<1>1. BuildType(b)  BY DEF TypeInv, BuildTypes
<1>2. \A c \in build[b].graph : c \in Texts  BY <1>1 DEF BuildType, Texts, Communities
<1>3. ASSUME NEW c \in build[b].graph PROVE Generated(b, ok)[c] \in Texts
  BY <1>1, <1>2, <1>3 DEF Generated, BuildType, Texts
<1> QED  BY <1>3 DEF Generated

LEMMA SummarizeTypes ==
    ASSUME TypeInv, NEW b \in Builders, NEW ok \in SUBSET build[b].todo, Summarize(b, ok)
    PROVE  TypeInv'
<1>1. CASE Leave(b)
  <2>1. BuildTypes' /\ lock' \in Builders \cup {None}
    BY <1>1, LeaveTypes DEF Summarize, TypeInv
  <2>2. OtherTypes'  BY <2>1 DEF Summarize, TypeInv, OtherTypes
  <2> QED  BY <2>1, <2>2, BuildStepTypes DEF Summarize, readVars
<1>2. CASE ~ Leave(b)
  <2>1. build' = [build EXCEPT ![b] =
                    [pc |-> "embedding", graph |-> @.graph, at |-> @.at, text |-> Generated(b, ok)]]
    BY <1>2 DEF Summarize
  <2>2. Generated(b, ok) \in [build[b].graph -> Texts]
    BY GeneratedTypes DEF Summarize
  <2>3. BuildType(b)'
    BY <2>1, <2>2 DEF Summarize, TypeInv, BuildTypes, BuildType
  <2>4. BuildTypes'  BY <2>1, <2>3, OthersKeepType DEF Summarize, TypeInv
  <2>5. OtherTypes'  BY <1>2 DEF Summarize, TypeInv, OtherTypes
  <2> QED  BY <2>4, <2>5, BuildStepTypes DEF Summarize, readVars
<1> QED  BY <1>1, <1>2

LEMMA EmbedTypes ==
    ASSUME TypeInv, NEW b \in Builders, NEW ids, Embed(b, ids) PROVE TypeInv'
<1>1. build' = [build EXCEPT ![b] =
          [pc |-> "saving", graph |-> @.graph, at |-> @.at, text |-> @.text, ids |-> ids]]
  BY DEF Embed
<1>2. BuildType(b)  BY DEF TypeInv, BuildTypes
<1>3. ids \in SUBSET build[b].graph  BY <1>2 DEF Embed, BuildType
<1>4. BuildType(b)'
  BY <1>1, <1>2, <1>3 DEF Embed, TypeInv, BuildTypes, BuildType
<1>5. BuildTypes'  BY <1>1, <1>4, OthersKeepType DEF Embed, TypeInv
<1>6. OtherTypes'  BY DEF Embed, TypeInv, OtherTypes
<1> QED  BY <1>5, <1>6, BuildStepTypes DEF Embed, fileVars, readVars

LEMMA NumberedVersion == ASSUME FileTypes PROVE Version \in Nat
  BY DEF FileTypes, Version, Report

LEMMA SavedReport ==
    ASSUME TypeInv, NEW b \in Builders, SaveReports(b)
    PROVE  /\ reports' \in Report /\ reports' # None
           /\ reports' = [graph |-> build[b].graph, at |-> build[b].at,
                          built |-> Version + 1, text |-> build[b].text]
           /\ DOMAIN reports'.text = reports'.graph /\ reports'.at <= changes
<1>1. BuildType(b)  BY DEF TypeInv, BuildTypes
<1>2. reports' = [graph |-> build[b].graph, at |-> build[b].at,
                  built |-> Version + 1, text |-> build[b].text]
  BY DEF SaveReports
<1>3. Version + 1 \in Nat  BY NumberedVersion DEF TypeInv
<1>4. build[b].graph \in Graphs /\ build[b].at \in Nat /\ build[b].at <= changes
  BY <1>1 DEF SaveReports, BuildType, TypeInv, OtherTypes
<1>5. build[b].text \in [build[b].graph -> Communities \cup {Blank}]
  BY <1>1 DEF SaveReports, BuildType, Texts
<1>6. build[b].text \in UNION {[g -> Communities \cup {Blank}] : g \in Graphs}
  BY <1>4, <1>5
<1>7. reports' \in Report  BY <1>2, <1>3, <1>4, <1>6 DEF Report
<1> QED  BY <1>2, <1>4, <1>5, <1>7, NoneAssumption

LEMMA SaveReportsTypes == ASSUME TypeInv, NEW b \in Builders, SaveReports(b) PROVE TypeInv'
<1>1. BuildType(b)  BY DEF TypeInv, BuildTypes
<1>2. FileTypes'
  BY SavedReport DEF SaveReports, FileTypes, TypeInv
<1>3. BuildTypes' /\ lock' \in Builders \cup {None}
  <2>1. CASE build[b].ids = {}
    BY <2>1, LeaveTypes DEF SaveReports, TypeInv
  <2>2. CASE build[b].ids # {}
    <3>1. build' = [build EXCEPT ![b] = [build[b] EXCEPT !.pc = "indexing"]] /\ lock' = lock
      BY <2>2 DEF SaveReports
    <3>2. BuildType(b)'
      BY <1>1, <3>1 DEF SaveReports, TypeInv, BuildTypes, BuildType
    <3> QED  BY <3>1, <3>2, OthersKeepType DEF SaveReports, TypeInv, OtherTypes
  <2> QED  BY <2>1, <2>2
<1> QED
  BY <1>2, <1>3 DEF SaveReports, readVars, TypeInv, ReaderTypes, OtherTypes

LEMMA SaveIndexTypes == ASSUME TypeInv, NEW b \in Builders, SaveIndex(b) PROVE TypeInv'
<1>1. BuildType(b)  BY DEF TypeInv, BuildTypes
<1>2. build[b].graph \in Graphs /\ build[b].ids \in SUBSET build[b].graph
  BY <1>1 DEF SaveIndex, BuildType
<1>3. index' \in Index /\ index'.ids \subseteq index'.graph
  BY <1>2 DEF SaveIndex, Index, Communities
<1>4. BuildTypes' /\ lock' \in Builders \cup {None}
  BY LeaveTypes DEF SaveIndex, TypeInv
<1> QED
  BY <1>3, <1>4 DEF SaveIndex, readVars, TypeInv, FileTypes, ReaderTypes, OtherTypes

LEMMA CrashTypes == ASSUME TypeInv, NEW b \in Builders, Crash(b) PROVE TypeInv'
<1>1. build' = [build EXCEPT ![b] = [pc |-> "idle"]]  BY DEF Crash, Idle
<1>2. BuildType(b)'  BY <1>1 DEF TypeInv, BuildTypes, BuildType
<1>3. BuildTypes'  BY <1>1, <1>2, OthersKeepType DEF Crash, TypeInv
<1>4. ReaderTypes'  BY DEF Crash, TypeInv, ReaderTypes
<1>5. FileTypes'  BY DEF Crash, fileVars, TypeInv, FileTypes
<1>6. OtherTypes'
  <2>1. due' \in [Builders -> BOOLEAN]  BY DueTypes DEF Crash, TypeInv, OtherTypes
  <2>2. missed' \in BOOLEAN  BY DEF Crash, TypeInv, OtherTypes
  <2>3. crashes < MaxCrashes /\ crashes' = crashes + 1 /\ crashes \in 0 .. MaxCrashes
    BY DEF Crash, TypeInv, OtherTypes
  <2>4. crashes' \in 0 .. MaxCrashes  BY <2>3, CommunitiesAssumption
  <2> QED  BY <2>1, <2>2, <2>4 DEF Crash, TypeInv, OtherTypes
<1> QED  BY <1>3, <1>4, <1>5, <1>6 DEF TypeInv

LEMMA ClockTypes ==
    ASSUME TypeInv, NEW b \in Builders, NEW r \in BOOLEAN, ChangeGraph(b, r) PROVE TypeInv'
<1>1. changes \in Nat /\ changes' = changes + 1  BY DEF ChangeGraph, TypeInv, OtherTypes
<1>2. ASSUME NEW c \in Builders PROVE BuildType(c)'
  <2>1. build' = build /\ BuildType(c)  BY DEF ChangeGraph, TypeInv, BuildTypes
  <2>2. \A n \in 0 .. changes : n \in 0 .. changes'  BY <1>1
  <2> QED  BY <2>1, <2>2 DEF BuildType
<1>3. FileTypes'
  <2>1. reports # None => reports.at \in Nat  BY DEF TypeInv, FileTypes, Report
  <2>2. UNCHANGED <<reports, index>>  BY DEF ChangeGraph, fileVars
  <2> QED  BY <1>1, <2>1, <2>2 DEF TypeInv, FileTypes
<1>4. OtherTypes'
  <2>1. due' \in [Builders -> BOOLEAN]  BY DueTypes DEF ChangeGraph, TypeInv, OtherTypes
  <2>2. missed' \in BOOLEAN  BY DEF ChangeGraph, TypeInv, OtherTypes
  <2> QED
    BY <2>1, <2>2, CommunitiesAssumption DEF ChangeGraph, TypeInv, OtherTypes
<1> QED
  BY <1>2, <1>3, <1>4 DEF ChangeGraph, readVars, TypeInv, BuildTypes, ReaderTypes

LEMMA ReaderStepTypes ==
    ASSUME TypeInv, NEW q \in Readers, Ask(q) \/ Select(q) \/ Store(q) PROVE TypeInv'
<1>1. UNCHANGED <<graph, changes, fileVars, lock, build, due, missed, others, crashes>>
  BY DEF Ask, Select, Store
<1>2. FileTypes' /\ OtherTypes'  BY <1>1 DEF fileVars, TypeInv, FileTypes, OtherTypes
<1>3. BuildTypes'  BY <1>1 DEF TypeInv, BuildTypes, BuildType
<1>4. ReaderTypes'  BY DEF Ask, Select, Store, TypeInv, ReaderTypes
<1> QED  BY <1>2, <1>3, <1>4 DEF TypeInv

LEMMA SkipTypes == ASSUME TypeInv, NEW b \in Builders, Skip(b) PROVE TypeInv'
<1>1. OtherTypes'
  <2>1. due' \in [Builders -> BOOLEAN]  BY DueTypes DEF Skip, TypeInv, OtherTypes
  <2>2. missed' \in BOOLEAN  BY DEF Skip, TypeInv, OtherTypes
  <2> QED  BY <2>1, <2>2 DEF Skip, TypeInv, OtherTypes
<1> QED
  BY <1>1 DEF Skip, fileVars, readVars, TypeInv, FileTypes, BuildTypes, BuildType, ReaderTypes

LEMMA UnchangedTypes == ASSUME TypeInv, UNCHANGED vars \/ ExpireLock PROVE TypeInv'
  BY DEF ExpireLock, vars, fileVars, readVars, TypeInv, FileTypes, BuildTypes, BuildType,
     ReaderTypes, OtherTypes

LEMMA InitTypes == ASSUME Init PROVE TypeInv
<1>1. due \in [Builders -> BOOLEAN] /\ missed \in BOOLEAN  BY DEF Init
<1>2. OtherTypes  BY <1>1, CommunitiesAssumption DEF Init, OtherTypes
<1>3. FileTypes /\ BuildTypes /\ ReaderTypes
  BY DEF Init, Idle, FileTypes, BuildTypes, BuildType, ReaderTypes
<1> QED  BY <1>2, <1>3 DEF TypeInv

LEMMA NextTypes == ASSUME TypeInv, [Next]_vars PROVE TypeInv'
<1>1. ASSUME NEW b \in Builders, Proceed(b) PROVE TypeInv'
  BY <1>1, PlanTypes, EmbedTypes, SaveReportsTypes, SaveIndexTypes DEF Proceed
<1>2. ASSUME NEW b \in Builders, NEW ok \in SUBSET Communities,
             ok \subseteq build[b].todo, Summarize(b, ok)
      PROVE  TypeInv'
  BY <1>2, SummarizeTypes
<1> QED
  BY <1>1, <1>2, StartTypes, SkipTypes, CrashTypes, ClockTypes, ReaderStepTypes,
     UnchangedTypes DEF Next

(***************************************************************************)
(* The variables keep their types, in particular reports and index: what   *)
(* they say is about communities of their own graph.                       *)
(***************************************************************************)
THEOREM TypeCorrect == Spec => []TypeOK
<1>1. Spec => []TypeInv  BY InitTypes, NextTypes, PTL DEF Spec
<1> QED  BY <1>1, TypesImply, PTL

-----------------------------------------------------------------------------
(***************************************************************************)
(* The version only grows, so that what was selected under an older one is *)
(* cached where no question looks any more.                                *)
(***************************************************************************)
Matches(picked, version) ==
    version = Version =>
        \A p \in picked :
            reports # None /\ p[1] \in reports.graph /\ reports.text[p[1]] = p[2]

VersionIsNumber == reports # None => reports.built \in Nat

ReadersUpToVersion ==
    /\ DOMAIN reader = Readers
    /\ \A q \in Readers :
          /\ reader[q].pc \in {"retrieving", "storing"} => reader[q].key \in 0 .. Version
          /\ reader[q].pc = "storing" => Matches(reader[q].picked, reader[q].key)

CachedUpToVersion ==
    \A v \in DOMAIN cached : v \in 0 .. Version /\ Matches(cached[v], v)

VersionInv == VersionIsNumber /\ ReadersUpToVersion /\ CachedUpToVersion

LEMMA VersionType == ASSUME VersionIsNumber PROVE Version \in Nat
  BY DEF VersionIsNumber, Version

LEMMA EligibleMatches == ASSUME NEW picked \in SUBSET Eligible, NEW v PROVE Matches(picked, v)
  BY DEF Eligible, Matches, Written

LEMMA VersionKept ==
    ASSUME VersionInv, UNCHANGED <<reports, readVars>>
    PROVE  VersionInv'
  BY DEF VersionInv, VersionIsNumber, ReadersUpToVersion, CachedUpToVersion, Matches, Version,
     readVars

LEMMA AskVersion == ASSUME VersionInv, NEW q \in Readers, Ask(q) PROVE VersionInv'
<1>1. Version \in Nat  BY VersionType DEF VersionInv
<1>2. Version' = Version /\ VersionIsNumber'
  BY DEF Ask, fileVars, VersionInv, VersionIsNumber, Version
<1>3. CachedUpToVersion'
  BY <1>2 DEF Ask, fileVars, VersionInv, CachedUpToVersion, Matches
<1>4. reader' = [reader EXCEPT ![q] = [pc |-> "retrieving", key |-> Version]]
  BY DEF Ask, Key
<1>5. ReadersUpToVersion'
  BY <1>1, <1>2, <1>4 DEF Ask, fileVars, VersionInv, ReadersUpToVersion, Matches
<1> QED  BY <1>2, <1>3, <1>5 DEF VersionInv

LEMMA SelectVersion == ASSUME VersionInv, NEW q \in Readers, Select(q) PROVE VersionInv'
<1>1. PICK picked \in SUBSET Eligible :
        reader' = [reader EXCEPT ![q] = [pc |-> "storing", key |-> @.key, picked |-> picked]]
  BY DEF Select
<1>2. Version' = Version /\ VersionIsNumber'
  BY DEF Select, fileVars, VersionInv, VersionIsNumber, Version
<1>3. CachedUpToVersion'
  BY <1>2 DEF Select, fileVars, VersionInv, CachedUpToVersion, Matches
<1>4. Matches(picked, reader[q].key)  BY EligibleMatches
<1>5. ReadersUpToVersion'
  BY <1>1, <1>2, <1>4 DEF Select, fileVars, VersionInv, ReadersUpToVersion, Matches
<1> QED  BY <1>2, <1>3, <1>5 DEF VersionInv

LEMMA StoreVersion == ASSUME VersionInv, NEW q \in Readers, Store(q) PROVE VersionInv'
<1>1. Version' = Version /\ VersionIsNumber' /\ reports' = reports
  BY DEF Store, fileVars, VersionInv, VersionIsNumber, Version
<1>2. ReadersUpToVersion'
  BY <1>1 DEF Store, VersionInv, ReadersUpToVersion, Matches
<1>3. reader[q].key \in 0 .. Version /\ Matches(reader[q].picked, reader[q].key)
  BY DEF Store, VersionInv, ReadersUpToVersion
<1>4. ASSUME NEW v \in DOMAIN cached' PROVE (v \in 0 .. Version /\ Matches(cached[v], v))'
  <2>1. v \in DOMAIN cached \cup {reader[q].key}  BY DEF Store
  <2>2. CASE v = reader[q].key
    BY <1>1, <1>3, <2>1, <2>2 DEF Store, Matches
  <2>3. CASE v # reader[q].key
    BY <1>1, <2>1, <2>3 DEF Store, VersionInv, CachedUpToVersion, Matches
  <2> QED  BY <2>2, <2>3
<1>5. CachedUpToVersion'  BY <1>4 DEF CachedUpToVersion
<1> QED  BY <1>1, <1>2, <1>5 DEF VersionInv

LEMMA SaveVersion ==
    ASSUME TypeInv, VersionInv, NEW b \in Builders, SaveReports(b)
    PROVE  VersionInv'
<1>1. Version \in Nat  BY VersionType DEF VersionInv
<1>2. reports' # None /\ reports'.built = Version + 1
  BY SavedReport
<1>3. Version' = Version + 1  BY <1>2 DEF Version
<1>4. VersionIsNumber'  BY <1>1, <1>2 DEF VersionIsNumber
<1>5. UNCHANGED readVars  BY DEF SaveReports
<1>6. \A v \in 0 .. Version : v \in 0 .. Version' /\ v # Version'
  BY <1>1, <1>3
<1>7. ReadersUpToVersion'
  BY <1>5, <1>6 DEF readVars, VersionInv, ReadersUpToVersion, Matches
<1>8. CachedUpToVersion'
  BY <1>5, <1>6 DEF readVars, VersionInv, CachedUpToVersion, Matches
<1> QED  BY <1>4, <1>7, <1>8 DEF VersionInv

LEMMA CrashVersion == ASSUME VersionInv, NEW b \in Builders, Crash(b) PROVE VersionInv'
<1>1. VersionIsNumber' /\ CachedUpToVersion'
  BY DEF Crash, fileVars, VersionInv, VersionIsNumber, CachedUpToVersion, Matches, Version
<1>2. CASE b = Service
  <2>1. reader' = [q \in Readers |-> [pc |-> "new"]]  BY <1>2 DEF Crash
  <2> QED  BY <1>1, <2>1 DEF VersionInv, ReadersUpToVersion
<1>3. CASE b # Service
  BY <1>3, VersionKept DEF Crash, fileVars, readVars
<1> QED  BY <1>2, <1>3

LEMMA InitVersion == ASSUME Init PROVE VersionInv
  BY DEF Init, VersionInv, VersionIsNumber, ReadersUpToVersion, CachedUpToVersion

LEMMA NextVersion == ASSUME TypeInv, VersionInv, [Next]_vars PROVE VersionInv'
<1>1. CASE UNCHANGED vars  BY <1>1, VersionKept DEF vars, fileVars
<1>2. CASE ExpireLock
  BY <1>2, VersionKept DEF ExpireLock, fileVars
<1>3. ASSUME NEW b \in Builders, StartAny(b) \/ Skip(b) \/ Plan(b) \/ SaveIndex(b) PROVE VersionInv'
  BY <1>3, VersionKept DEF StartAny, Skip, Plan, SaveIndex, fileVars
<1>6. ASSUME NEW b \in Builders, NEW r, ChangeGraph(b, r) PROVE VersionInv'
  BY <1>6, VersionKept DEF ChangeGraph, fileVars
<1>4. ASSUME NEW b \in Builders, NEW ids, Embed(b, ids) PROVE VersionInv'
  BY <1>4, VersionKept DEF Embed, fileVars
<1>5. ASSUME NEW b \in Builders, NEW ok, Summarize(b, ok) PROVE VersionInv'
  BY <1>5, VersionKept DEF Summarize, fileVars
<1> QED
  BY <1>1, <1>2, <1>3, <1>4, <1>5, <1>6, AskVersion, SelectVersion, StoreVersion, SaveVersion,
     CrashVersion DEF Next, Proceed

(***************************************************************************)
(* What a question finds cached under the current version of the summaries *)
(* was selected from these, whatever builds, locked or not, and crashes.   *)
(***************************************************************************)
THEOREM VersionNamesSummaries == Spec => []SummariesOfVersion
<1>1. VersionInv => SummariesOfVersion
  BY DEF VersionInv, CachedUpToVersion, Matches, SummariesOfVersion, Key
<1>2. Spec => []TypeInv  BY InitTypes, NextTypes, PTL DEF Spec
<1> QED  BY <1>1, <1>2, InitVersion, NextVersion, PTL DEF Spec

-----------------------------------------------------------------------------
(***************************************************************************)
(* Builds that take the lock: the one that builds holds it, so that the    *)
(* reports stay what they were when it read the graph and the files.       *)
(***************************************************************************)
AllLocked == \A k \in Kinds : k.locked

BuilderHoldsLock == \A b \in Builders : build[b].pc # "idle" => lock = b

BuildIsNewer ==
    \A b \in Builders :
        build[b].pc # "idle" /\ reports # None => reports.at <= build[b].at

LockInv == BuilderHoldsLock /\ BuildIsNewer

LEMMA StartIsNumber ==
    ASSUME TypeInv, NEW b \in Builders, build[b].pc # "idle"
    PROVE  build[b].at \in Nat
<1>1. BuildType(b)  BY DEF TypeInv, BuildTypes
<1>2. changes \in Nat  BY DEF TypeInv, OtherTypes
<1> QED  BY <1>1, <1>2 DEF BuildType

\* after the reports come the index, or the end
LEMMA SavingGoesOn ==
    ASSUME TypeInv, NEW b \in Builders, SaveReports(b)
    PROVE  \E new : /\ build' = [build EXCEPT ![b] = new]
                    /\ \/ new.pc = "idle"
                       \/ new.pc = "indexing" /\ new.at = build[b].at /\ lock' = lock
<1>1. CASE build[b].ids = {}
  <2>1. build' = [build EXCEPT ![b] = Idle]  BY <1>1 DEF SaveReports, Leave
  <2>2. Idle.pc = "idle"  BY DEF Idle
  <2> QED  BY <2>1, <2>2
<1>2. CASE build[b].ids # {}
  <2>1. build' = [build EXCEPT ![b] = [build[b] EXCEPT !.pc = "indexing"]] /\ lock' = lock
    BY <1>2 DEF SaveReports
  <2>2. BuildType(b) /\ build[b].pc = "saving"  BY DEF SaveReports, TypeInv, BuildTypes
  <2> DEFINE new == [build[b] EXCEPT !.pc = "indexing"]
  <2>3. new.pc = "indexing" /\ new.at = build[b].at  BY <2>2 DEF BuildType
  <2> QED  BY <2>1, <2>3
<1> QED  BY <1>1, <1>2

LEMMA OneBuilds ==
    ASSUME BuilderHoldsLock, NEW b \in Builders, NEW c \in Builders,
           build[b].pc # "idle", build[c].pc # "idle"
    PROVE  b = c
  BY DEF BuilderHoldsLock

\* a step of the one that builds, after which it may be done
LEMMA HolderStep ==
    ASSUME TypeInv, LockInv, NEW b \in Builders, build[b].pc # "idle", NEW new,
           build' = [build EXCEPT ![b] = new],
           new.pc = "idle" \/ (lock' = lock /\ new.at = build[b].at),
           reports' = reports
    PROVE  LockInv'
<1>1. \A c \in Builders : c # b => build'[c].pc = "idle"
  BY OneBuilds DEF LockInv, TypeInv, BuildTypes
<1>2. build'[b] = new  BY DEF TypeInv, BuildTypes
<1> QED  BY <1>1, <1>2 DEF LockInv, BuilderHoldsLock, BuildIsNewer

LEMMA NextLock == ASSUME AllLocked, TypeInv, LockInv, [Next]_vars PROVE LockInv'
<1>1. CASE UNCHANGED vars \/ \E b \in Builders, r \in BOOLEAN : Skip(b) \/ ChangeGraph(b, r)
  BY <1>1 DEF Skip, ChangeGraph, vars, fileVars, LockInv, BuilderHoldsLock, BuildIsNewer
<1>2. CASE ExpireLock
  BY <1>2 DEF ExpireLock, fileVars, LockInv, BuilderHoldsLock, BuildIsNewer
<1>3. ASSUME NEW b \in Builders, StartAny(b) PROVE LockInv'
  <2>1. PICK kind \in Kinds : Start(b, kind)  BY <1>3 DEF StartAny
  <2>2. lock = None /\ lock' = b
    BY <2>1 DEF Start, AllLocked
  <2>3. \A c \in Builders : build[c].pc = "idle"
    BY <2>2, CommunitiesAssumption DEF LockInv, BuilderHoldsLock
  <2>4. build' = [build EXCEPT ![b] =
            [pc |-> "loaded", kind |-> kind, graph |-> graph, at |-> changes]]
    BY <2>1 DEF Start
  <2>5. build'[b].at = changes /\ \A c \in Builders : c # b => build'[c].pc = "idle"
    BY <2>3, <2>4 DEF TypeInv, BuildTypes
  <2> QED
    BY <1>3, <2>2, <2>5 DEF StartAny, fileVars, TypeInv, FileTypes, LockInv, BuilderHoldsLock,
       BuildIsNewer
<1>4. ASSUME NEW b \in Builders, Plan(b) PROVE LockInv'
  BY <1>4, HolderStep DEF Plan, Leave, Idle, fileVars
<1>5. ASSUME NEW b \in Builders, NEW ok, Summarize(b, ok) PROVE LockInv'
  BY <1>5, HolderStep DEF Summarize, Leave, Idle, fileVars
<1>6. ASSUME NEW b \in Builders, NEW ids, Embed(b, ids) PROVE LockInv'
  BY <1>6, HolderStep DEF Embed, fileVars
<1>7. ASSUME NEW b \in Builders, SaveIndex(b) PROVE LockInv'
  BY <1>7, HolderStep DEF SaveIndex, Leave, Idle
<1>8. ASSUME NEW b \in Builders, Crash(b) PROVE LockInv'
  <2>1. /\ build' = [build EXCEPT ![b] = [pc |-> "idle"]] /\ UNCHANGED <<lock, reports>>
    BY <1>8 DEF Crash, Idle, fileVars
  <2>2. build'[b].pc = "idle" /\ \A c \in Builders : c # b => build'[c] = build[c]
    BY <2>1 DEF TypeInv, BuildTypes
  <2> QED  BY <2>1, <2>2 DEF LockInv, BuilderHoldsLock, BuildIsNewer
<1>9. ASSUME NEW b \in Builders, SaveReports(b) PROVE LockInv'
  <2> PICK new : /\ build' = [build EXCEPT ![b] = new]
                 /\ \/ new.pc = "idle"
                    \/ new.pc = "indexing" /\ new.at = build[b].at /\ lock' = lock
    BY <1>9, SavingGoesOn
  <2>1. \A c \in Builders : c # b => build'[c].pc = "idle"
    BY <1>9, OneBuilds DEF SaveReports, LockInv, TypeInv, BuildTypes
  <2>2. build'[b].pc = "idle" \/ (lock' = lock /\ build'[b].at = build[b].at)
    BY DEF TypeInv, BuildTypes
  <2>3. reports'.at = build[b].at  BY <1>9 DEF SaveReports
  <2>4. build[b].at \in Nat  BY <1>9, StartIsNumber DEF SaveReports
  <2> QED
    BY <1>9, <2>1, <2>2, <2>3, <2>4 DEF SaveReports, LockInv, BuilderHoldsLock, BuildIsNewer
<1>10. ASSUME NEW q \in Readers, Ask(q) \/ Select(q) \/ Store(q) PROVE LockInv'
  BY <1>10 DEF Ask, Select, Store, fileVars, LockInv, BuilderHoldsLock, BuildIsNewer
<1> QED
  BY <1>1, <1>2, <1>3, <1>4, <1>5, <1>6, <1>7, <1>8, <1>9, <1>10 DEF Next, Proceed

\* the only step that writes the reports
LEMMA ReportsWritten ==
    ASSUME [Next]_vars, reports' # reports
    PROVE  \E b \in Builders : SaveReports(b)
  BY DEF Next, Proceed, ChangeGraph, ExpireLock, StartAny, Skip, Plan, Embed, SaveIndex, Crash,
     Summarize, Ask, Select, Store, vars, fileVars

LEMMA InitLock == ASSUME Init PROVE LockInv
  BY DEF Init, Idle, LockInv, BuilderHoldsLock, BuildIsNewer

(***************************************************************************)
(* While every build takes the lock, the summaries of a later graph are    *)
(* never replaced by those of an earlier one, for any number of builders   *)
(* and through crashes and locks that expire.                              *)
(***************************************************************************)
THEOREM LaterGraphStays == AllLocked /\ Spec => NewerGraphWins
<1>1. ASSUME AllLocked PROVE Spec => [](TypeInv /\ LockInv)
  <2>1. Init => TypeInv /\ LockInv  BY InitTypes, InitLock
  <2>2. TypeInv /\ LockInv /\ [Next]_vars => (TypeInv /\ LockInv)'
    BY <1>1, NextTypes, NextLock
  <2> QED  BY <2>1, <2>2, PTL DEF Spec
<1>2. TypeInv /\ LockInv /\ [Next]_vars => [reports # None => reports'.at >= reports.at]_reports
  <2> SUFFICES ASSUME TypeInv, LockInv, [Next]_vars, reports' # reports, reports # None
               PROVE  reports'.at >= reports.at
    OBVIOUS
  <2>1. PICK b \in Builders : SaveReports(b)  BY ReportsWritten
  <2>2. reports.at \in Nat  BY DEF TypeInv, FileTypes, Report
  <2>3. reports'.at = build[b].at  BY <2>1 DEF SaveReports
  <2>4. build[b].at \in Nat  BY <2>1, StartIsNumber DEF SaveReports
  <2> QED  BY <2>1, <2>2, <2>3, <2>4 DEF SaveReports, LockInv, BuildIsNewer
<1>3. CASE AllLocked  BY <1>1, <1>2, <1>3, PTL DEF Spec, NewerGraphWins
<1> QED  BY <1>3

-----------------------------------------------------------------------------
(***************************************************************************)
(* A summary that can be kept is kept: a new community is close to one old *)
(* community at most, so that its summary is the one that is reused.       *)
(***************************************************************************)
LEMMA MoreThanHalf ==
    ASSUME NEW x \in Nat, NEW u \in Nat \ {0}, NEW n \in Nat, NEW d \in Nat \ {0},
           2 * n > d, x * d >= u * n
    PROVE  2 * x > u
<1> SUFFICES ASSUME 2 * x <= u PROVE FALSE
  OBVIOUS
<1>1. 2 * x * d <= u * d  OBVIOUS
<1>2. u * (2 * n) > u * d  OBVIOUS
<1>3. u * (2 * n) = 2 * (u * n) /\ 2 * x * d = 2 * (x * d)  OBVIOUS
<1>4. x * d \in Nat /\ u * n \in Nat /\ u * d \in Nat  OBVIOUS
<1> QED  BY <1>1, <1>2, <1>3, <1>4

LEMMA SimilarShareHalf ==
    ASSUME NEW c \in Communities, NEW d \in Communities, Similar(c, d)
    PROVE  2 * Cardinality(c \cap d) > Cardinality(c)
<1>1. IsFiniteSet(c) /\ IsFiniteSet(d) /\ c # {}  BY CommunitiesAssumption
<1>2. IsFiniteSet(c \cup d) /\ IsFiniteSet(c \cap d)  BY <1>1, FS_Union, FS_Subset
<1>3. Cardinality(c) <= Cardinality(c \cup d)  BY <1>2, FS_Subset
<1>4. /\ Cardinality(c) \in Nat \ {0} /\ Cardinality(c \cup d) \in Nat
      /\ Cardinality(c \cap d) \in Nat
  BY <1>1, <1>2, FS_CardinalityType, FS_EmptySet
<1>5. Cardinality(c \cup d) \in Nat \ {0}  BY <1>3, <1>4
<1>6. 2 * Cardinality(c \cap d) > Cardinality(c \cup d)
  BY <1>4, <1>5, MoreThanHalf, CommunitiesAssumption DEF Similar
<1> QED  BY <1>3, <1>4, <1>6

LEMMA OneIsSimilar ==
    ASSUME NEW g \in Graphs, NEW c \in Communities, NEW d \in g, NEW e \in g,
           Similar(c, d), Similar(c, e)
    PROVE  d = e
<1> SUFFICES ASSUME d # e PROVE FALSE
  OBVIOUS
<1>1. d \in Communities /\ e \in Communities  BY DEF Communities
<1>2. d \cap e = {}  BY CommunitiesAssumption
<1>3. IsFiniteSet(c)  BY CommunitiesAssumption
<1> DEFINE D == c \cap d
           E == c \cap e
<1>4. IsFiniteSet(D) /\ IsFiniteSet(E) /\ D \cap E = {}  BY <1>2, <1>3, FS_Subset
<1>5. IsFiniteSet(D \cup E) /\ Cardinality(D \cup E) = Cardinality(D) + Cardinality(E)
  <2>1. Cardinality(D \cup E) = Cardinality(D) + Cardinality(E) - Cardinality(D \cap E)
    BY <1>4, FS_Union
  <2>2. Cardinality(D \cap E) = 0  BY <1>4, FS_EmptySet
  <2> QED  BY <1>4, <2>1, <2>2, FS_Union, FS_CardinalityType
<1>6. Cardinality(D \cup E) <= Cardinality(c)  BY <1>3, FS_Subset
<1>7. 2 * Cardinality(D) > Cardinality(c) /\ 2 * Cardinality(E) > Cardinality(c)
  BY <1>1, SimilarShareHalf
<1>8. Cardinality(c) \in Nat /\ Cardinality(D) \in Nat /\ Cardinality(E) \in Nat
  BY <1>3, <1>4, FS_CardinalityType
<1> QED  BY <1>5, <1>6, <1>7, <1>8

\* the builds that may run take the lock and keep what they can
AllKeep == \A k \in Kinds : k.locked /\ k.keep

\* what a build carries along has a summary where one can be kept
Keeping(b) ==
    \A c \in Written(reports), d \in build[b].graph :
        Similar(d, c) => d \in DOMAIN build[b].text /\ build[b].text[d] # Blank

KeepInv ==
    reports # None =>
        \A b \in Builders :
            build[b].pc \in {"summarizing", "embedding", "saving"} => Keeping(b)

LEMMA DraftKeeps ==
    ASSUME AllKeep, TypeInv, NEW b \in Builders, build[b].pc = "loaded", reports # None,
           NEW c \in Written(reports), NEW d \in build[b].graph, Similar(d, c)
    PROVE  d \in DOMAIN Draft(b) /\ Draft(b)[d] # Blank
<1>1. BuildType(b)  BY DEF TypeInv, BuildTypes
<1>2. build[b].kind.keep /\ build[b].graph \in Graphs  BY <1>1 DEF BuildType, AllKeep
<1>3. c \in reports.graph /\ reports.text[c] # Blank /\ reports.graph \in Graphs
  BY DEF Written, TypeInv, FileTypes, Report
<1>4. d \in Communities  BY <1>2 DEF Communities
<1>5. c \in Reusable(b, d)  BY <1>2, <1>3 DEF Reusable
<1>6. \A e \in Reusable(b, d) : e = c
  BY <1>2, <1>3, <1>4, OneIsSimilar DEF Reusable
<1>7. (CHOOSE e \in Reusable(b, d) : TRUE) = c  BY <1>5, <1>6
<1> QED  BY <1>3, <1>5, <1>7 DEF Draft

\* steps that leave the reports and what builds carry along
LEMMA SameKept ==
    ASSUME KeepInv, reports' = reports,
           \A b \in Builders : build'[b].pc \in {"summarizing", "embedding", "saving"} =>
               build'[b] = build[b]
    PROVE  KeepInv'
  BY DEF KeepInv, Keeping, Written

\* a step of one build
LEMMA OneKeeps ==
    ASSUME TypeInv, KeepInv, reports' = reports, NEW b \in Builders, NEW new,
           build' = [build EXCEPT ![b] = new],
           reports # None /\ new.pc \in {"summarizing", "embedding", "saving"} => Keeping(b)'
    PROVE  KeepInv'
<1>1. ASSUME NEW c \in Builders, reports # None,
             build'[c].pc \in {"summarizing", "embedding", "saving"}
      PROVE  Keeping(c)'
  <2>1. CASE c = b  BY <1>1, <2>1 DEF TypeInv, BuildTypes
  <2>2. CASE c # b  BY <1>1, <2>2 DEF TypeInv, BuildTypes, KeepInv, Keeping, Written
  <2> QED  BY <2>1, <2>2
<1> QED  BY <1>1 DEF KeepInv

LEMMA PlanKeeps == ASSUME AllKeep, TypeInv, KeepInv, NEW b \in Builders, Plan(b) PROVE KeepInv'
<1>1. reports' = reports  BY DEF Plan, fileVars
<1>2. CASE Leave(b)  BY <1>1, <1>2, OneKeeps DEF Leave, Idle
<1>3. CASE ~ Leave(b)
  <2>1. PICK todo :
          build' = [build EXCEPT ![b] =
                      [pc |-> "summarizing", kind |-> @.kind, graph |-> @.graph,
                       at |-> @.at, text |-> Draft(b), todo |-> todo]]
    BY <1>3 DEF Plan
  <2>2. build'[b].graph = build[b].graph /\ build'[b].text = Draft(b)
    BY <2>1 DEF TypeInv, BuildTypes
  <2>3. reports # None => Keeping(b)'
    BY <1>1, <2>2, DraftKeeps DEF Plan, Keeping, Written
  <2> QED  BY <1>1, <2>1, <2>3, OneKeeps
<1> QED  BY <1>2, <1>3

LEMMA SummarizeKeeps ==
    ASSUME TypeInv, KeepInv, NEW b \in Builders, NEW ok, Summarize(b, ok) PROVE KeepInv'
<1>1. reports' = reports  BY DEF Summarize, fileVars
<1>2. CASE Leave(b)  BY <1>1, <1>2, OneKeeps DEF Leave, Idle
<1>3. CASE ~ Leave(b)
  <2>1. build' = [build EXCEPT ![b] =
                    [pc |-> "embedding", graph |-> @.graph, at |-> @.at, text |-> Generated(b, ok)]]
    BY <1>3 DEF Summarize
  <2>2. build'[b].graph = build[b].graph /\ build'[b].text = Generated(b, ok)
    BY <2>1 DEF TypeInv, BuildTypes
  <2>3. reports # None => Keeping(b)  BY DEF Summarize, KeepInv
  <2>4. reports # None => Keeping(b)'
    BY <1>1, <2>2, <2>3 DEF Keeping, Generated, Written
  <2> QED  BY <1>1, <2>1, <2>4, OneKeeps
<1> QED  BY <1>2, <1>3

LEMMA EmbedKeeps ==
    ASSUME TypeInv, KeepInv, NEW b \in Builders, NEW ids, Embed(b, ids) PROVE KeepInv'
<1>1. reports' = reports  BY DEF Embed, fileVars
<1>2. build' = [build EXCEPT ![b] =
          [pc |-> "saving", graph |-> @.graph, at |-> @.at, text |-> @.text, ids |-> ids]]
  BY DEF Embed
<1>3. build'[b].graph = build[b].graph /\ build'[b].text = build[b].text
  BY <1>2 DEF TypeInv, BuildTypes
<1>4. reports # None => Keeping(b)'
  BY <1>1, <1>3 DEF Embed, KeepInv, Keeping, Written
<1> QED  BY <1>1, <1>2, <1>4, OneKeeps

LEMMA NextKeeps == ASSUME AllKeep, TypeInv, LockInv, KeepInv, [Next]_vars PROVE KeepInv'
<1>1. CASE \/ UNCHANGED vars \/ ExpireLock
           \/ \E b \in Builders, r \in BOOLEAN : Skip(b) \/ ChangeGraph(b, r)
  BY <1>1, SameKept DEF Skip, ChangeGraph, ExpireLock, vars, fileVars
<1>2. ASSUME NEW b \in Builders, StartAny(b) PROVE KeepInv'
  <2>1. PICK kind \in Kinds : Start(b, kind)  BY <1>2 DEF StartAny
  <2> QED  BY <1>2, <2>1, OneKeeps DEF StartAny, Start, fileVars
<1>3. ASSUME NEW b \in Builders, SaveIndex(b) \/ Crash(b) PROVE KeepInv'
  BY <1>3, OneKeeps DEF SaveIndex, Crash, Leave, Idle, fileVars
<1>4. ASSUME NEW b \in Builders, SaveReports(b) PROVE KeepInv'
  <2> PICK new : /\ build' = [build EXCEPT ![b] = new]
                 /\ new.pc \in {"idle", "indexing"}
    BY <1>4, SavingGoesOn
  <2>1. \A c \in Builders : build'[c].pc \in {"idle", "indexing"}
    BY <1>4, OneBuilds DEF SaveReports, LockInv, TypeInv, BuildTypes
  <2> QED  BY <2>1 DEF KeepInv
<1>5. ASSUME NEW q \in Readers, Ask(q) \/ Select(q) \/ Store(q) PROVE KeepInv'
  BY <1>5, SameKept DEF Ask, Select, Store, fileVars
<1> QED
  BY <1>1, <1>2, <1>3, <1>4, <1>5, PlanKeeps, SummarizeKeeps, EmbedKeeps DEF Next, Proceed

LEMMA InitKeeps == ASSUME Init PROVE KeepInv
  BY DEF Init, KeepInv

(***************************************************************************)
(* While every build is a refresh, no step takes away the summary of a     *)
(* community that is still there or close to one that is, whatever calls   *)
(* of the language model fail and whatever builds are killed.              *)
(***************************************************************************)
THEOREM SummariesSurvive == AllKeep /\ Spec => NoSummaryLost
<1>1. ASSUME AllKeep PROVE Spec => [](TypeInv /\ LockInv /\ KeepInv)
  <2>1. Init => TypeInv /\ LockInv /\ KeepInv  BY InitTypes, InitLock, InitKeeps
  <2>2. AllLocked  BY <1>1 DEF AllKeep, AllLocked
  <2>3. TypeInv /\ LockInv /\ KeepInv /\ [Next]_vars => (TypeInv /\ LockInv /\ KeepInv)'
    BY <1>1, <2>2, NextTypes, NextLock, NextKeeps
  <2> QED  BY <2>1, <2>3, PTL DEF Spec
<1>2. TypeInv /\ KeepInv /\ [Next]_vars =>
        [reports # None =>
            \A c \in Written(reports), d \in reports'.graph :
                Similar(d, c) => reports'.text[d] # Blank]_reports
  <2> SUFFICES ASSUME TypeInv, KeepInv, [Next]_vars, reports' # reports, reports # None,
                      NEW c \in Written(reports), NEW d \in reports'.graph, Similar(d, c)
               PROVE  reports'.text[d] # Blank
    OBVIOUS
  <2>1. PICK b \in Builders : SaveReports(b)  BY ReportsWritten
  <2>2. reports'.graph = build[b].graph /\ reports'.text = build[b].text
    BY <2>1 DEF SaveReports
  <2> QED  BY <2>1, <2>2 DEF SaveReports, KeepInv, Keeping
<1>3. CASE AllKeep  BY <1>1, <1>2, <1>3, PTL DEF Spec, NoSummaryLost
<1> QED  BY <1>3
=============================================================================
