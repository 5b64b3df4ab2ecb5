---------------------------- MODULE LightragInit ----------------------------
(***************************************************************************)
(* get_lightrag of src/storage/lightrag_init.py: the coroutines of the     *)
(* service share one LightRAG object, which the first of them builds and   *)
(* initialises under an asyncio lock.  The object is assigned before       *)
(* initialize_storages is awaited, so an initialisation that fails leaves  *)
(* an object which later callers are given as it is.                       *)
(***************************************************************************)
CONSTANTS
    Callers,     \* coroutines that call get_lightrag
    None,
    InitFaults   \* what may fail: "build", "initialise"

ASSUME LightragInitAssumption ==
    /\ None \notin Callers
    /\ InitFaults \subseteq {"build", "initialise"}

VARIABLES
    instance,    \* _lightrag_instance: "none", "built", "ready"
    initLock,    \* holder of _init_lock
    calling      \* where each caller is in get_lightrag

ragVars == <<instance, initLock, calling>>

(***************************************************************************)
(* The variables have their types, and the lock is held exactly by the     *)
(* caller that awaits initialize_storages.                                 *)
(***************************************************************************)
RagTypeOK ==
    /\ instance \in {"none", "built", "ready"}
    /\ initLock \in Callers \cup {None}
    /\ calling \in [Callers -> {"out", "waiting", "initialising", "got", "failed"}]
    /\ \A c \in Callers : initLock = c <=> calling[c] = "initialising"

InitRag ==
    /\ instance = "none"
    /\ initLock = None
    /\ calling = [c \in Callers |-> "out"]

At(c, step) == calling' = [calling EXCEPT ![c] = step]

CallGet(c) ==
    /\ calling[c] = "out"
    /\ At(c, "waiting")
    /\ UNCHANGED <<instance, initLock>>

TakesLock(c) == calling[c] = "waiting" /\ initLock = None

GetExisting(c) ==
    /\ TakesLock(c)
    /\ instance # "none"
    /\ At(c, "got")
    /\ UNCHANGED <<instance, initLock>>

\* a changed Build: the lock is not held while the storages are initialised
BuildUnlocked(c) ==
    /\ TakesLock(c)
    /\ instance = "none"
    /\ instance' = "built"
    /\ At(c, "initialising")
    /\ UNCHANGED initLock

\* build_lightrag runs without an await; initialize_storages is awaited
Build(c) ==
    /\ TakesLock(c)
    /\ instance = "none"
    /\ instance' = "built"
    /\ initLock' = c
    /\ At(c, "initialising")

BuildFails(c) ==
    /\ "build" \in InitFaults
    /\ TakesLock(c)
    /\ instance = "none"
    /\ At(c, "failed")
    /\ UNCHANGED <<instance, initLock>>

Initialised(c) ==
    /\ calling[c] = "initialising"
    /\ instance' = "ready"
    /\ initLock' = None
    /\ At(c, "got")

\* an exception, or the caller's cancellation
LeaveObject(c) ==
    /\ initLock' = None
    /\ UNCHANGED instance

InitialiseFails(c) ==
    /\ "initialise" \in InitFaults
    /\ calling[c] = "initialising"
    /\ LeaveObject(c)
    /\ At(c, "failed")

Return(c) ==
    /\ calling[c] \in {"got", "failed"}
    /\ At(c, "out")
    /\ UNCHANGED <<instance, initLock>>

CancelCall(c) ==
    /\ calling[c] # "out"
    /\ At(c, "out")
    /\ IF initLock = c THEN LeaveObject(c) ELSE UNCHANGED <<instance, initLock>>

GetStep(c) ==
    \/ GetExisting(c)
    \/ Build(c)
    \/ BuildFails(c)
    \/ Initialised(c)
    \/ InitialiseFails(c)

RagNext == \E c \in Callers : CallGet(c) \/ GetStep(c) \/ Return(c)

RagSpec == InitRag /\ [][RagNext]_ragVars

-----------------------------------------------------------------------------
(***************************************************************************)
(* get_lightrag returns an object whose storages are initialised, as its   *)
(* docstring says.                                                         *)
(***************************************************************************)
GotIsReady == \A c \in Callers : calling[c] = "got" => instance = "ready"
=============================================================================
