------------------------------ MODULE Service -------------------------------
(***************************************************************************)
(* One process of the API (src/service/api.py): the lifespan that starts   *)
(* the task worker, warms LightRAG up, serves and shuts down, composed of  *)
(* LightragInit, TaskManager and Telemetry.  Queries, the worker's tasks   *)
(* and the warm-up all go through get_lightrag; a query and a feedback     *)
(* append one row to the telemetry.                                        *)
(*                                                                         *)
(* The server calls the shutdown half of the lifespan when no request is   *)
(* in flight.  What a task does to the index is IndexPipeline's business:  *)
(* here it needs LightRAG or not, and is done or fails.                    *)
(***************************************************************************)
EXTENDS LightragInit, TaskManager, Telemetry

CONSTANTS
    Queries, Feedbacks,   \* requests, each sent at most once
    WarmUp, Worker        \* the other callers of get_lightrag

ASSUME ServiceAssumption ==
    /\ Callers = Queries \cup {WarmUp, Worker}
    /\ Rows = Queries \cup Feedbacks
    /\ Queries \cap Feedbacks = {}
    /\ {WarmUp, Worker} \cap Rows = {} /\ WarmUp # Worker

VARIABLES
    phase,                \* of the lifespan
    requests              \* the queries and feedbacks not yet sent

lifespanVars == <<phase, requests>>
vars == <<lifespanVars, ragVars, taskVars, rowVars>>

Init ==
    /\ phase = "starting"
    /\ requests = Queries \cup Feedbacks
    /\ InitRag
    /\ InitTasks
    /\ InitRows

-----------------------------------------------------------------------------
(***************************************************************************)
(* Start: the warm-up's failure is logged and the service serves anyway.   *)
(***************************************************************************)
StartWarmUp ==
    /\ phase = "starting"
    /\ CallGet(WarmUp)
    /\ UNCHANGED <<lifespanVars, taskVars, rowVars>>

Serve ==
    /\ phase = "starting"
    /\ Return(WarmUp)
    /\ phase' = "serving"
    /\ UNCHANGED <<requests, taskVars, rowVars>>

GetRag(c) == GetStep(c) /\ UNCHANGED <<lifespanVars, taskVars, rowVars>>

-----------------------------------------------------------------------------
(***************************************************************************)
(* Requests.                                                               *)
(***************************************************************************)
Query(q) ==
    /\ phase = "serving"
    /\ q \in requests
    /\ requests' = requests \ {q}
    /\ CallGet(q)
    /\ UNCHANGED <<phase, taskVars, rowVars>>

Answer(q) ==
    /\ calling[q] = "got"
    /\ Return(q)
    /\ AppendRow(q)
    /\ UNCHANGED <<lifespanVars, taskVars>>

\* the client gets a 500 and no row is appended
QueryFails(q) ==
    /\ Return(q)
    /\ UNCHANGED <<lifespanVars, taskVars, rowVars>>

Feedback(f) ==
    /\ phase = "serving"
    /\ f \in requests
    /\ requests' = requests \ {f}
    /\ AppendRow(f)
    /\ UNCHANGED <<phase, ragVars, taskVars>>

SubmitTask(t) ==
    /\ phase = "serving"
    /\ Submit(t)
    /\ UNCHANGED <<lifespanVars, ragVars, rowVars>>

-----------------------------------------------------------------------------
(***************************************************************************)
(* The worker.  A task that finds its document locked, or a run with       *)
(* nothing to do, ends without LightRAG.                                   *)
(***************************************************************************)
BeginTask ==
    /\ TakeTask
    /\ UNCHANGED <<lifespanVars, ragVars, rowVars>>

TaskNeedsRag(t) ==
    /\ worker = t
    /\ CallGet(Worker)
    /\ UNCHANGED <<lifespanVars, taskVars, rowVars>>

EndTask(t, outcome) ==
    /\ Finish(t, outcome)
    /\ \/ calling[Worker] = "out" /\ UNCHANGED ragVars
       \/ /\ calling[Worker] = "failed" => outcome = "failed"
          /\ Return(Worker)
    /\ UNCHANGED <<lifespanVars, rowVars>>

WorkerStep ==
    \/ BeginTask
    \/ \E t \in Tasks :
          \/ TaskNeedsRag(t)
          \/ \E outcome \in Settled : EndTask(t, outcome)
    \/ GetRag(Worker)

-----------------------------------------------------------------------------
(***************************************************************************)
(* Shutdown: the worker is cancelled wherever it is, then the telemetry    *)
(* writer is stopped.  The process ends after that, and threads with it.   *)
(***************************************************************************)
Shutdown ==
    /\ phase = "serving"
    /\ \A q \in Queries : calling[q] = "out"
    /\ phase' = "stopping"
    /\ CancelWorker
    /\ IF calling[Worker] = "out" THEN UNCHANGED ragVars ELSE CancelCall(Worker)
    /\ BeginStop
    /\ UNCHANGED requests

StopTelemetry ==
    /\ StopStep
    /\ UNCHANGED <<lifespanVars, ragVars, taskVars>>

CloseDown ==
    /\ phase = "stopping"
    /\ stop \in {"stopped", "raised"}
    /\ phase' = "stopped"
    /\ UNCHANGED <<requests, ragVars, taskVars, rowVars>>

WriteTelemetry ==
    /\ phase # "stopped"
    /\ WriterStep
    /\ UNCHANGED <<lifespanVars, ragVars, taskVars>>

-----------------------------------------------------------------------------
Lifespan == StartWarmUp \/ GetRag(WarmUp) \/ Serve \/ StopTelemetry \/ CloseDown

QueryStep(q) == GetRag(q) \/ Answer(q) \/ QueryFails(q)

Next ==
    \/ Lifespan
    \/ Shutdown
    \/ \E q \in Queries : Query(q) \/ QueryStep(q)
    \/ \E f \in Feedbacks : Feedback(f)
    \/ \E t \in Tasks : SubmitTask(t)
    \/ WorkerStep
    \/ WriteTelemetry

Spec == Init /\ [][Next]_vars

(***************************************************************************)
(* The event loop and the writer thread get to run, and the asyncio lock   *)
(* is handed to its waiters in turn.  Nobody has to send a request or to   *)
(* shut down.                                                              *)
(***************************************************************************)
FairSpec ==
    /\ Spec
    /\ WF_vars(Lifespan)
    /\ \A q \in Queries : WF_vars(QueryStep(q))
    /\ WF_vars(WorkerStep)
    /\ WF_vars(WriteTelemetry)

-----------------------------------------------------------------------------
(***************************************************************************)
(* A task accepted with 202 is done or failed in the end, unless the       *)
(* service is shut down before.                                            *)
(***************************************************************************)
TasksSettle ==
    \A t \in Tasks : status[t] = "pending" ~> status[t] \in Settled \/ phase # "serving"

(***************************************************************************)
(* A shutdown ends, whatever the writer thread does: also when its         *)
(* sentinel ends up in a batch and the thread never ends.                  *)
(***************************************************************************)
ShutdownEnds == phase = "stopping" ~> phase = "stopped"
=============================================================================
