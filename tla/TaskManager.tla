---------------------------- MODULE TaskManager -----------------------------
(***************************************************************************)
(* AsyncTaskManager of src/service/task_manager.py: requests submit tasks  *)
(* to a queue in memory and one worker coroutine executes them.  A task    *)
(* stands for its id and is numbered in the order of submission.  The      *)
(* entry submit also adds to a Redis stream is left out: nobody reads it,  *)
(* and its failure is swallowed.                                           *)
(***************************************************************************)
EXTENDS Naturals, Sequences

CONSTANTS
    MaxTasks,   \* bound on the tasks submitted
    Idle,       \* the worker has no task
    Gone        \* there is no worker

ASSUME TaskManagerAssumption ==
    /\ MaxTasks \in Nat
    /\ Idle \notin Nat /\ Gone \notin Nat /\ Idle # Gone

VARIABLES
    taskQueue,  \* _queue
    status,     \* _statuses
    worker      \* the task in the hands of worker_loop

taskVars == <<taskQueue, status, worker>>

Tasks == 1..MaxTasks
Settled == {"done", "failed"}

TaskTypeOK ==
    /\ taskQueue \in Seq(Tasks)
    /\ status \in [Tasks -> {"unknown", "pending", "running"} \cup Settled]
    /\ worker \in Tasks \cup {Idle, Gone}

InitTasks ==
    /\ taskQueue = <<>>
    /\ status = [t \in Tasks |-> "unknown"]
    /\ worker = Idle

Submit(t) ==
    /\ status[t] = "unknown"
    /\ \A s \in Tasks : s < t => status[s] # "unknown"
    /\ status' = [status EXCEPT ![t] = "pending"]
    /\ taskQueue' = Append(taskQueue, t)
    /\ UNCHANGED worker

\* a changed TakeTask: the newest task first
TakeNewest ==
    LET t == taskQueue[Len(taskQueue)]
    IN  /\ worker = Idle
        /\ taskQueue # <<>>
        /\ worker' = t
        /\ taskQueue' = SubSeq(taskQueue, 1, Len(taskQueue) - 1)
        /\ status' = [status EXCEPT ![t] = "running"]

\* process_next up to the await of the handler
TakeTask ==
    /\ worker = Idle
    /\ taskQueue # <<>>
    /\ worker' = Head(taskQueue)
    /\ taskQueue' = Tail(taskQueue)
    /\ status' = [status EXCEPT ![Head(taskQueue)] = "running"]

\* a changed Finish: the handler's exception ends worker_loop
FinishOrDie(t, outcome) ==
    /\ worker = t
    /\ IF outcome = "done"
         THEN status' = [status EXCEPT ![t] = "done"] /\ worker' = Idle
         ELSE UNCHANGED status /\ worker' = Gone
    /\ UNCHANGED taskQueue

Finish(t, outcome) ==
    /\ worker = t
    /\ status' = [status EXCEPT ![t] = outcome]
    /\ worker' = Idle
    /\ UNCHANGED taskQueue

\* CancelledError is no Exception: the status of the task in hand stays
CancelWorker ==
    /\ worker' = Gone
    /\ UNCHANGED <<taskQueue, status>>

-----------------------------------------------------------------------------
(***************************************************************************)
(* Tasks start in the order they were submitted in, each after the one     *)
(* before it was done or failed, so that no two documents are processed at *)
(* once; what waits is pending, and what runs is in the worker's hands     *)
(* unless the worker was cancelled.                                        *)
(***************************************************************************)
TasksInOrder ==
    /\ \A s, t \in Tasks :
         s < t /\ status[t] \in {"running"} \cup Settled => status[s] \in Settled
    /\ \A t \in Tasks :
         status[t] = "pending" <=> \E i \in DOMAIN taskQueue : taskQueue[i] = t
    /\ worker # Gone => \A t \in Tasks : status[t] = "running" <=> worker = t
=============================================================================
