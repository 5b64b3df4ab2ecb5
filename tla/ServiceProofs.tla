--------------------------- MODULE ServiceProofs ----------------------------
(***************************************************************************)
(* Proofs about the service: every caller of get_lightrag gets an object   *)
(* whose storages are initialised, however many queries and tasks there    *)
(* are and whatever builds fail, as long as initialize_storages does not;  *)
(* and tasks run in order, one at a time.                                  *)
(***************************************************************************)
EXTENDS Service, TLAPS

Live == {"starting", "serving"}

Phases == phase \in Live \cup {"stopping", "stopped"}

(***************************************************************************)
(* The strengthening: while requests and tasks run an object that is built *)
(* and not ready has somebody initialising it under the lock; only the     *)
(* shutdown leaves one behind, and nobody calls get_lightrag after it.     *)
(***************************************************************************)
OwnerBuilds == initLock # None => instance = "built"
BuiltIsOwned == phase \in Live /\ instance = "built" => initLock # None
WarmUpIsOver == phase = "serving" => calling[WarmUp] = "out"
StoppedIsQuiet ==
    phase \in {"stopping", "stopped"} =>
        worker = Gone /\ \A c \in Callers : calling[c] = "out"

RagInv ==
    /\ RagTypeOK
    /\ Phases
    /\ OwnerBuilds
    /\ BuiltIsOwned
    /\ GotIsReady
    /\ WarmUpIsOver
    /\ StoppedIsQuiet

LEMMA InitEstablishes == Init => RagInv
  <1> SUFFICES ASSUME Init PROVE RagInv
    OBVIOUS
  <1>1. None \notin Callers
    BY LightragInitAssumption
  <1> QED
    BY <1>1, ServiceAssumption DEF Init, InitRag, RagInv, RagTypeOK, Phases, OwnerBuilds,
       BuiltIsOwned, GotIsReady, WarmUpIsOver, StoppedIsQuiet, Live

\* steps that leave the variables of get_lightrag, the phase and Gone alone
LEMMA OtherSteps ==
    ASSUME RagInv, UNCHANGED <<ragVars, phase>>, worker = Gone => worker' = Gone
    PROVE  RagInv'
  BY DEF RagInv, ragVars, RagTypeOK, Phases, OwnerBuilds, BuiltIsOwned, GotIsReady,
     WarmUpIsOver, StoppedIsQuiet

LEMMA CallKeeps ==
    ASSUME RagInv, NEW c \in Callers, CallGet(c), UNCHANGED <<phase, worker>>,
           phase \in Live, phase = "serving" => c # WarmUp
    PROVE  RagInv'
  <1>1. RagTypeOK'
    BY LightragInitAssumption DEF RagInv, RagTypeOK, CallGet, At
  <1>2. GotIsReady'
    BY DEF RagInv, RagTypeOK, CallGet, At, GotIsReady
  <1>3. WarmUpIsOver'
    BY DEF RagInv, RagTypeOK, CallGet, At, WarmUpIsOver
  <1> QED
    BY <1>1, <1>2, <1>3 DEF RagInv, CallGet, Phases, OwnerBuilds, BuiltIsOwned, StoppedIsQuiet, Live

LEMMA ReturnKeeps ==
    ASSUME RagInv, NEW c \in Callers, Return(c), UNCHANGED <<phase, worker>>
    PROVE  RagInv'
  <1>1. RagTypeOK'
    BY LightragInitAssumption DEF RagInv, RagTypeOK, Return, At
  <1>2. GotIsReady'
    BY DEF RagInv, RagTypeOK, Return, At, GotIsReady
  <1>3. WarmUpIsOver'
    BY DEF RagInv, RagTypeOK, Return, At, WarmUpIsOver
  <1>4. StoppedIsQuiet'
    BY DEF RagInv, RagTypeOK, Return, At, StoppedIsQuiet
  <1> QED
    BY <1>1, <1>2, <1>3, <1>4 DEF RagInv, Return, Phases, OwnerBuilds, BuiltIsOwned

LEMMA GetStepKeeps ==
    ASSUME RagInv, NEW c \in Callers, GetStep(c), UNCHANGED <<phase, worker>>,
           "initialise" \notin InitFaults
    PROVE  RagInv'
  <1>1. phase \in Live /\ (phase = "serving" => c # WarmUp)
    BY DEF RagInv, Phases, StoppedIsQuiet, WarmUpIsOver, GetStep, GetExisting, Build, BuildFails,
       Initialised, InitialiseFails, TakesLock
  <1>2. CASE GetExisting(c)
    <2>1. instance = "ready"
      BY <1>1, <1>2 DEF RagInv, RagTypeOK, BuiltIsOwned, GetExisting, TakesLock
    <2>2. RagTypeOK'
      BY <1>2, LightragInitAssumption DEF RagInv, RagTypeOK, GetExisting, TakesLock, At
    <2>3. GotIsReady' /\ WarmUpIsOver'
      BY <1>1, <1>2, <2>1 DEF RagInv, RagTypeOK, GetExisting, At, GotIsReady, WarmUpIsOver
    <2> QED
      BY <1>1, <1>2, <2>2, <2>3
      DEF RagInv, GetExisting, Phases, OwnerBuilds, BuiltIsOwned, StoppedIsQuiet, Live
  <1>3. CASE Build(c)
    <2>1. RagTypeOK'
      BY <1>3, LightragInitAssumption DEF RagInv, RagTypeOK, Build, TakesLock, At
    <2>2. GotIsReady' /\ WarmUpIsOver'
      BY <1>1, <1>3 DEF RagInv, RagTypeOK, Build, At, GotIsReady, WarmUpIsOver
    <2>3. OwnerBuilds' /\ BuiltIsOwned'
      BY <1>3, LightragInitAssumption DEF Build, OwnerBuilds, BuiltIsOwned
    <2> QED
      BY <1>1, <2>1, <2>2, <2>3 DEF RagInv, Phases, StoppedIsQuiet, Live
  <1>4. CASE BuildFails(c)
    <2>1. RagTypeOK'
      BY <1>4, LightragInitAssumption DEF RagInv, RagTypeOK, BuildFails, TakesLock, At
    <2>2. GotIsReady' /\ WarmUpIsOver'
      BY <1>1, <1>4 DEF RagInv, RagTypeOK, BuildFails, At, GotIsReady, WarmUpIsOver
    <2> QED
      BY <1>1, <1>4, <2>1, <2>2
      DEF RagInv, BuildFails, Phases, OwnerBuilds, BuiltIsOwned, StoppedIsQuiet, Live
  <1>5. CASE Initialised(c)
    <2>1. RagTypeOK'
      BY <1>5, LightragInitAssumption DEF RagInv, RagTypeOK, Initialised, At
    <2>2. GotIsReady' /\ WarmUpIsOver'
      BY <1>1, <1>5 DEF RagInv, RagTypeOK, Initialised, At, GotIsReady, WarmUpIsOver
    <2> QED
      BY <1>1, <1>5, <2>1, <2>2
      DEF RagInv, Initialised, Phases, OwnerBuilds, BuiltIsOwned, StoppedIsQuiet, Live
  <1>6. ~InitialiseFails(c)
    BY DEF InitialiseFails
  <1> QED
    BY <1>2, <1>3, <1>4, <1>5, <1>6 DEF GetStep

LEMMA ServeKeeps == ASSUME RagInv, Serve PROVE RagInv'
  <1>1. WarmUp \in Callers
    BY ServiceAssumption
  <1>2. RagTypeOK'
    BY <1>1, LightragInitAssumption DEF RagInv, RagTypeOK, Serve, Return, At
  <1>3. GotIsReady' /\ WarmUpIsOver'
    BY <1>1 DEF RagInv, RagTypeOK, Serve, Return, At, GotIsReady, WarmUpIsOver
  <1> QED
    BY <1>2, <1>3
    DEF RagInv, Serve, Return, Phases, OwnerBuilds, BuiltIsOwned, StoppedIsQuiet, Live

LEMMA ShutdownKeeps == ASSUME RagInv, Shutdown PROVE RagInv'
  <1>1. Worker \in Callers /\ \A c \in Callers : c \in Queries \/ c = WarmUp \/ c = Worker
    BY ServiceAssumption
  <1>2. \A c \in Callers : calling'[c] = "out"
    BY <1>1 DEF Shutdown, RagInv, RagTypeOK, WarmUpIsOver, CancelCall, At, ragVars
  <1>3. calling' \in [Callers -> {"out", "waiting", "initialising", "got", "failed"}]
    BY DEF Shutdown, RagInv, RagTypeOK, CancelCall, At, ragVars
  <1>4. instance' = instance /\ initLock' = None
    <2>1. initLock \in {None, Worker}
      BY <1>1 DEF RagInv, RagTypeOK, WarmUpIsOver, Shutdown
    <2>2. CASE calling[Worker] = "out"
      BY <1>1, <2>1, <2>2 DEF RagInv, RagTypeOK, Shutdown, ragVars
    <2>3. CASE calling[Worker] # "out"
      BY <2>1, <2>3 DEF Shutdown, CancelCall, LeaveObject
    <2> QED
      BY <2>2, <2>3
  <1>5. RagTypeOK'
    BY <1>2, <1>3, <1>4, LightragInitAssumption DEF RagInv, RagTypeOK
  <1> QED
    BY <1>2, <1>4, <1>5 DEF RagInv, Shutdown, CancelWorker, Phases, OwnerBuilds, BuiltIsOwned,
       GotIsReady, WarmUpIsOver, StoppedIsQuiet, Live

LEMMA CloseDownKeeps == ASSUME RagInv, CloseDown PROVE RagInv'
  BY DEF RagInv, CloseDown, ragVars, taskVars, RagTypeOK, Phases, OwnerBuilds, BuiltIsOwned,
     GotIsReady, WarmUpIsOver, StoppedIsQuiet, Live

LEMMA WorkerKeeps ==
    ASSUME RagInv, WorkerStep, "initialise" \notin InitFaults
    PROVE  RagInv'
  <1> USE ServiceAssumption
  <1>1. Worker \in Callers /\ Worker # WarmUp
    OBVIOUS
  <1>2. CASE BeginTask
    <2>1. Idle # Gone
      BY TaskManagerAssumption
    <2> QED
      BY <1>2, <2>1, OtherSteps DEF BeginTask, TakeTask, lifespanVars
  <1>3. ASSUME NEW t \in Tasks, TaskNeedsRag(t) PROVE RagInv'
    <2>1. t # Gone
      BY TaskManagerAssumption DEF Tasks
    <2>2. phase \in Live
      BY <1>3, <2>1 DEF RagInv, Phases, StoppedIsQuiet, TaskNeedsRag
    <2> QED
      BY <1>1, <1>3, <2>2, CallKeeps DEF TaskNeedsRag, lifespanVars, taskVars
  <1>4. ASSUME NEW t \in Tasks, NEW outcome \in Settled, EndTask(t, outcome) PROVE RagInv'
    <2>1. t # Gone
      BY TaskManagerAssumption DEF Tasks
    <2>2. worker # Gone /\ UNCHANGED phase
      BY <1>4, <2>1 DEF EndTask, Finish, lifespanVars
    <2>3. CASE UNCHANGED ragVars
      BY <2>2, <2>3, OtherSteps
    <2>4. CASE Return(Worker)
      <3>1. phase \in Live
        BY <2>2 DEF RagInv, Phases, StoppedIsQuiet
      <3>2. RagTypeOK'
        BY <1>1, <2>4, LightragInitAssumption DEF RagInv, RagTypeOK, Return, At
      <3>3. GotIsReady' /\ WarmUpIsOver'
        BY <1>1, <2>2, <2>4 DEF RagInv, RagTypeOK, Return, At, GotIsReady, WarmUpIsOver
      <3> QED
        BY <2>2, <2>4, <3>1, <3>2, <3>3
        DEF RagInv, Return, Phases, OwnerBuilds, BuiltIsOwned, StoppedIsQuiet, Live
    <2> QED
      BY <1>4, <2>3, <2>4 DEF EndTask
  <1>5. CASE GetRag(Worker)
    BY <1>1, <1>5, GetStepKeeps DEF GetRag, lifespanVars, taskVars
  <1> QED
    BY <1>2, <1>3, <1>4, <1>5 DEF WorkerStep

LEMMA QueryKeeps ==
    ASSUME RagInv, NEW q \in Queries, Query(q) \/ QueryStep(q), "initialise" \notin InitFaults
    PROVE  RagInv'
  <1>1. q \in Callers /\ q # WarmUp
    BY ServiceAssumption
  <1>2. CASE Query(q)
    BY <1>1, <1>2, CallKeeps DEF Query, taskVars, Live
  <1>3. CASE GetRag(q)
    BY <1>1, <1>3, GetStepKeeps DEF GetRag, lifespanVars, taskVars
  <1>4. CASE Answer(q)
    BY <1>1, <1>4, ReturnKeeps DEF Answer, lifespanVars, taskVars
  <1>5. CASE QueryFails(q)
    BY <1>1, <1>5, ReturnKeeps DEF QueryFails, lifespanVars, taskVars
  <1> QED
    BY <1>2, <1>3, <1>4, <1>5 DEF QueryStep

LEMMA StepKeeps ==
    ASSUME RagInv, [Next]_vars, "initialise" \notin InitFaults
    PROVE  RagInv'
  <1>1. CASE StartWarmUp
    <2>1. WarmUp \in Callers
      BY ServiceAssumption
    <2> QED
      BY <1>1, <2>1, CallKeeps DEF StartWarmUp, lifespanVars, taskVars, Live
  <1>2. CASE GetRag(WarmUp)
    <2>1. WarmUp \in Callers
      BY ServiceAssumption
    <2> QED
      BY <1>2, <2>1, GetStepKeeps DEF GetRag, lifespanVars, taskVars
  <1>3. CASE Serve
    BY <1>3, ServeKeeps
  <1>4. CASE StopTelemetry
    BY <1>4, OtherSteps DEF StopTelemetry, lifespanVars, taskVars
  <1>5. CASE CloseDown
    BY <1>5, CloseDownKeeps
  <1>6. CASE Shutdown
    BY <1>6, ShutdownKeeps
  <1>7. ASSUME NEW q \in Queries, Query(q) \/ QueryStep(q) PROVE RagInv'
    BY <1>7, QueryKeeps
  <1>8. ASSUME NEW f \in Feedbacks, Feedback(f) PROVE RagInv'
    BY <1>8, OtherSteps DEF Feedback, taskVars
  <1>9. ASSUME NEW t \in Tasks, SubmitTask(t) PROVE RagInv'
    BY <1>9, OtherSteps DEF SubmitTask, Submit, lifespanVars
  <1>10. CASE WorkerStep
    BY <1>10, WorkerKeeps
  <1>11. CASE WriteTelemetry
    BY <1>11, OtherSteps DEF WriteTelemetry, lifespanVars, taskVars
  <1>12. CASE UNCHANGED vars
    BY <1>12, OtherSteps DEF vars, lifespanVars, taskVars
  <1> QED
    BY <1>1, <1>2, <1>3, <1>4, <1>5, <1>6, <1>7, <1>8, <1>9, <1>10, <1>11, <1>12
    DEF Next, Lifespan

(***************************************************************************)
(* Unless initialize_storages fails, get_lightrag returns an initialised   *)
(* object to every query, every task and the warm-up: its docstring holds. *)
(***************************************************************************)
THEOREM EveryCallerGetsReady ==
    ASSUME "initialise" \notin InitFaults
    PROVE  Spec => []GotIsReady
  <1>1. RagInv /\ [Next]_vars => RagInv'
    BY StepKeeps
  <1>2. RagInv => GotIsReady
    BY DEF RagInv
  <1> QED
    BY InitEstablishes, <1>1, <1>2, PTL DEF Spec

-----------------------------------------------------------------------------
(***************************************************************************)
(* The tasks.  For TasksInOrder to survive TakeTask the queue has to be in *)
(* the order of submission and tasks have to be submitted in that order.   *)
(***************************************************************************)
QueueInOrder ==
    \A i, j \in 1..Len(taskQueue) : i < j => taskQueue[i] < taskQueue[j]
SubmittedInOrder ==
    \A s, t \in Tasks : s < t /\ status[t] # "unknown" => status[s] # "unknown"
StartedInOrder ==
    \A s, t \in Tasks :
        s < t /\ status[t] \in {"running"} \cup Settled => status[s] \in Settled
PendingIsQueued ==
    \A t \in Tasks : status[t] = "pending" <=> \E i \in 1..Len(taskQueue) : taskQueue[i] = t
RunningIsHeld == worker # Gone => \A t \in Tasks : status[t] = "running" <=> worker = t

TaskInv ==
    /\ TaskTypeOK
    /\ QueueInOrder
    /\ SubmittedInOrder
    /\ StartedInOrder
    /\ PendingIsQueued
    /\ RunningIsHeld

LEMMA TaskFacts == Tasks \subseteq Nat /\ Idle \notin Tasks /\ Gone \notin Tasks /\ Idle # Gone
  BY TaskManagerAssumption DEF Tasks

LEMMA TaskInitEstablishes == InitTasks => TaskInv
  BY TaskFacts DEF InitTasks, TaskInv, TaskTypeOK, QueueInOrder, SubmittedInOrder, StartedInOrder,
     PendingIsQueued, RunningIsHeld, Settled

LEMMA SubmitKeeps == ASSUME TaskInv, NEW t \in Tasks, Submit(t) PROVE TaskInv'
  <1> DEFINE n == Len(taskQueue)
  <1>1. taskQueue \in Seq(Tasks) /\ n \in Nat
    BY DEF TaskInv, TaskTypeOK
  <1>2. /\ Len(taskQueue') = n + 1 /\ taskQueue'[n + 1] = t
        /\ \A i \in 1..n : taskQueue'[i] = taskQueue[i] /\ taskQueue[i] \in Tasks
    BY <1>1 DEF Submit
  <1>3. TaskTypeOK'
    BY <1>1 DEF TaskInv, TaskTypeOK, Submit
  <1>4. \A s \in Tasks : status'[s] = IF s = t THEN "pending" ELSE status[s]
    BY DEF TaskInv, TaskTypeOK, Submit
  <1>5. \A i \in 1..n : taskQueue[i] < t
    <2> TAKE i \in 1..n
    <2>1. taskQueue[i] \in Tasks /\ status[taskQueue[i]] = "pending"
      BY <1>2 DEF TaskInv, PendingIsQueued
    <2>2. ~(t < taskQueue[i]) /\ t # taskQueue[i]
      BY <2>1 DEF TaskInv, SubmittedInOrder, Submit
    <2>3. taskQueue[i] \in Nat /\ t \in Nat
      BY <2>1, TaskFacts
    <2> QED
      BY <2>2, <2>3
  <1>6. QueueInOrder'
    BY <1>1, <1>2, <1>5 DEF TaskInv, QueueInOrder
  <1>7. SubmittedInOrder'
    BY <1>4 DEF TaskInv, SubmittedInOrder, Submit
  <1>8. StartedInOrder'
    BY <1>4 DEF TaskInv, StartedInOrder, Submit, Settled
  <1>9. PendingIsQueued'
    BY <1>1, <1>2, <1>4 DEF TaskInv, PendingIsQueued, Submit
  <1>10. RunningIsHeld'
    BY <1>4 DEF TaskInv, RunningIsHeld, Submit
  <1> QED
    BY <1>3, <1>6, <1>7, <1>8, <1>9, <1>10 DEF TaskInv

LEMMA TakeTaskKeeps == ASSUME TaskInv, TakeTask PROVE TaskInv'
  <1> DEFINE n == Len(taskQueue)
             h == Head(taskQueue)
  <1>1. taskQueue \in Seq(Tasks) /\ n \in Nat \ {0} /\ h = taskQueue[1] /\ h \in Tasks
    BY DEF TaskInv, TaskTypeOK, TakeTask
  <1>2. /\ taskQueue' \in Seq(Tasks) /\ Len(taskQueue') = n - 1
        /\ \A i \in 1..(n - 1) : taskQueue'[i] = taskQueue[i + 1]
    BY <1>1 DEF TakeTask
  <1>3. \A s \in Tasks : status'[s] = IF s = h THEN "running" ELSE status[s]
    BY <1>1 DEF TaskInv, TaskTypeOK, TakeTask
  <1>4. TaskTypeOK'
    BY <1>1, <1>2 DEF TaskInv, TaskTypeOK, TakeTask
  <1>5. \A i \in 2..n : taskQueue[i] \in Tasks /\ h < taskQueue[i] /\ h # taskQueue[i]
    <2> TAKE i \in 2..n
    <2>1. i \in 1..n /\ 1 \in 1..n /\ 1 < i
      BY <1>1
    <2>2. taskQueue[i] \in Tasks
      BY <1>1, <2>1
    <2>3. taskQueue[1] < taskQueue[i]
      BY <2>1 DEF TaskInv, QueueInOrder
    <2>4. taskQueue[i] \in Nat /\ h \in Nat
      BY <1>1, <2>2, TaskFacts
    <2> QED
      BY <1>1, <2>2, <2>3, <2>4
  <1>6. status[h] = "pending"
    BY <1>1 DEF TaskInv, PendingIsQueued
  <1>7. \A s \in Tasks : s < h => status[s] \in Settled
    <2> SUFFICES ASSUME NEW s \in Tasks, s < h PROVE status[s] \in Settled
      OBVIOUS
    <2>1. status[s] # "unknown"
      BY <1>1, <1>6 DEF TaskInv, SubmittedInOrder
    <2>2. status[s] # "pending"
      <3> SUFFICES ASSUME status[s] = "pending" PROVE FALSE
        OBVIOUS
      <3>1. PICK i \in 1..n : taskQueue[i] = s
        BY DEF TaskInv, PendingIsQueued
      <3>2. i = 1 \/ i \in 2..n
        BY <1>1
      <3>3. h \in Nat /\ s \in Nat
        BY <1>1, TaskFacts
      <3>4. CASE i = 1
        BY <1>1, <3>1, <3>3, <3>4
      <3>5. CASE i \in 2..n
        BY <1>5, <3>1, <3>3, <3>5
      <3> QED
        BY <3>2, <3>4, <3>5
    <2>3. status[s] # "running"
      BY TaskFacts DEF TaskInv, RunningIsHeld, TakeTask
    <2> QED
      BY <2>1, <2>2, <2>3 DEF TaskInv, TaskTypeOK
  <1>8. QueueInOrder'
    BY <1>1, <1>2 DEF TaskInv, QueueInOrder
  <1>9. SubmittedInOrder'
    BY <1>3, <1>6 DEF TaskInv, SubmittedInOrder
  <1>10. StartedInOrder'
    BY <1>1, <1>3, <1>6, <1>7 DEF TaskInv, StartedInOrder, Settled
  <1>11. PendingIsQueued'
    <2> SUFFICES ASSUME NEW s \in Tasks
                 PROVE  status'[s] = "pending" <=> \E i \in 1..(n - 1) : taskQueue'[i] = s
      BY <1>2 DEF PendingIsQueued
    <2>1. ASSUME status'[s] = "pending" PROVE \E i \in 1..(n - 1) : taskQueue'[i] = s
      <3>1. s # h /\ status[s] = "pending"
        BY <1>3, <2>1
      <3>2. PICK i \in 1..n : taskQueue[i] = s
        BY <3>1 DEF TaskInv, PendingIsQueued
      <3>3. i - 1 \in 1..(n - 1) /\ (i - 1) + 1 = i
        BY <1>1, <3>1, <3>2
      <3>4. taskQueue'[i - 1] = s
        BY <1>2, <3>2, <3>3
      <3> QED
        BY <3>3, <3>4
    <2>2. ASSUME NEW i \in 1..(n - 1), taskQueue'[i] = s PROVE status'[s] = "pending"
      <3>1. i + 1 \in 2..n /\ i + 1 \in 1..n /\ taskQueue[i + 1] = s
        BY <1>1, <1>2, <2>2
      <3> QED
        BY <1>3, <1>5, <3>1 DEF TaskInv, PendingIsQueued
    <2> QED
      BY <2>1, <2>2
  <1>12. RunningIsHeld'
    BY <1>1, <1>3, TaskFacts DEF TaskInv, RunningIsHeld, TakeTask
  <1> QED
    BY <1>4, <1>8, <1>9, <1>10, <1>11, <1>12 DEF TaskInv

LEMMA FinishKeeps ==
    ASSUME TaskInv, NEW t \in Tasks, NEW outcome \in Settled, Finish(t, outcome)
    PROVE  TaskInv'
  <1>1. \A s \in Tasks : status'[s] = IF s = t THEN outcome ELSE status[s]
    BY DEF TaskInv, TaskTypeOK, Finish
  <1>2. status[t] = "running" /\ outcome \in {"done", "failed"}
    BY TaskFacts DEF TaskInv, RunningIsHeld, Finish, Settled
  <1>3. TaskTypeOK'
    BY DEF TaskInv, TaskTypeOK, Finish
  <1>4. SubmittedInOrder' /\ StartedInOrder'
    BY <1>1, <1>2 DEF TaskInv, SubmittedInOrder, StartedInOrder, Settled
  <1>5. QueueInOrder' /\ PendingIsQueued'
    BY <1>1, <1>2 DEF TaskInv, QueueInOrder, PendingIsQueued, Finish
  <1>6. RunningIsHeld'
    BY <1>1, <1>2, TaskFacts DEF TaskInv, RunningIsHeld, Finish
  <1> QED
    BY <1>3, <1>4, <1>5, <1>6 DEF TaskInv

LEMMA CancelKeeps == ASSUME TaskInv, CancelWorker PROVE TaskInv'
  BY DEF TaskInv, CancelWorker, TaskTypeOK, QueueInOrder, SubmittedInOrder, StartedInOrder,
     PendingIsQueued, RunningIsHeld

LEMMA TasksUntouched == ASSUME TaskInv, UNCHANGED taskVars PROVE TaskInv'
  BY DEF TaskInv, taskVars, TaskTypeOK, QueueInOrder, SubmittedInOrder, StartedInOrder,
     PendingIsQueued, RunningIsHeld

LEMMA TaskStepKeeps == ASSUME TaskInv, [Next]_vars PROVE TaskInv'
  <1>1. CASE Lifespan
    BY <1>1, TasksUntouched DEF Lifespan, StartWarmUp, GetRag, Serve, StopTelemetry, CloseDown
  <1>2. CASE Shutdown
    BY <1>2, CancelKeeps DEF Shutdown
  <1>3. ASSUME NEW q \in Queries, Query(q) \/ QueryStep(q) PROVE TaskInv'
    BY <1>3, TasksUntouched DEF Query, QueryStep, GetRag, Answer, QueryFails
  <1>4. ASSUME NEW f \in Feedbacks, Feedback(f) PROVE TaskInv'
    BY <1>4, TasksUntouched DEF Feedback
  <1>5. ASSUME NEW t \in Tasks, SubmitTask(t) PROVE TaskInv'
    BY <1>5, SubmitKeeps DEF SubmitTask
  <1>6. CASE WorkerStep
    <2>1. CASE BeginTask
      BY <2>1, TakeTaskKeeps DEF BeginTask
    <2>2. ASSUME NEW t \in Tasks, TaskNeedsRag(t) PROVE TaskInv'
      BY <2>2, TasksUntouched DEF TaskNeedsRag
    <2>3. ASSUME NEW t \in Tasks, NEW outcome \in Settled, EndTask(t, outcome) PROVE TaskInv'
      BY <2>3, FinishKeeps DEF EndTask
    <2>4. CASE GetRag(Worker)
      BY <2>4, TasksUntouched DEF GetRag
    <2> QED
      BY <1>6, <2>1, <2>2, <2>3, <2>4 DEF WorkerStep
  <1>7. CASE WriteTelemetry
    BY <1>7, TasksUntouched DEF WriteTelemetry
  <1>8. CASE UNCHANGED vars
    BY <1>8, TasksUntouched DEF vars
  <1> QED
    BY <1>1, <1>2, <1>3, <1>4, <1>5, <1>6, <1>7, <1>8 DEF Next

(***************************************************************************)
(* Tasks run one at a time and in the order they were submitted in, and    *)
(* their statuses are true, whatever fails and however many there are.     *)
(***************************************************************************)
THEOREM TasksRunInOrder == Spec => []TasksInOrder
  <1>1. Init => TaskInv
    BY TaskInitEstablishes DEF Init
  <1>2. TaskInv /\ [Next]_vars => TaskInv'
    BY TaskStepKeeps
  <1>3. TaskInv => TasksInOrder
    <2> SUFFICES ASSUME TaskInv PROVE TasksInOrder
      OBVIOUS
    <2>1. DOMAIN taskQueue = 1..Len(taskQueue)
      BY DEF TaskInv, TaskTypeOK
    <2> QED
      BY <2>1 DEF TaskInv, StartedInOrder, PendingIsQueued, RunningIsHeld, TasksInOrder
  <1> QED
    BY <1>1, <1>2, <1>3, PTL DEF Spec

-----------------------------------------------------------------------------
(***************************************************************************)
(* The telemetry.  A row is appended once because a request is sent once   *)
(* and answered once; the sentinel is put last, and is in one place too.   *)
(***************************************************************************)
Items == Rows \cup {Sentinel}

RowTypeOK ==
    /\ rowQueue \in Seq(Items) /\ batch \in Seq(Items)
    /\ flushed \in Seq(Rows) /\ stored \in Seq(Rows)
    /\ discarded \subseteq Rows

NoneTwice ==
    IsInjective(rowQueue) /\ IsInjective(batch) /\ IsInjective(flushed) /\ IsInjective(stored)

InOnePlace ==
    /\ ToSet(rowQueue) \cap ToSet(batch) = {}
    /\ ToSet(flushed) \cap (ToSet(rowQueue) \cup ToSet(batch)) = {}
    /\ ToSet(stored) \cap (ToSet(rowQueue) \cup ToSet(batch) \cup ToSet(flushed)) = {}
    /\ discarded \cap (ToSet(rowQueue) \cup ToSet(batch) \cup ToSet(flushed) \cup ToSet(stored)) = {}

AllAccounted ==
    RowsOf(rowQueue) \cup RowsOf(batch) \cup ToSet(flushed) \cup ToSet(stored) \cup discarded
    = accepted

SentinelLast ==
    /\ Len(rowQueue) <= QueueSize
    /\ stop \in {"no", "flush", "sentinel", "raised"} =>
          Sentinel \notin ToSet(rowQueue) \cup ToSet(batch)
    /\ stop \in {"sentinel", "raised"} => rowQueue = <<>>
    /\ stop \in {"join", "stopped"} => RowsOf(rowQueue) = {}

RowInv == RowTypeOK /\ NoneTwice /\ InOnePlace /\ AllAccounted /\ SentinelLast

AppendedOnce ==
    /\ calling \in [Callers -> {"out", "waiting", "initialising", "got", "failed"}]
    /\ \A q \in Queries : calling[q] # "out" => q \notin requests /\ q \notin accepted
    /\ \A r \in accepted : r \notin requests

\* What the elements of a sequence are after each operation on it, and when it
\* repeats none.
LEMMA EmptyItems ==
  ASSUME NEW S
  PROVE  <<>> \in Seq(S) /\ ToSet(<<>>) = {} /\ IsInjective(<<>>)
BY DEF ToSet, IsInjective

LEMMA AppendItem ==
  ASSUME NEW S, NEW s \in Seq(S), NEW x \in S
  PROVE  /\ Append(s, x) \in Seq(S)
         /\ ToSet(Append(s, x)) = ToSet(s) \cup {x}
         /\ IsInjective(s) /\ x \notin ToSet(s) => IsInjective(Append(s, x))
<1> DEFINE n == Len(s)
           a == Append(s, x)
<1>1. /\ a \in Seq(S) /\ n \in Nat /\ DOMAIN s = 1..n /\ DOMAIN a = 1..(n + 1)
      /\ a[n + 1] = x /\ \A i \in 1..n : a[i] = s[i]
  OBVIOUS
<1> HIDE DEF a
<1>2. ToSet(a) = ToSet(s) \cup {x}
  <2>1. \A i \in 1..(n + 1) : i \in 1..n \/ i = n + 1
    BY <1>1
  <2>2. \A i \in 1..n : i \in 1..(n + 1)
    BY <1>1
  <2>3. n + 1 \in 1..(n + 1)
    BY <1>1
  <2>4. QED  BY <1>1, <2>1, <2>2, <2>3 DEF ToSet
<1>3. IsInjective(s) /\ x \notin ToSet(s) => IsInjective(a)
  <2>1. \A i \in 1..(n + 1) : i \in 1..n \/ i = n + 1
    BY <1>1
  <2>2. QED  BY <1>1, <2>1 DEF ToSet, IsInjective
<1>4. QED  BY <1>1, <1>2, <1>3 DEF a

LEMMA TakeHead ==
  ASSUME NEW S, NEW s \in Seq(S), s # <<>>
  PROVE  /\ Head(s) \in S /\ Tail(s) \in Seq(S) /\ Len(Tail(s)) <= Len(s)
         /\ ToSet(s) = ToSet(Tail(s)) \cup {Head(s)}
         /\ IsInjective(s) => IsInjective(Tail(s)) /\ Head(s) \notin ToSet(Tail(s))
<1> DEFINE n == Len(s)
           t == Tail(s)
<1>1. /\ n \in Nat \ {0} /\ DOMAIN s = 1..n /\ Head(s) = s[1] /\ Head(s) \in S
      /\ t \in Seq(S) /\ Len(t) = n - 1 /\ DOMAIN t = 1..(n - 1)
      /\ \A i \in 1..(n - 1) : t[i] = s[i + 1]
  OBVIOUS
<1> HIDE DEF t
<1>2. /\ \A i \in 1..(n - 1) : i + 1 \in 1..n /\ i + 1 # 1
      /\ \A i \in 1..n : i = 1 \/ (i - 1 \in 1..(n - 1) /\ (i - 1) + 1 = i)
      /\ 1 \in 1..n
      /\ \A i, j \in 1..(n - 1) : i + 1 = j + 1 => i = j
  BY <1>1
<1>3. ToSet(s) = ToSet(t) \cup {s[1]}
  <2>1. \A i \in 1..(n - 1) : t[i] \in ToSet(s)
    BY <1>1, <1>2 DEF ToSet
  <2>2. ASSUME NEW i \in 1..n, i # 1
        PROVE  s[i] \in ToSet(t)
    <3>1. i - 1 \in 1..(n - 1) /\ (i - 1) + 1 = i
      BY <1>2, <2>2
    <3>2. t[i - 1] = s[i]
      BY <1>1, <3>1
    <3>3. QED  BY <1>1, <3>1, <3>2 DEF ToSet
  <2>3. s[1] \in ToSet(s)
    BY <1>1, <1>2 DEF ToSet
  <2>4. QED  BY <1>1, <2>1, <2>2, <2>3 DEF ToSet
<1>4. ASSUME IsInjective(s)
      PROVE  IsInjective(t) /\ s[1] \notin ToSet(t)
  <2>1. ASSUME NEW i \in 1..(n - 1), NEW j \in 1..(n - 1), t[i] = t[j]
        PROVE  i = j
    <3>1. s[i + 1] = s[j + 1] /\ i + 1 \in 1..n /\ j + 1 \in 1..n
      BY <1>1, <1>2, <2>1
    <3>2. i + 1 = j + 1
      BY <1>1, <1>4, <3>1 DEF IsInjective
    <3>3. QED  BY <1>2, <3>2
  <2>2. ASSUME NEW i \in 1..(n - 1), t[i] = s[1]
        PROVE  FALSE
    <3>1. s[i + 1] = s[1] /\ i + 1 \in 1..n /\ 1 \in 1..n /\ i + 1 # 1
      BY <1>1, <1>2, <2>2
    <3>2. QED  BY <1>1, <1>4, <3>1 DEF IsInjective
  <2>3. QED  BY <1>1, <2>1, <2>2 DEF ToSet, IsInjective
<1>5. n - 1 <= n
  BY <1>1
<1>6. QED  BY <1>1, <1>3, <1>4, <1>5 DEF t

LEMMA JoinItems ==
  ASSUME NEW S, NEW s \in Seq(S), NEW t \in Seq(S)
  PROVE  /\ s \o t \in Seq(S)
         /\ ToSet(s \o t) = ToSet(s) \cup ToSet(t)
         /\ IsInjective(s) /\ IsInjective(t) /\ ToSet(s) \cap ToSet(t) = {}
            => IsInjective(s \o t)
<1> DEFINE m == Len(s)
           n == Len(t)
           c == s \o t
<1>1. /\ c \in Seq(S) /\ m \in Nat /\ n \in Nat
      /\ DOMAIN s = 1..m /\ DOMAIN t = 1..n /\ DOMAIN c = 1..(m + n)
      /\ \A i \in 1..m : c[i] = s[i]
      /\ \A i \in 1..(m + n) : i > m => c[i] = t[i - m]
  OBVIOUS
<1> HIDE DEF c
<1>2. /\ \A i \in 1..(m + n) : i \in 1..m \/ (i > m /\ i - m \in 1..n)
      /\ \A i \in 1..m : i \in 1..(m + n)
      /\ \A j \in 1..n : j + m \in 1..(m + n) /\ j + m > m /\ (j + m) - m = j
      /\ \A i, j \in 1..(m + n) : i - m = j - m => i = j
  BY <1>1
<1> DEFINE From(i) == i - m
<1>3. \A i \in 1..(m + n) : \/ i \in 1..m /\ c[i] = s[i]
                            \/ i > m /\ From(i) \in 1..n /\ c[i] = t[From(i)]
  BY <1>1, <1>2
<1>4. \A i, j \in 1..(m + n) : From(i) = From(j) => i = j
  BY <1>2
<1> HIDE DEF From
<1>5. ToSet(c) = ToSet(s) \cup ToSet(t)
  <2>1. \A i \in 1..(m + n) : c[i] \in ToSet(s) \cup ToSet(t)
    BY <1>1, <1>3 DEF ToSet
  <2>2. \A i \in 1..m : s[i] \in ToSet(c)
    BY <1>1, <1>2 DEF ToSet
  <2>3. \A j \in 1..n : t[j] \in ToSet(c)
    BY <1>1, <1>2 DEF ToSet
  <2>4. QED  BY <1>1, <2>1, <2>2, <2>3 DEF ToSet
<1>6. ASSUME IsInjective(s), IsInjective(t), ToSet(s) \cap ToSet(t) = {},
             NEW i \in 1..(m + n), NEW j \in 1..(m + n), c[i] = c[j]
      PROVE  i = j
  <2>1. CASE i \in 1..m /\ c[i] = s[i] /\ j \in 1..m /\ c[j] = s[j]
    BY <1>1, <1>6, <2>1 DEF IsInjective
  <2>2. CASE /\ From(i) \in 1..n /\ c[i] = t[From(i)]
             /\ From(j) \in 1..n /\ c[j] = t[From(j)]
    BY <1>1, <1>4, <1>6, <2>2 DEF IsInjective
  <2>3. ASSUME NEW a \in 1..m, NEW b \in 1..n, s[a] = t[b]
        PROVE  FALSE
    BY <1>1, <1>6, <2>3 DEF ToSet
  <2>4. QED  BY <1>3, <1>6, <2>1, <2>2, <2>3
<1>7. QED  BY <1>1, <1>5, <1>6 DEF c, IsInjective


\* The items of the sequences, and that no row is the sentinel.
LEMMA ItemTypes ==
  ASSUME RowTypeOK
  PROVE  /\ Sentinel \notin Rows /\ Sentinel \in Items /\ Rows \subseteq Items
         /\ flushed \in Seq(Items) /\ stored \in Seq(Items)
         /\ ToSet(rowQueue) \subseteq Items /\ ToSet(batch) \subseteq Items
         /\ ToSet(flushed) \subseteq Rows /\ ToSet(stored) \subseteq Rows
         /\ QueueSize \in Nat \ {0}
<1>1. Sentinel \notin Rows /\ Sentinel \in Items /\ Rows \subseteq Items /\ QueueSize \in Nat \ {0}
  BY TelemetryAssumption DEF Items
<1>2. ASSUME NEW S, NEW s \in Seq(S)
      PROVE  ToSet(s) \subseteq S
  BY DEF ToSet
<1>3. ASSUME NEW s \in Seq(Rows)
      PROVE  s \in Seq(Items)
  BY <1>1
<1>4. QED  BY <1>1, <1>2, <1>3 DEF RowTypeOK

\* A request's row is new.
LEMMA AppendRowKeeps ==
  ASSUME RowInv, NEW r \in Rows, r \notin accepted, AppendRow(r)
  PROVE  RowInv'
<1>1. CASE UNCHANGED <<rowQueue, accepted>>
  BY <1>1 DEF RowInv, AppendRow, RowTypeOK, NoneTwice, InOnePlace, AllAccounted, SentinelLast, RowsOf
<1>2. CASE Len(rowQueue) < QueueSize /\ rowQueue' = Append(rowQueue, r) /\ accepted' = accepted \cup {r}
  <2>1. /\ UNCHANGED <<batch, flushed, stored, discarded, stop>> /\ stop = "no"
        /\ r \in Items /\ r # Sentinel /\ rowQueue \in Seq(Items)
    BY ItemTypes DEF AppendRow, RowInv, RowTypeOK
  <2>2. /\ r \notin ToSet(rowQueue) /\ r \notin ToSet(batch) /\ r \notin ToSet(flushed)
        /\ r \notin ToSet(stored) /\ r \notin discarded
    BY <2>1 DEF RowInv, AllAccounted, RowsOf
  <2>3. /\ rowQueue' \in Seq(Items) /\ IsInjective(rowQueue')
        /\ ToSet(rowQueue') = ToSet(rowQueue) \cup {r}
    BY <1>2, <2>1, <2>2, AppendItem DEF RowInv, NoneTwice
  <2>4. Len(rowQueue') <= QueueSize
    BY <1>2, <2>1, TelemetryAssumption
  <2>5. RowTypeOK' /\ NoneTwice' /\ SentinelLast'
    BY <2>1, <2>3, <2>4 DEF RowInv, RowTypeOK, NoneTwice, SentinelLast
  <2>6. InOnePlace'
    BY <2>1, <2>2, <2>3 DEF RowInv, InOnePlace
  <2>7. AllAccounted'
    BY <1>2, <2>1, <2>3 DEF RowInv, AllAccounted, RowsOf
  <2>8. QED  BY <2>5, <2>6, <2>7 DEF RowInv
<1>3. QED  BY <1>1, <1>2 DEF AppendRow

\* An item moves from the queue to the batch.
LEMMA TakeItemKeeps ==
  ASSUME RowInv, rowQueue # <<>>, TakeItem, UNCHANGED <<accepted, flushed, stored, discarded, stop>>
  PROVE  RowInv'
<1> DEFINE h == Head(rowQueue)
<1>1. /\ rowQueue \in Seq(Items) /\ batch \in Seq(Items) /\ IsInjective(rowQueue)
      /\ IsInjective(batch) /\ RowTypeOK
  BY DEF RowInv, RowTypeOK, NoneTwice
<1>2. /\ h \in Items /\ rowQueue' \in Seq(Items) /\ Len(rowQueue') <= Len(rowQueue)
      /\ ToSet(rowQueue) = ToSet(rowQueue') \cup {h}
      /\ IsInjective(rowQueue') /\ h \notin ToSet(rowQueue')
  BY <1>1, TakeHead DEF TakeItem
<1> HIDE DEF h
<1>3. h \notin ToSet(batch)
  BY <1>2 DEF RowInv, InOnePlace
<1>4. batch' \in Seq(Items) /\ IsInjective(batch') /\ ToSet(batch') = ToSet(batch) \cup {h}
  BY <1>1, <1>2, <1>3, AppendItem DEF TakeItem, h
<1>5. RowTypeOK' /\ NoneTwice'
  BY <1>2, <1>4 DEF RowInv, RowTypeOK, NoneTwice
<1>6. InOnePlace'
  BY <1>2, <1>4 DEF RowInv, InOnePlace
<1>7. AllAccounted'
  BY <1>2, <1>4 DEF RowInv, AllAccounted, RowsOf
<1>8. SentinelLast'
  <2>1. Len(rowQueue') <= QueueSize
    BY <1>1, <1>2, TelemetryAssumption DEF RowInv, SentinelLast
  <2>2. stop \notin {"sentinel", "raised"}
    BY DEF RowInv, SentinelLast
  <2>3. QED  BY <1>2, <1>4, <2>1, <2>2 DEF RowInv, SentinelLast, RowsOf
<1>9. QED  BY <1>5, <1>6, <1>7, <1>8 DEF RowInv

\* The writer takes the sentinel and ends.
LEMMA SentinelTaken ==
  ASSUME RowInv, rowQueue # <<>>, Head(rowQueue) = Sentinel, rowQueue' = Tail(rowQueue),
         UNCHANGED <<accepted, batch, flushed, stored, discarded, stop>>
  PROVE  RowInv'
<1>1. rowQueue \in Seq(Items) /\ IsInjective(rowQueue)
  BY DEF RowInv, RowTypeOK, NoneTwice
<1>2. /\ rowQueue' \in Seq(Items) /\ Len(rowQueue') <= Len(rowQueue)
      /\ ToSet(rowQueue) = ToSet(rowQueue') \cup {Sentinel}
      /\ IsInjective(rowQueue') /\ Sentinel \notin ToSet(rowQueue')
  BY <1>1, TakeHead
<1>3. Len(rowQueue') <= QueueSize
  BY <1>1, <1>2, TelemetryAssumption DEF RowInv, SentinelLast
<1>4. RowTypeOK' /\ NoneTwice' /\ InOnePlace' /\ AllAccounted'
  BY <1>2 DEF RowInv, RowTypeOK, NoneTwice, InOnePlace, AllAccounted, RowsOf
<1>5. SentinelLast'
  BY <1>2, <1>3 DEF RowInv, SentinelLast, RowsOf
<1>6. QED  BY <1>4, <1>5 DEF RowInv

\* A batch is stored when it is rows only, and lost otherwise.
LEMMA WriteBatchKeeps ==
  ASSUME RowInv, NEW ok \in BOOLEAN, WriteBatch(ok)
  PROVE  RowInv'
<1>1. /\ rowQueue \in Seq(Items) /\ batch \in Seq(Items) /\ RowTypeOK
      /\ UNCHANGED <<rowQueue, accepted, flushed, stop>> /\ batch' = <<>>
      /\ ToSet(batch) \subseteq Items
  BY ItemTypes DEF RowInv, RowTypeOK, WriteBatch
<1>2. batch' \in Seq(Items) /\ ToSet(batch') = {} /\ IsInjective(batch')
  BY <1>1, EmptyItems
<1>3. SentinelLast'
  BY <1>1, <1>2 DEF RowInv, SentinelLast
<1>4. CASE ok
  <2>1. Sentinel \notin ToSet(batch)
    BY <1>1, <1>4 DEF WriteBatch, Contains, ToSet
  <2>2. batch \in Seq(Rows)
    <3>1. ToSet(batch) \subseteq Rows
      BY <1>1, <2>1 DEF Items
    <3>2. \A i \in 1..Len(batch) : batch[i] \in Rows
      BY <1>1, <3>1 DEF ToSet
    <3>3. QED  BY <1>1, <3>2
  <2>3. stored' = stored \o batch /\ UNCHANGED discarded
    BY <1>4 DEF WriteBatch
  <2>4. /\ stored' \in Seq(Rows) /\ ToSet(stored') = ToSet(stored) \cup ToSet(batch)
        /\ IsInjective(stored')
    BY <1>1, <2>2, <2>3, JoinItems DEF RowTypeOK, RowInv, NoneTwice, InOnePlace
  <2>5. RowTypeOK' /\ NoneTwice'
    BY <1>1, <1>2, <2>3, <2>4 DEF RowInv, RowTypeOK, NoneTwice
  <2>6. InOnePlace'
    BY <1>1, <1>2, <2>3, <2>4 DEF RowInv, InOnePlace
  <2>7. AllAccounted'
    BY <1>1, <1>2, <2>1, <2>3, <2>4 DEF RowInv, AllAccounted, RowsOf
  <2>8. QED  BY <1>3, <2>5, <2>6, <2>7 DEF RowInv
<1>5. CASE ~ok
  <2>1. discarded' = discarded \cup RowsOf(batch) /\ UNCHANGED stored
    BY <1>5 DEF WriteBatch
  <2>2. RowsOf(batch) \subseteq Rows
    BY <1>1 DEF RowsOf, Items
  <2>3. RowTypeOK' /\ NoneTwice'
    BY <1>1, <1>2, <2>1, <2>2 DEF RowInv, RowTypeOK, NoneTwice
  <2>4. InOnePlace'
    BY <1>1, <1>2, <2>1 DEF RowInv, InOnePlace, RowsOf
  <2>5. AllAccounted'
    BY <1>1, <1>2, <2>1 DEF RowInv, AllAccounted, RowsOf
  <2>6. QED  BY <1>3, <2>3, <2>4, <2>5 DEF RowInv
<1>6. QED  BY <1>4, <1>5

LEMMA WriterKeeps ==
  ASSUME RowInv, WriterStep
  PROVE  RowInv'
<1>1. CASE WriterGets
  BY <1>1, TakeItemKeeps, SentinelTaken DEF WriterGets
<1>2. CASE WriterCollects
  BY <1>2, TakeItemKeeps DEF WriterCollects
<1>3. CASE WriterHasBatch
  BY <1>3 DEF WriterHasBatch, RowInv, RowTypeOK, NoneTwice, InOnePlace, AllAccounted,
     SentinelLast, RowsOf
<1>4. QED  BY <1>1, <1>2, <1>3, WriteBatchKeeps DEF WriterStep

\* The flush takes rows only: the sentinel is put after it.
LEMMA FlushTakesKeeps ==
  ASSUME RowInv, FlushTakes
  PROVE  RowInv'
<1> DEFINE h == Head(rowQueue)
<1>1. /\ rowQueue \in Seq(Items) /\ IsInjective(rowQueue) /\ flushed \in Seq(Rows)
      /\ IsInjective(flushed) /\ rowQueue # <<>> /\ stop = "flush"
      /\ UNCHANGED <<accepted, batch, stored, discarded, stop>>
  BY DEF RowInv, RowTypeOK, NoneTwice, FlushTakes
<1>2. /\ h \in Items /\ rowQueue' \in Seq(Items) /\ Len(rowQueue') <= Len(rowQueue)
      /\ ToSet(rowQueue) = ToSet(rowQueue') \cup {h}
      /\ IsInjective(rowQueue') /\ h \notin ToSet(rowQueue')
  BY <1>1, TakeHead DEF FlushTakes
<1>3. flushed' = Append(flushed, h)
  BY DEF FlushTakes
<1> HIDE DEF h
<1>4. h \in Rows /\ h \notin ToSet(flushed)
  BY <1>1, <1>2 DEF RowInv, SentinelLast, InOnePlace, Items
<1>5. /\ flushed' \in Seq(Rows) /\ IsInjective(flushed')
      /\ ToSet(flushed') = ToSet(flushed) \cup {h}
  BY <1>1, <1>3, <1>4, AppendItem
<1>6. RowTypeOK' /\ NoneTwice'
  BY <1>1, <1>2, <1>5 DEF RowInv, RowTypeOK, NoneTwice
<1>7. InOnePlace'
  BY <1>1, <1>2, <1>5 DEF RowInv, InOnePlace
<1>8. AllAccounted'
  <2>1. h # Sentinel /\ Sentinel \notin ToSet(rowQueue)
    BY <1>1, <1>2 DEF RowInv, SentinelLast
  <2>2. QED  BY <1>1, <1>2, <1>5, <2>1 DEF RowInv, AllAccounted, RowsOf
<1>9. SentinelLast'
  <2>1. Len(rowQueue') <= QueueSize
    BY <1>1, <1>2, TelemetryAssumption DEF RowInv, SentinelLast
  <2>2. QED  BY <1>1, <1>2, <2>1 DEF RowInv, SentinelLast
<1>10. QED  BY <1>6, <1>7, <1>8, <1>9 DEF RowInv

LEMMA FlushWritesKeeps ==
  ASSUME RowInv, NEW ok \in BOOLEAN, FlushWrites(ok)
  PROVE  RowInv'
<1>1. /\ RowTypeOK /\ stop = "flush" /\ rowQueue = <<>> /\ flushed' = <<>>
      /\ UNCHANGED <<rowQueue, accepted, batch>>
      /\ Sentinel \notin ToSet(rowQueue) \cup ToSet(batch)
      /\ ToSet(flushed) \subseteq Rows /\ Sentinel \notin Rows
  BY ItemTypes DEF RowInv, FlushWrites, SentinelLast
<1>2. flushed' \in Seq(Rows) /\ ToSet(flushed') = {} /\ IsInjective(flushed')
  BY <1>1, EmptyItems
<1>3. SentinelLast'
  BY <1>1 DEF RowInv, SentinelLast, FlushWrites, RowsOf
<1>4. CASE ok
  <2>1. stored' = stored \o flushed /\ UNCHANGED discarded
    BY <1>4 DEF FlushWrites
  <2>2. /\ stored' \in Seq(Rows) /\ ToSet(stored') = ToSet(stored) \cup ToSet(flushed)
        /\ IsInjective(stored')
    BY <1>1, <2>1, JoinItems DEF RowTypeOK, RowInv, NoneTwice, InOnePlace
  <2>3. RowTypeOK' /\ NoneTwice'
    BY <1>1, <1>2, <2>1, <2>2 DEF RowInv, RowTypeOK, NoneTwice
  <2>4. InOnePlace'
    BY <1>1, <1>2, <2>1, <2>2 DEF RowInv, InOnePlace
  <2>5. AllAccounted'
    BY <1>1, <1>2, <2>1, <2>2 DEF RowInv, AllAccounted, RowsOf
  <2>6. QED  BY <1>3, <2>3, <2>4, <2>5 DEF RowInv
<1>5. CASE ~ok
  <2>1. discarded' = discarded \cup RowsOf(flushed) /\ UNCHANGED stored
    BY <1>5 DEF FlushWrites
  <2>2. RowsOf(flushed) = ToSet(flushed)
    BY <1>1 DEF RowsOf
  <2>3. RowTypeOK' /\ NoneTwice'
    BY <1>1, <1>2, <2>1, <2>2 DEF RowInv, RowTypeOK, NoneTwice
  <2>4. InOnePlace'
    BY <1>1, <1>2, <2>1, <2>2 DEF RowInv, InOnePlace
  <2>5. AllAccounted'
    BY <1>1, <1>2, <2>1, <2>2 DEF RowInv, AllAccounted, RowsOf
  <2>6. QED  BY <1>3, <2>3, <2>4, <2>5 DEF RowInv
<1>6. QED  BY <1>4, <1>5

LEMMA PutSentinelKeeps ==
  ASSUME RowInv, PutSentinel
  PROVE  RowInv'
<1>1. /\ RowTypeOK /\ stop = "sentinel" /\ rowQueue = <<>> /\ ToSet(rowQueue) = {}
      /\ UNCHANGED <<accepted, batch, flushed, stored, discarded>>
      /\ Sentinel \notin ToSet(batch) /\ Sentinel \notin Rows /\ Sentinel \in Items
      /\ ToSet(flushed) \subseteq Rows /\ ToSet(stored) \subseteq Rows /\ QueueSize \in Nat \ {0}
  BY ItemTypes, EmptyItems DEF RowInv, PutSentinel, SentinelLast
<1>2. CASE stop' = "stopped" /\ UNCHANGED rowQueue
  BY <1>1, <1>2 DEF RowInv, RowTypeOK, NoneTwice, InOnePlace, AllAccounted, SentinelLast, RowsOf
<1>3. CASE stop' = "join" /\ rowQueue' = Append(rowQueue, Sentinel)
  <2>1. /\ rowQueue' \in Seq(Items) /\ IsInjective(rowQueue') /\ ToSet(rowQueue') = {Sentinel}
    <3>1. rowQueue \in Seq(Items) /\ IsInjective(rowQueue) /\ Sentinel \notin ToSet(rowQueue)
      BY <1>1 DEF RowInv, RowTypeOK, NoneTwice
    <3>2. /\ Append(rowQueue, Sentinel) \in Seq(Items)
          /\ ToSet(Append(rowQueue, Sentinel)) = ToSet(rowQueue) \cup {Sentinel}
          /\ IsInjective(Append(rowQueue, Sentinel))
      BY <1>1, <3>1, AppendItem
    <3>3. QED  BY <1>1, <1>3, <3>2
  <2>2. Len(rowQueue') = 1
    BY <1>1, <1>3
  <2>3. discarded \subseteq Rows
    BY <1>1 DEF RowTypeOK
  <2>4. RowTypeOK' /\ NoneTwice' /\ InOnePlace' /\ AllAccounted'
    BY <1>1, <2>1, <2>3 DEF RowInv, RowTypeOK, NoneTwice, InOnePlace, AllAccounted, RowsOf
  <2>5. SentinelLast'
    BY <1>1, <1>3, <2>1, <2>2 DEF SentinelLast, RowsOf
  <2>6. QED  BY <2>4, <2>5 DEF RowInv
<1>4. QED  BY <1>2, <1>3 DEF PutSentinel

LEMMA StopKeeps ==
  ASSUME RowInv, StopStep \/ BeginStop
  PROVE  RowInv'
<1>1. CASE Join
  BY <1>1 DEF Join, RowInv, RowTypeOK, NoneTwice, InOnePlace, AllAccounted, SentinelLast, RowsOf
<1>2. CASE BeginStop
  BY <1>2 DEF BeginStop, RowInv, RowTypeOK, NoneTwice, InOnePlace, AllAccounted, SentinelLast, RowsOf
<1>3. QED
  BY <1>1, <1>2, FlushTakesKeeps, FlushWritesKeeps, PutSentinelKeeps DEF StopStep

LEMMA RowsUntouched ==
  ASSUME RowInv, UNCHANGED rowVars
  PROVE  RowInv'
BY DEF rowVars, RowInv, RowTypeOK, NoneTwice, InOnePlace, AllAccounted, SentinelLast, RowsOf

\* Moving one caller of get_lightrag.
LEMMA CallMoves ==
  ASSUME AppendedOnce, NEW c \in Callers,
         NEW s \in {"out", "waiting", "initialising", "got", "failed"},
         At(c, s), s = "out" \/ calling[c] # "out", UNCHANGED <<requests, accepted>>
  PROVE  AppendedOnce'
BY DEF AppendedOnce, At

\* A query asks once and is answered once, and so is its row.
LEMMA OnceKept ==
  ASSUME AppendedOnce, RowInv, [Next]_vars
  PROVE  AppendedOnce' /\ RowInv'
<1>0. /\ Queries \subseteq Callers /\ WarmUp \in Callers /\ Worker \in Callers
      /\ Queries \subseteq Rows /\ Feedbacks \subseteq Rows
      /\ WarmUp \notin Queries /\ Worker \notin Queries /\ Queries \cap Feedbacks = {}
  BY ServiceAssumption
<1>1. ASSUME NEW c \in Callers, GetStep(c), UNCHANGED <<requests, accepted>>
      PROVE  AppendedOnce'
  BY <1>1, CallMoves DEF GetStep, GetExisting, Build, BuildFails, Initialised, InitialiseFails,
     TakesLock
<1>2. ASSUME NEW c \in Callers, Return(c) \/ CancelCall(c), UNCHANGED <<requests, accepted>>
      PROVE  AppendedOnce'
  BY <1>2, CallMoves DEF Return, CancelCall
<1>3. ASSUME NEW c \in Callers \ Queries, CallGet(c), UNCHANGED <<requests, accepted>>
      PROVE  AppendedOnce'
  BY <1>3 DEF CallGet, At, AppendedOnce
<1>4. ASSUME UNCHANGED <<calling, requests, accepted>>
      PROVE  AppendedOnce'
  BY <1>4 DEF AppendedOnce
<1>5. CASE Lifespan
  <2>1. CASE StopTelemetry
    <3>1. UNCHANGED accepted
      BY <2>1 DEF StopTelemetry, StopStep, FlushTakes, FlushWrites, PutSentinel, Join
    <3>2. QED  BY <2>1, <3>1, <1>4, StopKeeps DEF StopTelemetry, lifespanVars, ragVars
  <2>2. CASE StartWarmUp
    BY <1>0, <1>3, <2>2, RowsUntouched DEF StartWarmUp, lifespanVars, rowVars
  <2>3. CASE GetRag(WarmUp)
    BY <1>0, <1>1, <2>3, RowsUntouched DEF GetRag, lifespanVars, rowVars
  <2>4. CASE Serve
    BY <1>0, <1>2, <2>4, RowsUntouched DEF Serve, rowVars
  <2>5. CASE CloseDown
    BY <1>4, <2>5, RowsUntouched DEF CloseDown, ragVars, rowVars
  <2>6. QED  BY <1>5, <2>1, <2>2, <2>3, <2>4, <2>5 DEF Lifespan
<1>6. CASE Shutdown
  <2>1. UNCHANGED <<accepted, requests>> /\ (UNCHANGED ragVars \/ CancelCall(Worker)) /\ BeginStop
    BY <1>6 DEF Shutdown, BeginStop
  <2>2. QED  BY <1>0, <1>2, <1>4, <2>1, StopKeeps DEF ragVars
<1>7. ASSUME NEW q \in Queries, Query(q)
      PROVE  AppendedOnce' /\ RowInv'
  <2>1. AppendedOnce'
    BY <1>0, <1>7 DEF Query, CallGet, At, AppendedOnce, rowVars
  <2>2. QED  BY <1>7, <2>1, RowsUntouched DEF Query
<1>8. ASSUME NEW q \in Queries, Answer(q)
      PROVE  AppendedOnce' /\ RowInv'
  <2>1. q \notin accepted /\ q \notin requests
    BY <1>8 DEF Answer, AppendedOnce
  <2>2. RowInv'
    BY <1>0, <1>8, <2>1, AppendRowKeeps DEF Answer
  <2>3. accepted' \subseteq accepted \cup {q} /\ UNCHANGED requests
    BY <1>8 DEF Answer, AppendRow, lifespanVars
  <2>4. AppendedOnce'
    BY <1>0, <1>8, <2>1, <2>3 DEF Answer, Return, At, AppendedOnce
  <2>5. QED  BY <2>2, <2>4
<1>9. ASSUME NEW q \in Queries, QueryFails(q) \/ GetRag(q)
      PROVE  AppendedOnce' /\ RowInv'
  BY <1>0, <1>1, <1>2, <1>9, RowsUntouched DEF QueryFails, GetRag, lifespanVars, rowVars
<1>10. ASSUME NEW f \in Feedbacks, Feedback(f)
       PROVE  AppendedOnce' /\ RowInv'
  <2>1. f \notin accepted
    BY <1>10 DEF Feedback, AppendedOnce
  <2>2. RowInv'
    BY <1>0, <1>10, <2>1, AppendRowKeeps DEF Feedback
  <2>3. /\ accepted' \subseteq accepted \cup {f} /\ requests' = requests \ {f}
        /\ UNCHANGED calling
    BY <1>10 DEF Feedback, AppendRow, ragVars
  <2>4. AppendedOnce'
    BY <1>0, <2>3 DEF AppendedOnce
  <2>5. QED  BY <2>2, <2>4
<1>11. ASSUME NEW t \in Tasks, SubmitTask(t)
       PROVE  AppendedOnce' /\ RowInv'
  BY <1>4, <1>11, RowsUntouched DEF SubmitTask, lifespanVars, ragVars, rowVars
<1>12. CASE WorkerStep
  <2>1. CASE BeginTask
    BY <1>4, <2>1, RowsUntouched DEF BeginTask, lifespanVars, ragVars, rowVars
  <2>2. ASSUME NEW t \in Tasks, TaskNeedsRag(t)
        PROVE  AppendedOnce' /\ RowInv'
    BY <1>0, <1>3, <2>2, RowsUntouched DEF TaskNeedsRag, lifespanVars, rowVars
  <2>3. ASSUME NEW t \in Tasks, NEW outcome \in Settled, EndTask(t, outcome)
        PROVE  AppendedOnce' /\ RowInv'
    BY <1>0, <1>2, <1>4, <2>3, RowsUntouched DEF EndTask, lifespanVars, ragVars, rowVars
  <2>4. CASE GetRag(Worker)
    BY <1>0, <1>1, <2>4, RowsUntouched DEF GetRag, lifespanVars, rowVars
  <2>5. QED  BY <1>12, <2>1, <2>2, <2>3, <2>4 DEF WorkerStep
<1>13. CASE WriteTelemetry
  <2>1. UNCHANGED accepted
    BY <1>13 DEF WriteTelemetry, WriterStep, WriterGets, WriterCollects, WriterHasBatch, WriteBatch
  <2>2. QED  BY <1>4, <1>13, <2>1, WriterKeeps DEF WriteTelemetry, lifespanVars, ragVars
<1>14. CASE UNCHANGED vars
  BY <1>4, <1>14, RowsUntouched DEF vars, lifespanVars, ragVars, rowVars
<1>15. QED
  BY <1>5, <1>6, <1>7, <1>8, <1>9, <1>10, <1>11, <1>12, <1>13, <1>14 DEF Next, QueryStep

LEMMA RowInitEstablishes ==
  ASSUME Init
  PROVE  AppendedOnce /\ RowInv
<1>1. <<>> \in Seq(Items) /\ <<>> \in Seq(Rows) /\ ToSet(<<>>) = {} /\ IsInjective(<<>>)
  BY EmptyItems
<1>2. Len(<<>>) <= QueueSize
  BY TelemetryAssumption
<1>3. RowInv
  BY <1>1, <1>2 DEF Init, InitRows, RowInv, RowTypeOK, NoneTwice, InOnePlace, AllAccounted,
     SentinelLast, RowsOf
<1>4. AppendedOnce
  BY ServiceAssumption DEF Init, InitRag, InitRows, AppendedOnce
<1>5. QED  BY <1>3, <1>4

LEMMA PlacesApart ==
  ASSUME RowInv
  PROVE  RowsKept
<1>1. \A p, q \in Places : p # q => RowsIn(p) \cap RowsIn(q) = {}
  BY DEF RowInv, InOnePlace, Places, RowsIn, RowsOf
<1>2. UNION {RowsIn(p) : p \in Places} = accepted
  <2>1. /\ RowsIn("queue") = RowsOf(rowQueue) /\ RowsIn("batch") = RowsOf(batch)
        /\ RowsIn("flush") = ToSet(flushed) /\ RowsIn("database") = ToSet(stored)
        /\ RowsIn("lost") = discarded
    BY DEF RowsIn
  <2>2. UNION {RowsIn(p) : p \in Places} = RowsIn("queue") \cup RowsIn("batch") \cup RowsIn("flush")
                                           \cup RowsIn("database") \cup RowsIn("lost")
    BY DEF Places
  <2>3. QED  BY <2>1, <2>2 DEF RowInv, AllAccounted
<1>3. stop \in {"sentinel", "join", "stopped", "raised"} => RowsOf(rowQueue) = {}
  BY EmptyItems DEF RowInv, SentinelLast, RowsOf
<1>4. QED  BY <1>1, <1>2, <1>3 DEF RowInv, NoneTwice, SentinelLast, RowsKept

(***************************************************************************)
(* No row of the telemetry is written twice or lost outside a transaction  *)
(* that failed, however many requests there are, whatever the capacity of  *)
(* the queue and the size of a batch, and wherever the shutdown finds the  *)
(* writer thread.                                                          *)
(***************************************************************************)
THEOREM TelemetryKept == Spec => []RowsKept
<1>1. Init => AppendedOnce /\ RowInv
  BY RowInitEstablishes
<1>2. AppendedOnce /\ RowInv /\ [Next]_vars => (AppendedOnce /\ RowInv)'
  BY OnceKept
<1>3. RowInv => RowsKept
  BY PlacesApart
<1>4. QED  BY <1>1, <1>2, <1>3, PTL DEF Spec
=============================================================================
