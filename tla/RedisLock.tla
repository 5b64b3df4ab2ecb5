----------------------------- MODULE RedisLock -----------------------------
(***************************************************************************)
(* One lock key of src/storage/redis_lock.py ("rag:lock:incremental" or    *)
(* "rag:lock:doc:<name>") and the tasks that contend for it.               *)
(*                                                                         *)
(* A task asks Redis first (SET NX EX).  When the call raises, or Redis is *)
(* not configured, it falls back to an asyncio.Lock of its own process.    *)
(* Nobody waits: a task that does not get the lock is refused and gives    *)
(* up.  Releasing a Redis lock is a GET, a comparison and a DELETE, three  *)
(* moments between which other tasks run and the key may expire.           *)
(***************************************************************************)
EXTENDS Naturals, FiniteSets

CONSTANTS
    Clients,      \* the tasks (coroutines) that want the lock
    Procs,        \* the operating system processes they run in
    ProcOf,       \* ProcOf[c]: the process of task c
    Free,         \* the key is absent from Redis
    Orphan,       \* the key holds a token no task remembers
    Regimes       \* what may go wrong: see Regime

ASSUME ClientsAssumption ==
    /\ ProcOf \in [Clients -> Procs]
    /\ Free \notin Clients /\ Orphan \notin Clients /\ Free # Orphan

\* flaps: Redis may become (un)reachable while locks are held
\* short: the key may expire under a task that still works
\* crash: a process may be killed
Regime == [flaps : BOOLEAN, short : BOOLEAN, crash : BOOLEAN]

ASSUME RegimeAssumption == Regimes \subseteq Regime

VARIABLES
    regime,  \* what goes wrong in this behaviour; it never changes
    up,      \* Redis answers (always FALSE when it is not configured)
    key,     \* the value stored under the lock key: whose token it is
    local,   \* local[p]: _local_locks[lock_key] of process p is locked
    pc       \* pc[c]: where task c stands

vars == <<regime, up, key, local, pc>>

(***************************************************************************)
(* "redis" and "local" hold the lock by a token of that kind; "deleting"   *)
(* has read its own token back in release_lock and not deleted it yet.     *)
(***************************************************************************)
Status == {"idle", "redis", "local", "deleting", "refused"}

TypeOK ==
    /\ regime \in Regimes
    /\ up \in BOOLEAN
    /\ key \in Clients \cup {Free, Orphan}
    /\ local \in [Procs -> BOOLEAN]
    /\ pc \in [Clients -> Status]

\* The tasks that work on what the lock protects.
Working == {c \in Clients : pc[c] \in {"redis", "local"}}

\* Redis does not come and go, and the TTL covers the work.
Stable == ~regime.flaps /\ ~regime.short

Goto(c, s) == pc' = [pc EXCEPT ![c] = s]

-----------------------------------------------------------------------------

Init ==
    /\ regime \in Regimes
    /\ up \in BOOLEAN
    /\ key = Free
    /\ local = [p \in Procs |-> FALSE]
    /\ pc = [c \in Clients |-> "idle"]

\* Seeded faults: SET without NX; an asyncio.Lock whose state nobody asks for.
SetAnyway == TRUE
LocalAnyway(c) == TRUE

KeyFree == key = Free
LocalFree(c) == ~local[ProcOf[c]]

\* SET NX EX answered: the token is stored, or the key was taken.
AcquireRedis(c) ==
    /\ pc[c] = "idle"
    /\ up
    /\ IF KeyFree
       THEN key' = c /\ Goto(c, "redis")
       ELSE key' = key /\ Goto(c, "refused")
    /\ UNCHANGED <<regime, up, local>>

\* _acquire_local: refused when locked, otherwise locked without a yield.
AcquireLocal(c) ==
    /\ pc[c] = "idle"
    /\ ~up
    /\ IF LocalFree(c)
       THEN local' = [local EXCEPT ![ProcOf[c]] = TRUE] /\ Goto(c, "local")
       ELSE local' = local /\ Goto(c, "refused")
    /\ UNCHANGED <<regime, up, key>>

\* The SET reached Redis and its answer was lost: the call raises, the key is
\* there, and the task goes on with the lock of its process.
AcquireAnswerLost(c) ==
    /\ regime.flaps
    /\ pc[c] = "idle"
    /\ up
    /\ key = Free
    /\ key' = Orphan
    /\ IF LocalFree(c)
       THEN local' = [local EXCEPT ![ProcOf[c]] = TRUE] /\ Goto(c, "local")
       ELSE local' = local /\ Goto(c, "refused")
    /\ UNCHANGED <<regime, up>>

\* A refused caller skips the document or raises, and may try again later.
GiveUp(c) ==
    /\ pc[c] = "refused"
    /\ Goto(c, "idle")
    /\ UNCHANGED <<regime, up, key, local>>

\* Seeded fault: a local token is not given back.
ForgetLocal(c) ==
    /\ pc[c] = "local"
    /\ Goto(c, "idle")
    /\ UNCHANGED <<regime, up, key, local>>

\* release_lock, local token.
ReleaseLocal(c) ==
    /\ pc[c] = "local"
    /\ local' = [local EXCEPT ![ProcOf[c]] = FALSE]
    /\ Goto(c, "idle")
    /\ UNCHANGED <<regime, up, key>>

\* Seeded fault: the bytes Redis returned are compared without decoding them.
CompareBytes(c) ==
    /\ pc[c] = "redis"
    /\ Goto(c, "idle")
    /\ UNCHANGED <<regime, up, key, local>>

\* release_lock, Redis token: the GET and the comparison.  An error leaves
\* the key to its TTL; a token that is not there any more ends the release.
ReleaseGet(c) ==
    /\ pc[c] = "redis"
    /\ Goto(c, IF up /\ key = c THEN "deleting" ELSE "idle")
    /\ UNCHANGED <<regime, up, key, local>>

\* release_lock, Redis token: the DELETE, whatever the key holds by now.
ReleaseDelete(c) ==
    /\ pc[c] = "deleting"
    /\ key' = IF up THEN Free ELSE key
    /\ Goto(c, "idle")
    /\ UNCHANGED <<regime, up, local>>

\* The key outlives its TTL.  lock_timeout_seconds is meant to cover the work:
\* unless the regime is short, the token of a task that still uses it does not expire.
Expire ==
    /\ key # Free
    /\ \/ regime.short
       \/ key = Orphan
       \/ key \in Clients /\ pc[key] \notin {"redis", "deleting"}
    /\ key' = Free
    /\ UNCHANGED <<regime, up, local, pc>>

\* Redis goes away or comes back.  Where it does not flap it stays as it
\* started: reachable, or not configured at all.
Flap ==
    /\ regime.flaps
    /\ up' = ~up
    /\ UNCHANGED <<regime, key, local, pc>>

\* A process is killed: its tasks and its asyncio locks are gone, a token it
\* had stored stays in Redis until it expires.
Crash(p) ==
    /\ regime.crash
    /\ \E c \in Clients : ProcOf[c] = p /\ pc[c] # "idle"
    /\ pc' = [c \in Clients |-> IF ProcOf[c] = p THEN "idle" ELSE pc[c]]
    /\ local' = [local EXCEPT ![p] = FALSE]
    /\ key' = IF key \in Clients /\ ProcOf[key] = p THEN Orphan ELSE key
    /\ UNCHANGED <<regime, up>>

Next ==
    \/ \E c \in Clients :
          \/ AcquireRedis(c) \/ AcquireLocal(c) \/ AcquireAnswerLost(c)
          \/ GiveUp(c)
          \/ ReleaseLocal(c) \/ ReleaseGet(c) \/ ReleaseDelete(c)
    \/ Expire
    \/ Flap
    \/ \E p \in Procs : Crash(p)

Spec == Init /\ [][Next]_vars

-----------------------------------------------------------------------------

(***************************************************************************)
(* Two tasks of one process never work under the same key at once, with or *)
(* without Redis: what the comment on _local_locks promises.  It holds     *)
(* while Redis stays as it is (Stable); a task that took the lock from     *)
(* Redis and one that falls back to that of the process exclude nothing.   *)
(***************************************************************************)
MutexInProcess ==
    Stable => \A c, d \in Working : ProcOf[c] = ProcOf[d] => c = d

(***************************************************************************)
(* With a Redis that stays the exclusion covers all processes.             *)
(***************************************************************************)
MutexAcrossProcesses ==
    Stable /\ up => \A c, d \in Working : c = d

(***************************************************************************)
(* What the docstring of release_lock says, "only the holder of the token  *)
(* deletes": the DELETE that ends the release of d never removes a key     *)
(* that is another task's by then.  With a key that expires between the    *)
(* comparison and the DELETE the code breaks it.                           *)
(***************************************************************************)
NoForeignRelease ==
    [][\A c, d \in Clients :
          c # d /\ pc[d] = "deleting" /\ pc'[d] = "idle" /\ key = c
          => key' # Free]_vars

(***************************************************************************)
(* Where Redis stays and the TTL covers the work, a token that a living    *)
(* task has stored is in Redis only while that task works or releases:     *)
(* after its release no later task is refused until the TTL runs out.      *)
(***************************************************************************)
KeyHasHolder ==
    Stable /\ key \in Clients => pc[key] \in {"redis", "deleting"}

(***************************************************************************)
(* The local lock of a process never outlives the task that took it, so    *)
(* that the fallback cannot refuse every later task.                       *)
(***************************************************************************)
LocalLockHasHolder ==
    \A p \in Procs :
        local[p] <=> \E c \in Clients : ProcOf[c] = p /\ pc[c] = "local"

(***************************************************************************)
(* The lock as its callers see it: Mutex.tla, with "one key for everybody" *)
(* while Redis is there and "one key per process" while it is not.  Where   *)
(* Redis flaps or the TTL is short it promises nothing.                    *)
(***************************************************************************)
M == INSTANCE Mutex WITH
        working <- IF Stable THEN Working ELSE {},
        shared <- Stable /\ up

ImplementsMutex == M!Spec

=============================================================================
