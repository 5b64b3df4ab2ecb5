-------------------------- MODULE RedisLockProofs --------------------------
(***************************************************************************)
(* What holds of the lock for every set of tasks and processes.  Exclusion,*)
(* the freed key and the refinement speak of a stable regime: Redis does   *)
(* not come and go, and the TTL covers the work; neither can be dropped.   *)
(***************************************************************************)
EXTENDS RedisLock, TLAPS

USE DEF Goto, KeyFree, LocalFree

LEMMA TypeStays == TypeOK /\ [Next]_vars => TypeOK'
<1> SUFFICES ASSUME TypeOK, [Next]_vars PROVE TypeOK'
  OBVIOUS
<1> USE ClientsAssumption DEF TypeOK, Status
<1>1. ASSUME NEW c \in Clients, AcquireRedis(c) PROVE TypeOK'
  BY <1>1 DEF AcquireRedis
<1>2. ASSUME NEW c \in Clients, AcquireLocal(c) PROVE TypeOK'
  BY <1>2 DEF AcquireLocal
<1>3. ASSUME NEW c \in Clients, AcquireAnswerLost(c) PROVE TypeOK'
  BY <1>3 DEF AcquireAnswerLost
<1>4. ASSUME NEW c \in Clients, GiveUp(c) PROVE TypeOK'
  BY <1>4 DEF GiveUp
<1>5. ASSUME NEW c \in Clients, ReleaseLocal(c) PROVE TypeOK'
  BY <1>5 DEF ReleaseLocal
<1>6. ASSUME NEW c \in Clients, ReleaseGet(c) PROVE TypeOK'
  BY <1>6 DEF ReleaseGet
<1>7. ASSUME NEW c \in Clients, ReleaseDelete(c) PROVE TypeOK'
  BY <1>7 DEF ReleaseDelete
<1>8. CASE Expire
  BY <1>8 DEF Expire
<1>9. CASE Flap
  BY <1>9 DEF Flap
<1>10. ASSUME NEW p \in Procs, Crash(p) PROVE TypeOK'
  BY <1>10 DEF Crash
<1>11. CASE UNCHANGED vars
  BY <1>11 DEF vars
<1>12. QED
  BY <1>1, <1>2, <1>3, <1>4, <1>5, <1>6, <1>7, <1>8, <1>9, <1>10, <1>11
  DEF Next

(***************************************************************************)
(* Type correctness, in every regime.                                      *)
(***************************************************************************)
THEOREM TypeCorrect == Spec => []TypeOK
<1>1. Init => TypeOK
  BY DEF Init, TypeOK, Status
<1>2. TypeOK /\ [Next]_vars => TypeOK'  BY TypeStays
<1>3. QED
  BY <1>1, <1>2, PTL DEF Spec

-----------------------------------------------------------------------------

(***************************************************************************)
(* The stable regime, and why it is safe: a task that counts on Redis has  *)
(* its own token under the key, a task that counts on its process' lock    *)
(* works while there is no Redis, and the lock of a process is taken by    *)
(* exactly one task or by none.                                            *)
(***************************************************************************)
TokenInPlace ==
    \A c \in Clients : pc[c] \in {"redis", "deleting"} => up /\ key = c

LocalOnlyWithoutRedis ==
    \A c \in Clients : pc[c] = "local" => ~up /\ local[ProcOf[c]]

OneLocalHolder ==
    \A c, d \in Clients :
        pc[c] = "local" /\ pc[d] = "local" /\ ProcOf[c] = ProcOf[d] => c = d

LockInv ==
    /\ TypeOK
    /\ TokenInPlace
    /\ LocalOnlyWithoutRedis
    /\ OneLocalHolder

LEMMA LockInvInductive ==
  ASSUME Stable, LockInv, [Next]_vars
  PROVE  LockInv'
<1> USE ClientsAssumption DEF LockInv, TypeOK, TokenInPlace,
        LocalOnlyWithoutRedis, OneLocalHolder, Status, Stable
<1>1. ASSUME NEW c \in Clients, AcquireRedis(c) PROVE LockInv'
  BY <1>1 DEF AcquireRedis
<1>2. ASSUME NEW c \in Clients, AcquireLocal(c) PROVE LockInv'
  <2>1. CASE local[ProcOf[c]]  BY <1>2, <2>1 DEF AcquireLocal
  <2>2. CASE ~ local[ProcOf[c]]
    <3>1. /\ ~ up /\ up' = up /\ key' = key /\ regime' = regime
          /\ local' = [local EXCEPT ![ProcOf[c]] = TRUE]
          /\ pc' = [pc EXCEPT ![c] = "local"]
      BY <1>2, <2>2 DEF AcquireLocal
    <3>2. TypeOK'  BY <3>1
    <3>3. TokenInPlace' /\ LocalOnlyWithoutRedis'  BY <3>1
    <3>4. OneLocalHolder'  BY <2>2, <3>1
    <3> QED  BY <3>2, <3>3, <3>4
  <2> QED  BY <2>1, <2>2
<1>3. ASSUME NEW c \in Clients, AcquireAnswerLost(c) PROVE LockInv'
  BY <1>3 DEF AcquireAnswerLost
<1>4. ASSUME NEW c \in Clients, GiveUp(c) PROVE LockInv'
  BY <1>4 DEF GiveUp
<1>5. ASSUME NEW c \in Clients, ReleaseLocal(c) PROVE LockInv'
  BY <1>5 DEF ReleaseLocal
<1>6. ASSUME NEW c \in Clients, ReleaseGet(c) PROVE LockInv'
  BY <1>6 DEF ReleaseGet
<1>7. ASSUME NEW c \in Clients, ReleaseDelete(c) PROVE LockInv'
  BY <1>7 DEF ReleaseDelete
<1>8. CASE Expire
  BY <1>8 DEF Expire
<1>9. CASE Flap
  BY <1>9 DEF Flap
<1>10. ASSUME NEW p \in Procs, Crash(p) PROVE LockInv'
  BY <1>10 DEF Crash
<1>11. CASE UNCHANGED vars
  BY <1>11 DEF vars
<1>12. QED
  BY <1>1, <1>2, <1>3, <1>4, <1>5, <1>6, <1>7, <1>8, <1>9, <1>10, <1>11
  DEF Next

LEMMA RegimeStays == [Next]_vars => regime' = regime
BY DEF Next, AcquireRedis, AcquireLocal, AcquireAnswerLost, GiveUp, ReleaseLocal,
   ReleaseGet, ReleaseDelete, Expire, Flap, Crash, vars

LEMMA LockInvHolds == Spec => [](Stable => LockInv)
<1>1. Init => LockInv
  BY ClientsAssumption DEF Init, LockInv, TypeOK, TokenInPlace,
     LocalOnlyWithoutRedis, OneLocalHolder, Status
<1>2. (Stable => LockInv) /\ [Next]_vars => (Stable => LockInv)'
  BY LockInvInductive, RegimeStays DEF Stable
<1>3. QED
  BY <1>1, <1>2, PTL DEF Spec

(***************************************************************************)
(* In the stable regime two tasks of one process never work under the same *)
(* key: what the comment at redis_lock.py:13 promises, for any number of   *)
(* tasks and processes and with processes that crash.                      *)
(***************************************************************************)
THEOREM InProcessExclusion == Spec => []MutexInProcess
<1>1. (Stable => LockInv) => MutexInProcess
  BY DEF LockInv, TokenInPlace, LocalOnlyWithoutRedis, OneLocalHolder,
     MutexInProcess, Working
<1>2. QED
  BY <1>1, LockInvHolds, PTL

(***************************************************************************)
(* In the stable regime, with Redis, no two tasks of the deployment do.    *)
(***************************************************************************)
THEOREM CrossProcessExclusion == Spec => []MutexAcrossProcesses
<1>1. (Stable => LockInv) => MutexAcrossProcesses
  BY DEF LockInv, TokenInPlace, LocalOnlyWithoutRedis,
     MutexAcrossProcesses, Working
<1>2. QED
  BY <1>1, LockInvHolds, PTL

(***************************************************************************)
(* In the stable regime a token outlives neither the work nor the release  *)
(* of the task that stored it: only what a killed process left behind has  *)
(* to wait for its TTL.                                                    *)
(***************************************************************************)
THEOREM ReleasedKeyIsGone == Spec => []KeyHasHolder
<1>1. Init => KeyHasHolder
  BY ClientsAssumption DEF Init, KeyHasHolder
<1>2. ASSUME Stable => LockInv, KeyHasHolder, [Next]_vars PROVE KeyHasHolder'
  <2> SUFFICES ASSUME Stable PROVE KeyHasHolder'
    BY <1>2, RegimeStays DEF KeyHasHolder, Stable
  <2> USE <1>2, ClientsAssumption DEF LockInv, TypeOK, Status, KeyHasHolder
  <2>1. ASSUME NEW c \in Clients,
               AcquireRedis(c) \/ AcquireLocal(c) \/ GiveUp(c) \/ ReleaseLocal(c)
        PROVE  KeyHasHolder'
    BY <2>1 DEF AcquireRedis, AcquireLocal, GiveUp, ReleaseLocal
  <2>2. ASSUME NEW c \in Clients, ReleaseGet(c) \/ ReleaseDelete(c)
        PROVE  KeyHasHolder'
    BY <2>2 DEF ReleaseGet, ReleaseDelete, TokenInPlace
  <2>3. ASSUME NEW p \in Procs, Crash(p) PROVE KeyHasHolder'
    BY <2>3 DEF Crash
  <2> QED
    BY <2>1, <2>2, <2>3
    DEF Next, Expire, Flap, AcquireAnswerLost, Stable, vars
<1> QED  BY <1>1, <1>2, LockInvHolds, PTL DEF Spec

-----------------------------------------------------------------------------
\* what the fallback needs in every regime: whose the lock of a process is
LocalInv ==
    /\ TypeOK
    /\ LocalLockHasHolder
    /\ OneLocalHolder

LEMMA TakeLocal ==
    ASSUME LocalInv, NEW c \in Clients, pc[c] = "idle", TypeOK',
           ~ local[ProcOf[c]],
           local' = [local EXCEPT ![ProcOf[c]] = TRUE],
           pc' = [pc EXCEPT ![c] = "local"]
    PROVE  LocalInv'
<1> USE ClientsAssumption DEF TypeOK, Status
<1>1. \A d \in Clients : ProcOf[d] = ProcOf[c] => pc[d] # "local"
  BY DEF LocalInv, LocalLockHasHolder
<1>2. OneLocalHolder'
  BY <1>1 DEF LocalInv, OneLocalHolder
<1>3. ASSUME NEW p \in Procs
      PROVE  local'[p] <=> \E d \in Clients : ProcOf[d] = p /\ pc'[d] = "local"
  <2>1. CASE p = ProcOf[c]
    <3>1. local'[p] /\ pc'[c] = "local"  BY <2>1 DEF LocalInv
    <3> QED  BY <2>1, <3>1
  <2>2. CASE p # ProcOf[c]
    <3>1. local'[p] = local[p]  BY <2>2 DEF LocalInv
    <3>2. \A d \in Clients : ProcOf[d] = p => pc'[d] = pc[d]  BY <2>2 DEF LocalInv
    <3> QED  BY <3>1, <3>2 DEF LocalInv, LocalLockHasHolder
  <2> QED  BY <2>1, <2>2
<1> QED  BY <1>2, <1>3 DEF LocalInv, LocalLockHasHolder

LEMMA LocalInvInductive == ASSUME LocalInv, TypeOK', [Next]_vars PROVE LocalInv'
<1> USE ClientsAssumption DEF LocalInv, LocalLockHasHolder, OneLocalHolder, TypeOK, Status
<1>1. ASSUME NEW c \in Clients, AcquireRedis(c) PROVE LocalInv'
  BY <1>1 DEF AcquireRedis
<1>2. ASSUME NEW c \in Clients, AcquireLocal(c) PROVE LocalInv'
  <2>1. CASE ~ local[ProcOf[c]]  BY <1>2, <2>1, TakeLocal DEF AcquireLocal
  <2>2. CASE local[ProcOf[c]]  BY <1>2, <2>2 DEF AcquireLocal
  <2> QED  BY <2>1, <2>2
<1>3. ASSUME NEW c \in Clients, AcquireAnswerLost(c) PROVE LocalInv'
  <2>1. CASE ~ local[ProcOf[c]]  BY <1>3, <2>1, TakeLocal DEF AcquireAnswerLost
  <2>2. CASE local[ProcOf[c]]  BY <1>3, <2>2 DEF AcquireAnswerLost
  <2> QED  BY <2>1, <2>2
<1>4. ASSUME NEW c \in Clients, GiveUp(c) PROVE LocalInv'
  BY <1>4 DEF GiveUp
<1>5. ASSUME NEW c \in Clients, ReleaseLocal(c) PROVE LocalInv'
  BY <1>5 DEF ReleaseLocal
<1>6. ASSUME NEW c \in Clients, ReleaseGet(c) PROVE LocalInv'
  BY <1>6 DEF ReleaseGet
<1>7. ASSUME NEW c \in Clients, ReleaseDelete(c) PROVE LocalInv'
  BY <1>7 DEF ReleaseDelete
<1>8. ASSUME NEW p \in Procs, Crash(p) PROVE LocalInv'
  <2>1. \A c \in Clients : pc'[c] = IF ProcOf[c] = p THEN "idle" ELSE pc[c]
    BY <1>8 DEF Crash
  <2>2. \A q \in Procs : local'[q] = IF q = p THEN FALSE ELSE local[q]
    BY <1>8 DEF Crash
  <2>3. ASSUME NEW q \in Procs
        PROVE  local'[q] <=> \E c \in Clients : ProcOf[c] = q /\ pc'[c] = "local"
    <3>1. CASE q = p  BY <2>1, <2>2, <3>1
    <3>2. CASE q # p
      <4>1. local'[q] = local[q]  BY <2>2, <3>2
      <4>2. \A c \in Clients : ProcOf[c] = q => pc'[c] = pc[c]  BY <2>1, <3>2
      <4> QED  BY <4>1, <4>2
    <3> QED  BY <3>1, <3>2
  <2>4. OneLocalHolder'  BY <2>1 DEF OneLocalHolder
  <2> QED  BY <2>3, <2>4 DEF LocalInv, LocalLockHasHolder
<1> QED
  BY <1>1, <1>2, <1>3, <1>4, <1>5, <1>6, <1>7, <1>8 DEF Next, Expire, Flap, vars

(***************************************************************************)
(* Whatever Redis does and whatever is killed, the local lock of a process *)
(* is taken while one of its tasks holds it and at no other time.          *)
(***************************************************************************)
THEOREM LocalLocksAreHeld == Spec => []LocalLockHasHolder
<1>1. Init => LocalInv
  BY ClientsAssumption DEF Init, LocalInv, LocalLockHasHolder, OneLocalHolder, TypeOK, Status
<1>2. LocalInv => LocalLockHasHolder
  BY DEF LocalInv
<1> QED  BY <1>1, <1>2, TypeCorrect, LocalInvInductive, PTL DEF Spec

-----------------------------------------------------------------------------

(***************************************************************************)
(* In the stable regime the whole protocol - SET, GET, compare, DELETE,    *)
(* the local fallback, expiry and crashes - is a Mutex: every step enters  *)
(* one task, lets some leave, or changes nothing a caller can see.         *)
(***************************************************************************)
THEOREM LockImplementsMutex == Spec => ImplementsMutex
<1>1. Init => M!Init
  BY DEF Init, M!Init, Working
<1> DEFINE shown == <<IF Stable THEN Working ELSE {}, Stable /\ up>>
<1>2. (Stable => LockInv) /\ [Next]_vars => [M!Next]_shown
  <2> SUFFICES ASSUME Stable => LockInv, [Next]_vars
               PROVE  M!Next \/ UNCHANGED shown
    OBVIOUS
  <2>a. CASE ~Stable
    BY <2>a, RegimeStays DEF Stable
  <2> SUFFICES ASSUME Stable PROVE M!Next \/ UNCHANGED shown
    BY <2>a
  <2>b. Stable' /\ LockInv
    BY RegimeStays DEF Stable
  <2>c. /\ (IF Stable THEN Working ELSE {}) = Working
        /\ (IF Stable THEN Working ELSE {})' = Working'
        /\ (Stable /\ up) = up /\ (Stable /\ up)' = up'
    <3>1. up \in BOOLEAN /\ up' \in BOOLEAN
      BY <2>b, TypeStays DEF LockInv, TypeOK
    <3> QED  BY <2>b, <3>1
  <2>d. UNCHANGED <<Working, up>> => UNCHANGED shown
    BY <2>c
  <2> HIDE DEF shown
  <2>1. ASSUME NEW c \in Clients, c \notin Working,
               Working' = Working \cup {c}, up' = up,
               \A d \in Working : ~M!Excludes(c, d)
        PROVE  M!Next
    BY <2>1, <2>c DEF M!Next, M!Enter
  <2>2. ASSUME NEW S \in SUBSET Working, Working' = Working \ S, up' = up
        PROVE  M!Next
    BY <2>2, <2>c DEF M!Next, M!Leave
  <2> USE <2>b, ClientsAssumption DEF LockInv, TypeOK, Status, Working
  <2>3. ASSUME NEW c \in Clients, AcquireRedis(c)
        PROVE  M!Next \/ UNCHANGED <<Working, up>>
    <3>1. CASE key = Free
      <4>1. up /\ up' = up /\ pc[c] = "idle" /\ pc' = [pc EXCEPT ![c] = "redis"]
        BY <3>1, <2>3 DEF AcquireRedis
      <4>2. Working = {}
        BY <3>1, <4>1 DEF TokenInPlace, LocalOnlyWithoutRedis
      <4>3. c \notin Working /\ Working' = Working \cup {c}
        BY <4>1
      <4> QED  BY <4>1, <4>2, <4>3, <2>1
    <3>2. CASE key # Free
      BY <3>2, <2>3 DEF AcquireRedis
    <3>3. QED  BY <3>1, <3>2
  <2>4. ASSUME NEW c \in Clients, AcquireLocal(c)
        PROVE  M!Next \/ UNCHANGED <<Working, up>>
    <3>1. CASE local[ProcOf[c]]
      BY <3>1, <2>4 DEF AcquireLocal
    <3>2. CASE ~local[ProcOf[c]]
      <4>1. ~up /\ up' = up /\ pc[c] = "idle" /\ pc' = [pc EXCEPT ![c] = "local"]
        BY <3>2, <2>4 DEF AcquireLocal
      <4>2. \A d \in Working : ~M!Excludes(c, d)
        BY <3>2, <4>1 DEF M!Excludes, TokenInPlace, LocalOnlyWithoutRedis
      <4>3. c \notin Working /\ Working' = Working \cup {c}
        BY <4>1
      <4> QED  BY <4>1, <4>2, <4>3, <2>1
    <3>3. QED  BY <3>1, <3>2
  <2>5. ASSUME NEW c \in Clients, GiveUp(c) \/ ReleaseDelete(c)
        PROVE  UNCHANGED <<Working, up>>
    BY <2>5 DEF GiveUp, ReleaseDelete
  <2>6. ASSUME NEW c \in Clients, ReleaseLocal(c) \/ ReleaseGet(c)
        PROVE  M!Next
    <3>1. Working' = Working \ {c} /\ up' = up /\ {c} \in SUBSET Working
      BY <2>6 DEF ReleaseLocal, ReleaseGet
    <3>2. QED  BY <3>1, <2>2
  <2>7. ASSUME NEW p \in Procs, Crash(p) PROVE M!Next
    <3> DEFINE S == {c \in Working : ProcOf[c] = p}
    <3>1. Working' = Working \ S /\ up' = up /\ S \in SUBSET Working
      BY <2>7 DEF Crash
    <3>2. QED  BY <3>1, <2>2
  <2>8. ASSUME Expire \/ UNCHANGED vars PROVE UNCHANGED <<Working, up>>
    BY <2>8 DEF Expire, vars
  <2>9. QED
    BY <2>3, <2>4, <2>5, <2>6, <2>7, <2>8, <2>d
    DEF Next, AcquireAnswerLost, Flap, Stable
<1>3. QED
  BY <1>1, <1>2, LockInvHolds, PTL DEF Spec, ImplementsMutex, M!Spec

=============================================================================
