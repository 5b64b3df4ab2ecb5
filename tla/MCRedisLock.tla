---------------------------- MODULE MCRedisLock ----------------------------
(* Four tasks in two processes: contention inside a process and across. *)
EXTENDS RedisLock, TLC

CONSTANTS t1, t2, t3, t4, p1, p2

MCClients == {t1, t2, t3, t4}
MCProcs == {p1, p2}
MCProcOf == (t1 :> p1) @@ (t2 :> p1) @@ (t3 :> p2) @@ (t4 :> p2)

AllRegimes == Regime
ShortTTL == {[flaps |-> FALSE, short |-> TRUE, crash |-> FALSE]}
=============================================================================
