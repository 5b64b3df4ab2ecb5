------------------------------- MODULE Mutex -------------------------------
(***************************************************************************)
(* What the callers of acquire_lock / release_lock count on: at most one   *)
(* task works under a key, in the whole deployment when the lock is shared *)
(* between processes and inside each process when it is not.               *)
(***************************************************************************)
CONSTANTS Clients, Procs, ProcOf

VARIABLES
    working,   \* the tasks between a successful acquire and the release
    shared     \* the lock is shared by all processes

Excludes(c, d) == shared \/ ProcOf[c] = ProcOf[d]

Init ==
    /\ working = {}
    /\ shared \in BOOLEAN

Enter(c) ==
    /\ c \notin working
    /\ \A d \in working : ~Excludes(c, d)
    /\ working' = working \cup {c}
    /\ UNCHANGED shared

\* One task releases, or all those of a killed process disappear.
Leave(S) ==
    /\ S \subseteq working
    /\ working' = working \ S
    /\ UNCHANGED shared

Next ==
    \/ \E c \in Clients : Enter(c)
    \/ \E S \in SUBSET working : Leave(S)

Spec == Init /\ [][Next]_<<working, shared>>
=============================================================================
