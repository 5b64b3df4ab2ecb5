SPECIFICATION Spec
CONSTANTS
    t1 = t1
    t2 = t2
    t3 = t3
    t4 = t4
    p1 = p1
    p2 = p2
    Clients <- MCClients
    Procs <- MCProcs
    ProcOf <- MCProcOf
    Free = Free
    Orphan = Orphan
    Regimes <- ShortTTL
PROPERTY
    NoForeignRelease
