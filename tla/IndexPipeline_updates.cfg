SPECIFICATION FairSpec
CONSTANTS
    d1 = d1
    d2 = d2
    n1 = n1
    n2 = n2
    Docs <- MCDocs
    NameOf <- DistinctNames
    Run = run
    Api = {api}
    None = None
    Free = Free
    MaxEdits = 3
    MaxFaults = 2
    Blanks = {}
    Requests = {"update"}
    Faults = {"insert_raises", "insert_fails"}
    OneTask = TRUE
    EditRaces = FALSE
    Reverts = TRUE
INVARIANTS
    RegistryMatchesIndex
    NothingOutdated
PROPERTY
    EventuallyForgotten
