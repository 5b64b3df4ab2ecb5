SPECIFICATION FairSpec
CONSTANTS
    d1 = d1
    d2 = d2
    n1 = n1
    n2 = n2
    Docs <- MCDocs
    NameOf <- DistinctNames
    Run = run
    Api = {api}
    None = None
    Free = Free
    MaxEdits = 3
    MaxFaults = 2
    Blanks = {}
    Requests = {"add"}
    Faults = {"insert_fails", "crash"}
    OneTask = TRUE
    EditRaces = FALSE
    Reverts = FALSE
INVARIANT
    UnchangedIsSearchable
PROPERTY
    EventuallySearchable
