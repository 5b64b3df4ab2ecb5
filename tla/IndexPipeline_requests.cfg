SPECIFICATION Spec
CONSTANTS
    d1 = d1
    d2 = d2
    n1 = n1
    n2 = n2
    Docs <- MCDocs
    NameOf <- SharedName
    Run = run
    Api = {api}
    None = None
    Free = Free
    MaxEdits = 3
    MaxFaults = 1
    Blanks = {2}
    Requests = {"add", "update", "delete"}
    Faults = {"insert_raises", "delete_raises", "delete_refused"}
    OneTask = FALSE
    EditRaces = FALSE
    Reverts = FALSE
INVARIANTS
    TypeOK
    NoDuplicateInsert
    OneWorkerPerName
PROPERTY
    SourceKept
SYMMETRY SameNameSymmetry
