SPECIFICATION FairSpec
CONSTANTS
    cli = cli
    service = service
    m1 = m1
    m2 = m2
    m3 = m3
    m4 = m4
    None = None
    Blank = Blank
    q1 = q1
    Graphs <- MCGraphs
    Builders = {service, cli}
    Service = service
    Kinds <- RefreshKinds
    ReuseNum = 2
    ReuseDen = 3
    Readers = {q1}
    MaxChanges = 1
    MaxBuilds = 0
    MaxCrashes = 1
INVARIANTS TypeOK SummariesOfVersion
PROPERTIES NoSummaryLost NewerGraphWins EventuallyCurrent
