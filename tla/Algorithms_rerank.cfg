SPECIFICATION Spec
CHECK_DEADLOCK FALSE
CONSTANTS
    Asks <- AllAsks
    EntityLists <- Names
    EdgeLists <- Edges
    RelationLists <- Relations
    Backends = {"outage"}
    FilterLimits <- Limits3
    ChunkLists <- Chunks
    CostLists <- Blocks
    MaxBudget = 8
    MaxCount = 2
    Graphs <- SmallGraphs
    Nodes <- FourNodes
    Groupings <- Partitions4
    Splits <- Finer
    Top2 = 8
    Halvings = 3
    Golds <- FewGolds
    Rankings <- FewRankings
    Matches <- SomeMatches
    SourceMatches <- SomeSources
    Rows <- SomeRows
    Bundles <- SomeBundles
    Letters <- FewLetters
    Texts <- Streams
    Rates <- SomeRates
    Callers <- ThreeCallers
    MaxRetries = 1
    Window = 2
    MaxTime = 4
    MaxAllowed = 5
INVARIANTS
    OutageFallsBack
