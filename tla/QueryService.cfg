SPECIFICATION FairSpec
CONSTANTS
    Queries = {q1, q2}
    Requests <- MCRequests
    MaxQueries = 1
    Writers = {w1}
    None = None
INVARIANTS TypeOK AnswerNotOlder PermitsReturned
PROPERTIES EveryQuestionEnds
CHECK_DEADLOCK FALSE
