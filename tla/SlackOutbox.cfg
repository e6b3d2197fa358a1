SPECIFICATION FairSpec
CONSTANTS
    None = None
    Events = {e1, e2}
    Workers = {w1, w2}
    MaxAttempts = 2
    BackoffSteps = 1
    Losses = 1
INVARIANTS
    TypeOK
    OverlapOnlyAfterBackoff
    AttemptsAreAccountedFor
    RecordsAreHonest
PROPERTIES
    ClosedStaysClosed
    EveryEventIsClosed
