SPECIFICATION FairSpec
CONSTANTS
    Client = {c1}
    MaxCalls = 2
    CodeCounts = {0, 2, 3}
    StateCounts = {0, 1296, 1297}
    Rights = {16, 19, 21}
INVARIANTS
    TypeOK
    StubsAgree
    OwnAnswer
PROPERTIES
    CallsAreRemote
    CallEnds
\* A server may die and every thread may have made its calls.
CHECK_DEADLOCK FALSE
