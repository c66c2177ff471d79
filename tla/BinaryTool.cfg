SPECIFICATION FairSpec
CONSTANTS
    Binary = {b1, b2, b3}
    Absent = Absent
    Partial = Partial
    Attempts = 3
INVARIANTS
    TypeOK
    BoundRuns
PROPERTIES
    DeliversSafely
    FetchEnds
