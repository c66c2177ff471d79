SPECIFICATION FairSpec
CONSTANTS
    Process = {p1, p2}
    Pin = {a, b}
    Content = {a, b, x}
    Hole = Hole
    Absent = Absent
    Attempts = 2
INVARIANTS
    TypeOK
    RestsVerified
    OnlyOthersHarm
PROPERTY
    RunEnds
