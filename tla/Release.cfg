SPECIFICATION Spec
CHECK_DEADLOCK FALSE
CONSTANTS
    Dep = {"ogg"}
    DependsOn <- MCDependsOn
    Platform = {"linux", "windows"}
    Content = {a, b}
    Run = {r1, r2}
    MaxTime = 2
    MaxRev = 3
    None = None
SYMMETRY MCSymmetry
INVARIANTS
    TypeOK
    LockServes
    OneBuild
PROPERTY MirrorFollows
