SPECIFICATION Spec
CHECK_DEADLOCK FALSE
CONSTANTS
    Dep = {"ogg", "opusfile"}
    DependsOn <- MCDependsOn
    Platform = {"linux", "windows"}
    Content = {a, b}
    Run = {r1, r2}
    MaxTime = 1
    MaxRev = 3
    None = None
INVARIANT NoMixedVersions
