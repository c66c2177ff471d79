SPECIFICATION Spec
CONSTANTS
    Revision = {1, 2}
    Sub = {"lv2", "zlib"}
    Basename = {"v1", "v2", "none"}
    Pin = {"t1", "t2", "g1", "g2", "l"}
    Patch = {"a", "b"}
    Absent = Absent
    Partial = Partial
    Entries <- ReusedNames
    Patches <- MCPatches
    Attempts = 3
    Urls = 2
    Phase = {}
INVARIANT
    UsedIsVerified
