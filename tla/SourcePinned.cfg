SPECIFICATION FairSpec
CONSTANTS
    Revision = {1, 2, 3, 4, 5, 6, 7}
    Sub = {"lv2", "zlib"}
    Basename = {"v1", "v2", "none"}
    Pin = {"t1", "t2", "g1", "g2", "l"}
    Patch = {"a", "b"}
    Absent = Absent
    Partial = Partial
    Entries <- MCEntries
    Patches <- MCPatches
    Attempts = 3
    Urls = 2
    Phase <- MCPhaseWhole
INVARIANTS
    TypeOK
    NotRepopulated
    PopulatedIsPinned
PROPERTIES
    DeliversSafely
    PopulateEnds
