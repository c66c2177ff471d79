SPECIFICATION Spec
CONSTANTS
    Library = {"ogg", "opusfile"}
    StaticRecipes = {"opusfile"}
    SourceDep = {"lv2sdk", "nyquist"}
    SystemSources = {"lv2sdk"}
    Tool = {"yasm", "dump_syms"}
    Hosts <- MCHosts
    Overrides <- MCOverrides
INVARIANTS
    TypeOK
    OneFormIsWhole
    OnlyHostShadows
