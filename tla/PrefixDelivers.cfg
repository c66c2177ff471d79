SPECIFICATION FairSpec
CONSTANTS
    Recipe = {1, 2}
    File = {"h", "so"}
    Config = {"RelWithDebInfo"}
    RelWithDebInfo = "RelWithDebInfo"
    Installs <- MCInstalls
    Links <- MCLinks
    Tarball = {1}
    TarballOf <- MCTarballOf
    Attempts = 3
    SourceUrls = 2
    Phase = {"find_prebuilt", "fetch_archive", "receive_archive", "extract", "build_dep", "fetch_source", "receive_source", "compile", "install", "bind"}
    Revert = FALSE
INVARIANTS
    BoundIsCurrent
    PrebuiltAlwaysServes
PROPERTIES
    DeliversSafely
    ConfigureEnds
