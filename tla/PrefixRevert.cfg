SPECIFICATION Spec
CONSTANTS
    Recipe = {1, 2}
    File = {"h", "so"}
    Config = {"RelWithDebInfo"}
    RelWithDebInfo = "RelWithDebInfo"
    Installs <- MCInstalls
    Links <- MCLinks
    Tarball = {1}
    TarballOf <- MCTarballOf
    Attempts = 1
    SourceUrls = 1
    Phase = {}
    Revert = TRUE
INVARIANTS
    StampedIsInstalled
