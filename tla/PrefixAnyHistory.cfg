SPECIFICATION Spec
CONSTANTS
    Recipe = {1, 2}
    File = {"h", "so"}
    Config = {"RelWithDebInfo", "Debug"}
    RelWithDebInfo = "RelWithDebInfo"
    Installs <- MCInstalls
    Links <- MCLinks
    Tarball = {1}
    TarballOf <- MCTarballOf
    Attempts = 1
    SourceUrls = 1
    Phase = {"find_prebuilt", "fetch_archive", "receive_archive", "wipe", "extract", "build_dep", "fetch_source", "receive_source", "compile", "install", "bind"}
    Revert = TRUE
INVARIANTS
    TypeOK
    OnlyVerifiedContent
    NoRebuildAgain
    TrustedBuildStamp
PROPERTIES
    PrebuiltStampEarned
    WipedOnlyForArchive
