------------------------------- MODULE Prefix -------------------------------
(***************************************************************************)
(* One library dependency and the install prefix it is resolved into:      *)
(* extdeps_resolve() in buildtools/resolve.cmake, with everything it calls *)
(* that writes to disk (_extdeps_fetch_prebuilt, build_dep, _bd_try_fetch),*)
(* over any number of configure runs of one build tree.                    *)
(*                                                                         *)
(* A configure is a sequential script, but it can be killed between any    *)
(* two of its writes, and the next one finds what is left: the prefix, its *)
(* two stamps and the download cache.  Between configures the checkout can *)
(* move to another recipe revision and another prebuilt.lock, and the next *)
(* configure can ask for another mode, build type or linkage.              *)
(*                                                                         *)
(* The content of a file is reduced to where it comes from (the recipe,    *)
(* build type and linkage of the build that made it).  A recipe signature, *)
(* the name of an archive and the content of `.prebuilt` are the recipe's  *)
(* number: platform and version are fixed and the hash is injective here.  *)
(***************************************************************************)
EXTENDS Integers

CONSTANTS
    Recipe,         \* revisions of recipes/<name>, in the order of commit
    File,           \* the files an install can put under local_path
    Config,         \* CMake build types
    RelWithDebInfo, \* the one prebuilt archives are built with
    Installs,       \* recipe, linkage -> the files that build installs
    Links,          \* recipe, linkage -> the libraries meta.cmake names
    Tarball,        \* pinned source archives
    TarballOf,      \* recipe -> the source archive it pins
    Attempts,       \* tries per URL, 3 in _bd_try_fetch
    SourceUrls,     \* URLs of the source: upstream, and the mirror if any
    Phase,          \* the phases of a configure in which it can be killed
    Revert          \* may the checkout go back to an earlier recipe?

None == 0

(* Shared libraries, or static ones: DEP_STATIC.                           *)
Linkage == {"shared", "static"}

ASSUME RecipeAssumption == Recipe \subseteq Nat \ {None} /\ Recipe # {}
ASSUME ConfigAssumption == RelWithDebInfo \in Config
ASSUME InstallAssumption ==
    /\ Installs \in [Recipe -> [Linkage -> SUBSET File]]
    /\ Links \in [Recipe -> [Linkage -> SUBSET File]]
    /\ \A r \in Recipe, k \in Linkage : Links[r][k] \subseteq Installs[r][k]
ASSUME TarballAssumption == TarballOf \in [Recipe -> Tarball]
ASSUME AttemptAssumption == Attempts \in Nat /\ SourceUrls \in Nat
(* A configure is always in one of these phases.                           *)
Phases == {"find_prebuilt", "fetch_archive", "receive_archive", "wipe",
           "extract", "build_dep", "fetch_source", "receive_source",
           "compile", "install", "bind"}

ASSUME PhaseAssumption == Phase \subseteq Phases
ASSUME RevertAssumption == Revert \in BOOLEAN

VARIABLES
    recipe,         \* the recipe revision of the checkout
    lock,           \* the recipe whose archive prebuilt.lock names, or None
    prefix,         \* local_path: what each file holds
    prebuiltStamp,  \* local_path/.prebuilt
    buildStamp,     \* local_path/.build_stamp
    interrupted,    \* what was broken off over local_path since buildStamp was
                    \* written; for the properties, no guard reads it
    archives,       \* <cache>/prebuilt: one archive per recipe
    sources,        \* <cache>/downloads/<name>: one entry per tarball
    pc,             \* where the running configure is
    request,        \* what it was asked for
    attempt,        \* downloads that failed so far, in _bd_try_fetch
    outcome,        \* how the last configure of this checkout ended
    again           \* is this configure a repetition of one that succeeded?

disk     == <<prefix, prebuiltStamp, buildStamp, interrupted>>
cache    == <<archives, sources>>
checkout == <<recipe, lock>>
job      == <<request, attempt, again>>
vars     == <<checkout, disk, cache, pc, outcome, job>>

-----------------------------------------------------------------------------
(* What is on disk.                                                        *)

Origin == [recipe : Recipe \cup {None}, config : Config, linkage : Linkage,
           from : {"archive", "build", "unverified"}]

Build == [recipe : Recipe \cup {None}, config : Config, linkage : Linkage]

(* No stamp file.                                                          *)
NoBuild == [recipe |-> None, config |-> RelWithDebInfo, linkage |-> "shared"]

NoFile == [recipe |-> None, config |-> RelWithDebInfo, linkage |-> "shared",
           from |-> "build"]

(* The cached download is absent, verified, or something else: the rest of *)
(* a killed file(DOWNLOAD), which writes straight to its destination.      *)
Cached == {"absent", "bad", "good"}

Request == [mode : {"prebuilt", "rebuild"}, config : Config, linkage : Linkage,
            reliable : BOOLEAN]

(* require_dep(<name> STATIC) forces mode rebuild and skips the override.  *)
Requests == {q \in Request : q.linkage = "static" => q.mode = "rebuild"}

Wanted == [recipe |-> recipe, config |-> request.config,
           linkage |-> request.linkage]

Built == [recipe |-> recipe, config |-> request.config,
          linkage |-> request.linkage, from |-> "build"]

(* What extracting the cached archive writes.                              *)
Extracted ==
    [recipe |-> lock, config |-> RelWithDebInfo, linkage |-> "shared",
     from |-> IF archives[lock] = "good" THEN "archive" ELSE "unverified"]

Present(f) == prefix[f].recipe # None

(* A removal or an install that is broken off outlives a stamp.            *)
Breakable == {"wipe", "install"}
BreakOff(phase) ==
    interrupted' = IF buildStamp.recipe = None THEN interrupted
                   ELSE interrupted \cup ({phase} \cap Breakable)

(* How a configure ends: resolved, or in a FATAL_ERROR.                    *)
End(how) == pc' = "idle" /\ outcome' = how

Goto(phase) == pc' = phase /\ UNCHANGED outcome

-----------------------------------------------------------------------------
(* The developer, between two configures.                                  *)

(* The submodule pin or a recipe under development moves; prebuilt.lock is *)
(* part of the checkout and may still name the archive of another recipe.  *)
Checkout ==
    /\ pc = "idle"
    /\ recipe' \in Recipe
    /\ Revert \/ recipe' >= recipe
    /\ lock' \in Recipe \cup {None}
    /\ outcome' = "none"
    /\ UNCHANGED <<disk, cache, pc, job>>

(* _extdeps_use_prebuilt                                                   *)
UsePrebuilt(q) == q.mode # "rebuild" /\ q.config = RelWithDebInfo

Configure(q) ==
    /\ pc = "idle"
    /\ request' = q
    /\ again' = /\ outcome = "bound"
                /\ q = [request EXCEPT !.reliable = q.reliable]
    /\ pc' = IF UsePrebuilt(q) THEN "find_prebuilt" ELSE "build_dep"
    /\ outcome' = "none"
    /\ UNCHANGED <<checkout, disk, cache, attempt>>

-----------------------------------------------------------------------------
(* _extdeps_fetch_prebuilt                                                 *)

(* A lock line for the name, version and platform, well formed, and with   *)
(* an archive named after the signature of the local recipe.               *)
LockMatches_AnySignature == lock # None
LockMatches == lock = recipe

ArchiveVerified_IfPresent == archives[lock] # "absent"
ArchiveVerified == archives[lock] = "good"

FindPrebuilt_MismatchIsFatal ==
    /\ pc = "find_prebuilt"
    /\ \/ ~LockMatches /\ Goto("build_dep")
       \/ LockMatches /\ prebuiltStamp = lock /\ Goto("bind")
       \/ /\ LockMatches /\ prebuiltStamp # lock
          /\ \/ archives[lock] = "good"   /\ Goto("wipe")
             \/ archives[lock] = "bad"    /\ End("failed")
             \/ archives[lock] = "absent" /\ Goto("fetch_archive")
    /\ UNCHANGED <<checkout, disk, cache, job>>

FindPrebuilt ==
    /\ pc = "find_prebuilt"
    /\ \/ ~LockMatches /\ Goto("build_dep")
       \/ LockMatches /\ prebuiltStamp = lock /\ Goto("bind")
       \/ /\ LockMatches /\ prebuiltStamp # lock
          /\ Goto(IF ArchiveVerified THEN "wipe" ELSE "fetch_archive")
    /\ UNCHANGED <<checkout, disk, cache, job>>

BeginArchive ==
    /\ pc = "fetch_archive"
    /\ attempt < Attempts
    /\ archives' = [archives EXCEPT ![lock] = "bad"]
    /\ Goto("receive_archive")
    /\ UNCHANGED <<checkout, disk, sources, job>>

ReceiveArchive ==
    /\ pc = "receive_archive"
    /\ archives' = [archives EXCEPT ![lock] = "good"]
    /\ attempt' = 0
    /\ Goto("wipe")
    /\ UNCHANGED <<checkout, disk, sources, request, again>>

LoseArchive_Uncounted ==
    /\ pc = "receive_archive"
    /\ ~request.reliable
    /\ archives' = [archives EXCEPT ![lock] = "absent"]
    /\ Goto("fetch_archive")
    /\ UNCHANGED <<checkout, disk, sources, job>>

(* An error status or the wrong SHA-256: the file is removed.              *)
LoseArchive ==
    /\ pc = "receive_archive"
    /\ ~request.reliable
    /\ archives' = [archives EXCEPT ![lock] = "absent"]
    /\ attempt' = attempt + 1
    /\ Goto("fetch_archive")
    /\ UNCHANGED <<checkout, disk, sources, request, again>>

GiveUpArchive ==
    /\ pc = "fetch_archive"
    /\ attempt >= Attempts
    /\ attempt' = 0
    /\ Goto("build_dep")
    /\ UNCHANGED <<checkout, disk, cache, request, again>>

(* file(REMOVE_RECURSE local_path) removes its entries one by one, in an   *)
(* order of its own, the stamps among them.                                *)
Remove ==
    /\ pc = "wipe"
    /\ \/ \E f \in File :
             /\ Present(f)
             /\ prefix' = [prefix EXCEPT ![f] = NoFile]
             /\ UNCHANGED <<prebuiltStamp, buildStamp, interrupted>>
       \/ /\ prebuiltStamp # None
          /\ prebuiltStamp' = None
          /\ UNCHANGED <<prefix, buildStamp, interrupted>>
       \/ /\ buildStamp.recipe # None
          /\ buildStamp' = NoBuild
          /\ interrupted' = {}
          /\ UNCHANGED <<prefix, prebuiltStamp>>
    /\ UNCHANGED <<checkout, cache, pc, outcome, job>>

Wiped_FilesOnly == \A f \in File : ~Present(f)
Wiped_StampsOnly == prebuiltStamp = None /\ buildStamp.recipe = None
Wiped ==
    /\ \A f \in File : ~Present(f)
    /\ prebuiltStamp = None
    /\ buildStamp.recipe = None

EndWipe ==
    /\ pc = "wipe"
    /\ Wiped
    /\ Goto("extract")
    /\ UNCHANGED <<checkout, disk, cache, job>>

ExtractFile(f) ==
    /\ pc = "extract"
    /\ f \in Installs[lock]["shared"]
    /\ ~Present(f)
    /\ prefix' = [prefix EXCEPT ![f] = Extracted]
    /\ UNCHANGED <<checkout, prebuiltStamp, buildStamp, interrupted, cache,
                   pc, outcome, job>>

AllExtracted == \A f \in Installs[lock]["shared"] : Present(f)

StampPrebuilt ==
    /\ pc = "extract"
    /\ AllExtracted
    /\ prebuiltStamp' = lock
    /\ Goto("bind")
    /\ UNCHANGED <<checkout, prefix, buildStamp, interrupted, cache, job>>

-----------------------------------------------------------------------------
(* build_dep                                                               *)

Source == sources[TarballOf[recipe]]

SetSource(state) == sources' = [sources EXCEPT ![TarballOf[recipe]] = state]

BuildUpToDate_SameRecipe == buildStamp.recipe = recipe
BuildUpToDate == buildStamp = Wanted

(* A cached source with the wrong SHA-256 is fatal and stays where it is.  *)
StartBuild ==
    /\ pc = "build_dep"
    /\ \/ BuildUpToDate /\ Goto("bind")
       \/ ~BuildUpToDate /\ Source = "good"   /\ Goto("compile")
       \/ ~BuildUpToDate /\ Source = "bad"    /\ End("failed")
       \/ ~BuildUpToDate /\ Source = "absent" /\ Goto("fetch_source")
    /\ UNCHANGED <<checkout, disk, cache, job>>

BeginSource ==
    /\ pc = "fetch_source"
    /\ attempt < Attempts * SourceUrls
    /\ SetSource("bad")
    /\ Goto("receive_source")
    /\ UNCHANGED <<checkout, disk, archives, job>>

ReceiveSource ==
    /\ pc = "receive_source"
    /\ SetSource("good")
    /\ attempt' = 0
    /\ Goto("compile")
    /\ UNCHANGED <<checkout, disk, archives, request, again>>

LoseSource_CountedDown ==
    /\ pc = "receive_source"
    /\ ~request.reliable
    /\ SetSource("absent")
    /\ attempt' = attempt - 1
    /\ Goto("fetch_source")
    /\ UNCHANGED <<checkout, disk, archives, request, again>>

LoseSource ==
    /\ pc = "receive_source"
    /\ ~request.reliable
    /\ SetSource("absent")
    /\ attempt' = attempt + 1
    /\ Goto("fetch_source")
    /\ UNCHANGED <<checkout, disk, archives, request, again>>

GiveUpSource ==
    /\ pc = "fetch_source"
    /\ attempt >= Attempts * SourceUrls
    /\ attempt' = 0
    /\ End("failed")
    /\ UNCHANGED <<checkout, disk, cache, request, again>>

(* Extract, patch, configure and build in a clean work directory.          *)
Compile ==
    /\ pc = "compile"
    /\ Goto("install") \/ End("failed")
    /\ UNCHANGED <<checkout, disk, cache, job>>

(* The install writes over whatever the prefix holds.                      *)
InstallFile(f) ==
    /\ pc = "install"
    /\ f \in Installs[recipe][request.linkage]
    /\ prefix[f] # Built
    /\ prefix' = [prefix EXCEPT ![f] = Built]
    /\ UNCHANGED <<checkout, prebuiltStamp, buildStamp, interrupted, cache,
                   pc, outcome, job>>

AllInstalled == \A f \in Installs[recipe][request.linkage] : prefix[f] = Built

(* An install step, a license that is not in the source, or a fix-up tool  *)
(* that fails: what was installed stays, and so do the stamps.             *)
FailInstall ==
    /\ pc = "install"
    /\ End("failed")
    /\ BreakOff("install")
    /\ UNCHANGED <<checkout, prefix, prebuiltStamp, buildStamp, cache, job>>

StampBuild_Forgotten ==
    /\ pc = "install"
    /\ AllInstalled
    /\ Goto("bind")
    /\ UNCHANGED <<checkout, disk, cache, job>>

(* Licenses and fix-ups leave the origin of the files as it is.            *)
StampBuild ==
    /\ pc = "install"
    /\ AllInstalled
    /\ buildStamp' = Wanted
    /\ interrupted' = {}
    /\ Goto("bind")
    /\ UNCHANGED <<checkout, prefix, prebuiltStamp, cache, job>>

-----------------------------------------------------------------------------
(* _extdeps_resolve_installed: every library to link must be there.        *)
Linkable == \A f \in Links[recipe][request.linkage] : Present(f)

Bind ==
    /\ pc = "bind"
    /\ End(IF Linkable THEN "bound" ELSE "failed")
    /\ UNCHANGED <<checkout, disk, cache, job>>

(* The configure is killed, or dies of a full disk.                        *)
Crash ==
    /\ pc \in Phase
    /\ attempt' = 0
    /\ End("none")
    /\ BreakOff(pc)
    /\ UNCHANGED <<checkout, prefix, prebuiltStamp, buildStamp, cache, request,
                   again>>

-----------------------------------------------------------------------------
Init ==
    /\ recipe \in Recipe
    /\ lock \in Recipe \cup {None}
    /\ prefix = [f \in File |-> NoFile]
    /\ prebuiltStamp = None
    /\ buildStamp = NoBuild
    /\ interrupted = {}
    /\ archives = [r \in Recipe |-> "absent"]
    /\ sources = [t \in Tarball |-> "absent"]
    /\ pc = "idle"
    /\ request \in {q \in Requests : q.mode = "prebuilt"}
    /\ attempt = 0
    /\ outcome = "none"
    /\ again = FALSE

FetchPrebuilt ==
    \/ FindPrebuilt
    \/ BeginArchive \/ ReceiveArchive \/ LoseArchive \/ GiveUpArchive
    \/ Remove \/ EndWipe
    \/ \E f \in File : ExtractFile(f)
    \/ StampPrebuilt

BuildDep ==
    \/ StartBuild
    \/ BeginSource \/ ReceiveSource \/ LoseSource \/ GiveUpSource
    \/ Compile
    \/ \E f \in File : InstallFile(f)
    \/ FailInstall \/ StampBuild

(* One step of the running configure. *)
Step == FetchPrebuilt \/ BuildDep \/ Bind

Next ==
    \/ Checkout
    \/ \E q \in Requests : Configure(q)
    \/ Step
    \/ Crash

Spec == Init /\ [][Next]_vars

(* The operating system keeps running a started configure.                 *)
FairSpec == Spec /\ WF_vars(Step)

-----------------------------------------------------------------------------
TypeOK ==
    /\ recipe \in Recipe
    /\ lock \in Recipe \cup {None}
    /\ prefix \in [File -> Origin]
    /\ prebuiltStamp \in Recipe \cup {None}
    /\ buildStamp \in Build
    /\ interrupted \subseteq Breakable
    /\ archives \in [Recipe -> Cached]
    /\ sources \in [Tarball -> Cached]
    /\ pc \in Phases \cup {"idle"}
    /\ request \in Requests
    /\ attempt \in Nat
    /\ outcome \in {"none", "bound", "failed"}
    /\ again \in BOOLEAN

(* Nothing in the prefix was ever unpacked from bytes whose SHA-256 was    *)
(* not the one of the lock, whatever a killed download left in the cache.  *)
OnlyVerifiedContent == \A f \in File : prefix[f].from # "unverified"

(* What `.prebuilt` promises when it is written: the prefix is the archive *)
(* of the locked recipe, complete, and nothing else.                       *)
IsArchiveOf(r) ==
    \A f \in File :
        IF f \in Installs[r]["shared"]
        THEN prefix[f].recipe = r /\ prefix[f].from = "archive"
        ELSE ~Present(f)

PrebuiltStampEarned ==
    [][\A r \in Recipe :
        prebuiltStamp' = r /\ prebuiltStamp # r => IsArchiveOf(r)']_vars

(* What `.build_stamp` tells when it is trusted, after any history. It     *)
(* names a build of just the recipe, build type and linkage that are asked *)
(* for, and every file of that build is there, made by it, unless since it *)
(* was written an install over the prefix was broken off, which can only   *)
(* leave files of other builds, or a removal, which can only take files    *)
(* away. And it never passes a prebuilt for a build: REBUILD is "always    *)
(* build from source".                                                     *)
TrustedBuildStamp ==
    pc = "build_dep" /\ BuildUpToDate =>
        \A f \in Installs[recipe][request.linkage] :
            /\ Present(f) => prefix[f].from = "build"
            /\ Present(f) /\ "install" \notin interrupted => prefix[f] = Built
            /\ "wipe" \notin interrupted => Present(f)

(* While recipes only move forward, a resolved dependency holds no file of *)
(* an older recipe among those its recipe installs: stamps, crashes and    *)
(* failed builds in any order never make an old file pass for a new one.   *)
NoStaleFile ==
    outcome = "bound" =>
        \A f \in Installs[recipe][request.linkage] :
            Present(f) => prefix[f].recipe = recipe

(* While recipes only move forward and no configure dies in the middle of  *)
(* file(REMOVE_RECURSE), a resolved dependency also has every file of its  *)
(* recipe.                                                                 *)
BoundIsCurrent ==
    outcome = "bound" =>
        \A f \in Installs[recipe][request.linkage] : prefix[f].recipe = recipe

(* The same request for the same checkout, right after it succeeded, never *)
(* builds: one of the two stamps stops it.                                 *)
NoRebuildAgain == pc \in {"compile", "install"} => ~again

(* Files leave the prefix only when the archive that will replace them is  *)
(* in the cache, verified: a failed download or build never costs the      *)
(* install that was there.                                                 *)
WipedOnlyForArchive ==
    [][(\E f \in File : Present(f) /\ prefix'[f].recipe = None)
        => lock = recipe /\ archives[lock] = "good"]_vars

(* With a matching lock line and a server that delivers, default mode never*)
(* fails, whatever state the cache was left in: a bad cached archive is    *)
(* downloaded again.                                                       *)
PrebuiltAlwaysServes ==
    outcome = "failed" =>
        ~(LockMatches /\ UsePrebuilt(request) /\ request.reliable)


(* What resolve.cmake says of `.prebuilt`: it tells "if the prebuilt is    *)
(* already installed", that is, what the prefix holds when it is accepted. *)
StampedIsInstalled ==
    pc = "find_prebuilt" /\ LockMatches /\ prebuiltStamp = lock =>
        \A f \in Installs[lock]["shared"] : prefix[f].recipe = lock

-----------------------------------------------------------------------------
(* The application's view: Delivery, with the files it is handed.          *)
Status == IF pc # "idle" THEN "working"
          ELSE IF outcome = "none" THEN "idle" ELSE outcome

Delivered ==
    {prefix[f].recipe : f \in {g \in Installs[recipe][request.linkage] :
                                outcome = "bound"}}

D == INSTANCE Delivery
     WITH wanted <- recipe, status <- Status, delivered <- Delivered

(* While recipes only move forward and no configure dies in the middle of  *)
(* file(REMOVE_RECURSE), the configures implement Delivery: stamps, caches *)
(* and retries are invisible to the application.                           *)
DeliversSafely == D!SafeSpec

(* Every configure comes to an end, whatever the network does: the retries *)
(* of _bd_try_fetch are counted.                                           *)
ConfigureEnds == D!Ends
=============================================================================
