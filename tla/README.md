# TLA+ models of the muse_deps dependency engine

`muse_deps` is a set of CMake scripts that an application includes as a
submodule. For every external dependency the application names, they bring a
prefix with headers and libraries into the build tree: from a prebuilt archive
that `prebuilt.lock` pins, or from a source build, or from the host. A producer
side (a CI workflow) builds the prebuilt archives, mirrors the sources and
commits the lock. The scripts are sequential, and nearly all they do is about
files that survive from one run to the next or are shared with another run:
prefixes, stamps, caches, releases and the lock. That is what most of the models
are about. One recipe also carries C code, the generated stubs of Crashpad's
Mach calls, which run in several processes; they are modelled apart from the
rest.

## Inventory

| component | code | state it keeps | operations |
|---|---|---|---|
| Library resolution | `buildtools/resolve.cmake` `extdeps_resolve`, `_extdeps_fetch_prebuilt`, `_extdeps_build`, `_extdeps_resolve_installed`; `build_dependency.cmake` `build_dep`, `_bd_try_fetch` | the prefix (`local_path`), `.prebuilt`, `.build_stamp`, the archive and source caches | find, download, wipe, extract, build, install, stamp, bind |
| Source delivery | `resolve.cmake` `_extdeps_populate_source` | source trees, `.populated`, cached tarballs and git clones | local short cut, fetch, clone, checkout, extract, patch, stamp |
| Binary tools | `resolve.cmake` `_extdeps_fetch_binary_tool` | the tool's file and its mode bits | check, fetch, chmod |
| Shared download cache | `build_dependency.cmake` `_bd_resolve_cache`, `_bd_try_fetch`, `_bd_mirror` and their callers | one file per archive or tarball, shared by every build tree of a user | check, download, remove, extract |
| Consumer manifest | `manifest.cmake` `require_dep`, `require_tool`, `require_source_dep`, `_extdeps_override`, `_extdeps_run`, `extdeps_install_consumed` | global properties, imported targets, `PATH`, `EXTDEPS_CONSUMED` | choose the mode, resolve, record, install |
| Platform build | `build_platform.cmake` | the recipes' graph, `DONE`, the stage, the lock fragment | collect, schedule, build, package, verify |
| Recipe signature | `_bd_recipe_sig` | none | digest of a recipe directory |
| Fix-ups | `_bd_ensure_sonames`, `_bd_relocatable_elf`, `_bd_relocatable_macos` | SONAME links, run paths, install names | link, patch |
| Mirror | `mirror_sources.cmake` | the mirror directory | fetch and label every pinned source |
| Release | `.github/workflows/build_release.yml` | releases, the branch, `prebuilt.lock`, `prebuilt_url.txt` | build matrix, merge, publish, push |
| Validation | `validate.cmake` | none | checks of recipes, graph and lock |
| Mach RPC stubs | `recipes/crashpad_client/gen/util/mach/*.c`, `*.h` (each file once for arm64 and once for x86_64) | reply ports, messages in flight | pack, send, receive, dispatch, check, reply |
| Hooks | `recipes/*/meta.cmake`, `recipes/*/build.cmake` | what the recipe says | `_resolve_override`, `_post_resolve`, `_add_to_build`, custom builds |

How they interact: the manifest calls the resolver for one dependency at a
time, in the manifest's order; the resolver calls the builder with the prefixes
of the dependencies; all of them share the cache, which is shared with other
build trees of the same user as well. Producer and consumer only meet in the
repository (recipes, lock) and in the release that the lock names. The recipe
signature ties the two: it is in the name of an archive, which the consumer
compares with the signature of its own checkout.

What is hard in it:

* a configure can be killed or fail between any two writes, and the next one
  takes what it finds on trust of a stamp, a file name or a hash;
* checkouts, build types, linkages and modes change between configures of the
  same build tree, forward and back;
* downloads fail, are cut off or deliver other bytes, are retried and fall back
  to another URL and then to another way of resolving;
* the cache is shared by processes that do not lock it;
* the producer publishes and commits in several steps, from two checkouts;
* caller and server of a Mach call compute the sizes of a message separately,
  in two files and for two architectures, and a reply may come after its caller
  has given up;
* what a recipe leaves unset is inherited from the one read before it.

What makes each of them correct:

* library resolution: a resolved dependency holds the files of the recipe that
  is checked out, all of them, from verified bytes; a stamp that is
  trusted says what is there; nothing is removed before its replacement is there; what
  succeeded is not done again;
* source delivery: a populated tree is the pinned one with its patches, after
  any history of checkouts, failures and kills;
* binary tools: what is bound is the pinned binary and can be executed;
* shared cache: the bytes that are used are the bytes that were verified, also
  with other processes at work on the same files;
* consumer manifest: what is linked and packaged belongs to one resolution of
  the dependency, and a tool is found where it was resolved;
* platform build: dependencies first, a refusal only for a graph without an
  order, and exactly the archives that the fragment names;
* release: the lock on the branch only names archives that are published, all
  of one build, with the sources of its commit beside them;
* Mach stubs: the two halves of a routine agree on every message in every pair
  of architectures, a call is answered by its own reply, and every call ends.

## Modules

| module | models | stands on |
|---|---|---|
| `Delivery` | the promise of `require_dep` to the application | |
| `Prefix` | library resolution over the configures of one build tree | refines `Delivery` |
| `SourceTree` | source delivery over the configures of one build tree | refines `Delivery` |
| `BinaryTool` | an upstream binary over the configures of one build tree | refines `Delivery` |
| `SharedCache` | several configures on one file of the cache | the archive and tarball steps of `Prefix`, cut finer |
| `Manifest` | modes, overrides, properties, targets, `PATH`, packaging over the calls of a manifest | the results of the three resolutions |
| `Platform` | one platform job of the producer, and the jobs before it | |
| `Release` | runs of the workflow on one branch: matrix, collector, release, lock | the result of `Platform` for each job |
| `Mig` | the template that every generated stub is an instance of | |
| `MigArm64`, `MigX8664` | the numbers of every routine, from the two copies of the files | `Mig` |
| `RemoteCall` | the promise of a remote call to the thread that makes it | |
| `MigCalls` | threads that call and a server that serves, over the kernel's ports | instances of `MigArm64` and `MigX8664`, refines `RemoteCall` |

`MCPrefix`, `MCSourceTree`, `MCPlatform`, `MCManifest` and `MCRelease` give
constants their values for TLC; the other modules need none. `Prefix_proofs`,
`SourceTree_proofs`, `BinaryTool_proofs`, `SharedCache_proofs`,
`Manifest_proofs`, `Platform_proofs`, `Release_proofs` and `MigCalls_proofs`
hold the theorems.

The modules come in the order of importance: what the application links against
first, then what several configures and several calls do to each other, then
the producer. They are composed through what one says of its result and the
next assumes: `Manifest` takes a resolution as a step that works or fails and
leaves libraries of one form, `Release` takes a job as a step that leaves all its
archives (`Platform`'s `OutIsComplete`), and `Prefix` and `SourceTree` take the
cache as their own. `SharedCache` says of the two caches of `Prefix` what they do
for a configure that is alone with them (the theorem `OutcomesWhenAlone`) and
what remains true when it is not. The tarballs of `SourceTree` are used without
being hashed (resolve.cmake:396) and are not `SharedCache`'s.

## How the models correspond to the code

Throughout, a configure is a sequence of steps from one write to disk to the
next. What a script does between two writes cannot be told apart by a later
configure and is one step. `Crash` ends a configure at any step whose phase
(`pc`) is in the constant `Phase`, and leaves the disk as it is at that moment;
the next configure starts at the top and reads it. `Checkout` changes the
recipe between two configures: the submodule pin of the application, or a
branch.

Content is abstracted to where it comes from. A hash is injective, and a
signature is what it is a signature of.

### `Delivery`

`wanted` is the recipe of the checkout, `status` how far the configure is,
`delivered` what the application was handed. It says that a configure hands
over files of the wanted recipe only, or none, and comes to an end. It is
stated once and implemented three times: with a revision and its files, with a
source tree, and with a binary.

### `Prefix`

| state | code |
|---|---|
| `recipe`, `lock` | `recipes/<name>`, and the line of `prebuilt.lock` for the platform |
| `prefix` | the files under `local_path`, each with the recipe, build type, linkage and way it came |
| `prebuiltStamp`, `buildStamp` | `local_path/.prebuilt`, `local_path/.build_stamp` |
| `interrupted` | a history variable, which no guard reads: whether a removal or an install was broken off over the prefix since `.build_stamp` was written |
| `archives`, `sources` | `<cache>/prebuilt/*`, `<cache>/downloads/<name>/*` |
| `request` | mode, `CMAKE_BUILD_TYPE`, `STATIC`; `reliable` says whether the server delivers in this configure |
| `attempt` | the two loops of `_bd_try_fetch` and of its caller over the URLs |

`FindPrebuilt`, `BeginArchive` to `GiveUpArchive`, `Remove`, `EndWipe`,
`ExtractFile` and `StampPrebuilt` are `_extdeps_fetch_prebuilt`; `StartBuild`
to `StampBuild` are `build_dep`; `Bind` is `_extdeps_resolve_installed`.
Removing, extracting and installing go file by file, in any order, since that
is how a kill finds them. `Compile` and `FailInstall` fail at will: a recipe's
build is arbitrary code. `reliable` never helps a property that is stated
without it: requests of both values are always possible.

### `SourceTree`

`tree` has what each subdirectory holds (the pin it came from and the patches
applied); `stamp` is `.populated`; `tarballs` and `clones` are the cache under
`downloads/<name>`, by basename and by subdirectory, as the code names the
files. `Check` is everything up to the first write, `Remove` and `EndWipe` the
`REMOVE_RECURSE`, then one action for each thing that is done for a tarball
and for a git entry, `ApplyPatch` and `Stamp`. A clone has the commits upstream
had when it was made. `Crash` can leave a subdirectory half patched, and a git
repository unusable (a lock file, a clone cut off).

### `BinaryTool`

`file` and `runs` are the content and the mode bits of `bin/<name>`. `torn` is
a history variable: it remembers that the file is one of a configure that died
before the `chmod`. It is read by no guard; it only states the exception in
`BoundRuns`.

### `Platform`

`depends` is `DEP_DEPENDS` of the libraries, chosen anew by each job; `staged`
is `STAGE`, `done` is `DONE`, `todo` and `progress` are the state of one pass of
the scheduling loop; `archives` and `fragment` are `OUT_DIR`. `Start` is a new
checkout and a new job over the `OUT_DIR` of the last one. `Fail` is any failure
of a build, of `7z` or of the verification, and a kill.

### `SharedCache`

One file of the cache, in two blocks so that half of it and a mixture can be
told apart, and configures that look at it, hash it, download it, verify it,
remove it and extract it. `attached` says whether a download still has the file
of that name open: `file(DOWNLOAD)` truncates when it opens, `file(REMOVE)` takes
the name away and leaves the others writing to nobody's file, as POSIX has it.
`kind` selects what differs between archives of prebuilts and tarballs: a
mismatch of the first is fetched again and a failed fetch falls back, both are
fatal for the second. `touched` and `torn` are history variables that no guard
reads: who saw the file change under it and when, and whether a killed download
has left something. What is fetched, and from how many URLs, is `Attempts`.

### `Manifest`

| state | code |
|---|---|
| `override` | `EXTDEPS_OVERRIDE_<NAME>` and `EXTDEPS_OVERRIDE_ALL` |
| `consumed`, `install`, `binDir` | the global properties `EXTDEPS_CONSUMED`, `<name>_INSTALL_LIBRARIES`, `<name>_BIN_DIR` |
| `target` | the imported target: the form of the libraries that it was created with |
| `path`, `ahead` | `PATH`: the directories on it, and for each those that are searched before it |
| `disk` | the forms of the libraries in each prefix; only this outlives a configure, with `host` |
| `packaged` | what `extdeps_install_consumed` installs |

`forms` is a history variable: the forms in which a library was resolved in this
configure. `ResolveSystem`, `ResolveInstalled` and `DepFails` are `require_dep`,
`SystemTool`, `FetchTool` and `ToolFails` are `require_tool`, `UseSource` and
`SourceFails` are `require_source_dep`. A call works or fails as the three
resolution modules have it; a prebuilt replaces the prefix or finds it already
installed, a build adds to it.

### `Release`

`head` is the branch: its number, its recipes and its lock. `trigger` is the
commit a run was dispatched for, which every job checks out; `base` the one that
the collector checks out when the last job has ended, which is the branch of
that moment (`ref: github.ref_name`). An archive is known by the recipes it was
built from and by its run, so that two runs never have the same archive. `tag`
is a second of the clock, and two runs may take the same. `Create`, `Upload` and
`Push` are the commands of the last step in their order; each may fail
(`CollectFails`, `UploadFails` with part of the assets there), and `Rerun` is
what a maintainer does about it in the interface of GitHub: the failed jobs run
again with the artifacts of the others. `Edit` is a developer's commit.

### `Mig`, `MigArm64`, `MigX8664`, `MigCalls`

The 13 500 generated lines are four subsystems (`exc`, `mach_exc`, `notify`,
`child_port`), each with a caller's and a server's file and their headers, and
each file holds its text twice, once for arm64 and once for x86_64. The Mach
interface generator has instantiated one template for every routine, so the
model is the template and a table: `Mig` has what a stub does (`Pack`,
`CheckRequest`, `Dispatch`, `CheckReply`, `Result`), and a row of `MigArm64` or
`MigX8664` has what the code of one routine says where the template leaves a
gap (its number, the sizes and the limits of its arrays, the descriptors, the
literals that are cut off, the size of its receive buffer), each mapped to the
lines of that routine in its own copy of the text. The rows of the four kinds of
code (caller's packing, caller's check of the reply, server's check of the
request, server's packing of the reply) are written down separately: that they
agree is a property and not an abbreviation. That the two copies say the same is
a lemma too (`SameCallers` and the ones after it in `MigCalls_proofs`).

`MigCalls` adds the threads, the server and the kernel. The kernel is not in
`src/` and is modelled as the stubs use it: a `mach_msg` may fail to send or
fail to receive, a message for a dead port is refused, a reply right that is
destroyed notifies its port. The handlers behind the stubs are the program's.
`replyPort` counts the ports a thread has given up: a message for an earlier one
is lost, which is what `mig_dealloc_reply_port` achieves.

### `RemoteCall`

What a thread can rely on without knowing of ports and messages: the calls it has
made, what it was told of the last one (`answer`), which calls may still be
carried out (`underway`) and which have been. The mapping in `MigCalls` has a call
under way from the moment it is sent until its handler has run, or until it is
rejected or destroyed; a one-way call is told `sent` and nothing later. A call
that fails may have been carried out, or still be: a thread that calls again for
that reason makes another call.

## What each run checks

| run | configuration | properties | what it shows |
|---|---|---|---|
| `prefix_any_history` | `PrefixAnyHistory.cfg` | `TypeOK`, `OnlyVerifiedContent`, `NoRebuildAgain`, `TrustedBuildStamp`, `PrebuiltStampEarned`, `WipedOnlyForArchive` | what holds over every history: revisions back and forth, two build types, both linkages, kills everywhere; what `.prebuilt` tells when it is written and `.build_stamp` when it is trusted |
| `prefix_delivers` | `PrefixDelivers.cfg` | `BoundIsCurrent`, `DeliversSafely`, `ConfigureEnds`, `PrebuiltAlwaysServes` | with recipes that only move forward and no kill inside the removal: no old file passes for a new one, the prefix is complete, `Prefix` implements `Delivery`, a configure that a prebuilt can serve does not fail, and retries end |
| `prefix_revert` | `PrefixRevert.cfg` | `StampedIsInstalled` (violated) | `.prebuilt` survives a source build on top of the prebuilt |
| `source_pinned` | `SourcePinned.cfg` | `TypeOK`, `NotRepopulated`, `PopulatedIsPinned`, `DeliversSafely`, `PopulateEnds` | with basenames that fix the content and no kill in a removal or a download: the tree is the pinned one, and is not touched again |
| `source_reused_name` | `SourceReusedName.cfg` | `UsedIsVerified` (violated) | a cached tarball is used without a look at its content |
| `tool` | `BinaryTool.cfg` | `TypeOK`, `BoundRuns`, `DeliversSafely`, `FetchEnds` | the pinned binary, executable, with kills anywhere |
| `platform_jobs` | `PlatformJobs.cfg` | `TypeOK`, `RefusedIfStuck`, `OutIsComplete`, `BuiltAfterDepends`, `JobEnds` | every graph of two libraries and a tool, self-loops and cycles included, over any number of jobs |
| `shared_cache` | `SharedCache.cfg` | `TypeOK`, `RestsVerified`, `OnlyOthersHarm`, `RunEnds` | two configures that pin the same or different content, with kills: whatever they do to each other, the file that rests is pinned content or the rest of a killed download; only a change between hash and extraction gives one the wrong bytes; they do not block each other for ever |
| `manifest` | `Manifest.cfg` | `TypeOK`, `OneFormIsWhole`, `OnlyHostShadows` | any sequence of calls, overrides, hosts and failures: a library that is always asked for in one form is linked and packaged in that form, and only the host's directory can hide a fetched tool |
| `release` | `Release.cfg` | `TypeOK`, `LockServes`, `OneBuild`, `MirrorFollows` | two runs, commits in between, failures anywhere, tags of the same second |
| `release_mixed` | `ReleaseMixed.cfg` | `NoMixedVersions` (violated) | a prebuilt that was built with an earlier version of a dependency still matches |
| `mig_calls` | `MigCalls.cfg` | `TypeOK`, `StubsAgree`, `OwnAnswer`, `CallsAreRemote`, `CallEnds` | every routine, at and beyond the limits of its arrays, in every pair of architectures, to a server that may reject, abort or die, with late replies; `MigCalls` implements `RemoteCall` |

Two properties are theorems in a wider setting than the run that checks them:
`PrebuiltAlwaysServes` is checked without kills in the removal and proved with
them, `NotRepopulated` is checked with pinned basenames and proved for any cache.
Some are theorems only. `NoStaleFile` follows from `BoundIsCurrent` where a run
could check it; what it adds is what it says of a prefix whose removal was
killed, and so does `PopulatedIsWhole` for a source tree. `RemoteCall`'s
`AtMostOnce` holds of every state that the steps of `RemoteCall` reach, and
`CallsAreRemote` is what has to be checked for it.

### Bounds

The bounds are the constants. Only three counters are capped in a guard and not
by the code: `MaxTime` and `MaxRev` in `Release`, `MaxCalls` in `MigCalls`.

* `Prefix`: two revisions are enough for an old file and a new one, and for
  going back; a header and a library are enough for a prefix that is half
  there. One attempt at one URL in the large run, three at two URLs where the
  end of the retries is the question.
* `SourceTree`: two subdirectories, one from a tarball and one from git; seven
  revisions in `MCSourceTree` that differ in pins, in a patch, in an entry,
  and some that the code refuses or that are local.
* `BinaryTool`: three binaries, three attempts.
* `Platform`: two libraries and a tool give every way a library can wait: for
  the other, for itself, for a tool, in a cycle. Two signatures tell the
  archives of an earlier job from those of this one.
* `SharedCache`: two configures, two pins and one content that nobody pins; two
  tries, so that one can fail and be repeated. The interference is between one
  configure and all the others, which a second one can play.
* `Manifest`: two libraries (one always static), two tools, two source
  dependencies (one with a system form), three hosts, ten settings of the
  overrides: each value but the default for all, and for one name the values that beat or shadow
  it. Several libraries matter only for what must not interfere.
* `Release`: two runs and three commits give a run, a run that overtakes it and
  a developer's commit between any two of their steps; three seconds let tags be
  equal or not. One dependency is enough for the passing run, whose properties
  speak of all lines of a lock in the same way; two platforms give it two lines.
  `release_mixed` has two dependencies. Runs and contents are interchangeable and
  declared symmetric; the properties of that run are safety properties.
* `MigCalls`: one thread with two calls, since a reply port belongs to a thread
  and what can go wrong is a late reply of the first call in the second. The
  counts are zero, the limits of the arrays (2 codes, 1296 words of state) and
  one beyond; the rights a caller names are three of the dispositions.

`CHECK_DEADLOCK FALSE` stands in three configurations: a branch on which no run
is left to dispatch rests (`Release.cfg`, `ReleaseMixed.cfg`), and threads that
have made their calls rest (`MigCalls.cfg`).

The safety properties that are theorems (below) hold for all values of the
constants that satisfy the modules' assumptions, so that for them the runs are
a check of the statement, not of the bound.

### Fairness

`FairSpec` adds `WF_vars(Step)`: the operating system keeps running a configure
or a job that was started. Nothing is assumed of the network, of the compiler
or of the developer: each attempt may fail, `Compile` may fail, `Crash` and
`Checkout` are never required to happen. Weak fairness of the whole of `Step` is
enough because a configure is one sequential process; no choice within it is
fair. `SharedCache` has this for each configure by itself. In `MigCalls` the
server's process is scheduled (`WF_vars(Serve)`) and a thread whose reply has
arrived receives it (`WF_vars(Receive(c))`). A handler returns, with success or
with an error, and a server may die instead of answering, in which case the
kernel's notification is the reply. That handlers return is an assumption on the
program behind the stubs: the stubs set no timeout, so nothing else could end a
call.

`Manifest` and `Release` state no liveness: a manifest is a list of calls that
ends where the developer ends it, and nobody is bound to start a run or to start
a failed one again.

`Delivery` states its liveness as the leads-to formula `Ends`, instead of weak
fairness of its own, because substituting the mapping under `ENABLED` would say
something else than what is meant.

## What is proved

The proofs are for any number of revisions, files, entries, patches, recipes,
attempts, configures, runs, platforms, threads and counts, from the assumptions
in the modules alone, with these
hypotheses in the statements where a property needs them: `~Revert` (recipes
only move forward), `"wipe" \notin Phase` and `"receive" \notin Phase` (no kill
during the removal, or during a download), `NamesFixPins` (the same basename,
the same SHA-256).

| theorem | under | from |
|---|---|---|
| `Prefix_proofs!Typing` | | `TypeOK` is inductive |
| `NeverStale` | `~Revert` | `ForwardInv` |
| `StampTellsWhatIsInstalled` | `~Revert` | `ForwardInv`, `StampHeld` |
| `AlwaysCurrent`, `Implements` | `~Revert`, no kill in the removal | `ForwardInv` |
| `OnlyVerified`, `PrebuiltStampIsEarned`, `WipesOnlyForArchive` | | `ArchiveInv` |
| `NeverRebuildsAgain` | | `RepeatInv`: a repeated request finds the stamp that its first run has left |
| `Prefix_proofs!AlwaysServes` | `~Revert`, at least one attempt | `StampHeld`, `ServeInv` |
| `BuildStampTellsTheBuild` | | `BuildStampHeld` |
| `SourceTree_proofs!Typing` | | `TypeOK` and the bound of `at` |
| `AlwaysWhole` | no kill in the removal | `TreeInv` |
| `AlwaysPinned`, `Implements` | and none in a download, `NamesFixPins` | `TreeInv` |
| `NeverRepopulated` | | `RepeatInv` |
| `VerifiedIfExact` | no kill in a download, `NamesFixPins` | `CacheSound` |
| `BinaryTool_proofs!Typing`, `AlwaysRuns`, `Implements` | | `TypeInv`, `ToolInv` |
| `Platform_proofs!Typing` | | `TypeOK` is inductive |
| `NeverAhead`, `RefusesOnlyStuck` | | `PassInv` |
| `AlwaysComplete` | | `OutInv` |
| `SharedCache_proofs!Typing`, `AlwaysVerified`, `AlwaysHarmless` | | `IInv` |
| `OutcomesWhenAlone` | one process | `IInv`, `Alone` |
| `Manifest_proofs!Typing` | | `TypeOK` is inductive: what is put in front of an order leaves an order |
| `AlwaysWholeInOneForm` | | `IInv` |
| `OnlyHostGetsInFront` | | `ToolInv` |
| `Release_proofs!Typing` | | `TypeOK` and `BuiltAsDispatched` |
| `Release_proofs!AlwaysServes`, `AlwaysOneBuild`, `AlwaysMirrored` | | `IInv` |
| `MatchingSetIsOne` | every line matches | `OneBuild` |
| `MigCalls_proofs!Typing`, `OwnAnswers`, `Agreement` | | `AllAgree`, `AllAnswer`, `IInv` |
| `MigCalls_proofs!Implements` | | `IInv` |
| `NeverTwice` | | `Once`, of the steps of `RemoteCall` |
| `NeverForgotten` | | `NoneForgotten`, with `IInv` |
| `Prefix_proofs!AlwaysEndsInTime` | `File` is finite | `TryInv`, `ArchiveInv` |
| `SourceTree_proofs!AlwaysEndsInTime` | `Sub` is finite | `CountInv` |
| `BinaryTool_proofs!AlwaysEndsInTime` | | `TypeInv` |
| `Platform_proofs!AlwaysEndsInTime` | the recipes are finitely many | `PassInv` |
| `SharedCache_proofs!AlwaysEndsInTime` | | `IInv` |

The inductive invariants, and why the properties do not suffice:

* `ForwardInv`: that a bound prefix is current says nothing of the next
  configure, which trusts a stamp. `StampsSound` says that no stamp names a
  recipe still to come, and that one which names the recipe of the checkout
  vouches for its files. This is where `~Revert` is used: an install by a newer
  recipe makes every older stamp harmless because it will never be asked for
  again. `FetchSound` carries what the download, the wipe and the extraction
  know, `BindSound` what the last step knows. With kills in the removal, the
  same invariant is proved of the files that are there instead of all files.
* `ArchiveInv`: between the check of the archive and the last extracted file
  the archive stays verified and the prefix holds nothing else.
* `TreeInv`: `StampSound` says that the tree is the one of the stamped
  revision whenever no configure is at work, `EntriesSound` and `PatchesSound`
  that the loops have done the first `at - 1` entries and patches and nothing
  else, `CacheSound` what may be in the cache under the name of a tarball.
* `ToolInv`: a whole file is executable, is about to be, or is torn.
* `PassInv`: what is built is closed under `DEP_DEPENDS` and has an order
  (no non-empty part of it waits for itself); a pass that has built nothing
  has found that everything it visited still waits. The refusal then exhibits
  a set that is stuck, the libraries not built.

* `RepeatInv` (of `Prefix` and of `SourceTree`): a configure that succeeded has
  left a stamp which accepts the same request, and nothing on the way of the
  repeated one takes it away. The property says where a repeated configure may
  not be; the invariant says which stamp keeps it from getting there.
* `StampHeld`: as long as recipes only move forward, a `.prebuilt` of the
  checkout's recipe is over the files of that recipe even when a removal was
  killed, because a removal only begins under the stamp of another recipe.
* `BuildStampHeld`: the property speaks of the moment a `.build_stamp` is
  trusted; the invariant holds from the moment it is written. Between the two, a
  prebuilt is only extracted when the stamp is gone, an install that ends
  replaces it, and one that does not is in `interrupted`.
* `ServeInv`: with a server that delivers no attempt is ever lost, and a configure
  that a prebuilt can serve never leaves the way to it.
* `IInv` of `SharedCache`: `Watched` says that a file nobody pins is being
  downloaded by somebody who will look at it, `Held` what a configure may rely
  on between two steps if no other has touched the file, `Settled` that a
  download that is attached has a file to write to.
  `Alone` adds, for a configure without others, that no try is made before the
  file it has found is hashed, and that a file it was refused for is still there.
* `IInv` of `Manifest`: `Resolved` says of a running or packaged configure what
  target, property and prefix have in common as long as one form was asked for.
* `ToolInv` of `Manifest`: the mode of a tool is the same in every call of a
  configure, so that its directory is on `PATH` just when it was fetched, and
  the host's stands in front of another only if a tool was taken from there.
* `IInv` of `Release`: `BuiltAsDispatched` says that a collector's archives are
  complete and of one commit, `OwnRelease` that no two collectors are in one
  release at a time (`gh release create` refuses the second), `UploadedIsThere`
  that a run that is about to push has its archives and its sources there.
* `IInv` of `MigCalls`: `SentWell` says that a request under way is well packed
  and belongs to the call that waits, if its answer can still arrive; `Distinct`
  and `Arrived` that there is at most one answer to wait for. `AllAgree` and
  `AllAnswer` prove of every routine that the rows of its two halves fit, for
  every count, and `Dispatches` that every id finds its own stub.

* `NoneForgotten` of `MigCalls`: a thread that waits has a message in its port, or
  its request is queued or served, with that port to answer to.
  Neither a server that dies nor a late reply leaves a thread with neither.
* `StepsLeft` is in each module the number of steps that what has started may
  still take; `EndsInTime` says that it has a bound and falls with every step.
  `TryInv` and `CountInv` say what makes it a natural number: every way back to
  the server is counted, and no entry or patch is passed over. In `Platform` a
  library that is built pays for one more pass over all of them; in
  `SharedCache` each configure has its own count, which no step of another one
  raises.

Only checked by TLC: the liveness properties (`ConfigureEnds`, `PopulateEnds`,
`FetchEnds`, `JobEnds`, `RunEnds`, `CallEnds`), since liveness under fairness and
ENABLED are out of the prover's reach. What the theorems `AlwaysEndsInTime` and
`NeverForgotten` leave to TLC is that there is a next step until the end.

Each of the three violated properties has a theorem about the histories in
which what it says does hold: `StampTellsWhatIsInstalled`, `VerifiedIfExact` and
`MatchingSetIsOne`.

## Departures found

Three are runs that TLC ends with a counterexample.

* `prefix_revert`: resolve.cmake:269 takes `.prebuilt` for "the prebuilt is
  already installed". `build_dep` installs over a prefix without removing it,
  so that the stamp outlives the prebuilt: with recipe 1 from an archive,
  recipe 2 (no lock line) built over it, and a checkout back to recipe 1, the
  application links recipe 2 as the prebuilt of recipe 1. It takes a checkout
  that goes back: without one the property that the run refutes is the theorem
  `StampTellsWhatIsInstalled`, whatever is killed or built in between.
* `release_mixed`: README.md:35 of the repository says that pinning the submodule's
  commit pins the whole set, and that versions cannot be mixed. `_bd_recipe_sig`
  (build_dependency.cmake:325) hashes the files of one recipe and nothing of its
  `DEP_DEPENDS`: after a commit that changes `ogg`, and until the next release,
  `ogg` is built from source while the archive of `opusfile`, built with the
  earlier `ogg`, still matches. `MatchingSetIsOne` is what remains: a checkout
  that every line of the lock matches has no mixture.
* `source_reused_name`: README.md:263 of the repository says that every cached
  source is verified again before use; resolve.cmake:396 asks whether the file
  exists. `VerifiedIfExact` is what remains: if no basename is used for two
  contents and no configure is killed in a download, nothing else is ever used.

The following were met while modelling. They are in the models, and the
properties above are stated around them.

* A killed configure can leave a stamp over a prefix it has begun to remove
  (resolve.cmake:302 for `.build_stamp`, resolve.cmake:389 for `.populated`). With
  `Phase = {"wipe"}` in `PrefixDelivers.cfg`, TLC finds `BoundIsCurrent`
  violated; with `"wipe"` added to the phases of `SourcePinned.cfg`,
  `PopulatedIsPinned`. Of a `.build_stamp` that is trusted after such a kill,
  `TrustedBuildStamp` says that files may be missing and that none is of another
  origin; of a `.prebuilt`, nothing is claimed of a checkout that goes back.
* A build that fails or is killed after it has begun to install leaves the
  `.build_stamp` of the earlier recipe (written at build_dependency.cmake:495,
  never removed). It takes a request that goes back to the build type or linkage
  of that stamp, or a checkout that goes back to its recipe, to be trusted over
  files of both builds. This is the exception `"install" \notin interrupted` of
  `TrustedBuildStamp`, and without it TLC shows the trace.
* A cached source tarball with wrong content is fatal in every later configure
  (build_dependency.cmake:415-418) until somebody removes it by hand; a cached
  prebuilt archive is downloaded again.
* A git clone in the cache is never fetched into (resolve.cmake:421), so that a
  pin younger than the clone fails in every later configure.
* A `local` entry with three fields, as README.md:167 of the repository writes
  it, is a fatal error (build_dependency.cmake:74 wants four).
* A tool whose configure dies between the last byte and the `chmod` has the
  right hash and is bound ever after without being executable
  (resolve.cmake:463 and 472); without `\/ torn` in `BoundRuns` TLC shows it.
* A library that names a tool in `DEP_DEPENDS` is refused as a cycle
  (build_platform.cmake:101 and 120: tools are not put into `DONE`), though
  `validate.cmake` accepts it.
* Two configures that share a cache are safe except between the hash of a file
  and its extraction (resolve.cmake:284 and 304, build_dependency.cmake:416 and
  its extraction): there one may extract what another is downloading.
  `OnlyOthersHarm` is stated around it.
* manifest.cmake:190 has the `bin/` directories of tools prepended so that later
  builds locate them. A tool that is overridden to `SYSTEM` prepends the whole
  directory of the host (manifest.cmake:203), which hides a tool of the same name
  that was fetched before. `OnlyHostShadows` says that nothing else can.
* A library that one manifest asks for in two forms keeps its first target and
  gets the properties of the last call (resolve.cmake:58 and 170-172), so that a
  shared library may be linked and not packaged; a prebuilt after a static build
  may also remove the library that the target links. `OneFormIsWhole` claims
  nothing of such a manifest.
* A library taken from the system is packaged with the licenses of the prefix that
  an earlier configure has left (manifest.cmake:110 and 264).
* A run that fails after `gh release create` leaves a release that no lock names;
  so does one whose push is refused. Nothing removes it.
* Sources are asked of the mirror before upstream
  (build_dependency.cmake:427-438, resolve.cmake:397-408), where README.md:272 of
  the repository has the mirror as the fallback. Both orders try the same URLs,
  and the models do not tell them apart.

## Not modelled

* `validate.cmake`: it reads and reports, one independent check of text after
  the other. What a recipe may hold is stated by the assumptions of the modules
  (`EntryAssumption`, `DependsAssumption`), and what it would refuse, or accepts
  and the engine does not, is among the inputs of `SourceTree` and `Platform`.
* The labels of `mirror_sources.cmake` and the URLs of `_bd_mirror`: `Release` has
  the mirror as the recipes whose sources it holds, so that two sources with one
  label would not be seen. A fetch of the mirror is that of `Prefix`.
* Of the signature: the order of the files, the engine's revision and collisions.
  A signature is the content of a recipe.
* Of a job within `Release`: its inside, which is `Platform`. Of a manifest: hooks
  (`_resolve_override`, `_post_resolve`), include directories, and what
  `meta.cmake` reads of an earlier recipe in SYSTEM mode.
* Of the Mach stubs: the contents of ports, codes and states; the
  `UseStaticTemplates` variants, which fill the same fields from constants; servers
  of several threads (the loop behind `*_server` is the program's, and takes one
  request at a time here).
* Fix-ups and hooks: they edit files within a step that the models already
  have (`StampBuild`, `FailInstall`, `Compile`) and keep no state of their own
  between configures.
* The content of recipes, vendored build files and patches under `recipes/`:
  they are data of the engine, and external code to it.
* Messages, the quoting of commands, and the platforms' own build systems.
