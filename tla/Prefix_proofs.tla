---------------------------- MODULE Prefix_proofs ----------------------------
(***************************************************************************)
(* What holds of Prefix for every set of recipes, files and build types.   *)
(***************************************************************************)
EXTENDS Prefix, FiniteSetTheorems, TLAPS

(* Every variable keeps its type in every history of configures, kills and *)
(* checkouts.                                                              *)
LEMMA TypeInit == Init => TypeOK
<1> SUFFICES ASSUME Init
             PROVE  TypeOK
    OBVIOUS
<1>1. NoFile \in Origin /\ NoBuild \in Build
    BY ConfigAssumption DEF NoFile, Origin, NoBuild, Build, None, Linkage
<1>2. prefix \in [File -> Origin] /\ buildStamp \in Build
    BY <1>1 DEF Init
<1>3. request \in Requests
    BY DEF Init
<1> QED
    BY <1>2, <1>3 DEF Init, TypeOK, Phases, Cached

LEMMA TypeNext == TypeOK /\ [Next]_vars => TypeOK'
<1> SUFFICES ASSUME TypeOK, [Next]_vars
             PROVE  TypeOK'
    OBVIOUS
<1> USE DEF TypeOK, Phases, job, disk, cache, checkout, Goto, End
<1>1. CASE Checkout
    BY <1>1 DEF Checkout
<1>2. CASE \E q \in Requests : Configure(q)
    BY <1>2 DEF Configure
<1>3. CASE FetchPrebuilt
    <2>1. CASE FindPrebuilt
        BY <2>1 DEF FindPrebuilt
    <2>2. CASE BeginArchive \/ ReceiveArchive
        BY <2>2 DEF BeginArchive, ReceiveArchive, Cached
    <2>3. CASE LoseArchive \/ GiveUpArchive
        BY <2>3 DEF LoseArchive, GiveUpArchive, Cached
    <2>4. CASE Remove
        <3>1. NoFile \in Origin /\ NoBuild \in Build
            BY ConfigAssumption
            DEF NoFile, Origin, NoBuild, Build, None, Linkage
        <3> QED
            BY <2>4, <3>1 DEF Remove
    <2>5. ASSUME NEW f \in File, ExtractFile(f)
          PROVE  TypeOK'
        <3>1. Extracted \in Origin
            BY ConfigAssumption DEF Extracted, Origin, Linkage
        <3> QED
            BY <2>5, <3>1 DEF ExtractFile
    <2>6. CASE EndWipe \/ StampPrebuilt
        BY <2>6 DEF EndWipe, StampPrebuilt
    <2> QED
        BY <1>3, <2>1, <2>2, <2>3, <2>4, <2>5, <2>6 DEF FetchPrebuilt
<1>4. CASE BuildDep
    <2>1. CASE StartBuild \/ Compile \/ FailInstall
        BY <2>1 DEF StartBuild, Compile, FailInstall, BreakOff, Breakable
    <2>2. CASE BeginSource \/ ReceiveSource
        BY <2>2, TarballAssumption
           DEF BeginSource, ReceiveSource, SetSource, Cached
    <2>3. CASE LoseSource \/ GiveUpSource
        BY <2>3, TarballAssumption
           DEF LoseSource, GiveUpSource, SetSource, Cached
    <2>4. ASSUME NEW f \in File, InstallFile(f)
          PROVE  TypeOK'
        <3>1. Built \in Origin
            BY DEF Built, Origin, Requests, Request
        <3> QED
            BY <2>4, <3>1 DEF InstallFile
    <2>5. CASE StampBuild
        <3>1. Wanted \in Build
            BY DEF Wanted, Build, Requests, Request
        <3> QED
            BY <2>5, <3>1 DEF StampBuild
    <2> QED
        BY <1>4, <2>1, <2>2, <2>3, <2>4, <2>5 DEF BuildDep
<1>5. CASE Bind
    BY <1>5 DEF Bind
<1>6. CASE Crash
    BY <1>6 DEF Crash, BreakOff, Breakable
<1>7. CASE UNCHANGED vars
    BY <1>7 DEF vars
<1> QED
    BY <1>1, <1>2, <1>3, <1>4, <1>5, <1>6, <1>7 DEF Next, Step

(* Type correctness of the configures.                                     *)
THEOREM Typing == Spec => []TypeOK
BY TypeInit, TypeNext, PTL DEF Spec

-----------------------------------------------------------------------------
(* Recipes that only move forward.                                         *)

(* A configure may be killed inside file(REMOVE_RECURSE), and then a file  *)
(* of the recipe may be missing; it is never one of another recipe.        *)
Killable == "wipe" \in Phase

Current(f) == prefix[f].recipe = recipe \/ (Killable /\ ~Present(f))

AllCurrent(linkage) == \A f \in Installs[recipe][linkage] : Current(f)

Fetching == {"fetch_archive", "receive_archive", "wipe", "extract"}

(* A stamp never names a recipe that is still to come; one that names the  *)
(* recipe of the checkout vouches for its files, except while the prefix   *)
(* is being removed by a configure that cannot be killed there.            *)
StampsSound ==
    /\ prebuiltStamp <= recipe
    /\ buildStamp.recipe <= recipe
    /\ pc # "wipe" \/ Killable =>
        /\ prebuiltStamp = recipe => AllCurrent("shared")
        /\ buildStamp.recipe = recipe => AllCurrent(buildStamp.linkage)

(* The prebuilt path only runs for a shared library with a matching lock   *)
(* line, and extracts into an empty prefix without stamps.                 *)
FetchSound ==
    /\ pc = "find_prebuilt" => request.linkage = "shared"
    /\ pc \in Fetching => lock = recipe /\ request.linkage = "shared"
    /\ pc = "extract" =>
        /\ prebuiltStamp = None
        /\ buildStamp.recipe = None
        /\ \A f \in File : Present(f) => prefix[f].recipe = recipe

BindSound ==
    /\ outcome # "none" => pc = "idle"
    /\ pc = "bind" \/ outcome = "bound" => AllCurrent(request.linkage)

ForwardInv == StampsSound /\ FetchSound /\ BindSound

LEMMA ForwardInit == Init => ForwardInv
BY RecipeAssumption
   DEF Init, ForwardInv, StampsSound, FetchSound, BindSound, Fetching,
       NoBuild, NoFile, None, Present

LEMMA StampNumbers ==
    ASSUME TypeOK
    PROVE  recipe \in Nat /\ prebuiltStamp \in Nat /\ buildStamp.recipe \in Nat
<1>1. buildStamp.recipe \in Recipe \cup {None}
    BY DEF TypeOK, Build
<1>2. recipe \in Recipe /\ prebuiltStamp \in Recipe \cup {None}
    BY DEF TypeOK
<1>3. \A r \in Recipe : r \in Nat
    BY RecipeAssumption
<1>4. None \in Nat
    BY DEF None
<1> QED
    BY <1>1, <1>2, <1>3, <1>4

LEMMA ForwardNext ==
    ASSUME ~Revert, TypeOK, ForwardInv, [Next]_vars
    PROVE  ForwardInv'
<1> USE RecipeAssumption, InstallAssumption
        DEF TypeOK, ForwardInv, StampsSound, FetchSound, BindSound, Fetching,
            AllCurrent, Current, Present, None, Goto, End, job, disk,
            cache, checkout
<1>1. CASE Checkout
    <2>1. recipe \in Nat /\ recipe' \in Nat /\ recipe' >= recipe
          /\ recipe' > 0
        BY <1>1 DEF Checkout
    <2>2. prebuiltStamp \in Nat /\ buildStamp.recipe \in Nat
          /\ UNCHANGED <<prebuiltStamp, buildStamp, prefix>>
        BY <1>1, StampNumbers DEF Checkout
    <2>3. recipe' = recipe \/ (prebuiltStamp' < recipe'
                               /\ buildStamp'.recipe < recipe')
        BY <2>1, <2>2
    <2>4. StampsSound'
        BY <1>1, <2>1, <2>2, <2>3 DEF Checkout
    <2> QED
        BY <1>1, <2>4 DEF Checkout
<1>2. ASSUME NEW q \in Requests, Configure(q)
      PROVE  ForwardInv'
    BY <1>2 DEF Configure, UsePrebuilt, Requests, Request, Linkage
<1>3. CASE FindPrebuilt
    BY <1>3 DEF FindPrebuilt, LockMatches
<1>4. CASE BeginArchive \/ ReceiveArchive \/ LoseArchive \/ GiveUpArchive
    BY <1>4 DEF BeginArchive, ReceiveArchive, LoseArchive, GiveUpArchive
<1>5. CASE Remove
    <2>1. /\ pc = "wipe"
          /\ UNCHANGED <<recipe, lock, pc, outcome, request>>
          /\ \A f \in File : prefix'[f] = prefix[f] \/ ~Present(f)'
        BY <1>5 DEF Remove, NoFile
    <2>2. prebuiltStamp' = prebuiltStamp \/ prebuiltStamp' = None
        BY <1>5 DEF Remove
    <2>3. buildStamp' = buildStamp \/ buildStamp'.recipe = None
        BY <1>5 DEF Remove, NoBuild
    <2>4. \A k \in Linkage : Installs[recipe][k] \subseteq File
        OBVIOUS
    <2>5. buildStamp.linkage \in Linkage /\ "shared" \in Linkage
        BY DEF Build, Linkage
    <2>6. recipe \in Nat /\ recipe # None
        BY StampNumbers
    <2> QED
        BY <2>1, <2>2, <2>3, <2>4, <2>5, <2>6
<1>6. CASE EndWipe
    BY <1>6 DEF EndWipe, Wiped
<1>7. ASSUME NEW f \in File, ExtractFile(f)
       PROVE  ForwardInv'
    BY <1>7 DEF ExtractFile, Extracted
<1>8. CASE StampPrebuilt
    <2>1. Installs[recipe]["shared"] \subseteq File
        BY DEF Linkage
    <2>2. lock = recipe /\ recipe \in Nat /\ request.linkage = "shared"
        BY <1>8 DEF StampPrebuilt
    <2>3. \A f \in Installs[recipe]["shared"] : prefix[f].recipe = recipe
        BY <1>8, <2>1, <2>2 DEF StampPrebuilt, AllExtracted
    <2> QED
        BY <1>8, <2>2, <2>3 DEF StampPrebuilt
<1>9. CASE StartBuild
    BY <1>9 DEF StartBuild, BuildUpToDate, Wanted
<1>10. CASE GiveUpSource \/ Compile \/ FailInstall
    BY <1>10 DEF GiveUpSource, Compile, FailInstall
<1>11. CASE BeginSource \/ ReceiveSource \/ LoseSource
    BY <1>11 DEF BeginSource, ReceiveSource, LoseSource, SetSource
<1>12. ASSUME NEW f \in File, InstallFile(f)
       PROVE  ForwardInv'
    BY <1>12 DEF InstallFile, Built
<1>13. CASE StampBuild
    BY <1>13 DEF StampBuild, AllInstalled, Wanted, Built
<1>14. CASE Bind
    BY <1>14 DEF Bind
<1>15. CASE Crash
    BY <1>15 DEF Crash, Killable
<1>16. CASE UNCHANGED vars
    BY <1>16 DEF vars
<1> QED
    BY <1>1, <1>2, <1>3, <1>4, <1>5, <1>6, <1>7, <1>8, <1>9, <1>10, <1>11,
       <1>12, <1>13, <1>14, <1>15, <1>16
    DEF Next, Step, FetchPrebuilt, BuildDep

LEMMA Forward ==
    ASSUME ~Revert
    PROVE  Spec => [](TypeOK /\ ForwardInv)
<1>1. Init => TypeOK /\ ForwardInv
    BY TypeInit, ForwardInit
<1>2. TypeOK /\ ForwardInv /\ [Next]_vars => (TypeOK /\ ForwardInv)'
    BY TypeNext, ForwardNext
<1> QED
    BY <1>1, <1>2, PTL DEF Spec

(* Files of an older recipe are never served, whatever is killed.          *)
THEOREM NeverStale ==
    ASSUME ~Revert
    PROVE  Spec => []NoStaleFile
<1>1. ForwardInv => NoStaleFile
    BY DEF ForwardInv, BindSound, NoStaleFile, AllCurrent, Current
<1> QED
    BY <1>1, Forward, PTL

(* Without a kill inside file(REMOVE_RECURSE), a resolved dependency is    *)
(* complete and current.                                                   *)
THEOREM AlwaysCurrent ==
    ASSUME ~Revert, "wipe" \notin Phase
    PROVE  Spec => []BoundIsCurrent
<1>1. ForwardInv => BoundIsCurrent
    BY DEF ForwardInv, BindSound, BoundIsCurrent, AllCurrent, Current, Killable
<1> QED
    BY <1>1, Forward, PTL

-----------------------------------------------------------------------------
(* The configures implement Delivery.                                      *)

LEMMA NothingYet == outcome # "bound" => Delivered = {}
BY DEF Delivered

LEMMA DeliveryInit == Init => D!Init
BY NothingYet DEF Init, D!Init, Status

LEMMA DeliveryStep ==
    ASSUME "wipe" \notin Phase, TypeOK, ForwardInv, ForwardInv', [Next]_vars
    PROVE  [D!Next]_(D!vars)
<1> USE DEF ForwardInv, BindSound, Status, Goto, End, checkout, job, disk
<1>0. outcome' # "bound" => Delivered' = {}
    BY DEF Delivered
<1>1. CASE Checkout
    <2>1. D!Change
        BY <1>0, <1>1 DEF Checkout, D!Change, D!Resting, TypeOK
    <2> QED
        BY <2>1 DEF D!Next
<1>2. ASSUME NEW q \in Requests, Configure(q)
      PROVE  D!Next
    <2>1. pc' # "idle"
        BY <1>2 DEF Configure
    <2>2. D!Ask
        BY <1>0, <1>2, <2>1 DEF Configure, D!Ask, D!Resting, TypeOK
    <2> QED
        BY <2>2 DEF D!Next
<1>3. CASE Bind
    <2>1. pc = "bind" /\ pc' = "idle" /\ UNCHANGED recipe
          /\ outcome' \in {"bound", "failed"}
        BY <1>3 DEF Bind
    <2>2. Status = "working" /\ Status' = outcome'
        BY <2>1
    <2>3. outcome' = "bound" => Delivered' \subseteq {recipe}
        BY <2>1 DEF Delivered, AllCurrent, Current, Killable
    <2>4. Delivered = {}
        BY <2>1, NothingYet
    <2>5. CASE outcome' = "bound"
        BY <2>1, <2>2, <2>3, <2>5 DEF D!Next, D!Finish, D!Deliver
    <2>6. CASE outcome' = "failed"
        BY <1>0, <2>1, <2>2, <2>4, <2>6 DEF D!Next, D!Finish, D!Refuse
    <2> QED
        BY <2>1, <2>5, <2>6
<1>4. ASSUME pc # "idle", UNCHANGED recipe, outcome' # "bound",
             \/ pc' # "idle"
             \/ outcome' \in {"failed", "none"}
      PROVE  [D!Next]_(D!vars)
    <2>1. Status = "working" /\ Delivered = {} /\ Delivered' = {}
        BY <1>0, <1>4, NothingYet
    <2>2. CASE pc' # "idle"
        BY <1>4, <2>1, <2>2 DEF D!vars
    <2>3. CASE pc' = "idle" /\ outcome' = "failed"
        BY <1>4, <2>1, <2>3 DEF D!Next, D!Finish, D!Refuse
    <2>4. CASE pc' = "idle" /\ outcome' = "none"
        BY <1>4, <2>1, <2>4 DEF D!Next, D!Finish, D!Abort
    <2> QED
        BY <1>4, <2>2, <2>3, <2>4
<1>5. CASE Crash
    BY <1>4, <1>5, PhaseAssumption DEF Crash, Phases
<1>6. CASE FetchPrebuilt
    <2>1. pc # "idle" /\ pc' # "idle" /\ UNCHANGED <<recipe, outcome>>
        BY <1>6
        DEF FetchPrebuilt, FindPrebuilt, BeginArchive, ReceiveArchive,
            LoseArchive, GiveUpArchive, Remove, EndWipe, ExtractFile,
            StampPrebuilt
    <2> QED
        BY <1>4, <2>1
<1>7. CASE BuildDep
    <2>1. /\ pc # "idle"
          /\ UNCHANGED recipe
          /\ \/ pc' # "idle" /\ UNCHANGED outcome
             \/ outcome' = "failed"
        BY <1>7 DEF BuildDep, StartBuild, BeginSource,
            ReceiveSource, LoseSource, GiveUpSource, Compile, InstallFile,
            FailInstall, StampBuild
    <2> QED
        BY <1>4, <2>1
<1>8. CASE UNCHANGED vars
    <2>1. Delivered' = Delivered /\ Status' = Status /\ UNCHANGED recipe
        BY <1>8 DEF vars, Delivered, disk, checkout, job
    <2> QED
        BY <2>1 DEF D!vars
<1> QED
    BY <1>1, <1>2, <1>3, <1>5, <1>6, <1>7, <1>8 DEF Next, Step

(* Every step of a configure is one that Delivery allows, or none: retries,*)
(* caches, stamps and kills are invisible to the application.              *)
THEOREM Implements ==
    ASSUME ~Revert, "wipe" \notin Phase
    PROVE  Spec => DeliversSafely
<1>1. TypeOK /\ ForwardInv /\ (TypeOK /\ ForwardInv)' /\ [Next]_vars
      => [D!Next]_(D!vars)
    BY DeliveryStep
<1> QED
    BY <1>1, DeliveryInit, Forward, PTL DEF Spec, DeliversSafely, D!SafeSpec

-----------------------------------------------------------------------------
(* Any history: recipes may go back, and a kill may fall anywhere.         *)

(* The removal only starts with a verified archive in the cache, and what  *)
(* is unpacked after it is that archive and nothing else.                  *)
ArchiveInv ==
    /\ \A f \in File : prefix[f].from # "unverified"
    /\ pc \in Fetching => lock = recipe
    /\ pc \in {"wipe", "extract"} => archives[lock] = "good"
    /\ pc = "extract" =>
        \A f \in File : Present(f) =>
            /\ f \in Installs[lock]["shared"]
            /\ prefix[f].recipe = lock
            /\ prefix[f].from = "archive"

LEMMA ArchiveInit == Init => ArchiveInv
BY DEF Init, ArchiveInv, NoFile, Present, Fetching

LEMMA ArchiveNext ==
    ASSUME TypeOK, ArchiveInv, [Next]_vars
    PROVE  ArchiveInv'
<1> USE DEF TypeOK, ArchiveInv, Fetching, Present, Goto, End, job, disk,
            cache, checkout
<1>1. CASE Checkout
    BY <1>1 DEF Checkout
<1>2. ASSUME NEW q \in Requests, Configure(q)
      PROVE  ArchiveInv'
    BY <1>2 DEF Configure
<1>3. CASE FindPrebuilt
    BY <1>3 DEF FindPrebuilt, LockMatches, ArchiveVerified
<1>4. CASE BeginArchive \/ ReceiveArchive \/ LoseArchive \/ GiveUpArchive
    BY <1>4 DEF BeginArchive, ReceiveArchive, LoseArchive, GiveUpArchive
<1>5. CASE Remove
    BY <1>5 DEF Remove, NoFile
<1>6. CASE EndWipe
    BY <1>6 DEF EndWipe, Wiped
<1>7. ASSUME NEW f \in File, ExtractFile(f)
      PROVE  ArchiveInv'
    BY <1>7 DEF ExtractFile, Extracted
<1>8. CASE StampPrebuilt
    BY <1>8 DEF StampPrebuilt
<1>9. CASE BuildDep
    <2>1. ASSUME NEW f \in File, InstallFile(f)
          PROVE  ArchiveInv'
        BY <2>1 DEF InstallFile, Built
    <2>2. CASE StartBuild \/ GiveUpSource \/ Compile \/ FailInstall
               \/ StampBuild
        BY <2>2 DEF StartBuild, GiveUpSource, Compile, FailInstall, StampBuild
    <2>3. CASE BeginSource \/ ReceiveSource \/ LoseSource
        BY <2>3 DEF BeginSource, ReceiveSource, LoseSource, SetSource
    <2> QED
        BY <1>9, <2>1, <2>2, <2>3 DEF BuildDep
<1>10. CASE Bind \/ Crash
    BY <1>10 DEF Bind, Crash
<1>11. CASE UNCHANGED vars
    BY <1>11 DEF vars
<1> QED
    BY <1>1, <1>2, <1>3, <1>4, <1>5, <1>6, <1>7, <1>8, <1>9, <1>10, <1>11
    DEF Next, Step, FetchPrebuilt

LEMMA Archive == Spec => [](TypeOK /\ ArchiveInv)
<1>1. TypeOK /\ ArchiveInv /\ [Next]_vars => (TypeOK /\ ArchiveInv)'
    BY TypeNext, ArchiveNext
<1> QED
    BY <1>1, TypeInit, ArchiveInit, PTL DEF Spec

(* No byte of a prefix comes from an archive that was not verified.        *)
THEOREM OnlyVerified == Spec => []OnlyVerifiedContent
<1>1. ArchiveInv => OnlyVerifiedContent
    BY DEF ArchiveInv, OnlyVerifiedContent
<1> QED
    BY <1>1, Archive, PTL

(* `.prebuilt` is only ever written next to the whole archive it names,    *)
(* and nothing else, in every history.                                     *)
THEOREM PrebuiltStampIsEarned == Spec => PrebuiltStampEarned
<1>1. ASSUME TypeOK, ArchiveInv, [Next]_vars, NEW r \in Recipe,
             prebuiltStamp' = r, prebuiltStamp # r
      PROVE  IsArchiveOf(r)'
    <2>1. None \notin Recipe
        BY RecipeAssumption
    <2>2. StampPrebuilt
        BY <1>1, <2>1
        DEF Next, Step, FetchPrebuilt, BuildDep, Checkout, Configure,
            FindPrebuilt, BeginArchive, ReceiveArchive, LoseArchive,
            GiveUpArchive, Remove, EndWipe, ExtractFile, StartBuild,
            BeginSource, ReceiveSource, LoseSource,
            GiveUpSource, Compile, InstallFile, FailInstall, StampBuild, Bind,
            Crash, vars, disk, job
    <2>3. r = lock /\ r # None /\ UNCHANGED prefix /\ pc = "extract"
        BY <1>1, <2>1, <2>2 DEF StampPrebuilt
    <2>4. Installs[r]["shared"] \subseteq File
        BY InstallAssumption DEF Linkage
    <2> QED
        BY <1>1, <2>2, <2>3, <2>4
        DEF StampPrebuilt, AllExtracted, ArchiveInv, IsArchiveOf, Present
<1>2. TypeOK /\ ArchiveInv /\ [Next]_vars =>
      [\A r \in Recipe :
        prebuiltStamp' = r /\ prebuiltStamp # r => IsArchiveOf(r)']_vars
    BY <1>1
<1> QED
    BY <1>2, Archive, PTL DEF Spec, PrebuiltStampEarned

(* The files of a stamped build, apart from what was broken off over them. *)
StampedBuild ==
    [recipe |-> buildStamp.recipe, config |-> buildStamp.config,
     linkage |-> buildStamp.linkage, from |-> "build"]

(* A prebuilt is only extracted once the stamp of a build is gone, and what*)
(* an install or a removal has begun is either completed, which replaces or*)
(* removes the stamp, or remembered as broken off.                         *)
BuildStampHeld ==
    /\ pc = "extract" => buildStamp.recipe = None
    /\ buildStamp.recipe # None =>
        \A f \in Installs[buildStamp.recipe][buildStamp.linkage] :
            /\ Present(f) => prefix[f].from = "build"
            /\ Present(f) /\ "install" \notin interrupted /\ pc # "install"
                   => prefix[f] = StampedBuild
            /\ "wipe" \notin interrupted /\ pc # "wipe" => Present(f)

LEMMA BuildStampInit == Init => BuildStampHeld
BY DEF Init, BuildStampHeld, NoBuild

LEMMA BuildStampNext ==
    ASSUME TypeOK, BuildStampHeld, [Next]_vars
    PROVE  BuildStampHeld'
<1> USE DEF BuildStampHeld, StampedBuild, Present, Goto, End, job, disk, cache,
            checkout
<1>0. /\ buildStamp.recipe # None =>
             /\ buildStamp.recipe \in Recipe
             /\ Installs[buildStamp.recipe][buildStamp.linkage] \subseteq File
      /\ prefix \in [File -> Origin]
    BY InstallAssumption DEF TypeOK, Build
<1>1. CASE Checkout \/ \E q \in Requests : Configure(q)
    BY <1>1 DEF Checkout, Configure
<1>2. CASE FindPrebuilt \/ StartBuild
    BY <1>2 DEF FindPrebuilt, StartBuild
<1>3. CASE BeginArchive \/ ReceiveArchive \/ LoseArchive \/ GiveUpArchive
    BY <1>3 DEF BeginArchive, ReceiveArchive, LoseArchive, GiveUpArchive
<1>4. CASE Remove
    BY <1>0, <1>4 DEF Remove, NoFile, NoBuild
<1>5. CASE EndWipe
    BY <1>5 DEF EndWipe, Wiped
<1>6. ASSUME NEW f \in File, ExtractFile(f)
      PROVE  BuildStampHeld'
    BY <1>6 DEF ExtractFile
<1>7. CASE StampPrebuilt
    BY <1>7 DEF StampPrebuilt
<1>8. CASE BeginSource \/ ReceiveSource \/ LoseSource \/ GiveUpSource
    BY <1>8 DEF BeginSource, ReceiveSource, LoseSource, GiveUpSource
<1>9. CASE Compile
    BY <1>9 DEF Compile
<1>10. ASSUME NEW f \in File, InstallFile(f)
       PROVE  BuildStampHeld'
    <2>1. Built.recipe # None /\ Built.from = "build"
        BY RecipeAssumption DEF Built, TypeOK
    <2> HIDE DEF Built
    <2> QED
        BY <1>0, <1>10, <2>1 DEF InstallFile
<1>11. CASE FailInstall
    BY <1>11 DEF FailInstall, BreakOff, Breakable
<1>12. CASE StampBuild
    <2>1. recipe # None
        BY RecipeAssumption DEF TypeOK
    <2> QED
        BY <1>12, <2>1 DEF StampBuild, AllInstalled, Wanted, Built
<1>13. CASE Bind
    BY <1>13 DEF Bind
<1>14. CASE Crash
    BY <1>14 DEF Crash, BreakOff, Breakable
<1>15. CASE UNCHANGED vars
    BY <1>15 DEF vars
<1> QED
    BY <1>1, <1>2, <1>3, <1>4, <1>5, <1>6, <1>7, <1>8, <1>9, <1>10, <1>11,
       <1>12, <1>13, <1>14, <1>15
    DEF Next, Step, FetchPrebuilt, BuildDep

(* A `.build_stamp` that stops a build tells the build that the prefix     *)
(* holds, in every history; what was broken off over it can only have mixed*)
(* builds or taken files away, and never lets a prebuilt pass for a build. *)
THEOREM BuildStampTellsTheBuild == Spec => []TrustedBuildStamp
<1>1. Init => TypeOK /\ BuildStampHeld
    BY TypeInit, BuildStampInit
<1>2. TypeOK /\ BuildStampHeld /\ [Next]_vars => (TypeOK /\ BuildStampHeld)'
    BY TypeNext, BuildStampNext
<1>3. TypeOK /\ BuildStampHeld => TrustedBuildStamp
    <2> SUFFICES ASSUME TypeOK, BuildStampHeld, pc = "build_dep", BuildUpToDate
                 PROVE  TrustedBuildStamp
        BY DEF TrustedBuildStamp
    <2>1. /\ buildStamp.recipe = recipe /\ buildStamp.linkage = request.linkage
          /\ StampedBuild = Built /\ recipe # None
        BY RecipeAssumption DEF TypeOK, BuildUpToDate, Wanted, StampedBuild, Built
    <2> QED
        BY <2>1 DEF BuildStampHeld, TrustedBuildStamp
<1> QED
    BY <1>1, <1>2, <1>3, PTL DEF Spec

(* What a prefix holds is only taken away for a verified archive.          *)
THEOREM WipesOnlyForArchive == Spec => WipedOnlyForArchive
<1>1. ASSUME TypeOK, ArchiveInv, [Next]_vars,
             NEW f \in File, Present(f), prefix'[f].recipe = None
      PROVE  lock = recipe /\ archives[lock] = "good"
    <2>1. prefix' # prefix
        BY <1>1 DEF Present
    <2>2. \/ Remove
          \/ \E g \in File : ExtractFile(g) \/ InstallFile(g)
        BY <1>1, <2>1
        DEF Next, Step, FetchPrebuilt, BuildDep, Checkout, Configure,
            FindPrebuilt, BeginArchive, ReceiveArchive, LoseArchive,
            GiveUpArchive, EndWipe, StartBuild, BeginSource, ReceiveSource,
            LoseSource, GiveUpSource, Compile, FailInstall, StampPrebuilt,
            StampBuild, Bind, Crash, vars, disk, job
    <2>3. None \notin Recipe
        BY RecipeAssumption
    <2>4. ASSUME NEW g \in File, InstallFile(g)
          PROVE  FALSE
        BY <1>1, <2>3, <2>4 DEF InstallFile, Built, TypeOK, Present
    <2>5. ASSUME NEW g \in File, ExtractFile(g)
          PROVE  FALSE
        BY <1>1, <2>3, <2>5
        DEF ExtractFile, Extracted, TypeOK, ArchiveInv, Fetching, Present
    <2>6. pc = "wipe"
        BY <2>2, <2>4, <2>5 DEF Remove
    <2> QED
        BY <1>1, <2>6 DEF ArchiveInv, Fetching
<1>2. TypeOK /\ ArchiveInv /\ [Next]_vars =>
      [(\E f \in File : Present(f) /\ prefix'[f].recipe = None)
        => lock = recipe /\ archives[lock] = "good"]_vars
    BY <1>1
<1> QED
    BY <1>2, Archive, PTL DEF Spec, WipedOnlyForArchive

-----------------------------------------------------------------------------
(* A configure that repeats one which succeeded.                           *)

(* One of the stamps stops a build for the present request.                *)
Accepted ==
    \/ UsePrebuilt(request) /\ lock = recipe /\ prebuiltStamp = lock
    \/ buildStamp = Wanted

RepeatInv ==
    /\ outcome # "none" => pc = "idle"
    /\ outcome = "bound" \/ pc = "bind" => Accepted
    /\ pc \in Fetching \cup {"find_prebuilt"} => UsePrebuilt(request)
    /\ pc \in Fetching => lock = recipe
    /\ again =>
        /\ pc = "find_prebuilt" => Accepted
        /\ pc \in {"fetch_archive", "receive_archive", "build_dep"}
               => buildStamp = Wanted
        /\ pc \notin {"fetch_source", "receive_source", "compile", "install"}

LEMMA RepeatInit == Init => RepeatInv
BY DEF Init, RepeatInv, Fetching

(* A configure that is a repetition asks for what is stamped.              *)
LEMMA RepeatConfigure ==
    ASSUME TypeOK, RepeatInv, NEW q \in Requests, Configure(q)
    PROVE  RepeatInv'
<1>1. /\ pc = "idle" /\ request' = q /\ outcome' = "none"
      /\ pc' = IF UsePrebuilt(q) THEN "find_prebuilt" ELSE "build_dep"
      /\ UNCHANGED <<recipe, lock, prebuiltStamp, buildStamp>>
    BY DEF Configure, checkout, disk
<1>2. ASSUME again'
      PROVE  /\ outcome = "bound"
             /\ request.mode = q.mode /\ request.config = q.config
             /\ request.linkage = q.linkage
    <2>1. outcome = "bound" /\ q = [request EXCEPT !.reliable = q.reliable]
        BY <1>2, Zenon DEF Configure
    <2> QED
        BY <2>1 DEF TypeOK, Requests, Request
<1>3. UsePrebuilt(request)' <=> UsePrebuilt(q)
    BY <1>1 DEF UsePrebuilt
<1>4. ASSUME again'
      PROVE  /\ Accepted' /\ Accepted
             /\ UsePrebuilt(request) <=> UsePrebuilt(q)
             /\ Wanted' = Wanted
    <2>1. UsePrebuilt(request) <=> UsePrebuilt(q)
        BY <1>2, <1>4 DEF UsePrebuilt
    <2>2. Wanted' = Wanted
        BY <1>1, <1>2, <1>4 DEF Wanted
    <2>3. Accepted
        BY <1>2, <1>4 DEF RepeatInv
    <2> QED
        BY <1>1, <1>3, <2>1, <2>2, <2>3 DEF Accepted
<1>5. again' /\ pc' = "build_dep" => buildStamp' = Wanted'
    BY <1>1, <1>4 DEF Accepted
<1> QED
    BY <1>1, <1>3, <1>4, <1>5 DEF RepeatInv, Fetching

LEMMA RepeatNext == TypeOK /\ RepeatInv /\ [Next]_vars => RepeatInv'
<1> SUFFICES ASSUME TypeOK, RepeatInv, [Next]_vars
             PROVE  RepeatInv'
    OBVIOUS
<1> USE DEF RepeatInv, Fetching, Accepted, Wanted, UsePrebuilt, Goto, End,
            job, disk, cache, checkout
<1>1. CASE Checkout
    BY <1>1 DEF Checkout
<1>2. ASSUME NEW q \in Requests, Configure(q)
      PROVE  RepeatInv'
    BY <1>2, RepeatConfigure
<1>3. CASE FindPrebuilt
    BY <1>3 DEF FindPrebuilt, LockMatches
<1>4. CASE BeginArchive \/ ReceiveArchive \/ LoseArchive \/ GiveUpArchive
    BY <1>4 DEF BeginArchive, ReceiveArchive, LoseArchive, GiveUpArchive
<1>5. CASE Remove
    BY <1>5 DEF Remove
<1>6. CASE EndWipe \/ StampPrebuilt
    BY <1>6 DEF EndWipe, StampPrebuilt
<1>7. ASSUME NEW f \in File, ExtractFile(f) \/ InstallFile(f)
      PROVE  RepeatInv'
    BY <1>7 DEF ExtractFile, InstallFile
<1>8. CASE StartBuild
    BY <1>8 DEF StartBuild, BuildUpToDate
<1>9. CASE BeginSource \/ ReceiveSource \/ LoseSource \/ GiveUpSource
    BY <1>9 DEF BeginSource, ReceiveSource, LoseSource, GiveUpSource
<1>10. CASE Compile \/ FailInstall \/ StampBuild
    BY <1>10 DEF Compile, FailInstall, StampBuild
<1>11. CASE Bind
    BY <1>11 DEF Bind
<1>12. CASE Crash
    BY <1>12 DEF Crash
<1>13. CASE UNCHANGED vars
    BY <1>13 DEF vars
<1> QED
    BY <1>1, <1>2, <1>3, <1>4, <1>5, <1>6, <1>7, <1>8, <1>9, <1>10, <1>11,
       <1>12, <1>13
    DEF Next, Step, FetchPrebuilt, BuildDep

(* In every history, the repetition of a configure that succeeded does not *)
(* build again.                                                            *)
THEOREM NeverRebuildsAgain == Spec => []NoRebuildAgain
<1>1. Init => TypeOK /\ RepeatInv
    BY TypeInit, RepeatInit
<1>2. TypeOK /\ RepeatInv /\ [Next]_vars => (TypeOK /\ RepeatInv)'
    BY TypeNext, RepeatNext
<1>3. RepeatInv => NoRebuildAgain
    BY DEF RepeatInv, NoRebuildAgain
<1> QED
    BY <1>1, <1>2, <1>3, PTL DEF Spec

-----------------------------------------------------------------------------
(* A matching lock line and a server that delivers.                        *)

CanServe == lock = recipe /\ UsePrebuilt(request) /\ request.reliable

(* .prebuilt of the checkout's recipe vouches for every file, also when    *)
(* configures are killed while they remove the prefix: that is only done   *)
(* under the stamp of an earlier recipe.                                   *)
StampHeld ==
    /\ pc \in Fetching => prebuiltStamp # recipe
    /\ prebuiltStamp = recipe =>
           \A f \in Installs[recipe]["shared"] : prefix[f].recipe = recipe

(* No attempt is lost with a server that delivers.                         *)
ServeInv ==
    /\ attempt # 0 =>
           /\ pc \in {"fetch_archive", "receive_archive", "fetch_source",
                      "receive_source"}
           /\ ~request.reliable
    /\ CanServe =>
           /\ pc \in Fetching \cup {"find_prebuilt", "bind", "idle"}
           /\ pc = "bind" => prebuiltStamp = recipe
           /\ outcome # "failed"

LEMMA StampHeldInit == Init => StampHeld
BY RecipeAssumption DEF Init, StampHeld, Fetching, None

LEMMA ServeInit == Init => ServeInv
BY DEF Init, ServeInv, CanServe, Fetching

LEMMA StampHeldNext ==
    ASSUME ~Revert, TypeOK, ForwardInv, StampHeld, [Next]_vars
    PROVE  StampHeld'
<1> USE DEF TypeOK, StampHeld, Fetching, Present, Goto, End, job, disk, cache,
            checkout
<1>0. /\ recipe \in Nat /\ prebuiltStamp \in Nat /\ recipe # None
      /\ prebuiltStamp <= recipe
      /\ Installs[recipe]["shared"] \subseteq File
    BY StampNumbers, RecipeAssumption, InstallAssumption
    DEF ForwardInv, StampsSound, Linkage
<1>1. CASE Checkout
    <2>1. recipe' \in Nat /\ recipe' >= recipe /\ UNCHANGED prebuiltStamp
        BY <1>1, RecipeAssumption DEF Checkout
    <2>2. prebuiltStamp' = recipe' => recipe' = recipe
        BY <1>0, <2>1
    <2> QED
        BY <1>1, <2>2 DEF Checkout
<1>2. ASSUME NEW q \in Requests, Configure(q)
      PROVE  StampHeld'
    BY <1>2 DEF Configure
<1>3. CASE FindPrebuilt
    BY <1>3 DEF FindPrebuilt, LockMatches
<1>4. CASE BeginArchive \/ ReceiveArchive \/ LoseArchive \/ GiveUpArchive
    BY <1>4 DEF BeginArchive, ReceiveArchive, LoseArchive, GiveUpArchive
<1>5. CASE Remove
    BY <1>0, <1>5 DEF Remove
<1>6. CASE EndWipe
    BY <1>6 DEF EndWipe
<1>7. ASSUME NEW f \in File, ExtractFile(f)
      PROVE  StampHeld'
    <2>1. prebuiltStamp # recipe
        BY <1>0, <1>7 DEF ExtractFile, ForwardInv, FetchSound
    <2> QED
        BY <1>7, <2>1 DEF ExtractFile
<1>8. CASE StampPrebuilt
    <2>1. lock = recipe
        BY <1>8 DEF StampPrebuilt, ForwardInv, FetchSound
    <2>2. \A f \in Installs[recipe]["shared"] : prefix[f].recipe = recipe
        BY <1>0, <1>8, <2>1
        DEF StampPrebuilt, AllExtracted, ForwardInv, FetchSound
    <2> QED
        BY <1>8, <2>1, <2>2 DEF StampPrebuilt
<1>9. CASE StartBuild \/ BeginSource \/ ReceiveSource \/ LoseSource \/ GiveUpSource
    BY <1>9 DEF StartBuild, BeginSource, ReceiveSource, LoseSource, GiveUpSource
<1>10. CASE Compile \/ FailInstall \/ StampBuild
    BY <1>10 DEF Compile, FailInstall, StampBuild
<1>11. ASSUME NEW f \in File, InstallFile(f)
       PROVE  StampHeld'
    BY <1>0, <1>11 DEF InstallFile, Built
<1>12. CASE Bind \/ Crash
    BY <1>12 DEF Bind, Crash
<1>13. CASE UNCHANGED vars
    BY <1>13 DEF vars
<1> QED
    BY <1>1, <1>2, <1>3, <1>4, <1>5, <1>6, <1>7, <1>8, <1>9, <1>10, <1>11,
       <1>12, <1>13
    DEF Next, Step, FetchPrebuilt, BuildDep

LEMMA Held ==
    ASSUME ~Revert
    PROVE  Spec => [](TypeOK /\ ForwardInv /\ StampHeld)
<1>1. Init => TypeOK /\ ForwardInv /\ StampHeld
    BY TypeInit, ForwardInit, StampHeldInit
<1>2. TypeOK /\ ForwardInv /\ StampHeld /\ [Next]_vars
          => (TypeOK /\ ForwardInv /\ StampHeld)'
    BY TypeNext, ForwardNext, StampHeldNext
<1> QED
    BY <1>1, <1>2, PTL DEF Spec

(* resolve.cmake takes .prebuilt for "the prebuilt is already installed".  *)
(* As long as recipes only move forward it is right, whatever is killed    *)
(* and built over the prefix in between.                                   *)
THEOREM StampTellsWhatIsInstalled ==
    ASSUME ~Revert
    PROVE  Spec => []StampedIsInstalled
<1>1. StampHeld => StampedIsInstalled
    BY DEF StampHeld, StampedIsInstalled, LockMatches
<1> QED
    BY <1>1, Held, PTL

LEMMA ServeNext ==
    ASSUME Attempts > 0, TypeOK, ForwardInv, StampHeld, ServeInv, [Next]_vars
    PROVE  ServeInv'
<1> USE DEF TypeOK, ServeInv, CanServe, UsePrebuilt, Fetching, Present,
            Goto, End, job, disk, cache, checkout
<1>1. CASE Checkout
    BY <1>1 DEF Checkout
<1>2. ASSUME NEW q \in Requests, Configure(q)
      PROVE  ServeInv'
    BY <1>2 DEF Configure
<1>3. CASE FindPrebuilt
    BY <1>3 DEF FindPrebuilt, LockMatches
<1>4. CASE BeginArchive \/ ReceiveArchive \/ LoseArchive
    BY <1>4 DEF BeginArchive, ReceiveArchive, LoseArchive
<1>5. CASE GiveUpArchive
    <2>1. ~request.reliable
        BY <1>5, AttemptAssumption DEF GiveUpArchive
    <2> QED
        BY <1>5, <2>1 DEF GiveUpArchive
<1>6. CASE Remove \/ EndWipe
    BY <1>6 DEF Remove, EndWipe
<1>7. ASSUME NEW f \in File, ExtractFile(f)
      PROVE  ServeInv'
    BY <1>7 DEF ExtractFile
<1>8. CASE StampPrebuilt
    BY <1>8 DEF StampPrebuilt
<1>9. CASE StartBuild
    BY <1>9 DEF StartBuild
<1>10. CASE BeginSource \/ ReceiveSource \/ LoseSource \/ GiveUpSource
    BY <1>10 DEF BeginSource, ReceiveSource, LoseSource, GiveUpSource
<1>11. CASE Compile \/ FailInstall \/ StampBuild
    BY <1>11 DEF Compile, FailInstall, StampBuild
<1>12. ASSUME NEW f \in File, InstallFile(f)
       PROVE  ServeInv'
    BY <1>12 DEF InstallFile
<1>13. CASE Bind
    <2>1. CanServe => Linkable
        <3> SUFFICES ASSUME CanServe
                     PROVE  Linkable
            OBVIOUS
        <3>1. request.linkage = "shared"
            BY DEF Requests, Request, Linkage
        <3>2. \A f \in Installs[recipe]["shared"] : prefix[f].recipe = recipe
            BY <1>13 DEF Bind, StampHeld
        <3>3. recipe # None
            BY StampNumbers, RecipeAssumption
        <3>4. Links[recipe]["shared"] \subseteq Installs[recipe]["shared"]
            BY InstallAssumption DEF Linkage
        <3> QED
            BY <3>1, <3>2, <3>3, <3>4 DEF Linkable
    <2> QED
        BY <1>13, <2>1 DEF Bind
<1>14. CASE Crash
    BY <1>14 DEF Crash
<1>15. CASE UNCHANGED vars
    BY <1>15 DEF vars
<1> QED
    BY <1>1, <1>2, <1>3, <1>4, <1>5, <1>6, <1>7, <1>8, <1>9, <1>10, <1>11,
       <1>12, <1>13, <1>14, <1>15
    DEF Next, Step, FetchPrebuilt, BuildDep

(* While recipes only move forward, a matching lock line and a server that *)
(* delivers are enough: the configure resolves the dependency, whatever    *)
(* earlier ones have left in the prefix and the cache.                     *)
THEOREM AlwaysServes ==
    ASSUME ~Revert, Attempts > 0
    PROVE  Spec => []PrebuiltAlwaysServes
<1>1. Init => ServeInv
    BY ServeInit
<1>2. TypeOK /\ ForwardInv /\ StampHeld /\ ServeInv /\ [Next]_vars => ServeInv'
    BY ServeNext
<1>3. ServeInv => PrebuiltAlwaysServes
    BY DEF ServeInv, CanServe, PrebuiltAlwaysServes, LockMatches
<1> QED
    BY <1>1, <1>2, <1>3, Held, PTL DEF Spec

-----------------------------------------------------------------------------
(* How long a configure can take.                                          *)
Tries == Attempts * SourceUrls

(* Failed downloads are counted, and only while there is a download.       *)
TryInv ==
    /\ pc = "fetch_archive" => attempt <= Attempts
    /\ pc = "receive_archive" => attempt < Attempts
    /\ pc = "fetch_source" => attempt <= Tries
    /\ pc = "receive_source" => attempt < Tries
    /\ pc \notin {"fetch_archive", "receive_archive", "fetch_source",
                  "receive_source"} => attempt = 0

Filled == {f \in File : Present(f)}
Unpacked == {f \in Installs[lock]["shared"] : ~Present(f)}
Uninstalled == {f \in Installs[recipe][request.linkage] : prefix[f] # Built}
Stamps == (IF prebuiltStamp = None THEN 0 ELSE 1)
              + (IF buildStamp.recipe = None THEN 0 ELSE 1)

Files == Cardinality(File)
Fallback == 2 * Files + 2 * Tries + 5
Longest == Fallback + 2 * Attempts + 2

(* The steps that a configure may still take.                              *)
StepsLeft ==
    IF pc = "idle" THEN 0
    ELSE IF pc = "bind" THEN 1
    ELSE IF pc = "install" THEN 2 + Cardinality(Uninstalled)
    ELSE IF pc = "extract" THEN 2 + Cardinality(Unpacked)
    ELSE IF pc = "compile" THEN Files + 3
    ELSE IF pc = "receive_source" THEN Files + 3 + 2 * (Tries - attempt)
    ELSE IF pc = "fetch_source" THEN Files + 4 + 2 * (Tries - attempt)
    ELSE IF pc = "build_dep" THEN Files + 5 + 2 * Tries
    ELSE IF pc = "wipe" THEN Files + 3 + Stamps + Cardinality(Filled)
    ELSE IF pc = "receive_archive" THEN Fallback + 2 * (Attempts - attempt)
    ELSE IF pc = "fetch_archive" THEN Fallback + 1 + 2 * (Attempts - attempt)
    ELSE Longest

(* A started configure comes to its end, and the longest one, in which each*)
(* download fails and each file is removed and written again, is bounded.  *)
EndsInTime ==
    /\ [](StepsLeft \in 0 .. Longest)
    /\ [][pc # "idle" => StepsLeft' < StepsLeft]_vars

LEMMA TriesNat == Tries \in Nat
BY AttemptAssumption DEF Tries

LEMMA TryInit == Init => TryInv
BY AttemptAssumption DEF Init, TryInv

LEMMA TryNext == TypeOK /\ TryInv /\ [Next]_vars => TryInv'
<1> SUFFICES ASSUME TypeOK, TryInv, [Next]_vars
             PROVE  TryInv'
    OBVIOUS
<1>1. attempt \in Nat /\ Attempts \in Nat /\ Tries \in Nat
    BY AttemptAssumption, TriesNat DEF TypeOK
<1> USE DEF TryInv, Goto, End, job
<1>2. CASE Checkout \/ \E q \in Requests : Configure(q)
    BY <1>2, <1>1 DEF Checkout, Configure
<1>3. CASE FindPrebuilt \/ StartBuild
    BY <1>3, <1>1 DEF FindPrebuilt, StartBuild
<1>4. CASE BeginArchive \/ ReceiveArchive \/ LoseArchive \/ GiveUpArchive
    BY <1>4, <1>1 DEF BeginArchive, ReceiveArchive, LoseArchive, GiveUpArchive
<1>5. CASE BeginSource
    <2>1. attempt < Tries
        BY <1>5 DEF BeginSource, Tries
    <2> QED
        BY <1>5, <1>1, <2>1 DEF BeginSource
<1>6. CASE ReceiveSource \/ LoseSource \/ GiveUpSource
    BY <1>6, <1>1 DEF ReceiveSource, LoseSource, GiveUpSource
<1>7. CASE Remove \/ (\E f \in File : ExtractFile(f) \/ InstallFile(f))
    BY <1>7 DEF Remove, ExtractFile, InstallFile
<1>8. CASE EndWipe \/ StampPrebuilt \/ Compile \/ FailInstall \/ StampBuild
    BY <1>8 DEF EndWipe, StampPrebuilt, Compile, FailInstall, StampBuild
<1>9. CASE Bind \/ Crash
    BY <1>9 DEF Bind, Crash
<1>10. CASE UNCHANGED vars
    BY <1>10 DEF vars
<1> QED
    BY <1>2, <1>3, <1>4, <1>5, <1>6, <1>7, <1>8, <1>9, <1>10
    DEF Next, Step, FetchPrebuilt, BuildDep

(* Of finitely many files, those that are still to be done can be counted, *)
(* and are fewer when one of them is done.                                 *)
LEMMA Count ==
    ASSUME IsFiniteSet(File), NEW S \in SUBSET File
    PROVE  /\ Cardinality(S) \in 0 .. Files
           /\ Files \in Nat
           /\ \A f \in S : Cardinality(S \ {f}) = Cardinality(S) - 1
BY FS_Subset, FS_CardinalityType, FS_RemoveElement DEF Files

LEMMA CountThem ==
    ASSUME TypeOK, IsFiniteSet(File)
    PROVE  /\ Files \in Nat
           /\ Cardinality(Filled) \in 0 .. Files
           /\ lock \in Recipe => Cardinality(Unpacked) \in 0 .. Files
           /\ Cardinality(Uninstalled) \in 0 .. Files
<1>1. request.linkage \in Linkage /\ recipe \in Recipe
    BY DEF TypeOK, Requests, Request
<1>2. Filled \subseteq File /\ Uninstalled \subseteq File
    BY <1>1, InstallAssumption DEF Filled, Uninstalled
<1>3. lock \in Recipe => Unpacked \subseteq File
    BY InstallAssumption DEF Unpacked, Linkage
<1> QED
    BY <1>2, <1>3, Count

LEMMA StepsBound ==
    ASSUME TypeOK, TryInv, ArchiveInv, IsFiniteSet(File)
    PROVE  StepsLeft \in 0 .. Longest
<1>1. /\ attempt \in Nat /\ Attempts \in Nat /\ Tries \in Nat
      /\ pc = "extract" => lock \in Recipe
    BY AttemptAssumption, TriesNat DEF TypeOK, ArchiveInv, Fetching
<1>2. Stamps \in 0 .. 2
    BY DEF Stamps
<1>3. /\ Files \in Nat
      /\ Cardinality(Filled) \in 0 .. Files
      /\ pc = "extract" => Cardinality(Unpacked) \in 0 .. Files
      /\ Cardinality(Uninstalled) \in 0 .. Files
    BY <1>1, CountThem
<1> HIDE DEF Stamps, Filled, Unpacked, Uninstalled, Files, Tries
<1>4. Fallback \in Nat /\ Fallback >= 2 * Files + 5 /\ Fallback >= Files + 5 + 2 * Tries
    BY <1>1, <1>3 DEF Fallback
<1> HIDE DEF Fallback
<1>5. StepsLeft \in Nat /\ StepsLeft <= Fallback + 2 * Attempts + 2
    BY <1>1, <1>2, <1>3, <1>4 DEF TryInv, StepsLeft, Longest
<1> QED
    BY <1>1, <1>4, <1>5 DEF Longest

LEMMA StepsFall ==
    ASSUME TypeOK, TypeOK', TryInv, TryInv', ArchiveInv, ArchiveInv',
           IsFiniteSet(File), Next, pc # "idle"
    PROVE  StepsLeft' < StepsLeft
<1>1. /\ attempt \in Nat /\ Attempts \in Nat /\ Tries \in Nat /\ Files \in Nat
      /\ Cardinality(Filled) \in 0 .. Files /\ Stamps \in 0 .. 2
      /\ Cardinality(Uninstalled) \in 0 .. Files
      /\ lock \in Recipe => Cardinality(Unpacked) \in 0 .. Files
    BY AttemptAssumption, TriesNat, CountThem DEF TypeOK, Stamps
<1>2. /\ attempt' \in Nat /\ Stamps' \in 0 .. 2
      /\ Cardinality(Filled)' \in 0 .. Files
      /\ Cardinality(Uninstalled)' \in 0 .. Files
      /\ lock' \in Recipe => Cardinality(Unpacked)' \in 0 .. Files
    <2>1. request'.linkage \in Linkage /\ recipe' \in Recipe
        BY DEF TypeOK, Requests, Request
    <2>2. Filled' \subseteq File /\ Uninstalled' \subseteq File
        BY <2>1, InstallAssumption DEF Filled, Uninstalled
    <2>3. lock' \in Recipe => Unpacked' \subseteq File
        BY InstallAssumption DEF Unpacked, Linkage
    <2>4. attempt' \in Nat /\ Stamps' \in 0 .. 2
        BY DEF TypeOK, Stamps
    <2> HIDE DEF Filled, Unpacked, Uninstalled, Files
    <2> QED
        BY <2>2, <2>3, <2>4, Count
<1>3. pc \in Fetching => lock = recipe /\ lock \in Recipe
    BY DEF TypeOK, ArchiveInv
<1> USE DEF Goto, End
<1>4. CASE Remove
    <2>1. UNCHANGED pc /\ pc = "wipe"
        BY <1>4 DEF Remove
    <2>2. Stamps' + Cardinality(Filled)' < Stamps + Cardinality(Filled)
        <3>1. ASSUME NEW f \in File, Present(f), prefix' = [prefix EXCEPT ![f] = NoFile],
                     UNCHANGED <<prebuiltStamp, buildStamp>>
              PROVE  Stamps' + Cardinality(Filled)' < Stamps + Cardinality(Filled)
            <4>1. Filled' = Filled \ {f} /\ f \in Filled
                BY <3>1 DEF TypeOK, Filled, Present, NoFile
            <4>2. Cardinality(Filled)' = Cardinality(Filled) - 1
                BY <4>1, Count DEF Filled
            <4>3. Stamps' = Stamps
                BY <3>1 DEF Stamps
            <4> QED
                BY <1>1, <4>2, <4>3
        <3>2. ASSUME UNCHANGED prefix, Stamps' < Stamps
              PROVE  Stamps' + Cardinality(Filled)' < Stamps + Cardinality(Filled)
            <4>1. Filled' = Filled
                BY <3>2 DEF Filled, Present
            <4> QED
                BY <1>1, <1>2, <3>2, <4>1
        <3>3. ASSUME UNCHANGED prefix,
                     \/ /\ prebuiltStamp # None /\ prebuiltStamp' = None
                        /\ UNCHANGED buildStamp
                     \/ /\ buildStamp.recipe # None /\ buildStamp' = NoBuild
                        /\ UNCHANGED prebuiltStamp
              PROVE  Stamps' < Stamps
            BY <3>3 DEF Stamps, NoBuild
        <3> QED
            BY <1>4, <3>1, <3>2, <3>3 DEF Remove
    <2> HIDE DEF Filled, Stamps
    <2> QED
        BY <1>1, <1>2, <2>1, <2>2 DEF StepsLeft
<1>5. ASSUME NEW f \in File, ExtractFile(f)
      PROVE  StepsLeft' < StepsLeft
    <2>1. /\ UNCHANGED <<pc, lock>> /\ pc = "extract" /\ lock \in Recipe
          /\ f \in Installs[lock]["shared"] /\ ~Present(f)
          /\ prefix' = [prefix EXCEPT ![f] = Extracted]
        BY <1>3, <1>5 DEF ExtractFile, Fetching, checkout
    <2>2. Extracted.recipe # None
        BY <2>1, RecipeAssumption DEF Extracted
    <2>3. Unpacked' = Unpacked \ {f} /\ f \in Unpacked
        <3> HIDE DEF Extracted
        <3> QED
            BY <2>1, <2>2, InstallAssumption DEF TypeOK, Unpacked, Present
    <2>4. Unpacked \in SUBSET File
        BY <2>1, InstallAssumption DEF Unpacked, Linkage
    <2>5. Cardinality(Unpacked)' = Cardinality(Unpacked) - 1
        BY <2>3, <2>4, Count
    <2> HIDE DEF Unpacked
    <2> QED
        BY <1>1, <2>1, <2>5 DEF StepsLeft
<1>6. ASSUME NEW f \in File, InstallFile(f)
      PROVE  StepsLeft' < StepsLeft
    <2>1. /\ UNCHANGED <<pc, recipe, request>> /\ pc = "install"
          /\ f \in Installs[recipe][request.linkage] /\ prefix[f] # Built
          /\ prefix' = [prefix EXCEPT ![f] = Built]
        BY <1>6 DEF InstallFile, checkout, job
    <2>2. Built' = Built
        BY <2>1 DEF Built
    <2>3. recipe \in Recipe /\ request.linkage \in Linkage
        BY DEF TypeOK, Requests, Request
    <2>4. Uninstalled \in SUBSET File
        BY <2>3, InstallAssumption DEF Uninstalled
    <2>5. Uninstalled' = Uninstalled \ {f} /\ f \in Uninstalled
        <3> HIDE DEF Built
        <3> QED
            BY <2>1, <2>2, <2>3, InstallAssumption DEF TypeOK, Uninstalled
    <2>6. Cardinality(Uninstalled)' = Cardinality(Uninstalled) - 1
        BY <2>4, <2>5, Count
    <2> HIDE DEF Uninstalled
    <2> QED
        BY <1>1, <2>1, <2>6 DEF StepsLeft
<1> USE <1>1, <1>2, <1>3 DEF StepsLeft, Fallback, Longest, TryInv, Fetching
<1> HIDE DEF Stamps, Filled, Unpacked, Uninstalled, Files, Tries
<1>7. CASE FindPrebuilt
    BY <1>7 DEF FindPrebuilt, LockMatches, job
<1>8. CASE BeginArchive \/ ReceiveArchive
    BY <1>8 DEF BeginArchive, ReceiveArchive, job
<1>9. CASE LoseArchive \/ GiveUpArchive
    BY <1>9 DEF LoseArchive, GiveUpArchive
<1>10. CASE EndWipe \/ StampPrebuilt
    <2>1. UNCHANGED lock
        BY <1>10 DEF EndWipe, StampPrebuilt, checkout
    <2> QED
        BY <1>10, <2>1 DEF EndWipe, StampPrebuilt
<1>11. CASE StartBuild
    BY <1>11 DEF StartBuild, job
<1>12. CASE BeginSource \/ ReceiveSource
    BY <1>12 DEF BeginSource, ReceiveSource, job
<1>13. CASE LoseSource \/ GiveUpSource
    BY <1>13 DEF LoseSource, GiveUpSource
<1>14. CASE Compile \/ FailInstall \/ StampBuild
    BY <1>14 DEF Compile, FailInstall, StampBuild
<1>15. CASE Bind \/ Crash
    BY <1>15, PhaseAssumption DEF Bind, Crash, Phases
<1> QED
    BY <1>4, <1>5, <1>6, <1>7, <1>8, <1>9, <1>10, <1>11, <1>12, <1>13, <1>14,
       <1>15
    DEF Next, Step, FetchPrebuilt, BuildDep, Checkout, Configure

(* A configure of a library with finitely many files comes to an end after *)
(* a number of steps that is known beforehand, whatever it finds, whatever *)
(* the server sends and whichever way it takes: no failed download is      *)
(* tried again without being counted.                                      *)
THEOREM AlwaysEndsInTime ==
    ASSUME IsFiniteSet(File)
    PROVE  Spec => EndsInTime
<1>1. TypeOK /\ TryInv /\ ArchiveInv => StepsLeft \in 0 .. Longest
    BY StepsBound
<1>2. TypeOK /\ TryInv /\ [Next]_vars => TypeOK' /\ TryInv'
    BY TypeNext, TryNext
<1>3. TypeOK /\ TryInv /\ ArchiveInv /\ (TypeOK /\ TryInv /\ ArchiveInv)' /\ [Next]_vars
          => [pc # "idle" => StepsLeft' < StepsLeft]_vars
    BY StepsFall
<1> QED
    BY <1>1, <1>2, <1>3, TypeInit, TryInit, Archive, PTL DEF Spec, EndsInTime
=============================================================================
