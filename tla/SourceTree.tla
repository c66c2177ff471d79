------------------------------ MODULE SourceTree ------------------------------
(***************************************************************************)
(* One dependency of DEP_KIND source and the tree it is delivered into:    *)
(* _extdeps_populate_source() in buildtools/resolve.cmake, over any number *)
(* of configure runs of one build tree and checkouts of any revision.      *)
(*                                                                         *)
(* A recipe lists source entries (a tarball or a git commit for a sub-     *)
(* directory of the tree) and patches.  The tree is rebuilt when their     *)
(* signature is not the one in `.populated`; tarballs and git clones are   *)
(* cached under <cache>/downloads/<name>, by basename and by subdirectory. *)
(*                                                                         *)
(* Content is what it was pinned as: a SHA-256 or a commit.  The signature *)
(* in `.populated` is represented by a revision with that signature.       *)
(***************************************************************************)
EXTENDS Integers, Sequences, FiniteSets

CONSTANTS
    Revision,   \* revisions of recipes/<name>/spec.cmake
    Sub,        \* subdirectories of the tree
    Basename,   \* last components of tarball URLs
    Pin,        \* SHA-256 sums and git commits
    Patch,      \* patch files, by content
    Absent,     \* no file, no tree, no clone, no directory prefix
    Partial,    \* the rest of a killed download or copy
    Entries,    \* revision -> DEP_SOURCES
    Patches,    \* revision -> DEP_PATCHES
    Attempts,   \* tries per URL, 3 in _bd_try_fetch
    Urls,       \* URLs of a tarball: upstream, and the mirror if any
    Phase       \* the phases of a configure in which it can be killed

(* An entry has four fields, or three as README.md writes a local one.     *)
Entry == [sub : Sub, kind : {"tarball", "git", "local"}, name : Basename,
          pin : Pin, fields : {3, 4}]

(* A patch may say which subdirectory it is for.                           *)
PatchEntry == [dir : Sub \cup {Absent}, id : Patch]

Phases == {"check", "wipe", "entry", "receive", "extract", "checkout", "copy",
           "patch"}

ASSUME ContentAssumption ==
    Absent # Partial /\ {Absent, Partial} \cap (Sub \cup Pin) = {}
ASSUME RevisionAssumption == Absent \notin Revision
ASSUME EntryAssumption ==
    /\ Entries \in [Revision -> Seq(Entry)]
    /\ \A r \in Revision : \A i, j \in 1 .. Len(Entries[r]) :
          Entries[r][i].sub = Entries[r][j].sub => i = j
ASSUME PatchAssumption == Patches \in [Revision -> Seq(PatchEntry)]
ASSUME FetchAssumption == Attempts \in Nat /\ Urls \in Nat
ASSUME PhaseAssumption == Phase \subseteq Phases

VARIABLES
    recipe,     \* the revision of the checkout
    tree,       \* local_path: what each subdirectory holds
    stamp,      \* local_path/.populated
    tarballs,   \* the cached tarballs, by basename
    clones,     \* the cached git clones: the commits each one knows
    pc,         \* where the running configure is
    at,         \* the entry or the patch it is at
    attempt,    \* downloads that failed so far, in _bd_try_fetch
    outcome,    \* how the last configure of this checkout ended
    again       \* is this configure a repetition of one that succeeded?

place == <<tree, stamp>>
cache == <<tarballs, clones>>
vars  == <<recipe, place, cache, pc, at, attempt, outcome, again>>

-----------------------------------------------------------------------------
Subtree == [pin : Pin \cup {Absent, Partial}, patches : SUBSET Patch]

NoSubtree == [pin |-> Absent, patches |-> {}]

HalfSubtree == [pin |-> Partial, patches |-> {}]

Subs(r) == {Entries[r][i].sub : i \in DOMAIN Entries[r]}

(* The only subdirectory is the default of every patch.                    *)
HasSole(r) == Cardinality(Subs(r)) = 1

PatchDir(r, i) ==
    IF Patches[r][i].dir # Absent THEN Patches[r][i].dir
    ELSE CHOOSE s \in Subs(r) : TRUE

(* The recipe's patches among the first n, for one subdirectory.           *)
PatchesFor(r, s, n) ==
    {Patches[r][i].id : i \in {j \in DOMAIN Patches[r] :
                                  j <= n /\ PatchDir(r, j) = s}}

SameSources_EntriesOnly(a, b) == Entries[a] = Entries[b]
(* The signature is over the entries and the patches with their content.   *)
SameSources(a, b) == Entries[a] = Entries[b] /\ Patches[a] = Patches[b]

Current == Entries[recipe][at]

MoreEntries == at <= Len(Entries[recipe])

End(how) == pc' = "idle" /\ outcome' = how

Goto(phase) == pc' = phase /\ UNCHANGED outcome

-----------------------------------------------------------------------------
Checkout ==
    /\ pc = "idle"
    /\ recipe' \in Revision
    /\ outcome' = "none"
    /\ UNCHANGED <<place, cache, pc, at, attempt, again>>

(* The first entry that is malformed or local decides alone.               *)
Malformed(r) ==
    \E i \in DOMAIN Entries[r] :
        /\ Entries[r][i].fields < 4
        /\ \A j \in 1 .. i - 1 : Entries[r][j].kind # "local"

Local(r) ==
    /\ ~Malformed(r)
    /\ \E i \in DOMAIN Entries[r] : Entries[r][i].kind = "local"

Unplaced(r) ==
    \E i \in DOMAIN Patches[r] : Patches[r][i].dir = Absent /\ ~HasSole(r)

Populated(r) == stamp # Absent /\ SameSources(stamp, r)

Configure ==
    /\ pc = "idle"
    /\ again' = (outcome = "populated")
    /\ pc' = "check"
    /\ outcome' = "none"
    /\ UNCHANGED <<recipe, place, cache, at, attempt>>

(* Everything up to the first write.  A local directory is used as it is,  *)
(* if it is there and has the right name.                                  *)
Check ==
    /\ pc = "check"
    /\ \/ Malformed(recipe) /\ End("failed")
       \/ Local(recipe) /\ (End("local") \/ End("missing"))
       \/ /\ ~Malformed(recipe) /\ ~Local(recipe)
          /\ \/ Unplaced(recipe) /\ End("failed")
             \/ ~Unplaced(recipe) /\ Populated(recipe) /\ End("populated")
             \/ ~Unplaced(recipe) /\ ~Populated(recipe) /\ Goto("wipe")
    /\ UNCHANGED <<recipe, place, cache, at, attempt, again>>

(* file(REMOVE_RECURSE local_path), file by file in an order of its own.   *)
Remove ==
    /\ pc = "wipe"
    /\ \/ \E s \in Sub :
             /\ tree[s] # NoSubtree
             /\ tree' \in {[tree EXCEPT ![s] = left] :
                              left \in {NoSubtree, HalfSubtree}}
             /\ tree' # tree
             /\ UNCHANGED stamp
       \/ stamp # Absent /\ stamp' = Absent /\ UNCHANGED tree
    /\ UNCHANGED <<recipe, cache, pc, at, attempt, outcome, again>>

Wiped_SubsOfRecipe ==
    stamp = Absent /\ \A s \in Subs(recipe) : tree[s] = NoSubtree
Wiped == stamp = Absent /\ \A s \in Sub : tree[s] = NoSubtree

EndWipe ==
    /\ pc = "wipe"
    /\ Wiped
    /\ at' = 1
    /\ Goto("entry")
    /\ UNCHANGED <<recipe, place, cache, attempt, again>>

-----------------------------------------------------------------------------
(* A tarball entry.                                                        *)

Tarball == Current.name

AtTarball == pc = "entry" /\ MoreEntries /\ Current.kind = "tarball"

(* A tarball that exists is not looked at again.                           *)
UseTarball ==
    /\ AtTarball
    /\ tarballs[Tarball] # Absent
    /\ Goto("extract")
    /\ UNCHANGED <<recipe, place, cache, at, attempt, again>>

BeginTarball ==
    /\ AtTarball
    /\ tarballs[Tarball] = Absent
    /\ attempt < Attempts * Urls
    /\ tarballs' = [tarballs EXCEPT ![Tarball] = Partial]
    /\ Goto("receive")
    /\ UNCHANGED <<recipe, place, clones, at, attempt, again>>

ReceiveTarball ==
    /\ pc = "receive"
    /\ tarballs' = [tarballs EXCEPT ![Tarball] = Current.pin]
    /\ attempt' = 0
    /\ Goto("extract")
    /\ UNCHANGED <<recipe, place, clones, at, again>>

LoseTarball_CountedDown ==
    /\ pc = "receive"
    /\ tarballs' = [tarballs EXCEPT ![Tarball] = Absent]
    /\ attempt' = attempt - 1
    /\ Goto("entry")
    /\ UNCHANGED <<recipe, place, clones, at, again>>

LoseTarball_Uncounted ==
    /\ pc = "receive"
    /\ tarballs' = [tarballs EXCEPT ![Tarball] = Absent]
    /\ Goto("entry")
    /\ UNCHANGED <<recipe, place, clones, at, attempt, again>>

(* An error status or the wrong SHA-256: the file is removed.              *)
LoseTarball ==
    /\ pc = "receive"
    /\ tarballs' = [tarballs EXCEPT ![Tarball] = Absent]
    /\ attempt' = attempt + 1
    /\ Goto("entry")
    /\ UNCHANGED <<recipe, place, clones, at, again>>

GiveUpTarball ==
    /\ AtTarball
    /\ tarballs[Tarball] = Absent
    /\ attempt >= Attempts * Urls
    /\ attempt' = 0
    /\ End("failed")
    /\ UNCHANGED <<recipe, place, cache, at, again>>

(* Unpacked beside the tree and renamed into it, so that the subdirectory  *)
(* is there as a whole or not at all.  A cut-off tarball is refused by the *)
(* extractor or yields something that nobody pinned.                       *)
Extract ==
    /\ pc = "extract"
    /\ \/ /\ tree' = [tree EXCEPT ![Current.sub] =
                         [pin |-> tarballs[Tarball], patches |-> {}]]
          /\ at' = at + 1
          /\ Goto("entry")
       \/ /\ tarballs[Tarball] = Partial
          /\ End("failed")
          /\ UNCHANGED <<tree, at>>
    /\ UNCHANGED <<recipe, stamp, cache, attempt, again>>

-----------------------------------------------------------------------------
(* A git entry.                                                            *)

AtGit == pc = "entry" /\ MoreEntries /\ Current.kind = "git"

Cloned == clones[Current.sub] # Absent

(* The new clone has the commits upstream had by then, the pinned one      *)
(* among them.  A failed clone leaves nothing.                             *)
Clone ==
    /\ AtGit
    /\ ~Cloned
    /\ \/ /\ \E commits \in SUBSET Pin :
                /\ Current.pin \in commits
                /\ clones' = [clones EXCEPT ![Current.sub] = commits]
          /\ Goto("checkout")
       \/ End("failed") /\ UNCHANGED clones
    /\ UNCHANGED <<recipe, place, tarballs, at, attempt, again>>

(* A clone that exists is not fetched into again.                          *)
UseClone ==
    /\ AtGit
    /\ Cloned
    /\ Goto("checkout")
    /\ UNCHANGED <<recipe, place, cache, at, attempt, again>>

(* git checkout of the pinned commit, and the start of the copy: after     *)
(* this step the subdirectory exists.                                      *)
CheckoutPin ==
    /\ pc = "checkout"
    /\ IF Current.pin \in clones[Current.sub]
       THEN /\ tree' = [tree EXCEPT ![Current.sub] = HalfSubtree]
            /\ Goto("copy")
       ELSE End("failed") /\ UNCHANGED tree
    /\ UNCHANGED <<recipe, stamp, cache, at, attempt, again>>

Copy ==
    /\ pc = "copy"
    /\ tree' = [tree EXCEPT ![Current.sub] =
                   [pin |-> Current.pin, patches |-> {}]]
    /\ at' = at + 1
    /\ Goto("entry")
    /\ UNCHANGED <<recipe, stamp, cache, attempt, again>>

-----------------------------------------------------------------------------
EndEntries ==
    /\ pc = "entry"
    /\ ~MoreEntries
    /\ at' = 1
    /\ Goto("patch")
    /\ UNCHANGED <<recipe, place, cache, attempt, again>>

Target == PatchDir(recipe, at)

Patched(t) ==
    [pin |-> t.pin, patches |-> t.patches \cup {Patches[recipe][at].id}]

(* git apply takes all of a patch or nothing.                              *)
ApplyPatch ==
    /\ pc = "patch"
    /\ at <= Len(Patches[recipe])
    /\ \/ /\ tree[Target] # NoSubtree
          /\ tree' = [tree EXCEPT ![Target] = Patched(@)]
          /\ at' = at + 1
          /\ Goto("patch")
       \/ End("failed") /\ UNCHANGED <<tree, at>>
    /\ UNCHANGED <<recipe, stamp, cache, attempt, again>>

AllPatched_ButLast == at >= Len(Patches[recipe])
AllPatched == at > Len(Patches[recipe])

Stamp_Forgotten ==
    /\ pc = "patch"
    /\ AllPatched
    /\ End("populated")
    /\ UNCHANGED <<recipe, place, cache, at, attempt, again>>

Stamp ==
    /\ pc = "patch"
    /\ AllPatched
    /\ stamp' = recipe
    /\ End("populated")
    /\ UNCHANGED <<recipe, tree, cache, at, attempt, again>>

(* The configure is killed: a subdirectory may be left half patched, and a *)
(* killed git leaves its lock or an empty repository behind, with which no *)
(* commit can be checked out any more.                                     *)
Crash ==
    /\ pc \in Phase
    /\ \/ UNCHANGED <<tree, clones>>
       \/ /\ pc = "patch" /\ at <= Len(Patches[recipe])
          /\ tree[Target] # NoSubtree
          /\ tree' = [tree EXCEPT ![Target] = HalfSubtree]
          /\ UNCHANGED clones
       \/ /\ (AtGit /\ ~Cloned) \/ pc = "checkout"
          /\ clones' = [clones EXCEPT ![Current.sub] = {}]
          /\ UNCHANGED tree
    /\ attempt' = 0
    /\ End("none")
    /\ UNCHANGED <<recipe, stamp, tarballs, at, again>>

-----------------------------------------------------------------------------
Init ==
    /\ recipe \in Revision
    /\ tree = [s \in Sub |-> NoSubtree]
    /\ stamp = Absent
    /\ tarballs = [n \in Basename |-> Absent]
    /\ clones = [s \in Sub |-> Absent]
    /\ pc = "idle"
    /\ at = 1
    /\ attempt = 0
    /\ outcome = "none"
    /\ again = FALSE

PopulateTarball ==
    \/ UseTarball
    \/ BeginTarball \/ ReceiveTarball \/ LoseTarball \/ GiveUpTarball
    \/ Extract

PopulateGit == Clone \/ UseClone \/ CheckoutPin \/ Copy

(* One step of the running configure. *)
Step ==
    \/ Check \/ Remove \/ EndWipe
    \/ PopulateTarball \/ PopulateGit \/ EndEntries
    \/ ApplyPatch \/ Stamp

Next == Checkout \/ Configure \/ Step \/ Crash

Spec == Init /\ [][Next]_vars

(* The operating system keeps running a started configure.                 *)
FairSpec == Spec /\ WF_vars(Step)

-----------------------------------------------------------------------------
TypeOK ==
    /\ recipe \in Revision
    /\ tree \in [Sub -> Subtree]
    /\ stamp \in Revision \cup {Absent}
    /\ tarballs \in [Basename -> Pin \cup {Absent, Partial}]
    /\ clones \in [Sub -> {Absent} \cup SUBSET Pin]
    /\ pc \in Phases \cup {"idle"}
    /\ at \in Nat \ {0}
    /\ attempt \in Nat
    /\ outcome \in {"none", "populated", "local", "missing", "failed"}
    /\ again \in BOOLEAN

(* The tree that a recipe describes: every subdirectory at its pin, with   *)
(* the patches for it, and nothing else.                                   *)
PinFor(r, s) ==
    Entries[r][CHOOSE i \in DOMAIN Entries[r] : Entries[r][i].sub = s].pin

TreeOf(r) ==
    [s \in Sub |->
        IF s \in Subs(r)
        THEN [pin |-> PinFor(r, s),
              patches |-> PatchesFor(r, s, Len(Patches[r]))]
        ELSE NoSubtree]

(* If no URL is re-used for other content and no configure dies while it   *)
(* downloads or wipes, a populated tree is the one of its recipe, over any *)
(* checkouts, failures and other kills: a signature that returns finds the *)
(* tree it was written for.                                                *)
PopulatedIsPinned == outcome = "populated" => tree = TreeOf(recipe)

(* Whatever the cache holds, a populated tree has every subdirectory of    *)
(* its recipe and no other, each with its own patches and no more, and the *)
(* git ones are at the pinned commit.                                      *)
PopulatedIsWhole ==
    outcome = "populated" =>
        \A s \in Sub :
            /\ tree[s].patches = TreeOf(recipe)[s].patches
            /\ tree[s] = NoSubtree <=> s \notin Subs(recipe)
            /\ \A i \in DOMAIN Entries[recipe] :
                  Entries[recipe][i].sub = s /\ Entries[recipe][i].kind = "git"
                      => tree[s].pin = Entries[recipe][i].pin

(* A configure that repeats a successful one touches nothing, so that the  *)
(* in-tree build that uses the sources is not invalidated.                 *)
NotRepopulated == again => pc \in {"idle", "check"}

(* What README.md says of the source cache: a cached tarball is verified   *)
(* again before it is used.                                                *)
UsedIsVerified == pc = "extract" => tarballs[Tarball] = Current.pin

-----------------------------------------------------------------------------
(* The application's view: Delivery, with trees for recipes.               *)
Status ==
    CASE pc # "idle" -> "working"
      [] pc = "idle" /\ outcome \in {"populated", "local"} -> "bound"
      [] pc = "idle" /\ outcome \in {"missing", "failed"} -> "failed"
      [] OTHER -> "idle"

(* A local directory is the developer's, and is what the recipe asks for.  *)
Delivered ==
    CASE outcome = "populated" -> {tree}
      [] outcome = "local" -> {TreeOf(recipe)}
      [] OTHER -> {}

D == INSTANCE Delivery
     WITH Recipe <- {TreeOf(r) : r \in Revision}, wanted <- TreeOf(recipe),
          status <- Status, delivered <- Delivered

(* Source delivery implements Delivery under the conditions of             *)
(* PopulatedIsPinned: the application is handed the tree of the recipe it  *)
(* has checked out or an error.                                            *)
DeliversSafely == D!SafeSpec

(* Every populate comes to an end, whatever the network does.              *)
PopulateEnds == D!Ends
=============================================================================
