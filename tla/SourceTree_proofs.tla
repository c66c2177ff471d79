-------------------------- MODULE SourceTree_proofs --------------------------
(***************************************************************************)
(* What holds of SourceTree for every set of recipes, entries and patches. *)
(***************************************************************************)
EXTENDS SourceTree, FiniteSetTheorems, TLAPS

USE DEF End, Goto, place, cache

LEMMA EntryType ==
    ASSUME NEW r \in Revision, NEW i \in DOMAIN Entries[r]
    PROVE  /\ Entries[r][i] \in Entry
           /\ Entries[r][i].sub \in Sub
           /\ Entries[r][i].pin \in Pin
           /\ Entries[r][i].name \in Basename
           /\ Entries[r][i].kind \in {"tarball", "git", "local"}
<1>1. Entries[r] \in Seq(Entry)
    BY EntryAssumption
<1>2. Entries[r][i] \in Entry
    BY <1>1
<1> QED
    BY <1>2 DEF Entry

LEMMA EntryIndex ==
    ASSUME NEW r \in Revision
    PROVE  /\ DOMAIN Entries[r] = 1 .. Len(Entries[r])
           /\ Len(Entries[r]) \in Nat
           /\ DOMAIN Patches[r] = 1 .. Len(Patches[r])
           /\ Len(Patches[r]) \in Nat
<1>1. Entries[r] \in Seq(Entry) /\ Patches[r] \in Seq(PatchEntry)
    BY EntryAssumption, PatchAssumption
<1> QED
    BY <1>1

LEMMA PatchType ==
    ASSUME NEW r \in Revision, NEW i \in DOMAIN Patches[r]
    PROVE  Patches[r][i].id \in Patch
<1>1. Patches[r] \in Seq(PatchEntry)
    BY PatchAssumption
<1>2. Patches[r][i] \in PatchEntry
    BY <1>1
<1> QED
    BY <1>2 DEF PatchEntry

LEMMA SubtreeType ==
    /\ NoSubtree \in Subtree /\ HalfSubtree \in Subtree
    /\ \A p \in Pin \cup {Absent, Partial} : [pin |-> p, patches |-> {}] \in Subtree
BY DEF NoSubtree, HalfSubtree, Subtree

(* Every variable keeps its type in every history of checkouts, populates  *)
(* and kills.                                                              *)
LEMMA TypeInit == Init => TypeOK
<1> SUFFICES ASSUME Init
             PROVE  TypeOK
    OBVIOUS
<1>1. tree \in [Sub -> Subtree]
    BY SubtreeType DEF Init
<1>2. clones \in [Sub -> {Absent} \cup SUBSET Pin]
    BY Zenon DEF Init
<1>3. stamp \in Revision \cup {Absent}
    BY DEF Init
<1>4. tarballs \in [Basename -> Pin \cup {Absent, Partial}]
    BY DEF Init
<1>5. at \in Nat \ {0} /\ attempt \in Nat
    BY DEF Init
<1> QED
    BY <1>1, <1>2, <1>3, <1>4, <1>5, Zenon DEF Init, TypeOK

(* While an entry is handled there is one, of the kind that is handled.    *)
AtEntry ==
    /\ pc \in {"receive", "extract"} => MoreEntries /\ Current.kind = "tarball"
    /\ pc \in {"checkout", "copy"} => MoreEntries /\ Current.kind = "git"

LEMMA AtEntryInit == Init => AtEntry
BY DEF Init, AtEntry

LEMMA CurrentType ==
    ASSUME TypeOK, MoreEntries
    PROVE  /\ at \in DOMAIN Entries[recipe]
           /\ Current.sub \in Sub
           /\ Current.pin \in Pin
           /\ Tarball \in Basename
<1>1. at \in DOMAIN Entries[recipe]
    BY EntryIndex DEF TypeOK, MoreEntries
<1> QED
    BY <1>1, EntryType DEF TypeOK, Current, Tarball

LEMMA AtEntryNext == TypeOK /\ AtEntry /\ [Next]_vars => AtEntry'
<1> SUFFICES ASSUME TypeOK, AtEntry, [Next]_vars
             PROVE  AtEntry'
    OBVIOUS
<1> USE DEF AtEntry, MoreEntries, Current
<1>1. CASE Checkout \/ Configure \/ Check \/ Remove \/ EndWipe
    BY <1>1 DEF Checkout, Configure, Check, Remove, EndWipe
<1>2. CASE PopulateTarball
    BY <1>2 DEF PopulateTarball, UseTarball, BeginTarball, ReceiveTarball,
                LoseTarball, GiveUpTarball, Extract, AtTarball
<1>3. CASE PopulateGit
    BY <1>3 DEF PopulateGit, Clone, UseClone, CheckoutPin, Copy, AtGit
<1>4. CASE EndEntries \/ ApplyPatch \/ Stamp \/ Crash
    BY <1>4 DEF EndEntries, ApplyPatch, Stamp, Crash
<1>5. CASE UNCHANGED vars
    BY <1>5 DEF vars
<1> QED
    BY <1>1, <1>2, <1>3, <1>4, <1>5 DEF Next, Step

LEMMA TypeNext == TypeOK /\ AtEntry /\ [Next]_vars => TypeOK'
<1> SUFFICES ASSUME TypeOK, AtEntry, [Next]_vars
             PROVE  TypeOK'
    OBVIOUS
<1> USE DEF TypeOK, Phases
<1>1. CASE Checkout \/ Configure \/ Check
    BY <1>1 DEF Checkout, Configure, Check
<1>2. CASE Remove
    <2>1. tree' \in [Sub -> Subtree]
        BY <1>2, SubtreeType DEF Remove
    <2>2. stamp' \in Revision \cup {Absent}
        BY <1>2 DEF Remove
    <2> QED
        BY <1>2, <2>1, <2>2 DEF Remove
<1>3. CASE EndWipe \/ EndEntries \/ UseTarball \/ UseClone
    BY <1>3 DEF EndWipe, EndEntries, UseTarball, UseClone
<1>4. CASE BeginTarball \/ LoseTarball \/ GiveUpTarball
    BY <1>4 DEF BeginTarball, LoseTarball, GiveUpTarball
<1>5. CASE ReceiveTarball
    <2>1. Current.pin \in Pin
        BY <1>5, CurrentType DEF ReceiveTarball, AtEntry
    <2> QED
        BY <1>5, <2>1 DEF ReceiveTarball
<1>6. CASE Extract
    <2>1. Tarball \in Basename
        BY <1>6, CurrentType DEF Extract, AtEntry
    <2>2. [pin |-> tarballs[Tarball], patches |-> {}] \in Subtree
        BY <2>1, SubtreeType
    <2> QED
        BY <1>6, <2>2 DEF Extract
<1>7. CASE Clone
    BY <1>7 DEF Clone
<1>8. CASE CheckoutPin
    BY <1>8, SubtreeType DEF CheckoutPin
<1>9. CASE Copy
    <2>a. Current.pin \in Pin
        BY <1>9, CurrentType DEF Copy, AtEntry
    <2>1. [pin |-> Current.pin, patches |-> {}] \in Subtree
        BY <2>a, SubtreeType
    <2>2. tree' \in [Sub -> Subtree]
        BY <1>9, <2>1 DEF Copy
    <2> QED
        BY <1>9, <2>2 DEF Copy
<1>10. CASE ApplyPatch
    <2>1. at \in DOMAIN Patches[recipe]
        BY <1>10, EntryIndex DEF ApplyPatch
    <2>2. Patches[recipe][at].id \in Patch
        BY <2>1, PatchType
    <2>3. ASSUME NEW s \in Sub
          PROVE  Patched(tree[s]) \in Subtree
        BY <2>2 DEF Subtree, Patched
    <2>4. tree' \in [Sub -> Subtree]
        BY <1>10, <2>3 DEF ApplyPatch
    <2> QED
        BY <1>10, <2>4 DEF ApplyPatch
<1>11. CASE Stamp
    BY <1>11 DEF Stamp
<1>12. CASE Crash
    <2>1. tree' \in [Sub -> Subtree]
        BY <1>12, SubtreeType DEF Crash
    <2>2. clones' \in [Sub -> {Absent} \cup SUBSET Pin]
        BY <1>12 DEF Crash
    <2> QED
        BY <1>12, <2>1, <2>2 DEF Crash
<1>13. CASE UNCHANGED vars
    BY <1>13 DEF vars
<1> QED
    BY <1>1, <1>2, <1>3, <1>4, <1>5, <1>6, <1>7, <1>8, <1>9, <1>10, <1>11,
       <1>12, <1>13 DEF Next, Step, PopulateTarball, PopulateGit

(* Type correctness of source delivery.                                    *)
THEOREM Typing == Spec => []TypeOK
<1>1. Init => TypeOK /\ AtEntry
    BY TypeInit, AtEntryInit
<1>2. (TypeOK /\ AtEntry) /\ [Next]_vars => (TypeOK /\ AtEntry)'
    BY TypeNext, AtEntryNext
<1> QED
    BY <1>1, <1>2, PTL DEF Spec

-----------------------------------------------------------------------------
(* The tree and its stamp, when no configure is killed while it wipes.     *)

(* One basename stands for one content in every revision.                  *)
NamesFixPins ==
    \A r1, r2 \in Revision :
        \A i \in DOMAIN Entries[r1], j \in DOMAIN Entries[r2] :
            /\ Entries[r1][i].kind = "tarball"
            /\ Entries[r2][j].kind = "tarball"
            /\ Entries[r1][i].name = Entries[r2][j].name
            => Entries[r1][i].pin = Entries[r2][j].pin

(* Then, without kills in a download, a tarball that exists is the one.    *)
Exact == NamesFixPins /\ "receive" \notin Phase

(* Entry e of r is in the tree, with the patches for it of the first n.    *)
EntryHeld(e, r, n) ==
    /\ tree[e.sub].pin # Absent
    /\ tree[e.sub].patches = PatchesFor(r, e.sub, n)
    /\ e.kind = "git" \/ Exact => tree[e.sub].pin = e.pin

NothingElse(r) == \A s \in Sub \ Subs(r) : tree[s] = NoSubtree

WholeTree(r, n) ==
    /\ \A i \in DOMAIN Entries[r] : EntryHeld(Entries[r][i], r, n)
    /\ NothingElse(r)

Handling == {"entry", "receive", "extract", "checkout", "copy"}

(* A stamp vouches for the tree of the recipe it names, and there is none  *)
(* while a tree is being made.                                             *)
StampSound ==
    /\ pc \in {"idle", "check"} /\ stamp # Absent =>
          WholeTree(stamp, Len(Patches[stamp]))
    /\ pc \in Handling \cup {"patch"} => stamp = Absent

EntriesSound ==
    pc \in Handling =>
        /\ at <= Len(Entries[recipe]) + 1
        /\ \A i \in DOMAIN Entries[recipe] :
              i < at => EntryHeld(Entries[recipe][i], recipe, 0)
        /\ NothingElse(recipe)

PatchesSound ==
    pc = "patch" =>
        at <= Len(Patches[recipe]) + 1 /\ WholeTree(recipe, at - 1)

CacheSound ==
    /\ pc = "extract" => tarballs[Tarball] # Absent
    /\ Exact =>
        \A r \in Revision : \A i \in DOMAIN Entries[r] :
            Entries[r][i].kind = "tarball" =>
                \/ tarballs[Entries[r][i].name] \in {Absent, Entries[r][i].pin}
                \/ pc = "receive" /\ Entries[r][i].name = Tarball

OutcomeSound ==
    outcome = "populated" =>
        pc = "idle" /\ WholeTree(recipe, Len(Patches[recipe]))

TreeInv ==
    /\ StampSound /\ EntriesSound /\ PatchesSound
    /\ CacheSound /\ OutcomeSound

LEMMA SubsType == ASSUME NEW r \in Revision PROVE Subs(r) \subseteq Sub
BY EntryType DEF Subs

LEMMA NoPatches ==
    ASSUME NEW r \in Revision, NEW s
    PROVE  PatchesFor(r, s, 0) = {}
BY EntryIndex DEF PatchesFor

LEMMA OneMorePatch ==
    ASSUME NEW r \in Revision, NEW s, NEW n \in DOMAIN Patches[r]
    PROVE  PatchesFor(r, s, n) =
              IF s = PatchDir(r, n)
              THEN PatchesFor(r, s, n - 1) \cup {Patches[r][n].id}
              ELSE PatchesFor(r, s, n - 1)
<1>1. {j \in DOMAIN Patches[r] : j <= n /\ PatchDir(r, j) = s}
        = IF s = PatchDir(r, n)
          THEN {j \in DOMAIN Patches[r] : j <= n - 1 /\ PatchDir(r, j) = s}
               \cup {n}
          ELSE {j \in DOMAIN Patches[r] : j <= n - 1 /\ PatchDir(r, j) = s}
    BY EntryIndex
<1> QED
    BY <1>1 DEF PatchesFor

(* The tree of a recipe only depends on what the signature is over.        *)
LEMMA SameTree ==
    ASSUME NEW a \in Revision, NEW b \in Revision, SameSources(a, b),
           WholeTree(a, Len(Patches[a]))
    PROVE  WholeTree(b, Len(Patches[b]))
<1>1. Entries[a] = Entries[b] /\ Patches[a] = Patches[b]
    BY DEF SameSources
<1>2. Subs(a) = Subs(b)
    BY <1>1 DEF Subs
<1>3. \A i : PatchDir(a, i) = PatchDir(b, i)
    BY <1>1, <1>2 DEF PatchDir
<1>4. \A s, n : PatchesFor(a, s, n) = PatchesFor(b, s, n)
    BY <1>1, <1>3 DEF PatchesFor
<1> QED
    BY <1>1, <1>2, <1>4 DEF WholeTree, EntryHeld, NothingElse

LEMMA TreeInit == Init => TreeInv
BY EntryType DEF Init, TreeInv, StampSound, EntriesSound, PatchesSound, CacheSound,
       OutcomeSound, Handling

(* What is cached is what its name stands for, whatever is wiped or killed *)
(* elsewhere: the cache does not depend on the tree.                       *)
LEMMA CacheNext == TypeOK /\ AtEntry /\ CacheSound /\ [Next]_vars => CacheSound'
<1> SUFFICES ASSUME TypeOK, AtEntry, CacheSound, [Next]_vars
             PROVE  CacheSound'
    OBVIOUS
<1> USE DEF CacheSound, TypeOK, AtEntry
<1>1. ASSUME tarballs' = tarballs, pc # "receive",
             pc' = "extract" => tarballs'[Tarball'] # Absent
      PROVE  CacheSound'
    BY <1>1
<1>2. CASE Checkout \/ Configure \/ Check \/ Remove \/ EndWipe \/ EndEntries
              \/ ApplyPatch \/ Stamp
    BY <1>1, <1>2 DEF Checkout, Configure, Check, Remove, EndWipe, EndEntries,
                      ApplyPatch, Stamp
<1>3. CASE PopulateGit
    BY <1>1, <1>3 DEF PopulateGit, Clone, UseClone, CheckoutPin, Copy, AtGit
<1>4. CASE UseTarball \/ GiveUpTarball \/ Extract
    BY <1>1, <1>4 DEF UseTarball, GiveUpTarball, Extract, AtTarball, Tarball, Current
<1>5. CASE BeginTarball \/ LoseTarball
    BY <1>5, EntryType DEF BeginTarball, LoseTarball, AtTarball, Tarball, Current
<1>6. CASE ReceiveTarball
    <2>1. UNCHANGED <<recipe, tree, stamp, at>> /\ pc' = "extract"
        BY <1>6 DEF ReceiveTarball
    <2>2. at \in DOMAIN Entries[recipe] /\ Current.pin \in Pin
              /\ Tarball \in Basename
        BY <1>6, CurrentType DEF ReceiveTarball
    <2>3. Exact =>
            \A r \in Revision : \A i \in DOMAIN Entries[r] :
                Entries[r][i].kind = "tarball" /\ Entries[r][i].name = Tarball
                    => Entries[r][i].pin = Current.pin
        BY <1>6, <2>2 DEF ReceiveTarball, Exact, NamesFixPins, Current, Tarball
    <2>4. tarballs' = [tarballs EXCEPT ![Tarball] = Current.pin]
        BY <1>6 DEF ReceiveTarball
    <2>5. Tarball' = Tarball
        BY <2>1 DEF Tarball, Current
    <2>6. tarballs'[Tarball] = Current.pin /\ Current.pin # Absent
        BY <2>2, <2>4, ContentAssumption
    <2>7. ASSUME Exact, NEW r \in Revision, NEW i \in DOMAIN Entries[r],
                 Entries[r][i].kind = "tarball"
          PROVE  tarballs'[Entries[r][i].name] \in {Absent, Entries[r][i].pin}
        <3>1. CASE Entries[r][i].name = Tarball
            BY <2>3, <2>6, <2>7, <3>1
        <3>2. CASE Entries[r][i].name # Tarball
            BY <2>4, <2>7, <3>2, EntryType
        <3> QED
            BY <3>1, <3>2
    <2> QED
        BY <2>1, <2>5, <2>6, <2>7
<1>7. CASE Crash
    BY <1>7 DEF Crash, Exact
<1>8. CASE UNCHANGED vars
    BY <1>8 DEF vars, Tarball, Current
<1> QED
    BY <1>2, <1>3, <1>4, <1>5, <1>6, <1>7, <1>8 DEF Next, Step, PopulateTarball

(* Checking, wiping and patching.                                          *)
LEMMA TreeNextFrame ==
    ASSUME TypeOK, TreeInv,
           Checkout \/ Configure \/ Check \/ Remove \/ EndWipe \/ EndEntries
              \/ Stamp \/ UNCHANGED vars
    PROVE  TreeInv'
<1> USE DEF TreeInv, StampSound, EntriesSound, PatchesSound, CacheSound,
            OutcomeSound, Handling, TypeOK
<1>1. CASE Checkout
    BY <1>1 DEF Checkout, WholeTree, EntryHeld, NothingElse, Tarball, Current
<1>2. CASE Configure
    BY <1>2 DEF Configure, WholeTree, EntryHeld, NothingElse, Tarball, Current
<1>3. CASE Check
    <2>1. outcome' = "populated" => WholeTree(recipe, Len(Patches[recipe]))
        BY <1>3, SameTree DEF Check, Populated
    <2> QED
        BY <1>3, <2>1 DEF Check, WholeTree, EntryHeld, NothingElse, Tarball, Current
<1>4. CASE Remove
    BY <1>4 DEF Remove, Tarball, Current
<1>5. CASE EndWipe
    <2>1. \A s \in Sub : tree[s] = NoSubtree
        BY <1>5 DEF EndWipe, Wiped
    <2> QED
        BY <1>5, <2>1, EntryIndex
           DEF EndWipe, Wiped, EntryHeld, NothingElse, Tarball, Current
<1>6. CASE EndEntries
    <2>1. WholeTree(recipe, 0)
        BY <1>6, EntryIndex DEF EndEntries, MoreEntries, WholeTree
    <2>2. WholeTree(recipe, 0)'
        BY <1>6, <2>1 DEF EndEntries, WholeTree, EntryHeld, NothingElse
    <2>3. at' - 1 = 0
        BY <1>6 DEF EndEntries
    <2> QED
        BY <1>6, <2>2, <2>3, EntryIndex DEF EndEntries, Tarball, Current
<1>7. CASE Stamp
    <2>1. at - 1 = Len(Patches[recipe])
        BY <1>7, EntryIndex DEF Stamp, AllPatched
    <2>2. WholeTree(recipe, Len(Patches[recipe]))'
        BY <1>7, <2>1 DEF Stamp, WholeTree, EntryHeld, NothingElse
    <2> QED
        BY <1>7, <2>2 DEF Stamp, Tarball, Current
<1>8. CASE UNCHANGED vars
    BY <1>8 DEF vars, WholeTree, EntryHeld, NothingElse, Tarball, Current
<1> QED
    BY <1>1, <1>2, <1>3, <1>4, <1>5, <1>6, <1>7, <1>8

(* A tarball entry; every other entry has a directory of its own.          *)
LEMMA TreeNextTarball ==
    ASSUME TypeOK, AtEntry, TreeInv, PopulateTarball
    PROVE  TreeInv'
<1> USE DEF TreeInv, StampSound, EntriesSound, PatchesSound, CacheSound,
            OutcomeSound, Handling, TypeOK, AtEntry
<1>1. CASE UseTarball \/ GiveUpTarball
    BY <1>1 DEF UseTarball, GiveUpTarball, AtTarball, EntryHeld, NothingElse,
                Tarball, Current
<1>2. CASE BeginTarball \/ LoseTarball
    <2>1. UNCHANGED <<recipe, tree, stamp, at>> /\ pc' \in {"entry", "receive"}
        BY <1>2 DEF BeginTarball, LoseTarball
    <2>2. EntriesSound'
        BY <1>2, <2>1 DEF BeginTarball, LoseTarball, AtTarball, EntryHeld,
                          NothingElse
    <2>3. CacheSound'
        BY <1>2, EntryType DEF BeginTarball, LoseTarball, AtTarball, Tarball, Current
    <2>4. StampSound' /\ PatchesSound' /\ OutcomeSound'
        BY <1>2, <2>1 DEF BeginTarball, LoseTarball, AtTarball
    <2> QED
        BY <2>2, <2>3, <2>4
<1>3. CASE ReceiveTarball
    <2>1. UNCHANGED <<recipe, tree, stamp, at>> /\ pc' = "extract"
        BY <1>3 DEF ReceiveTarball
    <2>2. EntriesSound'
        BY <1>3, <2>1 DEF ReceiveTarball, EntryHeld, NothingElse
    <2>3. CacheSound'
        BY <1>3, CacheNext DEF Next, Step, PopulateTarball
    <2>4. StampSound' /\ PatchesSound' /\ OutcomeSound'
        BY <1>3, <2>1 DEF ReceiveTarball
    <2> QED
        BY <2>2, <2>3, <2>4
<1>4. CASE Extract
    <2>1. at \in DOMAIN Entries[recipe] /\ Current.sub \in Sub
              /\ Tarball \in Basename /\ Current.kind = "tarball"
        BY <1>4, CurrentType DEF Extract
    <2>2. CASE pc' = "idle" /\ tree' = tree
        BY <1>4, <2>2 DEF Extract, Tarball, Current, EntryHeld, NothingElse
    <2>3. CASE /\ tree' = [tree EXCEPT ![Current.sub] =
                              [pin |-> tarballs[Tarball], patches |-> {}]]
               /\ at' = at + 1
               /\ pc' = "entry"
               /\ outcome' = outcome
        <3>1. /\ tree'[Current.sub] = [pin |-> tarballs[Tarball], patches |-> {}]
              /\ UNCHANGED <<recipe, stamp, tarballs>>
            BY <1>4, <2>1, <2>3 DEF Extract
        <3>2. tarballs[Tarball] # Absent
            BY <1>4 DEF Extract
        <3>3. Exact => tarballs[Tarball] = Current.pin
            BY <1>4, <2>1, <3>2 DEF Extract, Tarball, Current
        <3>4. ASSUME NEW i \in DOMAIN Entries[recipe], i < at'
              PROVE  EntryHeld(Entries[recipe][i], recipe, 0)'
            <4>1. CASE i = at
                <5>1. Entries[recipe][i] = Current
                    BY <4>1 DEF Current
                <5>2. PatchesFor(recipe, Current.sub, 0) = {}
                    BY NoPatches
                <5>3. Current.kind # "git"
                    BY <2>1
                <5>4. PatchesFor(recipe', Current.sub, 0) = {}
                    BY <3>1, <5>2
                <5>5. /\ tree'[Current.sub].pin = tarballs[Tarball]
                      /\ tree'[Current.sub].patches = {}
                    BY <3>1
                <5>6. Entries[recipe'][i] = Current
                    BY <3>1, <5>1
                <5> QED
                    BY <3>2, <3>3, <5>3, <5>4, <5>5, <5>6 DEF EntryHeld, Exact
            <4>2. CASE i # at
                <5>1. i < at
                    BY <2>1, <2>3, <3>4, <4>2, EntryIndex
                <5>2. EntryHeld(Entries[recipe][i], recipe, 0)
                    BY <1>4, <5>1 DEF Extract
                <5>3. Entries[recipe][i].sub # Current.sub
                    BY <2>1, <4>2, EntryAssumption, EntryIndex DEF Current
                <5>4. tree'[Entries[recipe][i].sub] = tree[Entries[recipe][i].sub]
                    BY <2>3, <5>3, EntryType
                <5> QED
                    BY <3>1, <5>2, <5>4 DEF EntryHeld
            <4> QED
                BY <4>1, <4>2
        <3>5. NothingElse(recipe)'
            BY <1>4, <2>1, <2>3, <3>1 DEF Extract, NothingElse, Subs, Current
        <3>6. EntriesSound'
            BY <2>1, <2>3, <3>1, <3>4, <3>5, EntryIndex
        <3>7. CacheSound'
            BY <1>4, <2>3, <3>1 DEF Extract
        <3>8. StampSound' /\ PatchesSound' /\ OutcomeSound'
            BY <1>4, <2>3, <3>1 DEF Extract
        <3> QED
            BY <3>6, <3>7, <3>8
    <2> QED
        BY <1>4, <2>2, <2>3 DEF Extract
<1> QED
    BY <1>1, <1>2, <1>3, <1>4 DEF PopulateTarball

(* A git entry.                                                            *)
LEMMA TreeNextGit ==
    ASSUME TypeOK, AtEntry, TreeInv, PopulateGit
    PROVE  TreeInv'
<1> USE DEF TreeInv, StampSound, EntriesSound, PatchesSound, CacheSound,
            OutcomeSound, Handling, TypeOK, AtEntry
<1>1. CASE Clone \/ UseClone
    BY <1>1 DEF Clone, UseClone, AtGit, EntryHeld, NothingElse, Tarball, Current
<1>2. CASE CheckoutPin \/ Copy
    <2>1. at \in DOMAIN Entries[recipe] /\ Current.sub \in Sub
              /\ Current.pin \in Pin /\ Current.kind = "git"
        BY <1>2, CurrentType DEF CheckoutPin, Copy
    <2>2. UNCHANGED <<recipe, stamp, tarballs>>
        BY <1>2 DEF CheckoutPin, Copy
    <2>3. \A s \in Sub \ {Current.sub} : tree'[s] = tree[s]
        BY <1>2, <2>1 DEF CheckoutPin, Copy
    <2>4. ASSUME NEW i \in DOMAIN Entries[recipe], i < at
          PROVE  EntryHeld(Entries[recipe][i], recipe, 0)'
        <3>1. EntryHeld(Entries[recipe][i], recipe, 0)
            BY <1>2, <2>4 DEF CheckoutPin, Copy
        <3>a. i # at
            BY <2>1, <2>4, EntryIndex
        <3>2. Entries[recipe][i].sub # Current.sub
            BY <2>1, <3>a, EntryAssumption, EntryIndex DEF Current
        <3>3. tree'[Entries[recipe][i].sub] = tree[Entries[recipe][i].sub]
            BY <2>3, <3>2, EntryType
        <3> QED
            BY <2>2, <3>1, <3>3 DEF EntryHeld
    <2>5. NothingElse(recipe)'
        BY <1>2, <2>1, <2>2, <2>3
           DEF CheckoutPin, Copy, NothingElse, Subs, Current
    <2>6. CASE CheckoutPin
        <3>1. at' = at /\ pc' \in {"copy", "idle"} /\ outcome' # "populated"
            <4>1. outcome # "populated"
                BY <2>6 DEF CheckoutPin
            <4> QED
                BY <2>6, <4>1 DEF CheckoutPin
        <3>2. EntriesSound'
            BY <1>2, <2>2, <2>4, <2>5, <2>6, <3>1 DEF CheckoutPin
        <3>3. CacheSound'
            BY <2>2, <2>6, <3>1 DEF CheckoutPin
        <3>4. StampSound' /\ PatchesSound' /\ OutcomeSound'
            BY <2>2, <2>6, <3>1 DEF CheckoutPin
        <3> QED
            BY <3>2, <3>3, <3>4
    <2>7. CASE Copy
        <3>1. /\ tree'[Current.sub] = [pin |-> Current.pin, patches |-> {}]
              /\ at' = at + 1 /\ pc' = "entry" /\ outcome' = outcome
            BY <2>1, <2>7 DEF Copy
        <3>2. ASSUME NEW i \in DOMAIN Entries[recipe], i = at
              PROVE  EntryHeld(Entries[recipe][i], recipe, 0)'
            <4>1. PatchesFor(recipe', Current.sub, 0) = {}
                BY <2>2, NoPatches
            <4>2. Current.pin # Absent
                BY <2>1, ContentAssumption
            <4>3. Entries[recipe'][i] = Current
                BY <2>2, <3>2 DEF Current
            <4>4. /\ tree'[Current.sub].pin = Current.pin
                  /\ tree'[Current.sub].patches = {}
                BY <3>1
            <4> QED
                BY <4>1, <4>2, <4>3, <4>4 DEF EntryHeld, Exact
        <3>3. EntriesSound'
            <4>1. \A i \in DOMAIN Entries[recipe] :
                      i < at' => EntryHeld(Entries[recipe][i], recipe, 0)'
                <5>1. \A i \in DOMAIN Entries[recipe] : i < at' => i < at \/ i = at
                    BY <3>1, EntryIndex
                <5> QED
                    BY <2>4, <3>2, <5>1
            <4>2. at' <= Len(Entries[recipe']) + 1
                BY <2>1, <2>2, <3>1, EntryIndex
            <4> QED
                BY <2>2, <2>5, <4>1, <4>2
        <3>4. CacheSound'
            BY <2>2, <2>7, <3>1 DEF Copy
        <3>5. StampSound' /\ PatchesSound' /\ OutcomeSound'
            BY <2>2, <2>7, <3>1 DEF Copy
        <3> QED
            BY <3>3, <3>4, <3>5
    <2> QED
        BY <1>2, <2>6, <2>7
<1> QED
    BY <1>1, <1>2 DEF PopulateGit

(* One patch more.                                                         *)
LEMMA TreeNextPatch ==
    ASSUME TypeOK, TreeInv, ApplyPatch
    PROVE  TreeInv'
<1> USE DEF TreeInv, StampSound, EntriesSound, PatchesSound, CacheSound,
            OutcomeSound, Handling, TypeOK
<1>1. /\ at \in DOMAIN Patches[recipe]
      /\ UNCHANGED <<recipe, stamp, tarballs>>
      /\ WholeTree(recipe, at - 1)
    BY EntryIndex DEF ApplyPatch
<1>2. CASE pc' = "idle" /\ tree' = tree
    BY <1>1, <1>2 DEF ApplyPatch, EntryHeld, NothingElse
<1>3. CASE /\ tree[Target] # NoSubtree
           /\ tree' = [tree EXCEPT ![Target] = Patched(tree[Target])]
           /\ at' = at + 1
           /\ pc' = "patch"
           /\ outcome' = outcome
    <2>1. ASSUME NEW i \in DOMAIN Entries[recipe]
          PROVE  EntryHeld(Entries[recipe][i], recipe, at - 1)'
        <3> DEFINE s == Entries[recipe][i].sub
        <3>1. s \in Sub /\ EntryHeld(Entries[recipe][i], recipe, at - 1)
            BY <1>1, EntryType DEF WholeTree
        <3>2. tree'[s].pin = tree[s].pin
            BY <1>3, <3>1 DEF Patched
        <3>3. tree'[s].patches =
                  IF s = Target
                  THEN tree[s].patches \cup {Patches[recipe][at].id}
                  ELSE tree[s].patches
            BY <1>3, <3>1 DEF Patched
        <3>4. PatchesFor(recipe, s, at) =
                  IF s = PatchDir(recipe, at)
                  THEN PatchesFor(recipe, s, at - 1) \cup {Patches[recipe][at].id}
                  ELSE PatchesFor(recipe, s, at - 1)
            BY <1>1, OneMorePatch
        <3>5. tree'[s].patches = PatchesFor(recipe, s, at)
            BY <3>1, <3>3, <3>4 DEF EntryHeld, Target
        <3>6. at' - 1 = at
            BY <1>3
        <3> QED
            BY <1>1, <3>1, <3>2, <3>5, <3>6 DEF EntryHeld
    <2>2. NothingElse(recipe)'
        BY <1>1, <1>3 DEF WholeTree, NothingElse
    <2>3. WholeTree(recipe, at - 1)'
        BY <1>1, <2>1, <2>2 DEF WholeTree
    <2>4. PatchesSound'
        BY <1>1, <1>3, <2>3, EntryIndex
    <2>5. StampSound' /\ EntriesSound' /\ OutcomeSound' /\ CacheSound'
        BY <1>1, <1>3 DEF ApplyPatch
    <2> QED
        BY <2>4, <2>5
<1> QED
    BY <1>2, <1>3 DEF ApplyPatch

(* A kill outside of a wipe: the tree is abandoned, and has no stamp.      *)
LEMMA TreeNextCrash ==
    ASSUME TypeOK, TreeInv, "wipe" \notin Phase, Crash
    PROVE  TreeInv'
<1> USE DEF TreeInv, StampSound, EntriesSound, PatchesSound, CacheSound,
            OutcomeSound, Handling, TypeOK
<1>1. pc \in Phase /\ pc' = "idle" /\ outcome' = "none" /\ pc # "wipe"
          /\ UNCHANGED <<recipe, stamp, tarballs>>
    BY DEF Crash
<1>2. StampSound'
    <2>1. CASE pc = "check"
        BY <1>1, <2>1 DEF Crash, WholeTree, EntryHeld, NothingElse, AtGit
    <2>2. CASE pc # "check"
        BY <1>1, <2>2, PhaseAssumption DEF Phases
    <2> QED
        BY <2>1, <2>2
<1>3. CacheSound'
    BY <1>1 DEF Exact
<1> QED
    BY <1>1, <1>2, <1>3

LEMMA TreeNext ==
    ASSUME "wipe" \notin Phase
    PROVE  TypeOK /\ AtEntry /\ TreeInv /\ [Next]_vars => TreeInv'
BY TreeNextFrame, TreeNextTarball, TreeNextGit, TreeNextPatch, TreeNextCrash
   DEF Next, Step

LEMMA TreeAlways ==
    ASSUME "wipe" \notin Phase
    PROVE  Spec => [](TypeOK /\ AtEntry /\ TreeInv)
<1>1. Init => TypeOK /\ AtEntry /\ TreeInv
    BY TypeInit, AtEntryInit, TreeInit
<1>2. (TypeOK /\ AtEntry /\ TreeInv) /\ [Next]_vars
          => (TypeOK /\ AtEntry /\ TreeInv)'
    BY TypeNext, AtEntryNext, TreeNext
<1> QED
    BY <1>1, <1>2, PTL DEF Spec

(* If no configure is killed while it wipes, a populated tree has every    *)
(* subdirectory of its recipe with its own patches, and the git ones are   *)
(* at their pins, whatever the cache holds and whatever else is killed.    *)
THEOREM AlwaysWhole ==
    ASSUME "wipe" \notin Phase
    PROVE  Spec => []PopulatedIsWhole
<1>1. TypeOK /\ TreeInv => PopulatedIsWhole
    <2> SUFFICES ASSUME TypeOK, TreeInv, outcome = "populated", NEW s \in Sub
                 PROVE  /\ tree[s].patches = TreeOf(recipe)[s].patches
                        /\ tree[s] = NoSubtree <=> s \notin Subs(recipe)
                        /\ \A i \in DOMAIN Entries[recipe] :
                              Entries[recipe][i].sub = s
                                  /\ Entries[recipe][i].kind = "git"
                                  => tree[s].pin = Entries[recipe][i].pin
        BY DEF PopulatedIsWhole
    <2>1. WholeTree(recipe, Len(Patches[recipe])) /\ recipe \in Revision
        BY DEF TreeInv, OutcomeSound, TypeOK
    <2>2. CASE s \in Subs(recipe)
        <3>1. PICK i \in DOMAIN Entries[recipe] : Entries[recipe][i].sub = s
            BY <2>2 DEF Subs
        <3>2. EntryHeld(Entries[recipe][i], recipe, Len(Patches[recipe]))
            BY <2>1 DEF WholeTree
        <3>3. tree[s].patches = TreeOf(recipe)[s].patches
            BY <2>2, <3>1, <3>2 DEF EntryHeld, TreeOf
        <3>4. tree[s] # NoSubtree
            BY <3>1, <3>2 DEF EntryHeld, NoSubtree
        <3> QED
            BY <2>1, <2>2, <3>3, <3>4 DEF WholeTree, EntryHeld
    <2>3. CASE s \notin Subs(recipe)
        BY <2>1, <2>3 DEF WholeTree, NothingElse, TreeOf, Subs
    <2> QED
        BY <2>2, <2>3
<1> QED
    BY <1>1, TreeAlways, PTL

(* If moreover no basename stands for two contents and no configure is     *)
(* killed in a download, a populated tree is the one its recipe describes. *)
THEOREM AlwaysPinned ==
    ASSUME "wipe" \notin Phase, Exact
    PROVE  Spec => []PopulatedIsPinned
<1>1. TypeOK /\ TreeInv => PopulatedIsPinned
    <2> SUFFICES ASSUME TypeOK, TreeInv, outcome = "populated"
                 PROVE  tree = TreeOf(recipe)
        BY DEF PopulatedIsPinned
    <2>1. /\ WholeTree(recipe, Len(Patches[recipe])) /\ recipe \in Revision
          /\ tree \in [Sub -> Subtree]
        BY DEF TreeInv, OutcomeSound, TypeOK
    <2>2. ASSUME NEW s \in Sub
          PROVE  tree[s] = TreeOf(recipe)[s]
        <3>1. CASE s \in Subs(recipe)
            <4>1. PICK i \in DOMAIN Entries[recipe] : Entries[recipe][i].sub = s
                BY <3>1 DEF Subs
            <4>2. (CHOOSE j \in DOMAIN Entries[recipe] :
                      Entries[recipe][j].sub = s) = i
                BY <2>1, <4>1, EntryAssumption, EntryIndex
            <4>3. PinFor(recipe, s) = Entries[recipe][i].pin
                BY <4>2 DEF PinFor
            <4>4. EntryHeld(Entries[recipe][i], recipe, Len(Patches[recipe]))
                BY <2>1 DEF WholeTree
            <4>5. /\ tree[s].pin = PinFor(recipe, s)
                  /\ tree[s].patches = PatchesFor(recipe, s, Len(Patches[recipe]))
                BY <4>1, <4>3, <4>4 DEF EntryHeld
            <4>6. tree[s] = [pin |-> PinFor(recipe, s),
                             patches |-> PatchesFor(recipe, s, Len(Patches[recipe]))]
                BY <2>1, <4>5 DEF Subtree
            <4> QED
                BY <3>1, <4>6 DEF TreeOf
        <3>2. CASE s \notin Subs(recipe)
            BY <2>1, <3>2 DEF WholeTree, NothingElse, TreeOf
        <3> QED
            BY <3>1, <3>2
    <2>3. TreeOf(recipe) = [s \in Sub |-> TreeOf(recipe)[s]]
        BY DEF TreeOf
    <2> QED
        BY <2>1, <2>2, <2>3
<1> QED
    BY <1>1, TreeAlways, PTL

(* README.md has cached sources verified again before use, and the code    *)
(* asks only whether the file exists.  It comes to the same if no basename *)
(* stands for two contents and no configure is killed in a download, even  *)
(* with kills anywhere else.                                               *)
THEOREM VerifiedIfExact ==
    ASSUME Exact
    PROVE  Spec => []UsedIsVerified
<1>1. Init => TypeOK /\ AtEntry /\ CacheSound
    BY TypeInit, AtEntryInit, TreeInit DEF TreeInv
<1>2. (TypeOK /\ AtEntry /\ CacheSound) /\ [Next]_vars
          => (TypeOK /\ AtEntry /\ CacheSound)'
    BY TypeNext, AtEntryNext, CacheNext
<1>3. TypeOK /\ AtEntry /\ CacheSound => UsedIsVerified
    <2> SUFFICES ASSUME TypeOK, AtEntry, CacheSound, pc = "extract"
                 PROVE  tarballs[Tarball] = Current.pin
        BY DEF UsedIsVerified
    <2>1. MoreEntries /\ Current.kind = "tarball"
        BY DEF AtEntry
    <2>2. at \in DOMAIN Entries[recipe]
        BY <2>1, CurrentType
    <2> QED
        BY <2>1, <2>2 DEF CacheSound, TypeOK, Tarball, Current
<1> QED
    BY <1>1, <1>2, <1>3, PTL DEF Spec

-----------------------------------------------------------------------------
(* The application's view.                                                 *)

(* A running configure has no outcome yet.                                 *)
NoOutcomeYet == pc # "idle" => outcome = "none"

LEMMA NoOutcomeNext ==
    ASSUME TypeOK, NoOutcomeYet, [Next]_vars
    PROVE  NoOutcomeYet'
<1> USE DEF NoOutcomeYet
<1>1. CASE Checkout \/ Configure \/ Crash
    BY <1>1 DEF Checkout, Configure, Crash
<1>2. CASE Step
    <2>1. pc # "idle" /\ (pc' = "idle" \/ UNCHANGED outcome)
        BY <1>2 DEF Step, Check, Remove, EndWipe, PopulateTarball, UseTarball,
            BeginTarball, ReceiveTarball, LoseTarball, GiveUpTarball, Extract,
            AtTarball, PopulateGit, Clone, UseClone, CheckoutPin, Copy, AtGit,
            EndEntries, ApplyPatch, Stamp
    <2> QED
        BY <2>1
<1>3. CASE UNCHANGED vars
    BY <1>3 DEF vars
<1> QED
    BY <1>1, <1>2, <1>3 DEF Next

LEMMA DeliveryInit == Init => D!Init
BY DEF Init, D!Init, Status, Delivered

LEMMA DeliveryStep ==
    ASSUME TypeOK, TypeOK', NoOutcomeYet, PopulatedIsPinned, PopulatedIsPinned',
           [Next]_vars
    PROVE  [D!Next]_(D!vars)
<1> USE DEF NoOutcomeYet, Status
<1>0. outcome' \notin {"populated", "local"} => Delivered' = {}
    BY DEF Delivered
<1>1. CASE Checkout
    <2>1. D!Change
        BY <1>0, <1>1 DEF Checkout, D!Change, D!Resting, TypeOK
    <2> QED
        BY <2>1 DEF D!Next
<1>2. CASE Configure
    <2>1. D!Ask
        BY <1>0, <1>2 DEF Configure, D!Ask, D!Resting, TypeOK
    <2> QED
        BY <2>1 DEF D!Next
<1>3. ASSUME pc # "idle", UNCHANGED recipe,
             (pc' # "idle" /\ UNCHANGED outcome) \/ pc' = "idle"
      PROVE  [D!Next]_(D!vars)
    <2>1. Status = "working" /\ Delivered = {} /\ UNCHANGED TreeOf(recipe)
        BY <1>3 DEF Delivered
    <2>2. CASE pc' # "idle"
        BY <1>0, <1>3, <2>1, <2>2 DEF D!vars
    <2>3. CASE pc' = "idle" /\ outcome' \in {"populated", "local"}
        <3>1. Delivered' = {TreeOf(recipe)} /\ Status' = "bound"
            BY <1>3, <2>1, <2>3 DEF Delivered, PopulatedIsPinned
        <3> QED
            BY <2>1, <3>1 DEF D!Next, D!Finish, D!Deliver
    <2>4. CASE pc' = "idle" /\ outcome' \in {"missing", "failed"}
        BY <1>0, <1>3, <2>1, <2>4 DEF D!Next, D!Finish, D!Refuse
    <2>5. CASE pc' = "idle" /\ outcome' = "none"
        BY <1>0, <1>3, <2>1, <2>5 DEF D!Next, D!Finish, D!Abort
    <2> QED
        BY <1>3, <2>2, <2>3, <2>4, <2>5 DEF TypeOK
<1>4. CASE Step
    <2>1. pc # "idle" /\ UNCHANGED recipe /\ (pc' = "idle" \/ UNCHANGED outcome)
        BY <1>4 DEF Step, Check, Remove, EndWipe, PopulateTarball, UseTarball,
            BeginTarball, ReceiveTarball, LoseTarball, GiveUpTarball, Extract,
            AtTarball, PopulateGit, Clone, UseClone, CheckoutPin, Copy, AtGit,
            EndEntries, ApplyPatch, Stamp
    <2> QED
        BY <1>3, <2>1
<1>5. CASE Crash
    BY <1>3, <1>5, PhaseAssumption DEF Crash, Phases
<1>6. CASE UNCHANGED vars
    <2>1. UNCHANGED <<TreeOf(recipe), Status, Delivered>>
        BY <1>6 DEF vars, Delivered
    <2> QED
        BY <2>1 DEF D!vars
<1> QED
    BY <1>1, <1>2, <1>4, <1>5, <1>6 DEF Next

(* Every step of source delivery is one that Delivery allows, or none, so  *)
(* that an application can rely on Delivery for trees as for prefixes.     *)
THEOREM Implements ==
    ASSUME "wipe" \notin Phase, Exact
    PROVE  Spec => DeliversSafely
<1>1. Spec => []TypeOK
    BY Typing
<1>2. Spec => []PopulatedIsPinned
    BY AlwaysPinned
<1>3. Init => NoOutcomeYet
    BY DEF Init, NoOutcomeYet
<1>4. TypeOK /\ NoOutcomeYet /\ [Next]_vars => NoOutcomeYet'
    BY NoOutcomeNext
<1>5. TypeOK /\ TypeOK' /\ NoOutcomeYet /\ PopulatedIsPinned
          /\ PopulatedIsPinned' /\ [Next]_vars => [D!Next]_(D!vars)
    BY DeliveryStep
<1> QED
    BY <1>1, <1>2, <1>3, <1>4, <1>5, DeliveryInit, PTL
    DEF Spec, DeliversSafely, D!SafeSpec

-----------------------------------------------------------------------------
(* A configure that repeats one which populated the tree.                  *)

(* What the recipe says of itself lets it be populated.                    *)
Deliverable ==
    ~Malformed(recipe) /\ ~Local(recipe) /\ ~Unplaced(recipe)

RepeatInv ==
    /\ outcome # "none" => pc = "idle"
    /\ pc \notin {"idle", "check"} => Deliverable
    /\ outcome = "populated" \/ (again /\ pc = "check")
           => Deliverable /\ Populated(recipe)
    /\ NotRepopulated

LEMMA RepeatNext == TypeOK /\ RepeatInv /\ [Next]_vars => RepeatInv'
<1> SUFFICES ASSUME TypeOK, RepeatInv, [Next]_vars
             PROVE  RepeatInv'
    OBVIOUS
<1> USE DEF RepeatInv, NotRepopulated
<1>1. CASE Checkout
    BY <1>1 DEF Checkout
<1>2. CASE Configure
    <2>1. again' => outcome = "populated"
        BY <1>2, Zenon DEF Configure
    <2>2. UNCHANGED <<recipe, stamp>> /\ pc' = "check" /\ outcome' = "none"
        BY <1>2 DEF Configure
    <2>3. (Deliverable /\ Populated(recipe))' <=> Deliverable /\ Populated(recipe)
        BY <2>2 DEF Deliverable, Malformed, Local, Unplaced, Populated
    <2> QED
        BY <2>1, <2>2, <2>3
<1>3. ASSUME UNCHANGED <<recipe, stamp, again>>,
             pc' \notin {"idle", "check"} => Deliverable,
             outcome' = "populated" => Deliverable /\ Populated(recipe),
             outcome' # "none" => pc' = "idle",
             again => pc' \in {"idle", "check"},
             pc' = "check" => pc = "check"
      PROVE  RepeatInv'
    <2>1. Deliverable' = Deliverable /\ Populated(recipe)' = Populated(recipe)
        BY <1>3 DEF Deliverable, Malformed, Local, Unplaced, Populated
    <2> QED
        BY <1>3, <2>1
<1>4. CASE Check
    BY <1>3, <1>4 DEF Check, Deliverable
<1>5. CASE Remove
    <2>1. UNCHANGED <<recipe, pc, outcome, again>> /\ pc = "wipe"
        BY <1>5 DEF Remove
    <2>2. Deliverable'
        BY <2>1 DEF Deliverable, Malformed, Local, Unplaced
    <2> QED
        BY <2>1, <2>2
<1>6. CASE EndWipe \/ PopulateTarball \/ PopulateGit \/ EndEntries \/ ApplyPatch
    <2>1. /\ UNCHANGED <<recipe, stamp, again>>
          /\ pc \notin {"idle", "check"} /\ pc' # "check"
          /\ outcome' \in {outcome, "failed"}
          /\ pc' # "idle" => outcome' = outcome
          /\ outcome' = "failed" => pc' = "idle" \/ outcome = "failed"
        BY <1>6 DEF EndWipe, PopulateTarball, UseTarball, BeginTarball,
           ReceiveTarball, LoseTarball, GiveUpTarball, Extract, AtTarball,
           PopulateGit, Clone, UseClone, CheckoutPin, Copy, AtGit,
           EndEntries, ApplyPatch
    <2> QED
        BY <1>3, <2>1
<1>7. CASE Stamp
    <2>1. /\ pc = "patch" /\ pc' = "idle" /\ stamp' = recipe
          /\ UNCHANGED <<recipe, again>>
        BY <1>7 DEF Stamp
    <2>2. Deliverable'
        BY <2>1 DEF Deliverable, Malformed, Local, Unplaced
    <2>3. Populated(recipe)'
        BY <2>1, RevisionAssumption DEF Populated, SameSources, TypeOK
    <2> QED
        BY <2>1, <2>2, <2>3
<1>8. CASE Crash
    <2>1. UNCHANGED <<recipe, stamp, again>> /\ pc' = "idle" /\ outcome' = "none"
        BY <1>8 DEF Crash
    <2> QED
        BY <1>3, <2>1
<1>9. CASE UNCHANGED vars
    BY <1>3, <1>9 DEF vars
<1> QED
    BY <1>1, <1>2, <1>4, <1>5, <1>6, <1>7, <1>8, <1>9 DEF Next, Step

(* Whatever the caches hold and wherever configures are killed, one that   *)
(* repeats a successful populate leaves the tree alone.                    *)
THEOREM NeverRepopulated == Spec => []NotRepopulated
<1>1. Init => TypeOK /\ AtEntry /\ RepeatInv
    BY TypeInit, AtEntryInit DEF Init, RepeatInv, NotRepopulated
<1>2. TypeOK /\ AtEntry /\ RepeatInv /\ [Next]_vars
          => (TypeOK /\ AtEntry /\ RepeatInv)'
    BY TypeNext, AtEntryNext, RepeatNext
<1>3. RepeatInv => NotRepopulated
    BY DEF RepeatInv
<1> QED
    BY <1>1, <1>2, <1>3, PTL DEF Spec

-----------------------------------------------------------------------------
(* How long a populate can take.                                           *)
Tries == Attempts * Urls

(* Failed downloads are counted, and no entry and no patch is skipped.     *)
CountInv ==
    /\ attempt =< Tries
    /\ pc = "receive" => attempt < Tries
    /\ pc \in Handling => at =< Len(Entries[recipe]) + 1
    /\ pc = "patch" => at =< Len(Patches[recipe]) + 1

Filled == {s \in Sub : tree[s] # NoSubtree}
Unspoilt == {s \in Sub : tree[s] \notin {NoSubtree, HalfSubtree}}

(* A subdirectory is removed at once or in two steps.                      *)
WipeLeft ==
    Cardinality(Filled) + Cardinality(Unspoilt) + (IF stamp = Absent THEN 0 ELSE 1)

(* What n entries and then all the patches take, at most.                  *)
EntriesLeft(n) == 2 * Tries + Len(Patches[recipe]) + 2 + (2 * Tries + 3) * n

Unhandled == EntriesLeft(Len(Entries[recipe]) + 1 - at)

Longest == EntriesLeft(Len(Entries[recipe])) + 2 * Cardinality(Sub) + 3

(* The steps that a populate may still take.                               *)
StepsLeft ==
    IF pc = "idle" THEN 0
    ELSE IF pc = "patch" THEN Len(Patches[recipe]) + 2 - at
    ELSE IF pc = "copy" THEN Unhandled - 2 * Tries - 2
    ELSE IF pc \in {"extract", "checkout"} THEN Unhandled - 2 * Tries - 1
    ELSE IF pc = "receive" THEN Unhandled - 2 * attempt - 1
    ELSE IF pc = "entry" THEN Unhandled - 2 * attempt
    ELSE IF pc = "wipe" THEN EntriesLeft(Len(Entries[recipe])) + 1 + WipeLeft
    ELSE Longest

(* A started populate comes to its end, and the longest one, in which each *)
(* tarball fails as often as it may, is known from the recipe.             *)
EndsInTime ==
    /\ [](StepsLeft \in 0 .. Longest)
    /\ [][pc # "idle" => StepsLeft' < StepsLeft]_vars

LEMMA TriesNat == Tries \in Nat
BY FetchAssumption DEF Tries

LEMMA CountInit == Init => CountInv
BY TriesNat DEF Init, CountInv, Handling

LEMMA CountNext == TypeOK /\ AtEntry /\ CountInv /\ [Next]_vars => CountInv'
<1> SUFFICES ASSUME TypeOK, AtEntry, CountInv, [Next]_vars
             PROVE  CountInv'
    OBVIOUS
<1>1. /\ Tries \in Nat /\ attempt \in Nat /\ at \in Nat \ {0}
      /\ Len(Entries[recipe]) \in Nat /\ Len(Patches[recipe]) \in Nat
    BY TriesNat, EntryIndex DEF TypeOK
<1> USE <1>1 DEF CountInv, Handling, MoreEntries
<1>2. CASE Checkout \/ Configure \/ Check \/ Remove \/ EndWipe
    BY <1>2 DEF Checkout, Configure, Check, Remove, EndWipe
<1>3. CASE UseTarball \/ ReceiveTarball \/ GiveUpTarball \/ LoseTarball
    BY <1>3 DEF UseTarball, ReceiveTarball, GiveUpTarball, LoseTarball, AtTarball
<1>4. CASE BeginTarball
    <2>1. attempt < Tries
        BY <1>4 DEF BeginTarball, Tries
    <2> QED
        BY <1>4, <2>1 DEF BeginTarball, AtTarball
<1>5. CASE Extract
    BY <1>5 DEF Extract, AtEntry
<1>6. CASE Clone \/ UseClone \/ CheckoutPin \/ Copy
    BY <1>6 DEF Clone, UseClone, CheckoutPin, Copy, AtEntry, AtGit
<1>7. CASE EndEntries \/ ApplyPatch \/ Stamp \/ Crash
    BY <1>7 DEF EndEntries, ApplyPatch, Stamp, Crash
<1>8. CASE UNCHANGED vars
    BY <1>8 DEF vars
<1> QED
    BY <1>2, <1>3, <1>4, <1>5, <1>6, <1>7, <1>8
    DEF Next, Step, PopulateTarball, PopulateGit

(* An entry that is done leaves less, by more than its downloads can take. *)
LEMMA EntriesFall ==
    ASSUME Tries \in Nat, Len(Patches[recipe]) \in Nat
    PROVE  /\ EntriesLeft(0) = 2 * Tries + Len(Patches[recipe]) + 2
           /\ \A n \in Nat : EntriesLeft(n) \in Nat
           /\ \A n \in Nat : EntriesLeft(n) >= EntriesLeft(0)
           /\ \A n \in Nat \ {0} : EntriesLeft(n) = EntriesLeft(n - 1) + 2 * Tries + 3
           /\ \A m, n \in Nat : m =< n => EntriesLeft(m) =< EntriesLeft(n)
<1> DEFINE W == 2 * Tries + 3
           L == Len(Patches[recipe])
           C == 2 * Tries + L + 2
<1>1. W \in Nat /\ C \in Nat
    <2> HIDE DEF L
    <2>1. L \in Nat
        BY DEF L
    <2> QED
        BY <2>1
<1>2. \A n : EntriesLeft(n) = C + W * n
    BY DEF EntriesLeft
<1> HIDE DEF W
<1>3. \A n \in Nat : W * n \in Nat
    BY <1>1
<1>4. ASSUME NEW n \in Nat \ {0}
      PROVE  W * n = W * (n - 1) + W /\ n - 1 \in Nat
    BY <1>1
<1>5. ASSUME NEW m \in Nat, NEW n \in Nat, m =< n
      PROVE  W * m =< W * n
    BY <1>1, <1>5
<1> HIDE DEF C
<1>6. EntriesLeft(0) = C
    BY <1>1, <1>2
<1>7. \A n \in Nat : EntriesLeft(n) \in Nat /\ EntriesLeft(n) >= EntriesLeft(0)
    BY <1>1, <1>2, <1>3, <1>6
<1>8. ASSUME NEW n \in Nat \ {0}
      PROVE  EntriesLeft(n) = EntriesLeft(n - 1) + W
    <2>1. W * n \in Nat /\ W * (n - 1) \in Nat
        BY <1>3, <1>4
    <2> QED
        BY <1>1, <1>2, <1>4, <2>1
<1>9. ASSUME NEW m \in Nat, NEW n \in Nat, m =< n
      PROVE  EntriesLeft(m) =< EntriesLeft(n)
    BY <1>1, <1>2, <1>3, <1>5, <1>9
<1>10. ASSUME NEW n \in Nat \ {0}
       PROVE  EntriesLeft(n) = EntriesLeft(n - 1) + 2 * Tries + 3
    <2>1. EntriesLeft(n - 1) \in Nat
        BY <1>4, <1>7
    <2> QED
        BY <1>8, <2>1 DEF W
<1> QED
    BY <1>6, <1>7, <1>9, <1>10 DEF C

(* What is still to be removed, of a finite tree.                          *)
LEMMA WipeBound ==
    ASSUME IsFiniteSet(Sub)
    PROVE  /\ Cardinality(Sub) \in Nat
           /\ \A S \in SUBSET Sub :
                 /\ Cardinality(S) \in 0 .. Cardinality(Sub)
                 /\ \A s \in S : Cardinality(S \ {s}) = Cardinality(S) - 1
BY FS_Subset, FS_CardinalityType, FS_RemoveElement

(* What the measure is made of, while a configure runs.                    *)
LEMMA Measured ==
    ASSUME TypeOK, AtEntry, CountInv, IsFiniteSet(Sub)
    PROVE  /\ Tries \in Nat /\ attempt \in 0 .. Tries /\ at \in Nat \ {0}
           /\ Len(Entries[recipe]) \in Nat /\ Len(Patches[recipe]) \in Nat
           /\ Cardinality(Sub) \in Nat
           /\ WipeLeft \in 0 .. 2 * Cardinality(Sub) + 1
           /\ EntriesLeft(Len(Entries[recipe])) \in Nat
           /\ pc \in Handling =>
                 /\ Unhandled \in 0 .. EntriesLeft(Len(Entries[recipe]))
                 /\ Unhandled >= 2 * Tries + Len(Patches[recipe]) + 2
           /\ pc \in {"receive", "extract", "checkout", "copy"} =>
                 Unhandled >= 4 * Tries + Len(Patches[recipe]) + 5
<1>1. /\ Tries \in Nat /\ attempt \in 0 .. Tries /\ at \in Nat \ {0}
      /\ Len(Entries[recipe]) \in Nat /\ Len(Patches[recipe]) \in Nat
    BY TriesNat, EntryIndex DEF TypeOK, CountInv
<1>2. WipeLeft \in 0 .. 2 * Cardinality(Sub) + 1 /\ Cardinality(Sub) \in Nat
    <2>1. Filled \in SUBSET Sub /\ Unspoilt \in SUBSET Sub
        BY DEF Filled, Unspoilt
    <2>2. /\ Cardinality(Filled) \in 0 .. Cardinality(Sub)
          /\ Cardinality(Unspoilt) \in 0 .. Cardinality(Sub)
          /\ Cardinality(Sub) \in Nat
        BY <2>1, WipeBound
    <2> QED
        BY <2>2 DEF WipeLeft
<1>3. pc \in Handling => Len(Entries[recipe]) + 1 - at \in 0 .. Len(Entries[recipe])
    BY <1>1 DEF CountInv
<1>4. pc \in {"receive", "extract", "checkout", "copy"} =>
          Len(Entries[recipe]) + 1 - at \in Nat \ {0}
    BY <1>1 DEF AtEntry, MoreEntries
<1>5. pc \in Handling =>
          /\ Unhandled \in 0 .. EntriesLeft(Len(Entries[recipe]))
          /\ Unhandled >= 2 * Tries + Len(Patches[recipe]) + 2
    <2> DEFINE n == Len(Entries[recipe]) + 1 - at
    <2> SUFFICES ASSUME pc \in Handling
                 PROVE  /\ Unhandled \in 0 .. EntriesLeft(Len(Entries[recipe]))
                        /\ Unhandled >= 2 * Tries + Len(Patches[recipe]) + 2
        OBVIOUS
    <2>1. n \in Nat /\ n =< Len(Entries[recipe])
        BY <1>1, <1>3
    <2>2. Unhandled = EntriesLeft(n)
        BY DEF Unhandled
    <2> HIDE DEF n
    <2>3. /\ EntriesLeft(n) \in Nat /\ EntriesLeft(n) =< EntriesLeft(Len(Entries[recipe]))
          /\ EntriesLeft(n) >= 2 * Tries + Len(Patches[recipe]) + 2
          /\ EntriesLeft(Len(Entries[recipe])) \in Nat
        BY <1>1, <2>1, EntriesFall
    <2> QED
        BY <2>2, <2>3
<1>6. ASSUME pc \in {"receive", "extract", "checkout", "copy"}
      PROVE  Unhandled >= 4 * Tries + Len(Patches[recipe]) + 5
    <2> DEFINE n == Len(Entries[recipe]) + 1 - at
    <2>1. n \in Nat \ {0}
        BY <1>4, <1>6
    <2> HIDE DEF n
    <2>a. n - 1 \in Nat
        BY <2>1
    <2>2. EntriesLeft(n) = EntriesLeft(n - 1) + 2 * Tries + 3
        BY <1>1, <2>1, EntriesFall
    <2>3. EntriesLeft(n - 1) \in Nat
          /\ EntriesLeft(n - 1) >= 2 * Tries + Len(Patches[recipe]) + 2
        BY <1>1, <2>a, EntriesFall
    <2>4. Unhandled = EntriesLeft(n)
        BY DEF Unhandled, n
    <2> DEFINE L == Len(Patches[recipe])
    <2>5. /\ L \in Nat /\ Tries \in Nat
          /\ EntriesLeft(n - 1) >= 2 * Tries + L + 2
        BY <1>1, <2>3
    <2> HIDE DEF L
    <2>6. Unhandled >= 4 * Tries + L + 5
        BY <2>2, <2>3, <2>4, <2>5
    <2> QED
        BY <2>6 DEF L
<1>7. EntriesLeft(Len(Entries[recipe])) \in Nat
    BY <1>1, EntriesFall
<1> QED
    BY <1>1, <1>2, <1>5, <1>6, <1>7

LEMMA StepsBound ==
    ASSUME TypeOK, AtEntry, CountInv, IsFiniteSet(Sub)
    PROVE  /\ StepsLeft \in 0 .. Longest
           /\ pc # "idle" => StepsLeft > 0
<1>1. pc = "patch" => at =< Len(Patches[recipe]) + 1
    BY DEF CountInv
<1>2. EntriesLeft(Len(Entries[recipe])) >= 2 * Tries + Len(Patches[recipe]) + 2
    BY Measured, EntriesFall
<1> DEFINE E == EntriesLeft(Len(Entries[recipe]))
           L == Len(Patches[recipe])
<1>3. /\ Tries \in Nat /\ attempt \in 0 .. Tries /\ at \in Nat \ {0} /\ L \in Nat
      /\ Cardinality(Sub) \in Nat /\ E \in Nat
      /\ WipeLeft \in 0 .. 2 * Cardinality(Sub) + 1
      /\ pc \in Handling => Unhandled \in 0 .. E /\ Unhandled >= 2 * Tries + L + 2
      /\ pc \in {"receive", "extract", "checkout", "copy"} =>
            Unhandled >= 4 * Tries + L + 5
    BY Measured
<1>4. Longest = E + 2 * Cardinality(Sub) + 3
    BY DEF Longest
<1>5. E >= 2 * Tries + L + 2
    BY <1>2
<1>6. pc = "wipe" => StepsLeft = E + 1 + WipeLeft
    BY DEF StepsLeft
<1>7. pc = "patch" => StepsLeft = L + 2 - at /\ at =< L + 1
    BY <1>1 DEF StepsLeft
<1> HIDE DEF E, L
<1>8. CASE pc \in {"wipe", "patch", "idle", "check"}
    BY <1>3, <1>4, <1>5, <1>6, <1>7, <1>8 DEF StepsLeft
<1>9. CASE pc = "entry"
    <2>1. StepsLeft = Unhandled - 2 * attempt /\ pc \in Handling
        BY <1>9 DEF StepsLeft, Handling
    <2> QED
        BY <1>3, <1>4, <2>1
<1>10. CASE pc \in {"receive", "extract", "checkout", "copy"}
    <2>1. /\ pc \in Handling
          /\ \/ StepsLeft = Unhandled - 2 * attempt - 1
             \/ StepsLeft = Unhandled - 2 * Tries - 1
             \/ StepsLeft = Unhandled - 2 * Tries - 2
        BY <1>10 DEF StepsLeft, Handling
    <2> QED
        BY <1>3, <1>4, <1>10, <2>1
<1> QED
    BY <1>8, <1>9, <1>10 DEF TypeOK, Phases

(* What the steps of a wipe, and the step after it, come to.               *)
LEMMA Less ==
    /\ \A e, v, w \in Int : v < w => e + 1 + v < e + 1 + w
    /\ \A e \in Int, v, w \in Nat : e - 2 * v < e + 1 + w
OBVIOUS

LEMMA StepsFall ==
    ASSUME TypeOK, TypeOK', AtEntry, AtEntry', CountInv, CountInv', IsFiniteSet(Sub),
           Next, pc # "idle"
    PROVE  StepsLeft' < StepsLeft
<1> DEFINE E == EntriesLeft(Len(Entries[recipe]))
           L == Len(Patches[recipe])
           LE == Len(Entries[recipe])
           S == Cardinality(Sub)
           Under == {"receive", "extract", "checkout", "copy"}
<1>1. /\ Tries \in Nat /\ attempt \in 0 .. Tries /\ at \in Nat \ {0}
      /\ L \in Nat /\ LE \in Nat /\ S \in Nat /\ E \in Nat
      /\ WipeLeft \in 0 .. 2 * S + 1
      /\ pc \in Handling => Unhandled \in 0 .. E /\ Unhandled >= 2 * Tries + L + 2
      /\ pc \in Under => Unhandled >= 4 * Tries + L + 5
    BY Measured
<1>2. attempt' \in Nat /\ at' \in Nat \ {0}
    BY DEF TypeOK
<1>3. E >= 2 * Tries + L + 2
    BY <1>1, EntriesFall
<1>4. CASE pc' = "idle"
    BY <1>4, StepsBound DEF StepsLeft
(* Within an entry, and from one to the next. *)
<1>5. ASSUME UNCHANGED <<recipe, at>>
      PROVE  Unhandled' = Unhandled
    BY <1>5 DEF Unhandled, EntriesLeft
<1>6. ASSUME UNCHANGED recipe, at' = at + 1, pc \in Under
      PROVE  Unhandled' = Unhandled - 2 * Tries - 3
    <2> DEFINE n == LE + 1 - at
    <2>1. n \in Nat \ {0}
        BY <1>1, <1>6 DEF AtEntry, MoreEntries
    <2>2. LE' + 1 - at' = n - 1
        <3>1. LE' = LE
            BY <1>6
        <3> HIDE DEF LE
        <3> QED
            BY <1>1, <1>6, <3>1
    <2>3. Unhandled = EntriesLeft(n) /\ Unhandled' = EntriesLeft(n - 1)
        BY <1>6, <2>2 DEF Unhandled, EntriesLeft
    <2> HIDE DEF n
    <2>a. n - 1 \in Nat
        BY <2>1
    <2>4. EntriesLeft(n) = EntriesLeft(n - 1) + 2 * Tries + 3
        BY <1>1, <2>1, EntriesFall
    <2>5. EntriesLeft(n - 1) \in Nat
        BY <1>1, <2>a, EntriesFall
    <2> QED
        BY <1>1, <2>3, <2>4, <2>5
<1> USE <1>1, <1>2, <1>3
<1> HIDE DEF E, L, LE, S, Under
<1>7. CASE Check /\ pc' = "wipe"
    <2>1. pc = "check" /\ UNCHANGED <<recipe, tree, stamp>>
        BY <1>7 DEF Check
    <2>2. WipeLeft' = WipeLeft /\ E' = E
        BY <2>1 DEF WipeLeft, Filled, Unspoilt, E, EntriesLeft
    <2>3. StepsLeft = E + 2 * S + 3
        BY <2>1 DEF StepsLeft, Longest, E, S
    <2>4. StepsLeft' = E' + 1 + WipeLeft'
        BY <1>7 DEF StepsLeft, E
    <2> QED
        BY <2>2, <2>3, <2>4
<1>8. CASE Remove
    <2>1. pc = "wipe" /\ pc' = "wipe" /\ UNCHANGED recipe
        BY <1>8 DEF Remove
    <2>2. WipeLeft' < WipeLeft /\ WipeLeft' \in Int
        <3> DEFINE F == Cardinality(Filled)
                   U == Cardinality(Unspoilt)
        <3>1. Filled \in SUBSET Sub /\ Unspoilt \in SUBSET Sub
              /\ Filled' \in SUBSET Sub /\ Unspoilt' \in SUBSET Sub
            BY DEF Filled, Unspoilt
        <3>2. F \in Nat /\ U \in Nat /\ F' \in Nat /\ U' \in Nat
            BY <3>1, WipeBound
        <3>3. CASE stamp # Absent /\ stamp' = Absent /\ UNCHANGED tree
            <4>1. F' = F /\ U' = U
                BY <3>3 DEF Filled, Unspoilt
            <4> QED
                BY <3>2, <3>3, <4>1 DEF WipeLeft
        <3>4. ASSUME NEW s \in Sub, tree[s] # NoSubtree, UNCHANGED stamp, tree' # tree,
                     \/ tree' = [tree EXCEPT ![s] = NoSubtree]
                     \/ tree' = [tree EXCEPT ![s] = HalfSubtree]
              PROVE  WipeLeft' < WipeLeft /\ WipeLeft' \in Int
            <4>1. tree \in [Sub -> Subtree] /\ NoSubtree # HalfSubtree
                BY ContentAssumption DEF TypeOK, NoSubtree, HalfSubtree
            <4>2. \A t \in Sub \ {s} : tree'[t] = tree[t]
                BY <3>4, <4>1
            <4>3. CASE tree'[s] = NoSubtree
                <5>1. Filled' = Filled \ {s} /\ s \in Filled
                    BY <3>4, <4>2, <4>3 DEF Filled
                <5>2. Unspoilt' = Unspoilt \ {s}
                    BY <4>2, <4>3 DEF Unspoilt
                <5>3. F' = F - 1 /\ U' =< U
                    <6>1. F' = F - 1
                        BY <3>1, <5>1, WipeBound
                    <6>2. CASE s \in Unspoilt
                        BY <3>1, <3>2, <5>2, <6>1, <6>2, WipeBound
                    <6>3. CASE s \notin Unspoilt
                        <7>1. Unspoilt' = Unspoilt
                            BY <5>2, <6>3
                        <7> QED
                            BY <3>2, <6>1, <7>1
                    <6> QED
                        BY <6>2, <6>3
                <5> QED
                    BY <3>2, <3>4, <5>3 DEF WipeLeft
            <4>4. CASE tree'[s] = HalfSubtree
                <5>1. tree[s] # HalfSubtree
                    BY <3>4, <4>1, <4>4
                <5>2. Unspoilt' = Unspoilt \ {s} /\ s \in Unspoilt
                    BY <3>4, <4>2, <4>4, <5>1 DEF Unspoilt
                <5>3. Filled' = Filled
                    BY <3>4, <4>1, <4>2, <4>4 DEF Filled
                <5>4. U' = U - 1 /\ F' = F
                    BY <3>1, <5>2, <5>3, WipeBound
                <5> QED
                    BY <3>2, <3>4, <5>4 DEF WipeLeft
            <4> QED
                BY <3>4, <4>1, <4>3, <4>4
        <3> QED
            BY <1>8, <3>3, <3>4 DEF Remove
    <2>3. E' = E
        BY <2>1 DEF E, EntriesLeft
    <2>4. StepsLeft = E + 1 + WipeLeft /\ StepsLeft' = E + 1 + WipeLeft'
        <3>1. StepsLeft' = E' + 1 + WipeLeft'
            BY <2>1 DEF StepsLeft, E
        <3> QED
            BY <2>1, <2>3, <3>1 DEF StepsLeft, E
    <2>5. E \in Int /\ WipeLeft \in Int
        OBVIOUS
    <2>6. E + 1 + WipeLeft' < E + 1 + WipeLeft
        BY <2>2, <2>5, Less
    <2> QED
        BY <2>4, <2>6
<1>9. CASE EndWipe
    <2>1. pc = "wipe" /\ pc' = "entry" /\ at' = 1 /\ UNCHANGED recipe
        BY <1>9 DEF EndWipe
    <2>2. LE + 1 - 1 = LE
        OBVIOUS
    <2>3. Unhandled' = E
        BY <2>1, <2>2 DEF Unhandled, EntriesLeft, E, LE
    <2>4. StepsLeft = E + 1 + WipeLeft
        BY <2>1 DEF StepsLeft, E
    <2>5. StepsLeft' = E - 2 * attempt'
        BY <2>1, <2>3 DEF StepsLeft
    <2>6. E \in Int /\ WipeLeft \in Nat /\ attempt' \in Nat
        OBVIOUS
    <2>7. E - 2 * attempt' < E + 1 + WipeLeft
        BY <2>6, Less, Zenon
    <2> QED
        BY <2>4, <2>5, <2>7
<1>10. CASE UseTarball \/ BeginTarball \/ ReceiveTarball \/ LoseTarball
            \/ (Clone /\ pc' = "checkout") \/ UseClone \/ (CheckoutPin /\ pc' = "copy")
    <2>1. UNCHANGED <<recipe, at>>
        BY <1>10 DEF UseTarball, BeginTarball, ReceiveTarball, LoseTarball, Clone,
                     UseClone, CheckoutPin
    <2>2. Unhandled' = Unhandled /\ (pc \in Handling => Unhandled \in Nat)
        BY <1>5, <2>1
    <2>3. CASE UseTarball \/ BeginTarball \/ (Clone /\ pc' = "checkout") \/ UseClone
        <3>1. /\ pc = "entry" /\ pc \in Handling /\ attempt' = attempt
              /\ pc' \in {"extract", "receive", "checkout"}
            BY <2>3 DEF UseTarball, BeginTarball, Clone, UseClone, AtTarball, AtGit,
                        Handling
        <3>2. StepsLeft = Unhandled - 2 * attempt
            BY <3>1 DEF StepsLeft
        <3>3. \/ StepsLeft' = Unhandled' - 2 * Tries - 1
              \/ StepsLeft' = Unhandled' - 2 * attempt - 1
            BY <3>1 DEF StepsLeft, Tries
        <3> QED
            BY <2>2, <3>1, <3>2, <3>3
    <2>4. CASE ReceiveTarball \/ LoseTarball
        <3>1. /\ pc = "receive" /\ pc \in Handling /\ attempt < Tries
              /\ \/ pc' = "extract"
                 \/ pc' = "entry" /\ attempt' = attempt + 1
            BY <2>4 DEF ReceiveTarball, LoseTarball, Handling, CountInv
        <3>2. StepsLeft = Unhandled - 2 * attempt - 1
            BY <3>1 DEF StepsLeft
        <3>3. \/ StepsLeft' = Unhandled' - 2 * Tries - 1
              \/ StepsLeft' = Unhandled' - 2 * (attempt + 1)
            BY <3>1 DEF StepsLeft, Tries
        <3> QED
            BY <2>2, <3>1, <3>2, <3>3
    <2>5. CASE CheckoutPin /\ pc' = "copy"
        <3>1. pc = "checkout" /\ pc \in Handling
            BY <2>5 DEF CheckoutPin, Handling
        <3>2. /\ StepsLeft = Unhandled - 2 * Tries - 1
              /\ StepsLeft' = Unhandled' - 2 * Tries - 2
            BY <2>5, <3>1 DEF StepsLeft, Tries
        <3> QED
            BY <2>2, <3>1, <3>2
    <2> QED
        BY <1>10, <2>3, <2>4, <2>5
<1>11. CASE (Extract \/ Copy) /\ pc' = "entry"
    <2>1. /\ UNCHANGED recipe /\ at' = at + 1 /\ pc \in {"extract", "copy"}
          /\ pc \in Under /\ pc \in Handling
        BY <1>11 DEF Extract, Copy, Under, Handling
    <2>2. Unhandled' = Unhandled - 2 * Tries - 3 /\ Unhandled \in Nat
        BY <1>6, <2>1
    <2>3. /\ \/ StepsLeft = Unhandled - 2 * Tries - 1
             \/ StepsLeft = Unhandled - 2 * Tries - 2
          /\ StepsLeft' = Unhandled' - 2 * attempt'
        BY <1>11, <2>1 DEF StepsLeft
    <2> QED
        BY <2>2, <2>3
<1>12. CASE EndEntries
    <2>1. pc = "entry" /\ pc \in Handling /\ pc' = "patch" /\ at' = 1 /\ UNCHANGED recipe
        BY <1>12 DEF EndEntries, Handling
    <2>2. StepsLeft = Unhandled - 2 * attempt
        BY <2>1 DEF StepsLeft
    <2>3. StepsLeft' = L + 2 - 1
        BY <2>1 DEF StepsLeft, L
    <2> QED
        BY <2>1, <2>2, <2>3
<1>13. CASE ApplyPatch /\ pc' = "patch"
    <2>1. pc = "patch" /\ at' = at + 1 /\ UNCHANGED recipe
        BY <1>13 DEF ApplyPatch
    <2>2. StepsLeft = L + 2 - at /\ StepsLeft' = L + 2 - at'
        BY <1>13, <2>1 DEF StepsLeft, L
    <2> QED
        BY <2>1, <2>2
<1> QED
    BY <1>4, <1>7, <1>8, <1>9, <1>10, <1>11, <1>12, <1>13
    DEF Next, Step, PopulateTarball, PopulateGit, Checkout, Configure, Check, Crash,
        GiveUpTarball, Clone, CheckoutPin, Extract, Copy, ApplyPatch, Stamp

(* A populate of a tree of finitely many subdirectories comes to an end    *)
(* after a number of steps that its recipe tells, whatever the caches hold,*)
(* whatever the servers send and wherever earlier configures were killed.  *)
THEOREM AlwaysEndsInTime ==
    ASSUME IsFiniteSet(Sub)
    PROVE  Spec => EndsInTime
<1>1. TypeOK /\ AtEntry /\ CountInv => StepsLeft \in 0 .. Longest
    BY StepsBound
<1>2. TypeOK /\ AtEntry /\ CountInv /\ [Next]_vars => (TypeOK /\ AtEntry /\ CountInv)'
    BY TypeNext, AtEntryNext, CountNext
<1>3. TypeOK /\ AtEntry /\ CountInv /\ (TypeOK /\ AtEntry /\ CountInv)' /\ [Next]_vars
          => [pc # "idle" => StepsLeft' < StepsLeft]_vars
    BY StepsFall
<1> QED
    BY <1>1, <1>2, <1>3, TypeInit, AtEntryInit, CountInit, PTL DEF Spec, EndsInTime
=============================================================================
