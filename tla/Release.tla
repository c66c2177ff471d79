------------------------------ MODULE Release ------------------------------
(* The workflow that builds every dependency for every platform, publishes *)
(* the archives and the mirrored sources as a release, and pushes the lock *)
(* that names them.  Several runs of it, and commits of developers, share  *)
(* one branch and the releases of one repository.                          *)
(*                                                                         *)
(* A recipe is known by its content, which is what _bd_recipe_sig hashes;  *)
(* building a platform is the matter of Platform, using the lock that of   *)
(* Prefix, and a source that cannot be staged for the mirror is a failure. *)
EXTENDS Naturals, FiniteSets

CONSTANTS
    Dep,        \* the dependencies with a recipe
    DependsOn,  \* DEP_DEPENDS of each
    Platform,   \* the os and arch pairs of the matrix
    Content,    \* what a recipe may be
    Run,        \* the runs of the workflow
    MaxTime,    \* bound on the seconds that pass
    MaxRev,     \* bound on the commits of the branch
    None        \* no recipes: nothing built, nothing mirrored

ASSUME DependsAssumption == DependsOn \in [Dep -> SUBSET Dep]
ASSUME BoundsAssumption == MaxTime \in Nat /\ MaxRev \in Nat

Tag == 0..MaxTime
Recipes == [Dep -> Content]

ASSUME NoneAssumption == None \notin Recipes

\* An archive: its name has the content of its own recipe, its SHA-256 stands
\* for all that it was built from, and for the build.
Archive == [dep : Dep, platform : Platform, from : Recipes, run : Run]
Line == [archive : Archive, tag : Tag]

VARIABLES
    now,        \* the seconds of `date`
    head,       \* the branch: its newest commit
    stage,      \* how far a run is
    trigger,    \* the recipes of the commit that a run was dispatched for
    built,      \* what the jobs have built: the recipes of each archive set
    base,       \* the commit that the collector has checked out
    tag,        \* the tag of the collector's release
    released,   \* the tags that have a release
    assets,     \* the archives of each release
    mirror      \* the recipes whose sources each release has

vars == <<now, head, stage, trigger, built, base, tag, released, assets, mirror>>
published == <<released, assets, mirror>>

Stages == {"idle", "building", "collecting", "tagged", "created",
           "uploaded", "pushed", "failed"}
Publishing == {"collecting", "tagged", "created", "uploaded"}

Commit == [rev : 0..MaxRev, recipes : Recipes, lock : SUBSET Line]

Init ==
    /\ now = 0
    /\ head \in [rev : {0}, recipes : Recipes, lock : {{}}]
    /\ stage = [r \in Run |-> "idle"]
    /\ trigger = [r \in Run |-> head.recipes]
    /\ built = [r \in Run |-> [p \in Platform |-> None]]
    /\ base = [r \in Run |-> [rev |-> 0, recipes |-> head.recipes]]
    /\ tag = [r \in Run |-> 0]
    /\ released = {}
    /\ assets = [t \in Tag |-> {}]
    /\ mirror = [t \in Tag |-> None]

-----------------------------------------------------------------------------
(* The surroundings: time, and developers who push recipes.                *)
Tick ==
    /\ now < MaxTime
    /\ now' = now + 1
    /\ UNCHANGED <<head, stage, trigger, built, base, tag, published>>

Edit(d, c) ==
    /\ head.rev < MaxRev
    /\ c # head.recipes[d]
    /\ head' = [head EXCEPT !.rev = @ + 1, !.recipes = [@ EXCEPT ![d] = c]]
    /\ UNCHANGED <<now, stage, trigger, built, base, tag, published>>

-----------------------------------------------------------------------------
(* The jobs of the matrix.  All check out the commit of the dispatch.      *)
Dispatch(r) ==
    /\ stage[r] = "idle"
    /\ stage' = [stage EXCEPT ![r] = "building"]
    /\ trigger' = [trigger EXCEPT ![r] = head.recipes]
    /\ UNCHANGED <<now, head, built, base, tag, published>>

Build_AtHead(r, p) ==
    /\ stage[r] = "building"
    /\ built[r][p] = None
    /\ built' = [built EXCEPT ![r][p] = head.recipes]
    /\ UNCHANGED <<now, head, stage, trigger, base, tag, published>>

Build(r, p) ==
    /\ stage[r] = "building"
    /\ built[r][p] = None
    /\ built' = [built EXCEPT ![r][p] = trigger[r]]
    /\ UNCHANGED <<now, head, stage, trigger, base, tag, published>>

Fail(r) ==
    /\ stage' = [stage EXCEPT ![r] = "failed"]
    /\ UNCHANGED <<now, head, trigger, built, base, tag, published>>

\* The other jobs go on, but nothing collects what they build.
BuildFails(r) ==
    /\ stage[r] = "building"
    /\ \E p \in Platform : built[r][p] = None
    /\ Fail(r)

-----------------------------------------------------------------------------
(* The collector, which checks out the branch as it is by then.            *)
AllBuilt_Any(r) == \E p \in Platform : built[r][p] # None

AllBuilt(r) == \A p \in Platform : built[r][p] # None

Checkout(r) ==
    /\ stage[r] = "building"
    /\ AllBuilt(r)
    /\ stage' = [stage EXCEPT ![r] = "collecting"]
    /\ base' = [base EXCEPT ![r] = [rev |-> head.rev, recipes |-> head.recipes]]
    /\ UNCHANGED <<now, head, trigger, built, tag, published>>

TakeTag(r) ==
    /\ stage[r] = "collecting"
    /\ stage' = [stage EXCEPT ![r] = "tagged"]
    /\ tag' = [tag EXCEPT ![r] = now]
    /\ UNCHANGED <<now, head, trigger, built, base, published>>

\* gh refuses to create the release of a tag that has one.
Create(r) ==
    /\ stage[r] = "tagged"
    /\ tag[r] \notin released
    /\ stage' = [stage EXCEPT ![r] = "created"]
    /\ released' = released \cup {tag[r]}
    /\ UNCHANGED <<now, head, trigger, built, base, tag, assets, mirror>>

\* The archives of the fragments that the jobs have left.
Archives(r) ==
    {[dep |-> d, platform |-> p, from |-> built[r][p], run |-> r] :
        d \in Dep, p \in Platform}

Upload_EvenInPart(r) ==
    /\ stage[r] = "created"
    /\ stage' = [stage EXCEPT ![r] = "uploaded"]
    /\ \E some \in SUBSET Archives(r) :
        assets' = [assets EXCEPT ![tag[r]] = @ \cup some]
    /\ mirror' = [mirror EXCEPT ![tag[r]] = base[r].recipes]
    /\ UNCHANGED <<now, head, trigger, built, base, tag, released>>

\* The sources are those that mirror_sources.cmake has staged for the checkout.
Upload(r) ==
    /\ stage[r] = "created"
    /\ stage' = [stage EXCEPT ![r] = "uploaded"]
    /\ assets' = [assets EXCEPT ![tag[r]] = @ \cup Archives(r)]
    /\ mirror' = [mirror EXCEPT ![tag[r]] = base[r].recipes]
    /\ UNCHANGED <<now, head, trigger, built, base, tag, released>>

\* Some of the assets may be there, in a release that no lock will name.
UploadFails(r) ==
    /\ stage[r] = "created"
    /\ stage' = [stage EXCEPT ![r] = "failed"]
    /\ \E some \in SUBSET Archives(r) :
        assets' = [assets EXCEPT ![tag[r]] = @ \cup some]
    /\ UNCHANGED <<now, head, trigger, built, base, tag, released, mirror>>

\* The new lock has the lines of this run and no others.
Lines(r) == {[archive |-> a, tag |-> tag[r]] : a \in Archives(r)}

Push_Rebased(r) ==
    /\ stage[r] = "uploaded"
    /\ head.rev < MaxRev
    /\ stage' = [stage EXCEPT ![r] = "pushed"]
    /\ head' = [head EXCEPT !.rev = @ + 1, !.lock = Lines(r)]
    /\ UNCHANGED <<now, trigger, built, base, tag, published>>

\* The push is refused if the branch has moved since the checkout.
Push(r) ==
    /\ stage[r] = "uploaded"
    /\ head.rev = base[r].rev
    /\ head.rev < MaxRev
    /\ stage' = [stage EXCEPT ![r] = "pushed"]
    /\ head' = [rev |-> base[r].rev + 1, recipes |-> base[r].recipes, lock |-> Lines(r)]
    /\ UNCHANGED <<now, trigger, built, base, tag, published>>

\* Any command may fail; the script stops at the first that does.
CollectFails(r) == stage[r] \in Publishing /\ Fail(r)

\* The failed jobs of a run may be started again: those that have built do not
\* build again, and a collector begins with its checkout.
Rerun(r) ==
    /\ stage[r] = "failed"
    /\ stage' = [stage EXCEPT ![r] = "building"]
    /\ UNCHANGED <<now, head, trigger, built, base, tag, published>>

-----------------------------------------------------------------------------
Job(r) ==
    \/ Dispatch(r)
    \/ \E p \in Platform : Build(r, p)
    \/ BuildFails(r)

Collect(r) ==
    \/ Checkout(r)
    \/ TakeTag(r)
    \/ Create(r)
    \/ Upload(r)
    \/ UploadFails(r)
    \/ Push(r)
    \/ CollectFails(r)

Next ==
    \/ Tick
    \/ \E d \in Dep, c \in Content : Edit(d, c)
    \/ \E r \in Run : Job(r) \/ Collect(r) \/ Rerun(r)

Spec == Init /\ [][Next]_vars

-----------------------------------------------------------------------------
TypeOK ==
    /\ now \in Tag
    /\ head \in Commit
    /\ stage \in [Run -> Stages]
    /\ trigger \in [Run -> Recipes]
    /\ built \in [Run -> [Platform -> Recipes \cup {None}]]
    /\ base \in [Run -> [rev : 0..MaxRev, recipes : Recipes]]
    /\ tag \in [Run -> Tag]
    /\ released \subseteq Tag
    /\ assets \in [Tag -> SUBSET Archive]
    /\ mirror \in [Tag -> Recipes \cup {None}]

\* Whatever the lock of the branch names can be downloaded: the release of the
\* line's tag has that very archive, with runs that fail between any two
\* commands, that are started again, or that take their tag in the same second.
LockServes == \A l \in head.lock : l.archive \in assets[l.tag]

\* The lock is of one build: its lines are of one release and come from one
\* state of the recipes, and each dependency has just one line for each
\* platform, which is what the lookup of a prebuilt asks for.
OneBuild ==
    head.lock # {} =>
        /\ \A l, m \in head.lock : l.tag = m.tag /\ l.archive.from = m.archive.from
        /\ \A d \in Dep, p \in Platform :
            \E l \in head.lock :
                \A m \in head.lock :
                    m.archive.dep = d /\ m.archive.platform = p <=> m = l

\* When a lock is pushed, the release that it names mirrors the sources of the
\* recipes of that very commit: what a source build of it asks the mirror for.
MirrorFollows ==
    [][head'.lock # head.lock =>
        \A l \in head'.lock : mirror[l.tag] = head'.recipes]_vars

\* A line serves a checkout if its archive's name has the signature of the recipe.
Matches(l) == l.archive.from[l.archive.dep] = head.recipes[l.archive.dep]

\* What README.md says of the set that an app pins: versions cannot be mixed.
\* No prebuilt that serves the newest commit was built against another version
\* of a dependency than this commit has.
NoMixedVersions ==
    \A l \in head.lock : Matches(l) =>
        \A d \in DependsOn[l.archive.dep] : l.archive.from[d] = head.recipes[d]
=============================================================================
