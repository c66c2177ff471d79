--------------------------- MODULE Release_proofs ---------------------------
(* For any dependencies, platforms, runs and commits: the lock of the      *)
(* branch names what is published, is of one build, and goes with a mirror *)
(* of its commit.                                                          *)
EXTENDS Release, TLAPS

\* What a collector needs is built, and from the commit of the dispatch only.
BuiltAsDispatched ==
    \A r \in Run :
        /\ stage[r] = "idle" => \A p \in Platform : built[r][p] = None
        /\ \A p \in Platform : built[r][p] \in {None, trigger[r]}
        /\ stage[r] \in Publishing => AllBuilt(r)

\* Two collectors never publish in one release.
Publisher == {"created", "uploaded"}

OwnRelease ==
    \A r \in Run : stage[r] \in Publisher =>
        /\ tag[r] \in released
        /\ \A q \in Run : stage[q] \in Publisher /\ tag[q] = tag[r] => q = r

UploadedIsThere ==
    \A r \in Run : stage[r] = "uploaded" =>
        /\ Archives(r) \subseteq assets[tag[r]]
        /\ mirror[tag[r]] = base[r].recipes

IInv ==
    /\ TypeOK
    /\ BuiltAsDispatched
    /\ OwnRelease
    /\ UploadedIsThere
    /\ LockServes
    /\ OneBuild

-----------------------------------------------------------------------------
LEMMA InitIInv == Init => IInv
<1> SUFFICES ASSUME Init PROVE IInv
  OBVIOUS
<1> USE DEF Init
<1>1. /\ now \in Tag
      /\ head \in Commit
      /\ stage \in [Run -> Stages]
      /\ head.recipes \in Recipes
  BY BoundsAssumption DEF Tag, Commit, Stages
<1>2. TypeOK
  BY <1>1, BoundsAssumption DEF TypeOK, Tag
<1>3. BuiltAsDispatched
  BY DEF BuiltAsDispatched, Publishing
<1>4. OwnRelease /\ UploadedIsThere
  BY DEF OwnRelease, Publisher, UploadedIsThere
<1>5. LockServes /\ OneBuild
  BY DEF LockServes, OneBuild
<1> QED
  BY <1>2, <1>3, <1>4, <1>5 DEF IInv

\* The archives of a run whose jobs have all succeeded.
LEMMA ArchivesTyped ==
    ASSUME TypeOK, NEW r \in Run, AllBuilt(r)
    PROVE  Archives(r) \subseteq Archive
<1> SUFFICES ASSUME NEW d \in Dep, NEW p \in Platform
             PROVE  [dep |-> d, platform |-> p, from |-> built[r][p], run |-> r] \in Archive
  BY DEF Archives
<1>1. built[r][p] \in Recipes
  BY DEF TypeOK, AllBuilt
<1> QED
  BY <1>1 DEF Archive

\* The lines of a run are of one build.
LEMMA LinesOfOneBuild ==
    ASSUME TypeOK, BuiltAsDispatched, NEW r \in Run, AllBuilt(r)
    PROVE  /\ \A l, m \in Lines(r) : l.tag = m.tag /\ l.archive.from = m.archive.from
           /\ \A d \in Dep, p \in Platform :
                \E l \in Lines(r) : \A m \in Lines(r) :
                    m.archive.dep = d /\ m.archive.platform = p <=> m = l
<1> DEFINE The(d, p) ==
        [archive |-> [dep |-> d, platform |-> p, from |-> trigger[r], run |-> r],
         tag |-> tag[r]]
<1>1. \A p \in Platform : built[r][p] = trigger[r]
  BY DEF BuiltAsDispatched, AllBuilt
<1>2. \A l \in Lines(r) : \E d \in Dep, p \in Platform : l = The(d, p)
  BY <1>1 DEF Lines, Archives
<1>3. \A d \in Dep, p \in Platform : The(d, p) \in Lines(r)
  BY <1>1 DEF Lines, Archives
<1>4. \A d, p : The(d, p).tag = tag[r] /\ The(d, p).archive.from = trigger[r]
                /\ The(d, p).archive.dep = d /\ The(d, p).archive.platform = p
  OBVIOUS
<1> HIDE DEF The
<1>5. \A l, m \in Lines(r) : l.tag = m.tag /\ l.archive.from = m.archive.from
  BY <1>2, <1>4
<1>6. ASSUME NEW d \in Dep, NEW p \in Platform
      PROVE  \A m \in Lines(r) :
                 m.archive.dep = d /\ m.archive.platform = p <=> m = The(d, p)
  BY <1>2, <1>4
<1> QED
  BY <1>3, <1>5, <1>6

-----------------------------------------------------------------------------
LEMMA TypeNext == TypeOK /\ BuiltAsDispatched /\ [Next]_vars => TypeOK'
<1> SUFFICES ASSUME TypeOK, BuiltAsDispatched, [Next]_vars PROVE TypeOK'
  OBVIOUS
<1> USE DEF TypeOK, published
<1>1. CASE Tick
  BY <1>1, BoundsAssumption DEF Tick, Tag
<1>2. ASSUME NEW d \in Dep, NEW c \in Content, Edit(d, c) PROVE TypeOK'
  <2>1. head.rev + 1 \in 0..MaxRev
    BY <1>2, BoundsAssumption DEF Edit, Commit
  <2>2. [head.recipes EXCEPT ![d] = c] \in Recipes
    BY DEF Commit, Recipes
  <2>3. head' = [rev |-> head.rev + 1, recipes |-> [head.recipes EXCEPT ![d] = c], lock |-> head.lock]
    BY <1>2 DEF Edit, Commit
  <2>4. head' \in Commit
    BY <2>1, <2>2, <2>3 DEF Commit
  <2> QED
    BY <1>2, <2>4 DEF Edit
<1>3. ASSUME NEW r \in Run, Job(r) \/ Collect(r) \/ Rerun(r) PROVE TypeOK'
  <2>1. CASE Dispatch(r)
    BY <2>1 DEF Dispatch, Stages, Commit
  <2>2. ASSUME NEW p \in Platform, Build(r, p) PROVE TypeOK'
    <3>1. built' = [built EXCEPT ![r] = [built[r] EXCEPT ![p] = trigger[r]]]
      BY <2>2 DEF Build
    <3>2. [built[r] EXCEPT ![p] = trigger[r]] \in [Platform -> Recipes \cup {None}]
      OBVIOUS
    <3>3. built' \in [Run -> [Platform -> Recipes \cup {None}]]
      BY <3>1, <3>2
    <3> QED
      BY <2>2, <3>3 DEF Build
  <2>3. CASE BuildFails(r) \/ CollectFails(r)
    BY <2>3 DEF BuildFails, CollectFails, Fail, Stages
  <2>4. CASE Checkout(r)
    BY <2>4 DEF Checkout, Stages, Commit
  <2>5. CASE TakeTag(r)
    BY <2>5 DEF TakeTag, Stages
  <2>6. CASE Create(r)
    BY <2>6 DEF Create, Stages
  <2>7. CASE Upload(r)
    <3>1. Archives(r) \subseteq Archive
      BY <2>7, ArchivesTyped DEF Upload, BuiltAsDispatched, Publishing
    <3>2. assets' \in [Tag -> SUBSET Archive]
      BY <2>7, <3>1 DEF Upload
    <3>3. mirror' \in [Tag -> Recipes \cup {None}]
      BY <2>7 DEF Upload
    <3> QED
      BY <2>7, <3>2, <3>3 DEF Upload, Stages
  <2>8. CASE UploadFails(r)
    <3>1. Archives(r) \subseteq Archive
      BY <2>8, ArchivesTyped DEF UploadFails, BuiltAsDispatched, Publishing
    <3>2. assets' \in [Tag -> SUBSET Archive]
      BY <2>8, <3>1 DEF UploadFails
    <3> QED
      BY <2>8, <3>2 DEF UploadFails, Stages
  <2>9. CASE Push(r)
    <3>1. Archives(r) \subseteq Archive
      BY <2>9, ArchivesTyped DEF Push, BuiltAsDispatched, Publishing
    <3>2. Lines(r) \subseteq Line
      BY <3>1 DEF Lines, Line
    <3>3. base[r].rev + 1 \in 0..MaxRev
      BY <2>9, BoundsAssumption DEF Push, Commit
    <3>4. head' \in Commit
      BY <2>9, <3>2, <3>3 DEF Push, Commit
    <3> QED
      BY <2>9, <3>4 DEF Push, Stages
  <2>10. CASE Rerun(r)
    BY <2>10 DEF Rerun, Stages
  <2> QED
    BY <1>3, <2>1, <2>2, <2>3, <2>4, <2>5, <2>6, <2>7, <2>8, <2>9, <2>10 DEF Job, Collect
<1>4. CASE UNCHANGED vars
  BY <1>4 DEF vars
<1> QED
  BY <1>1, <1>2, <1>3, <1>4 DEF Next

-----------------------------------------------------------------------------
(* What one run does leaves the parts of the others alone.                 *)
LEMMA BuiltNext == TypeOK /\ BuiltAsDispatched /\ [Next]_vars => BuiltAsDispatched'
<1> SUFFICES ASSUME TypeOK, BuiltAsDispatched, [Next]_vars PROVE BuiltAsDispatched'
  OBVIOUS
<1> USE DEF TypeOK, BuiltAsDispatched, AllBuilt
<1>1. CASE UNCHANGED <<stage, trigger, built>>
  BY <1>1
<1>2. ASSUME NEW r \in Run, Dispatch(r) PROVE BuiltAsDispatched'
  BY <1>2 DEF Dispatch, Publishing
<1>3. ASSUME NEW r \in Run, NEW p \in Platform, Build(r, p) PROVE BuiltAsDispatched'
  BY <1>3 DEF Build, Publishing
<1>4. ASSUME NEW r \in Run, Fail(r) \/ Rerun(r) PROVE BuiltAsDispatched'
  BY <1>4 DEF Fail, Rerun, Publishing
<1>5. ASSUME NEW r \in Run,
             Checkout(r) \/ TakeTag(r) \/ Create(r) \/ Upload(r) \/ UploadFails(r)
             \/ Push(r)
      PROVE  BuiltAsDispatched'
  <2>1. AllBuilt(r) /\ stage[r] # "idle"
    BY <1>5 DEF Checkout, TakeTag, Create, Upload, UploadFails, Push, Publishing
  <2>2. UNCHANGED <<trigger, built>>
    BY <1>5 DEF Checkout, TakeTag, Create, Upload, UploadFails, Push
  <2>3. \E s \in Stages \ {"idle"} : stage' = [stage EXCEPT ![r] = s]
    BY <1>5 DEF Checkout, TakeTag, Create, Upload, UploadFails, Push, Stages
  <2> QED
    BY <2>1, <2>2, <2>3
<1>6. CASE Tick \/ (\E d \in Dep, c \in Content : Edit(d, c)) \/ UNCHANGED vars
  BY <1>1, <1>6 DEF Tick, Edit, vars
<1> QED
  BY <1>2, <1>3, <1>4, <1>5, <1>6 DEF Next, Job, Collect, BuildFails, CollectFails

LEMMA OwnNext == TypeOK /\ OwnRelease /\ [Next]_vars => OwnRelease'
<1> SUFFICES ASSUME TypeOK, OwnRelease, [Next]_vars PROVE OwnRelease'
  OBVIOUS
<1> USE DEF TypeOK, OwnRelease, Publisher, published
<1>1. CASE UNCHANGED <<stage, tag, released>>
  BY <1>1
<1>2. ASSUME NEW r \in Run, Create(r) PROVE OwnRelease'
  BY <1>2 DEF Create
<1>3. ASSUME NEW r \in Run, TakeTag(r) PROVE OwnRelease'
  BY <1>3 DEF TakeTag
<1>4. ASSUME NEW r \in Run,
             Dispatch(r) \/ Fail(r) \/ Checkout(r) \/ UploadFails(r) \/ Push(r)
             \/ Rerun(r) \/ Upload(r)
      PROVE  OwnRelease'
  <2>1. UNCHANGED <<tag, released>>
    BY <1>4 DEF Dispatch, Fail, Checkout, UploadFails, Push, Rerun, Upload
  <2>2. \E s \in Stages : /\ stage' = [stage EXCEPT ![r] = s]
                          /\ s \in Publisher => stage[r] \in Publisher
    BY <1>4 DEF Dispatch, Fail, Checkout, UploadFails, Push, Rerun, Upload, Stages
  <2> QED
    BY <2>1, <2>2
<1>5. CASE Tick \/ (\E d \in Dep, c \in Content : Edit(d, c)) \/ UNCHANGED vars
           \/ \E r \in Run, p \in Platform : Build(r, p)
  BY <1>1, <1>5 DEF Tick, Edit, vars, Build
<1> QED
  BY <1>2, <1>3, <1>4, <1>5 DEF Next, Job, Collect, BuildFails, CollectFails

\* Releases only grow.
LEMMA AssetsGrow ==
    ASSUME TypeOK, [Next]_vars, NEW t \in Tag
    PROVE  assets[t] \subseteq assets'[t]
<1> USE DEF TypeOK, published
<1>1. CASE UNCHANGED assets
  BY <1>1
<1>2. ASSUME NEW r \in Run, Upload(r) \/ UploadFails(r)
      PROVE  assets[t] \subseteq assets'[t]
  <2>1. \E more : assets' = [assets EXCEPT ![tag[r]] = @ \cup more]
    BY <1>2 DEF Upload, UploadFails
  <2> QED
    BY <2>1
<1> QED
  BY <1>1, <1>2 DEF Next, Job, Collect, vars, Tick, Edit, Dispatch, Build, BuildFails, Fail,
     Checkout, TakeTag, Create, Push, CollectFails, Rerun

LEMMA UploadedNext ==
    TypeOK /\ TypeOK' /\ BuiltAsDispatched /\ OwnRelease /\ UploadedIsThere /\ [Next]_vars
        => UploadedIsThere'
<1> SUFFICES ASSUME TypeOK, TypeOK', BuiltAsDispatched, OwnRelease, UploadedIsThere, [Next]_vars,
                    NEW q \in Run, stage'[q] = "uploaded"
             PROVE  /\ Archives(q)' \subseteq assets'[tag'[q]]
                    /\ mirror'[tag'[q]] = base'[q].recipes
  BY DEF UploadedIsThere
<1> USE DEF TypeOK, published
<1>1. CASE Upload(q)
  <2>1. Archives(q)' = Archives(q) /\ tag'[q] = tag[q] /\ base'[q] = base[q]
    BY <1>1 DEF Upload, Archives
  <2>2. Archives(q) \subseteq assets'[tag[q]] /\ mirror'[tag[q]] = base[q].recipes
    BY <1>1 DEF Upload
  <2> QED
    BY <2>1, <2>2
<1>2. CASE ~Upload(q)
  <2>1. stage[q] = "uploaded"
    <3>1. CASE UNCHANGED stage
      BY <3>1
    <3>2. ASSUME NEW r \in Run, Upload(r) PROVE stage[q] = "uploaded"
      BY <3>2, <1>2 DEF Upload
    <3>3. ASSUME NEW r \in Run,
                 Dispatch(r) \/ Fail(r) \/ Checkout(r) \/ TakeTag(r) \/ Create(r)
                 \/ UploadFails(r) \/ Push(r) \/ Rerun(r)
          PROVE  stage[q] = "uploaded"
      <4>1. \E s \in Stages \ {"uploaded"} : stage' = [stage EXCEPT ![r] = s]
        BY <3>3 DEF Dispatch, Fail, Checkout, TakeTag, Create, UploadFails, Push, Rerun, Stages
      <4> QED
        BY <4>1
    <3>4. CASE Tick \/ (\E d \in Dep, c \in Content : Edit(d, c)) \/ UNCHANGED vars
               \/ \E r \in Run, p \in Platform : Build(r, p)
      BY <3>1, <3>4 DEF Tick, Edit, vars, Build
    <3> QED
      BY <3>2, <3>3, <3>4 DEF Next, Job, Collect, BuildFails, CollectFails
  <2>2. /\ tag'[q] = tag[q] /\ base'[q] = base[q]
    BY <2>1 DEF Next, Job, Collect, vars, Tick, Edit, Dispatch, Build, BuildFails, Fail, Checkout,
       TakeTag, Create, Upload, UploadFails, Push, CollectFails, Rerun
  <2>3. \A p \in Platform : built'[q][p] = built[q][p]
    BY <2>1 DEF Next, Job, Collect, vars, Tick, Edit, Dispatch, Build, BuildFails, Fail, Checkout,
       TakeTag, Create, Upload, UploadFails, Push, CollectFails, Rerun
  <2>4. Archives(q)' = Archives(q)
    BY <2>3 DEF Archives
  <2>5. mirror'[tag[q]] = mirror[tag[q]]
    <3>1. ASSUME NEW r \in Run, Upload(r) PROVE mirror'[tag[q]] = mirror[tag[q]]
      <4>1. tag[r] # tag[q]
        BY <3>1, <2>1, <1>2 DEF Upload, OwnRelease, Publisher
      <4> QED
        BY <3>1, <4>1 DEF Upload
    <3> QED
      BY <3>1 DEF Next, Job, Collect, vars, Tick, Edit, Dispatch, Build, BuildFails, Fail, Checkout,
         TakeTag, Create, UploadFails, Push, CollectFails, Rerun
  <2>6. assets[tag[q]] \subseteq assets'[tag[q]]
    BY AssetsGrow
  <2> QED
    BY <2>1, <2>2, <2>4, <2>5, <2>6 DEF UploadedIsThere
<1> QED
  BY <1>1, <1>2

\* The lock changes by the push of a run, and only then.
LEMMA LockChange ==
    ASSUME TypeOK, [Next]_vars, head'.lock # head.lock
    PROVE  \E r \in Run : Push(r)
<1>1. ASSUME NEW d \in Dep, NEW c \in Content, Edit(d, c) PROVE FALSE
  BY <1>1 DEF Edit, TypeOK, Commit
<1> QED
  BY <1>1 DEF Next, Job, Collect, vars, Tick, Dispatch, Build, BuildFails, Fail, Checkout,
     TakeTag, Create, Upload, UploadFails, CollectFails, Rerun

LEMMA PushedLock ==
    ASSUME IInv, NEW r \in Run, Push(r)
    PROVE  /\ head'.lock = Lines(r)
           /\ AllBuilt(r)
           /\ UNCHANGED <<assets, mirror>>
BY DEF Push, IInv, BuiltAsDispatched, Publishing, published

LEMMA LockNext == IInv /\ [Next]_vars => LockServes' /\ OneBuild'
<1> SUFFICES ASSUME IInv, [Next]_vars PROVE LockServes' /\ OneBuild'
  OBVIOUS
<1>1. CASE head'.lock = head.lock
  <2>1. OneBuild'
    BY <1>1 DEF IInv, OneBuild
  <2>2. ASSUME NEW l \in head.lock PROVE l.archive \in assets'[l.tag]
    <3>1. l.tag \in Tag
      BY DEF IInv, TypeOK, Commit, Line
    <3>2. l.archive \in assets[l.tag]
      BY DEF IInv, LockServes
    <3> QED
      BY <3>1, <3>2, AssetsGrow DEF IInv
  <2> QED
    BY <1>1, <2>1, <2>2 DEF LockServes
<1>2. CASE head'.lock # head.lock
  <2>1. PICK r \in Run : Push(r)
    BY <1>2, LockChange DEF IInv
  <2>2. head'.lock = Lines(r) /\ AllBuilt(r) /\ UNCHANGED assets
    BY <2>1, PushedLock
  <2>3. OneBuild'
    BY <2>2, LinesOfOneBuild DEF OneBuild, IInv
  <2>4. Archives(r) \subseteq assets[tag[r]]
    BY <2>1 DEF IInv, UploadedIsThere, Push
  <2>5. LockServes'
    BY <2>2, <2>4 DEF LockServes, Lines
  <2> QED
    BY <2>3, <2>5
<1> QED
  BY <1>1, <1>2

LEMMA NextIInv == IInv /\ [Next]_vars => IInv'
<1> SUFFICES ASSUME IInv, [Next]_vars PROVE IInv'
  OBVIOUS
<1>1. TypeOK'
  BY TypeNext DEF IInv
<1>2. BuiltAsDispatched' /\ OwnRelease'
  BY BuiltNext, OwnNext DEF IInv
<1>3. UploadedIsThere'
  BY <1>1, UploadedNext DEF IInv
<1> QED
  BY <1>1, <1>2, <1>3, LockNext DEF IInv

LEMMA AlwaysIInv == Spec => []IInv
BY InitIInv, NextIInv, PTL DEF Spec

-----------------------------------------------------------------------------
\* Runs and commits in any order keep the state within its types.
THEOREM Typing == Spec => []TypeOK
<1>1. IInv => TypeOK
  BY DEF IInv
<1> QED BY AlwaysIInv, <1>1, PTL

\* What the lock of the branch names is always there to be downloaded.
THEOREM AlwaysServes == Spec => []LockServes
<1>1. IInv => LockServes
  BY DEF IInv
<1> QED BY AlwaysIInv, <1>1, PTL

\* The lock of the branch is always of one build, a line for each archive.
THEOREM AlwaysOneBuild == Spec => []OneBuild
<1>1. IInv => OneBuild
  BY DEF IInv
<1> QED BY AlwaysIInv, <1>1, PTL

\* A lock is only pushed with the mirror of its commit's sources.
THEOREM AlwaysMirrored == Spec => MirrorFollows
<1>1. ASSUME IInv, [Next]_vars
      PROVE  head'.lock # head.lock =>
                 \A l \in head'.lock : mirror[l.tag] = head'.recipes
  <2> SUFFICES ASSUME head'.lock # head.lock, NEW l \in head'.lock
               PROVE  mirror[l.tag] = head'.recipes
    OBVIOUS
  <2>1. PICK r \in Run : Push(r)
    BY <1>1, LockChange DEF IInv
  <2>2. l.tag = tag[r]
    BY <1>1, <2>1, PushedLock DEF Lines
  <2>3. mirror[tag[r]] = base[r].recipes /\ head'.recipes = base[r].recipes
    BY <1>1, <2>1 DEF IInv, UploadedIsThere, Push
  <2> QED
    BY <2>2, <2>3
<1> QED BY AlwaysIInv, <1>1, PTL DEF Spec, MirrorFollows

\* If every line of the lock serves the newest commit, an app that takes them
\* all has no two versions of a dependency: each archive was built against the
\* recipes of that commit.
WholeSetMatches ==
    head.lock # {} /\ (\A l \in head.lock : Matches(l))
        => \A l \in head.lock : l.archive.from = head.recipes

THEOREM MatchingSetIsOne == Spec => [](Platform # {} => WholeSetMatches)
<1>1. ASSUME IInv, NEW p \in Platform, head.lock # {},
             \A l \in head.lock : Matches(l), NEW l \in head.lock
      PROVE  l.archive.from = head.recipes
  <2>1. l.archive.from \in Recipes /\ head.recipes \in Recipes
    BY <1>1 DEF IInv, TypeOK, Commit, Line, Archive
  <2>2. ASSUME NEW d \in Dep PROVE l.archive.from[d] = head.recipes[d]
    <3>1. PICK m \in head.lock : m.archive.dep = d
      BY <1>1 DEF IInv, OneBuild
    <3>2. m.archive.from = l.archive.from
      BY <1>1 DEF IInv, OneBuild
    <3> QED
      BY <1>1, <3>1, <3>2 DEF Matches
  <2> QED
    BY <2>1, <2>2 DEF Recipes
<1>2. IInv => (Platform # {} => WholeSetMatches)
  BY <1>1 DEF WholeSetMatches
<1> QED BY AlwaysIInv, <1>2, PTL
=============================================================================
