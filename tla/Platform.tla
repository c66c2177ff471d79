------------------------------- MODULE Platform -------------------------------
(***************************************************************************)
(* buildtools/build_platform.cmake: one job builds every recipe of the     *)
(* checkout for one platform, tools first and libraries in an order it     *)
(* finds by repeated passes, then packages them and writes the fragment of *)
(* prebuilt.lock that names the archives.                                  *)
(*                                                                         *)
(* The DEP_DEPENDS of the recipes are chosen anew by every job, so that a  *)
(* run covers all graphs.  The names of the recipes are abstract, so that  *)
(* the sorted order in which the code visits them is any order.            *)
(***************************************************************************)
EXTENDS FiniteSets

CONSTANTS
    Name,       \* directories of recipes/
    Kind,       \* name -> DEP_KIND
    Sourced,    \* the recipes with a DEP_SOURCE_URL that support the platform
    Signature   \* signatures of the recipes, one for a whole checkout

ASSUME KindAssumption == Kind \in [Name -> {"library", "source", "tool"}]
ASSUME SourcedAssumption == Sourced \subseteq Name

VARIABLES
    depends,    \* library -> DEP_DEPENDS in this checkout
    signature,  \* the signature of this checkout
    pc,         \* what the job is doing
    staged,     \* the prefixes under STAGE
    done,       \* DONE: the libraries built
    todo,       \* the libraries that this pass has still to visit
    progress,   \* has this pass built a library?
    archives,   \* OUT_DIR: the archives, by recipe and signature
    fragment    \* OUT_DIR: the archives the lock fragment names

graph == <<depends, signature>>
build == <<staged, done>>
out   == <<archives, fragment>>
vars  == <<graph, pc, build, todo, progress, out>>

-----------------------------------------------------------------------------
(* Recipes without a source, for other platforms, or of kind source are    *)
(* skipped.                                                                *)
Lib == {n \in Sourced : Kind[n] = "library"}
Tool == {n \in Sourced : Kind[n] = "tool"}

(* The DEP_DEPENDS of a tool are not looked at.                            *)
Graphs == [Lib -> SUBSET Name]

Resting == pc \in {"idle", "finished", "refused", "failed"}

(* A job starts from a clean stage.  OUT_DIR still has what an earlier job *)
(* put there.                                                              *)
Start ==
    /\ Resting
    /\ depends' \in Graphs
    /\ signature' \in Signature
    /\ staged' = {}
    /\ done' = {}
    /\ todo' = {}
    /\ progress' = FALSE
    /\ pc' = "tools"
    /\ UNCHANGED out

BuildTool_Done(n) ==
    /\ pc = "tools"
    /\ n \in Tool \ staged
    /\ staged' = staged \cup {n}
    /\ done' = done \cup {n}
    /\ UNCHANGED <<graph, pc, todo, progress, out>>

BuildTool(n) ==
    /\ pc = "tools"
    /\ n \in Tool \ staged
    /\ staged' = staged \cup {n}
    /\ UNCHANGED <<graph, pc, done, todo, progress, out>>

(* Without libraries no pass is made.                                      *)
EndTools ==
    /\ pc = "tools"
    /\ Tool \subseteq staged
    /\ pc' = IF Lib = {} THEN "clear" ELSE "pass"
    /\ todo' = Lib
    /\ UNCHANGED <<graph, build, progress, out>>

Ready_Any(n) == depends[n] \cap done # {} \/ depends[n] = {}
(* Only libraries count: a tool that is built is not in DONE.              *)
Ready(n) == depends[n] \subseteq done

Skip(n) ==
    /\ pc = "pass"
    /\ n \in todo
    /\ ~Ready(n)
    /\ todo' = todo \ {n}
    /\ UNCHANGED <<graph, pc, build, progress, out>>

BuildLib_Silent(n) ==
    /\ pc = "pass"
    /\ n \in todo
    /\ Ready(n)
    /\ staged' = staged \cup {n}
    /\ done' = done \cup {n}
    /\ todo' = todo \ {n}
    /\ UNCHANGED <<graph, pc, progress, out>>

BuildLib(n) ==
    /\ pc = "pass"
    /\ n \in todo
    /\ Ready(n)
    /\ staged' = staged \cup {n}
    /\ done' = done \cup {n}
    /\ todo' = todo \ {n}
    /\ progress' = TRUE
    /\ UNCHANGED <<graph, pc, out>>

Again ==
    /\ ~(Lib \subseteq done)
    /\ todo' = Lib \ done
    /\ progress' = FALSE
    /\ UNCHANGED pc

EndPass_UntilDone ==
    /\ pc = "pass"
    /\ todo = {}
    /\ \/ Lib \subseteq done /\ pc' = "clear" /\ UNCHANGED <<todo, progress>>
       \/ Again
    /\ UNCHANGED <<graph, build, out>>

(* A pass without progress is a cycle or a dependency that is not built.   *)
EndPass ==
    /\ pc = "pass"
    /\ todo = {}
    /\ \/ ~progress /\ pc' = "refused" /\ UNCHANGED <<todo, progress>>
       \/ /\ progress /\ Lib \subseteq done
          /\ pc' = "clear"
          /\ UNCHANGED <<todo, progress>>
       \/ progress /\ Again
    /\ UNCHANGED <<graph, build, out>>

Clear_Over ==
    /\ pc = "clear"
    /\ pc' = "package"
    /\ UNCHANGED <<graph, build, todo, progress, out>>

(* OUT_DIR is emptied of what earlier jobs have left there.                *)
Clear ==
    /\ pc = "clear"
    /\ archives' = {}
    /\ fragment' = {}
    /\ pc' = "package"
    /\ UNCHANGED <<graph, build, todo, progress>>

(* The archive of one prefix, which CMake can extract as a whole.          *)
PackageOne(n) ==
    /\ pc = "package"
    /\ n \in Lib \cup Tool
    /\ <<n, signature>> \notin archives
    /\ archives' = archives \cup {<<n, signature>>}
    /\ UNCHANGED <<graph, pc, build, todo, progress, fragment>>

AllPackaged == \A n \in Lib \cup Tool : <<n, signature>> \in archives

WriteFragment ==
    /\ pc = "package"
    /\ AllPackaged
    /\ fragment' = archives
    /\ pc' = "finished"
    /\ UNCHANGED <<graph, build, todo, progress, archives>>

(* A build or 7z fails, an archive turns out not to be consumable (it is   *)
(* in OUT_DIR by then), or the job is killed, perhaps while it empties     *)
(* OUT_DIR.                                                                *)
Fail ==
    /\ ~Resting
    /\ pc' = "failed"
    /\ \/ UNCHANGED out
       \/ /\ pc = "clear"
          /\ archives' \in SUBSET archives
          /\ fragment' \in {fragment, {}}
       \/ /\ pc = "package"
          /\ \E n \in Lib \cup Tool :
                archives' = archives \cup {<<n, signature>>}
          /\ UNCHANGED fragment
    /\ UNCHANGED <<graph, build, todo, progress>>

-----------------------------------------------------------------------------
Init ==
    /\ depends = [n \in Lib |-> {}]
    /\ signature \in Signature
    /\ pc = "idle"
    /\ staged = {}
    /\ done = {}
    /\ todo = {}
    /\ progress = FALSE
    /\ archives = {}
    /\ fragment = {}

(* One step of the running job. *)
Step ==
    \/ \E n \in Name :
          BuildTool(n) \/ Skip(n) \/ BuildLib(n) \/ PackageOne(n)
    \/ EndTools \/ EndPass \/ Clear \/ WriteFragment

Next == Start \/ Step \/ Fail

Spec == Init /\ [][Next]_vars

(* A job that was started keeps running.                                   *)
FairSpec == Spec /\ WF_vars(Step)

-----------------------------------------------------------------------------
TypeOK ==
    /\ depends \in Graphs
    /\ signature \in Signature
    /\ pc \in {"idle", "tools", "pass", "clear", "package", "finished",
               "refused", "failed"}
    /\ staged \subseteq Name
    /\ done \subseteq Lib
    /\ todo \subseteq Lib
    /\ progress \in BOOLEAN
    /\ archives \subseteq (Name \X Signature)
    /\ fragment \subseteq (Name \X Signature)

(* A library is only built on prefixes that are all there: whatever the    *)
(* order of the names, the passes never run ahead of DEP_DEPENDS.          *)
BuiltAfterDepends ==
    [][\A n \in done' \ done : depends[n] \subseteq staged]_vars

(* Libraries none of which can be built first: each one waits for another  *)
(* of them, or for something that is not a library of this platform.       *)
Stuck(S) == \A n \in S : \E d \in depends[n] : d \in S \/ d \notin Lib

CanBuildAll == \A S \in SUBSET Lib : Stuck(S) => S = {}

(* The passes give up exactly on the graphs that have no order: a refusal  *)
(* is never an accident of the order of visits, and a job that packages    *)
(* has found an order.                                                     *)
RefusedIfStuck ==
    /\ pc = "refused" => ~CanBuildAll
    /\ pc \in {"clear", "package", "finished"} => CanBuildAll

(* A finished job leaves the archives that its fragment names and no other,*)
(* one for every library and tool of this checkout, though earlier jobs    *)
(* may have failed half-way or built other recipes.                        *)
OutIsComplete ==
    pc = "finished" =>
        /\ fragment = archives
        /\ archives = {<<n, signature>> : n \in Lib \cup Tool}

(* Every job ends, on every graph: the passes terminate.                   *)
JobEnds == pc = "tools" ~> Resting
=============================================================================
