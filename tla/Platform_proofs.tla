--------------------------- MODULE Platform_proofs ---------------------------
(* Proofs about Platform, for every set of recipes and every graph.        *)
EXTENDS Platform, Integers, FiniteSetTheorems, TLAPS

(* The steps of a job, without the quantifiers of Next.                    *)
LEMMA NextCases ==
    ASSUME [Next]_vars
    PROVE  \/ Start \/ EndTools \/ EndPass \/ Clear \/ WriteFragment
           \/ Fail
           \/ UNCHANGED vars
           \/ \E n \in Name :
                 BuildTool(n) \/ Skip(n) \/ BuildLib(n) \/ PackageOne(n)
BY DEF Next, Step

LEMMA LibIsName == Lib \subseteq Name /\ Tool \subseteq Name /\ Lib \cap Tool = {}
BY SourcedAssumption DEF Lib, Tool

(* A library may depend on anything, but only libraries are ever done.     *)
LEMMA TypeStep == TypeOK /\ [Next]_vars => TypeOK'
<1> SUFFICES ASSUME TypeOK, [Next]_vars
             PROVE  TypeOK'
    OBVIOUS
<1> USE LibIsName DEF TypeOK, graph, build, out
<1>1. CASE Start
    BY <1>1 DEF Start
<1>2. CASE EndTools
    BY <1>2 DEF EndTools
<1>3. CASE EndPass
    BY <1>3 DEF EndPass, Again
<1>4. CASE WriteFragment
    BY <1>4 DEF WriteFragment
<1>5. CASE Fail
    BY <1>5 DEF Fail
<1>6. CASE UNCHANGED vars
    BY <1>6 DEF vars, Graphs
<1>7. CASE Clear
    BY <1>7 DEF Clear
<1>8. CASE \E n \in Name :
              BuildTool(n) \/ Skip(n) \/ BuildLib(n) \/ PackageOne(n)
    <2> PICK n \in Name : BuildTool(n) \/ Skip(n) \/ BuildLib(n) \/ PackageOne(n)
        BY <1>8
    <2>1. CASE BuildTool(n)
        BY <2>1 DEF BuildTool
    <2>2. CASE Skip(n)
        BY <2>2 DEF Skip
    <2>3. CASE BuildLib(n)
        BY <2>3 DEF BuildLib
    <2>4. CASE PackageOne(n)
        BY <2>4 DEF PackageOne
    <2> QED
        BY <2>1, <2>2, <2>3, <2>4
<1> QED
    BY <1>1, <1>2, <1>3, <1>4, <1>5, <1>6, <1>7, <1>8, NextCases

LEMMA TypeInit == Init => TypeOK
BY LibIsName DEF Init, TypeOK, Graphs

(* The type invariant of a job.                                            *)
THEOREM Typing == Spec => []TypeOK
<1>1. Init => TypeOK
    BY TypeInit
<1>2. TypeOK /\ [Next]_vars => TypeOK'
    BY TypeStep
<1> QED
    BY <1>1, <1>2, PTL DEF Spec

-----------------------------------------------------------------------------
(* What is built is closed under DEP_DEPENDS, and is on the stage.         *)
DoneClosed ==
    /\ done \subseteq staged
    /\ \A n \in done : depends[n] \subseteq done

(* What is built has an order: no part of it waits for itself.             *)
DoneOrdered == \A S \in SUBSET done : Stuck(S) => S = {}

(* A pass has something to do; while it has built nothing, every library   *)
(* it has visited still waits.                                             *)
PassSound ==
    /\ pc = "tools" => done = {}
    /\ pc = "pass" =>
          /\ todo \cap done = {}
          /\ ~progress =>
                /\ ~(Lib \subseteq done)
                /\ \A n \in Lib \ (done \cup todo) :
                      ~(depends[n] \subseteq done)

(* Packaging starts when all is built, giving up when nothing can be.      *)
EndSound ==
    /\ pc \in {"clear", "package", "finished"} => Lib \subseteq done
    /\ pc = "refused" =>
          /\ ~(Lib \subseteq done)
          /\ \A n \in Lib \ done : ~(depends[n] \subseteq done)

PassInv == DoneClosed /\ DoneOrdered /\ PassSound /\ EndSound

LEMMA PassInvInit == Init => PassInv
BY DEF Init, PassInv, DoneClosed, DoneOrdered, PassSound, EndSound, Stuck

(* A library whose dependencies are all done can be added to the order: it *)
(* waits for nothing that is not done, and nothing done waits for it.      *)
LEMMA OrderExtends ==
    ASSUME TypeOK, DoneClosed, DoneOrdered,
           NEW n \in Lib, n \notin done, Ready(n),
           NEW S \in SUBSET (done \cup {n}), Stuck(S)
    PROVE  S = {}
<1> USE DEF TypeOK
<1>1. depends[n] \subseteq done
    BY DEF Ready
<1>2. Stuck(S \ {n})
    <2> SUFFICES ASSUME NEW m \in S \ {n}
                 PROVE  \E d \in depends[m] : d \in S \ {n} \/ d \notin Lib
        BY DEF Stuck
    <2>1. PICK d \in depends[m] : d \in S \/ d \notin Lib
        BY DEF Stuck
    <2>2. m \in done
        OBVIOUS
    <2>3. d \in done
        BY <2>1, <2>2 DEF DoneClosed
    <2> QED
        BY <2>1, <2>3
<1>3. S \ {n} = {}
    BY <1>2 DEF DoneOrdered
<1>4. n \notin S
    <2> SUFFICES ASSUME n \in S
                 PROVE  FALSE
        OBVIOUS
    <2>1. PICK d \in depends[n] : d \in S \/ d \notin Lib
        BY DEF Stuck
    <2>2. d \in done
        BY <1>1, <2>1
    <2> QED
        BY <1>3, <2>1, <2>2
<1> QED
    BY <1>3, <1>4

(* The invariant only speaks of what a job has built and where it is.      *)
LEMMA PassInvFrame ==
    ASSUME PassInv, UNCHANGED <<depends, done, staged>>,
           PassSound', EndSound'
    PROVE  PassInv'
BY DEF PassInv, DoneClosed, DoneOrdered, Stuck

LEMMA PassInvStep == TypeOK /\ PassInv /\ [Next]_vars => PassInv'
<1> SUFFICES ASSUME TypeOK, PassInv, [Next]_vars
             PROVE  PassInv'
    OBVIOUS
<1> USE DEF graph, build, out
<1>1. CASE Start
    <2>1. DoneClosed' /\ PassSound' /\ EndSound'
        BY <1>1 DEF Start, DoneClosed, PassSound, EndSound
    <2>2. DoneOrdered'
        BY <1>1 DEF Start, DoneOrdered
    <2> QED
        BY <2>1, <2>2 DEF PassInv
<1>2. CASE EndTools
    <2>1. done' = done /\ staged' = staged /\ depends' = depends
        BY <1>2 DEF EndTools
    <2>2. PassSound' /\ EndSound'
        BY <1>2, <2>1 DEF EndTools, PassInv, PassSound, EndSound
    <2> QED
        BY <2>1, <2>2, PassInvFrame
<1>3. CASE EndPass
    <2>1. done' = done /\ staged' = staged /\ depends' = depends
        BY <1>3 DEF EndPass
    <2>2. PassSound' /\ EndSound'
        BY <1>3, <2>1 DEF EndPass, Again, PassInv, PassSound, EndSound
    <2> QED
        BY <2>1, <2>2, PassInvFrame
<1>4. CASE WriteFragment
    BY <1>4, PassInvFrame DEF WriteFragment, PassInv, PassSound, EndSound
<1>5. CASE Fail
    BY <1>5, PassInvFrame DEF Fail, PassSound, EndSound
<1>6. CASE UNCHANGED vars
    BY <1>6, PassInvFrame DEF vars, PassInv, PassSound, EndSound
<1>7. CASE Clear
    BY <1>7, PassInvFrame DEF Clear, PassInv, PassSound, EndSound
<1>8. CASE \E n \in Name :
              BuildTool(n) \/ Skip(n) \/ BuildLib(n) \/ PackageOne(n)
    <2> PICK n \in Name : BuildTool(n) \/ Skip(n) \/ BuildLib(n) \/ PackageOne(n)
        BY <1>8
    <2>1. CASE BuildTool(n)
        BY <2>1
        DEF BuildTool, PassInv, DoneClosed, DoneOrdered, Stuck, PassSound, EndSound
    <2>2. CASE Skip(n)
        BY <2>2, PassInvFrame DEF Skip, Ready, PassInv, PassSound, EndSound
    <2>3. CASE BuildLib(n)
        <3> DEFINE D == done \cup {n}
        <3>1. /\ pc = "pass" /\ pc' = pc /\ n \in todo /\ Ready(n)
              /\ done' = D /\ staged' = staged \cup {n}
              /\ depends' = depends /\ progress' = TRUE /\ todo' = todo \ {n}
            BY <2>3 DEF BuildLib
        <3>2. n \in Lib /\ n \notin done
            BY <3>1 DEF TypeOK, PassInv, PassSound
        <3>3. DoneClosed'
            BY <3>1 DEF PassInv, DoneClosed, Ready
        <3>4. DoneOrdered'
            <4> SUFFICES ASSUME NEW S \in SUBSET D, Stuck(S)'
                         PROVE  S = {}
                BY <3>1 DEF DoneOrdered
            <4>1. Stuck(S)
                BY <3>1 DEF Stuck
            <4> QED
                BY <3>1, <3>2, <4>1, OrderExtends DEF PassInv
        <3>5. PassSound' /\ EndSound'
            BY <3>1 DEF PassInv, PassSound, EndSound
        <3> QED
            BY <3>3, <3>4, <3>5 DEF PassInv
    <2>4. CASE PackageOne(n)
        BY <2>4, PassInvFrame DEF PackageOne, PassInv, PassSound, EndSound
    <2> QED
        BY <2>1, <2>2, <2>3, <2>4
<1> QED
    BY <1>1, <1>2, <1>3, <1>4, <1>5, <1>6, <1>7, <1>8, NextCases

LEMMA RefusalSound == TypeOK /\ PassInv => RefusedIfStuck
<1> SUFFICES ASSUME TypeOK, PassInv
             PROVE  RefusedIfStuck
    OBVIOUS
<1>1. ASSUME pc = "refused"
      PROVE  ~CanBuildAll
    <2> DEFINE S == Lib \ done
    <2>1. S # {} /\ S \in SUBSET Lib
        BY <1>1 DEF PassInv, EndSound
    <2>2. Stuck(S)
        BY <1>1 DEF Stuck, PassInv, EndSound
    <2> QED
        BY <2>1, <2>2 DEF CanBuildAll
<1>2. ASSUME pc \in {"clear", "package", "finished"}
      PROVE  CanBuildAll
    <2>1. Lib \subseteq done
        BY <1>2 DEF PassInv, EndSound
    <2> QED
        BY <2>1 DEF CanBuildAll, PassInv, DoneOrdered
<1> QED
    BY <1>1, <1>2 DEF RefusedIfStuck

(* The job gives up exactly on the graphs that have no order, for every    *)
(* set of recipes and every order of visits.                               *)
THEOREM RefusesOnlyStuck == Spec => []RefusedIfStuck
<1>1. Init => TypeOK /\ PassInv
    BY TypeInit, PassInvInit
<1>2. TypeOK /\ PassInv /\ [Next]_vars => TypeOK' /\ PassInv'
    BY TypeStep, PassInvStep
<1>3. TypeOK /\ PassInv => RefusedIfStuck
    BY RefusalSound
<1> QED
    BY <1>1, <1>2, <1>3, PTL DEF Spec

LEMMA BuildsAfterDepends ==
    ASSUME TypeOK, PassInv, [Next]_vars, NEW m \in done' \ done
    PROVE  depends[m] \subseteq staged
<1> USE DEF graph, build, out
<1>1. CASE \E n \in Name : BuildLib(n)
    BY <1>1 DEF BuildLib, Ready, PassInv, DoneClosed
<1>2. CASE ~\E n \in Name : BuildLib(n)
    <2>1. done' \subseteq done
        BY <1>2, NextCases
        DEF Start, EndTools, EndPass, Again, Clear, WriteFragment, Fail, vars,
            BuildTool, Skip, PackageOne
    <2> QED
        BY <2>1
<1> QED
    BY <1>1, <1>2

(* A library is only ever built on the finished prefixes of everything its *)
(* DEP_DEPENDS names.                                                      *)
THEOREM NeverAhead == Spec => BuiltAfterDepends
<1>1. Init => TypeOK /\ PassInv
    BY TypeInit, PassInvInit
<1>2. TypeOK /\ PassInv /\ [Next]_vars => TypeOK' /\ PassInv'
    BY TypeStep, PassInvStep
<1>3. TypeOK /\ PassInv /\ [Next]_vars =>
          [\A n \in done' \ done : depends[n] \subseteq staged]_vars
    BY BuildsAfterDepends
<1> QED
    BY <1>1, <1>2, <1>3, PTL DEF Spec, BuiltAfterDepends

-----------------------------------------------------------------------------
(* While a job packages, OUT_DIR has archives of its checkout only; when   *)
(* it has finished, all of them, and the fragment names them.              *)
Ours == {<<n, signature>> : n \in Lib \cup Tool}

OutInv ==
    /\ pc \in {"package", "finished"} => archives \subseteq Ours
    /\ pc = "finished" => fragment = archives /\ Ours \subseteq archives

LEMMA OutInvStep == OutInv /\ [Next]_vars => OutInv'
<1> SUFFICES ASSUME OutInv, [Next]_vars
             PROVE  OutInv'
    OBVIOUS
<1> USE DEF OutInv, graph, build, out
<1>1. CASE Start
    BY <1>1 DEF Start, Resting
<1>2. CASE EndTools
    BY <1>2 DEF EndTools
<1>3. CASE EndPass
    BY <1>3 DEF EndPass, Again
<1>4. CASE WriteFragment
    <2>1. Ours \subseteq archives
        BY <1>4 DEF WriteFragment, AllPackaged, Ours
    <2> QED
        BY <1>4, <2>1 DEF WriteFragment, Ours
<1>5. CASE Fail
    BY <1>5 DEF Fail
<1>6. CASE UNCHANGED vars
    BY <1>6 DEF vars, Ours
<1>7. CASE Clear
    BY <1>7 DEF Clear
<1>8. CASE \E n \in Name :
              BuildTool(n) \/ Skip(n) \/ BuildLib(n) \/ PackageOne(n)
    BY <1>8 DEF BuildTool, Skip, BuildLib, PackageOne, Ours
<1> QED
    BY <1>1, <1>2, <1>3, <1>4, <1>5, <1>6, <1>7, <1>8, NextCases

LEMMA OutInvInit == Init => OutInv
BY DEF Init, OutInv

(* A finished job delivers one archive for each library and tool of its    *)
(* own checkout, whatever earlier jobs have left.                          *)
THEOREM AlwaysComplete == Spec => []OutIsComplete
<1>1. OutInv => OutIsComplete
    BY DEF OutInv, OutIsComplete, Ours
<1>2. Init => OutInv
    BY OutInvInit
<1>3. OutInv /\ [Next]_vars => OutInv'
    BY OutInvStep
<1> QED
    BY <1>1, <1>2, <1>3, PTL DEF Spec

-----------------------------------------------------------------------------
(* How long a job can take.                                                *)
Libs == Cardinality(Lib)
Parts == Cardinality(Lib \cup Tool)
Unbuilt == Lib \ done
Unstaged == Tool \ staged
Unpackaged == {n \in Lib \cup Tool : <<n, signature>> \notin archives}

(* A library that is built makes up for one more pass over all of them.    *)
PassesLeft(unbuilt, unvisited, built) ==
    (Libs + 2) * unbuilt + unvisited + (IF built THEN Libs + 1 ELSE 0)

Passes == (Libs + 2) * Libs + 2 * Libs + 1

(* The steps that a job may still take.                                    *)
StepsLeft ==
    IF pc = "tools" THEN Parts + Passes + 4 + Cardinality(Unstaged)
    ELSE IF pc = "pass"
         THEN Parts + 3
                + PassesLeft(Cardinality(Unbuilt), Cardinality(todo), progress)
    ELSE IF pc = "clear" THEN Parts + 2
    ELSE IF pc = "package" THEN 1 + Cardinality(Unpackaged)
    ELSE 0

(* The passes come to an end on every graph: one that builds nothing is    *)
(* the last, and there are no more of the others than there are libraries. *)
EndsInTime ==
    /\ [](StepsLeft \in 0 .. 2 * Parts + Passes + 4)
    /\ [][~Resting => StepsLeft' < StepsLeft]_vars

LEMMA Finite ==
    ASSUME IsFiniteSet(Lib), IsFiniteSet(Tool)
    PROVE  /\ Libs \in Nat /\ Parts \in Nat
           /\ \A S \in SUBSET Lib :
                 /\ Cardinality(S) \in 0 .. Libs
                 /\ \A n \in S : Cardinality(S \ {n}) = Cardinality(S) - 1
           /\ \A S \in SUBSET (Lib \cup Tool) :
                 /\ Cardinality(S) \in 0 .. Parts
                 /\ \A n \in S : Cardinality(S \ {n}) = Cardinality(S) - 1
<1>1. IsFiniteSet(Lib \cup Tool)
    BY FS_Union
<1>2. ASSUME NEW T, IsFiniteSet(T), NEW S \in SUBSET T
      PROVE  /\ Cardinality(T) \in Nat
             /\ Cardinality(S) \in 0 .. Cardinality(T)
             /\ \A n \in S : Cardinality(S \ {n}) = Cardinality(S) - 1
    BY <1>2, FS_Subset, FS_CardinalityType, FS_RemoveElement
<1> QED
    BY <1>1, <1>2, FS_EmptySet DEF Libs, Parts

(* What is left of the passes is never more than all of them, and less when*)
(* a library has been visited, built, or is no longer held for built.      *)
LEMMA PassesBound ==
    ASSUME Libs \in Nat, NEW u \in 0 .. Libs, NEW v \in 0 .. Libs, NEW b \in BOOLEAN
    PROVE  PassesLeft(u, v, b) \in 0 .. Passes
<1>1. (Libs + 2) * u \in Nat /\ (Libs + 2) * u =< (Libs + 2) * Libs
    OBVIOUS
<1>2. (Libs + 2) * Libs \in Nat
    OBVIOUS
<1> QED
    BY <1>1, <1>2 DEF PassesLeft, Passes

LEMMA PassesFall ==
    ASSUME Libs \in Nat, NEW u \in 0 .. Libs, NEW v \in 0 .. Libs, NEW b \in BOOLEAN
    PROVE  /\ PassesLeft(u, v - 1, b) < PassesLeft(u, v, b)
           /\ PassesLeft(u - 1, v - 1, TRUE) < PassesLeft(u, v, b)
           /\ PassesLeft(u, u, FALSE) < PassesLeft(u, 0, TRUE)
<1>1. /\ (Libs + 2) * (u - 1) = (Libs + 2) * u - (Libs + 2)
      /\ (Libs + 2) * u \in Int
    OBVIOUS
<1>2. CASE b = TRUE
    BY <1>1, <1>2 DEF PassesLeft
<1>3. CASE b = FALSE
    BY <1>1, <1>3 DEF PassesLeft
<1> QED
    BY <1>2, <1>3

LEMMA StepsBound ==
    ASSUME TypeOK, IsFiniteSet(Lib), IsFiniteSet(Tool)
    PROVE  /\ StepsLeft \in 0 .. 2 * Parts + Passes + 4
           /\ ~Resting => StepsLeft > 0
<1>1. /\ Unbuilt \in SUBSET Lib /\ todo \in SUBSET Lib
      /\ Unstaged \in SUBSET (Lib \cup Tool) /\ Unpackaged \in SUBSET (Lib \cup Tool)
    BY DEF TypeOK, Unbuilt, Unstaged, Unpackaged
<1>2. /\ Cardinality(Unbuilt) \in 0 .. Libs /\ Cardinality(todo) \in 0 .. Libs
      /\ Cardinality(Unstaged) \in 0 .. Parts /\ Cardinality(Unpackaged) \in 0 .. Parts
      /\ Libs \in Nat /\ Parts \in Nat
    BY <1>1, Finite
<1>3. PassesLeft(Cardinality(Unbuilt), Cardinality(todo), progress) \in 0 .. Passes
    BY <1>2, PassesBound DEF TypeOK
<1>4. Passes \in Nat
    BY <1>2 DEF Passes
<1> HIDE DEF Libs, Parts, Passes, PassesLeft, Unbuilt, Unstaged, Unpackaged
<1> QED
    BY <1>2, <1>3, <1>4 DEF StepsLeft, TypeOK, Resting

LEMMA StepsFall ==
    ASSUME TypeOK, TypeOK', PassInv, Next, ~Resting, IsFiniteSet(Lib), IsFiniteSet(Tool)
    PROVE  StepsLeft' < StepsLeft
<1> DEFINE U == Cardinality(Unbuilt)
           V == Cardinality(todo)
           P == PassesLeft(U, V, progress)
<1>1. /\ Unbuilt \in SUBSET Lib /\ todo \in SUBSET Lib
      /\ Unstaged \in SUBSET (Lib \cup Tool) /\ Unpackaged \in SUBSET (Lib \cup Tool)
    BY DEF TypeOK, Unbuilt, Unstaged, Unpackaged
<1>2. /\ Unbuilt' \in SUBSET Lib /\ todo' \in SUBSET Lib
      /\ Unstaged' \in SUBSET (Lib \cup Tool) /\ Unpackaged' \in SUBSET (Lib \cup Tool)
    BY DEF TypeOK, Unbuilt, Unstaged, Unpackaged
<1>3. /\ U \in 0 .. Libs /\ V \in 0 .. Libs
      /\ Cardinality(Unstaged) \in 0 .. Parts /\ Cardinality(Unpackaged) \in 0 .. Parts
      /\ Libs \in Nat /\ Parts \in Nat
    BY <1>1, Finite
<1>4. /\ U' \in 0 .. Libs /\ V' \in 0 .. Libs
      /\ Cardinality(Unstaged)' \in 0 .. Parts /\ Cardinality(Unpackaged)' \in 0 .. Parts
    BY <1>2, Finite
<1>5. Passes \in Nat /\ P \in 0 .. Passes /\ P' \in 0 .. Passes
    <2>1. Passes \in Nat
        BY <1>3 DEF Passes
    <2>2. progress \in BOOLEAN /\ progress' \in BOOLEAN
        BY DEF TypeOK
    <2> HIDE DEF U, V
    <2> QED
        BY <1>3, <1>4, <2>1, <2>2, PassesBound
<1> HIDE DEF PassesLeft
<1>6. ASSUME NEW n \in Name, BuildTool(n)
      PROVE  StepsLeft' < StepsLeft
    <2>1. Unstaged' = Unstaged \ {n} /\ n \in Unstaged /\ pc = "tools" /\ pc' = pc
        BY <1>6 DEF BuildTool, Unstaged
    <2>2. Cardinality(Unstaged)' = Cardinality(Unstaged) - 1
        BY <1>1, <2>1, Finite
    <2> QED
        BY <1>3, <1>5, <2>1, <2>2 DEF StepsLeft
<1>7. CASE EndTools
    <2>1. pc = "tools" /\ pc' \in {"pass", "clear"}
        BY <1>7 DEF EndTools
    <2> QED
        BY <1>3, <1>5, <2>1 DEF StepsLeft
(* A step of the passes that does not end them. *)
<1>8. ASSUME pc = "pass", pc' = "pass", P' < P
      PROVE  StepsLeft' < StepsLeft
    <2>1. StepsLeft = Parts + 3 + P /\ StepsLeft' = Parts + 3 + P'
        BY <1>8 DEF StepsLeft
    <2>2. P \in Int /\ P' \in Int /\ Parts \in Int
        BY <1>3, <1>5
    <2> QED
        BY <1>8, <2>1, <2>2
<1>9. ASSUME NEW n \in Name, Skip(n) \/ BuildLib(n)
      PROVE  StepsLeft' < StepsLeft
    <2>1. /\ todo' = todo \ {n} /\ n \in todo /\ pc = "pass" /\ pc' = "pass"
          /\ progress \in BOOLEAN
        BY <1>9 DEF Skip, BuildLib, TypeOK
    <2>2. V' = V - 1
        BY <1>1, <2>1, Finite
    <2>3. CASE Skip(n)
        <3>1. U' = U /\ progress' = progress
            BY <2>3 DEF Skip, Unbuilt, build
        <3>2. P' < P
            <4> HIDE DEF U, V
            <4> QED
                BY <1>3, <2>1, <2>2, <3>1, PassesFall
        <3> QED
            BY <1>8, <2>1, <3>2
    <2>4. CASE BuildLib(n)
        <3>1. Unbuilt' = Unbuilt \ {n} /\ n \in Unbuilt /\ progress' = TRUE
            BY <2>1, <2>4 DEF BuildLib, Unbuilt, TypeOK, PassInv, PassSound
        <3>2. U' = U - 1
            BY <1>1, <3>1, Finite
        <3>3. P' < P
            <4> HIDE DEF U, V
            <4> QED
                BY <1>3, <2>1, <2>2, <3>1, <3>2, PassesFall
        <3> QED
            BY <1>8, <2>1, <3>3
    <2> QED
        BY <1>9, <2>3, <2>4
<1>10. CASE EndPass
    <2>1. CASE pc' \in {"refused", "clear"}
        BY <1>3, <1>5, <1>10, <2>1 DEF EndPass, StepsLeft
    <2>2. CASE progress /\ Again
        <3>1. /\ pc = "pass" /\ pc' = "pass" /\ todo = {} /\ progress = TRUE
              /\ Unbuilt' = Unbuilt /\ todo' = Unbuilt /\ progress' = FALSE
            BY <1>10, <2>2 DEF EndPass, Again, build, Unbuilt, TypeOK
        <3>2. V = 0 /\ V' = U /\ U' = U
            BY <3>1, FS_EmptySet
        <3>3. P' < P
            <4> HIDE DEF U, V
            <4> QED
                BY <1>3, <3>1, <3>2, PassesFall
        <3> QED
            BY <1>8, <3>1, <3>3
    <2> QED
        BY <1>10, <2>1, <2>2 DEF EndPass
<1>11. CASE Clear
    BY <1>3, <1>4, <1>11 DEF Clear, StepsLeft
<1>12. ASSUME NEW n \in Name, PackageOne(n)
       PROVE  StepsLeft' < StepsLeft
    <2>1. /\ Unpackaged' = Unpackaged \ {n} /\ n \in Unpackaged
          /\ pc = "package" /\ pc' = pc
        BY <1>12 DEF PackageOne, Unpackaged, graph
    <2>2. Cardinality(Unpackaged)' = Cardinality(Unpackaged) - 1
        BY <1>1, <2>1, Finite
    <2> QED
        BY <1>3, <2>1, <2>2 DEF StepsLeft
<1>13. CASE WriteFragment
    BY <1>3, <1>13 DEF WriteFragment, StepsLeft
<1>14. CASE Fail
    BY <1>14, StepsBound DEF Fail, StepsLeft
<1> QED
    BY <1>6, <1>7, <1>9, <1>10, <1>11, <1>12, <1>13, <1>14
    DEF Next, Step, Start

(* A job over finitely many recipes comes to its end in a number of steps  *)
(* that is known beforehand, whatever its graph and in whatever order the  *)
(* passes visit the libraries: the loop of build_platform.cmake terminates.*)
THEOREM AlwaysEndsInTime ==
    ASSUME IsFiniteSet(Lib), IsFiniteSet(Tool)
    PROVE  Spec => EndsInTime
<1>1. TypeOK => StepsLeft \in 0 .. 2 * Parts + Passes + 4
    BY StepsBound
<1>2. TypeOK /\ TypeOK' /\ PassInv /\ [Next]_vars
          => [~Resting => StepsLeft' < StepsLeft]_vars
    BY StepsFall
<1>3. TypeOK /\ PassInv /\ [Next]_vars => PassInv'
    BY PassInvStep
<1> QED
    BY <1>1, <1>2, <1>3, Typing, PassInvInit, PTL DEF Spec, EndsInTime
=============================================================================
