-------------------------- MODULE BinaryTool_proofs --------------------------
(* Proofs about BinaryTool, for every set of binaries.                     *)
EXTENDS BinaryTool, TLAPS

(* A download is only tried while there are tries left.                    *)
TypeInv == TypeOK /\ (pc = "receive" => attempt < Attempts)

LEMMA TypeInvInit == Init => TypeInv
<1> SUFFICES ASSUME Init
             PROVE  TypeInv
    OBVIOUS
<1>1. attempt \in 0 .. Attempts
    BY AttemptsAssumption DEF Init
<1>2. runs \in BOOLEAN /\ torn \in BOOLEAN /\ file \in Binary \cup {Absent, Partial}
    BY DEF Init
<1> QED
    BY <1>1, <1>2 DEF Init, TypeInv, TypeOK

LEMMA TypeInvStep == TypeInv /\ [Next]_vars => TypeInv'
<1> SUFFICES ASSUME TypeInv, [Next]_vars
             PROVE  TypeInv'
    OBVIOUS
<1> USE AttemptsAssumption DEF TypeInv, TypeOK, End, Goto
<1>1. CASE Checkout \/ Configure \/ Check
    BY <1>1 DEF Checkout, Configure, Check
<1>2. CASE BeginDownload
    <2>1. runs' \in BOOLEAN
        BY <1>2, Zenon DEF BeginDownload
    <2> QED
        BY <1>2, <2>1 DEF BeginDownload
<1>3. CASE ReceiveDownload
    BY <1>3 DEF ReceiveDownload
<1>4. CASE LoseDownload
    <2>1. attempt' \in 0 .. Attempts
        BY <1>4 DEF LoseDownload
    <2> QED
        BY <1>4, <2>1 DEF LoseDownload
<1>5. CASE GiveUp \/ Chmod
    BY <1>5 DEF GiveUp, Chmod
<1>6. CASE Crash
    <2>1. torn' \in BOOLEAN
        BY <1>6, Zenon DEF Crash
    <2> QED
        BY <1>6, <2>1 DEF Crash
<1>7. CASE UNCHANGED vars
    BY <1>7 DEF vars
<1> QED
    BY <1>1, <1>2, <1>3, <1>4, <1>5, <1>6, <1>7 DEF Next, Step

(* The type invariant, with the bound on the number of tries.              *)
THEOREM Typing == Spec => []TypeOK
<1>1. Init => TypeInv
    BY TypeInvInit
<1>2. TypeInv /\ [Next]_vars => TypeInv'
    BY TypeInvStep
<1>3. TypeInv => TypeOK
    BY DEF TypeInv
<1> QED
    BY <1>1, <1>2, <1>3, PTL DEF Spec

-----------------------------------------------------------------------------
(* A running configure has no outcome yet.                                 *)
Undecided == pc # "idle" => outcome = "none"

(* What is about to be made a program, or is bound, is the pinned binary.  *)
PinInv == pc = "chmod" \/ outcome = "bound" => file = pin

(* A whole file that is not about to be made a program is one, or was left *)
(* by a configure that died.                                               *)
RunInv == file \in Binary /\ pc # "chmod" => runs \/ torn

ToolInv == Undecided /\ PinInv /\ RunInv

LEMMA ToolInvInit == Init => ToolInv
BY ContentAssumption DEF Init, ToolInv, Undecided, PinInv, RunInv

LEMMA ToolInvStep == TypeInv /\ ToolInv /\ [Next]_vars => ToolInv'
<1> SUFFICES ASSUME TypeInv, ToolInv, [Next]_vars
             PROVE  ToolInv'
    OBVIOUS
<1> USE ContentAssumption
    DEF ToolInv, Undecided, PinInv, RunInv, TypeInv, TypeOK, End, Goto
<1>1. CASE Checkout \/ Configure
    BY <1>1 DEF Checkout, Configure
<1>2. CASE Check
    BY <1>2 DEF Check, Verified
<1>3. CASE BeginDownload
    BY <1>3 DEF BeginDownload
<1>4. CASE ReceiveDownload \/ LoseDownload
    BY <1>4 DEF ReceiveDownload, LoseDownload
<1>5. CASE GiveUp \/ Chmod
    BY <1>5 DEF GiveUp, Chmod
<1>6. CASE Crash
    <2>1. Undecided' /\ PinInv'
        BY <1>6 DEF Crash
    <2>2. RunInv'
        BY <1>6, Zenon DEF Crash
    <2> QED
        BY <2>1, <2>2
<1>7. CASE UNCHANGED vars
    BY <1>7 DEF vars
<1> QED
    BY <1>1, <1>2, <1>3, <1>4, <1>5, <1>6, <1>7 DEF Next, Step

(* A tool that is bound can be executed, unless the configure that fetched *)
(* it died before the chmod.                                               *)
THEOREM AlwaysRuns == Spec => []BoundRuns
<1>1. Init => TypeInv /\ ToolInv
    BY TypeInvInit, ToolInvInit
<1>2. TypeInv /\ ToolInv /\ [Next]_vars => TypeInv' /\ ToolInv'
    BY TypeInvStep, ToolInvStep
<1>3. TypeInv /\ ToolInv => BoundRuns
    <2> SUFFICES ASSUME TypeInv, ToolInv, outcome = "bound"
                 PROVE  runs \/ torn
        BY DEF BoundRuns
    <2>1. file \in Binary /\ pc # "chmod"
        BY DEF TypeInv, TypeOK, ToolInv, PinInv, Undecided
    <2> QED
        BY <2>1, Zenon DEF ToolInv, RunInv
<1> QED
    BY <1>1, <1>2, <1>3, PTL DEF Spec

-----------------------------------------------------------------------------
LEMMA ImplementsStep ==
    ASSUME TypeInv, ToolInv, [Next]_vars
    PROVE  [D!Next]_(D!vars)
<1> USE DEF D!vars, D!Next, D!Finish, Status, ToolInv, PinInv, Undecided,
            TypeInv, TypeOK, End, Goto
<1>1. CASE Checkout
    BY <1>1 DEF Checkout, D!Change, D!Resting
<1>2. CASE Configure
    BY <1>2 DEF Configure, D!Ask, D!Resting
<1>3. CASE Check
    <2>1. CASE Verified /\ End("bound")
        BY <1>3, <2>1 DEF Check, Verified, D!Deliver
    <2>2. CASE ~Verified /\ Goto("fetch")
        BY <1>3, <2>2 DEF Check
    <2> QED
        BY <1>3, <2>1, <2>2 DEF Check
<1>4. CASE BeginDownload \/ ReceiveDownload \/ LoseDownload
    BY <1>4 DEF BeginDownload, ReceiveDownload, LoseDownload
<1>5. CASE GiveUp
    BY <1>5 DEF GiveUp, D!Refuse
<1>6. CASE Chmod
    BY <1>6 DEF Chmod, D!Deliver
<1>7. CASE Crash
    BY <1>7 DEF Crash, D!Abort
<1>8. CASE UNCHANGED vars
    BY <1>8 DEF vars
<1> QED
    BY <1>1, <1>2, <1>3, <1>4, <1>5, <1>6, <1>7, <1>8 DEF Next, Step

(* Tools are delivered as Delivery says, whatever is killed: no tool but   *)
(* the pinned one is ever bound.                                           *)
THEOREM Implements == Spec => DeliversSafely
<1>1. Init => TypeInv /\ ToolInv /\ D!Init
    BY TypeInvInit, ToolInvInit DEF Init, D!Init, Status
<1>2. TypeInv /\ ToolInv /\ [Next]_vars => TypeInv' /\ ToolInv'
    BY TypeInvStep, ToolInvStep
<1>3. TypeInv /\ ToolInv /\ [Next]_vars => [D!Next]_(D!vars)
    BY ImplementsStep
<1> QED
    BY <1>1, <1>2, <1>3, PTL DEF Spec, DeliversSafely, D!SafeSpec

-----------------------------------------------------------------------------
(* How many steps a fetch may still take.                                  *)
StepsLeft ==
    IF pc = "idle" THEN 0
    ELSE IF pc = "chmod" THEN 1
    ELSE 2 * (Attempts - attempt)
             + (IF pc = "check" THEN 3 ELSE IF pc = "fetch" THEN 2 ELSE 1)

EndsInTime ==
    /\ [](StepsLeft \in 0 .. 2 * Attempts + 3)
    /\ [][pc # "idle" => StepsLeft' < StepsLeft]_vars

(* Whatever the server sends, a fetch that is not stopped comes to an end  *)
(* after at most 2 * Attempts + 3 steps: no failure is retried without     *)
(* being counted.                                                          *)
THEOREM AlwaysEndsInTime == Spec => EndsInTime
<1> USE AttemptsAssumption
<1>1. TypeInv => StepsLeft \in 0 .. 2 * Attempts + 3
    BY DEF TypeInv, TypeOK, StepsLeft
<1>2. ASSUME TypeInv, [Next]_vars
      PROVE  [pc # "idle" => StepsLeft' < StepsLeft]_vars
    <2> SUFFICES ASSUME Next, pc # "idle"
                 PROVE  StepsLeft' < StepsLeft
        BY <1>2
    <2> USE <1>2 DEF TypeInv, TypeOK, StepsLeft, End, Goto
    <2>1. CASE Check
        BY <2>1 DEF Check
    <2>2. CASE BeginDownload \/ ReceiveDownload \/ LoseDownload
        BY <2>2 DEF BeginDownload, ReceiveDownload, LoseDownload
    <2>3. CASE GiveUp \/ Chmod
        BY <2>3 DEF GiveUp, Chmod
    <2>4. CASE Crash
        BY <2>4 DEF Crash
    <2> QED
        BY <2>1, <2>2, <2>3, <2>4 DEF Next, Step, Checkout, Configure
<1> QED
    BY <1>1, <1>2, TypeInvInit, TypeInvStep, PTL DEF Spec, EndsInTime
=============================================================================
