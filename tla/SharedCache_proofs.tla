------------------------- MODULE SharedCache_proofs -------------------------
(* Proofs about SharedCache, for any number of configures, contents and    *)
(* tries.                                                                  *)
EXTENDS SharedCache, Integers, TLAPS

Good == {Absent} \cup {Whole(a) : a \in Pin}

\* A file that no checkout wants is being downloaded, or was left by a kill.
Watched == ~torn /\ file \notin Good => \E p \in Process : pc[p] \in Downloading

\* What p has found to be the pinned content, or is writing, is still there
\* unless another one has changed it.
Held(p) ==
    /\ pc[p] = "use" /\ "window" \notin touched[p] => file = Whole(pin[p])
    /\ touched[p] = {} =>
          /\ pc[p] \in {"hash", "head", "tail", "verify"} => file # Absent
          /\ pc[p] \in {"head", "tail"} => attached[p]

\* Whoever has the file of that name open has one, and a run has its outcome
\* when it has ended.
Settled(p) ==
    /\ attached[p] => file # Absent
    /\ outcome[p] # "none" => pc[p] = "idle"
    /\ pc[p] \in Downloading => attempt[p] < Attempts

Harmless(p) ==
    /\ outcome[p] = "used" /\ "window" \notin touched[p] => used[p] = Whole(pin[p])
    /\ kind = "prebuilt" /\ outcome[p] = "failed" => touched[p] # {}

IInv ==
    /\ TypeOK /\ Watched
    /\ \A p \in Process : Held(p) /\ Settled(p) /\ Harmless(p)

\* The contents of a file, and which of them are blocks.
LEMMA Contents ==
    /\ \A a \in Content : Whole(a) \in Blocks
    /\ Empty \in Blocks /\ Absent \notin Blocks
    /\ \A f \in Blocks, a \in Content :
          [f EXCEPT !.head = a] \in Blocks /\ [f EXCEPT !.tail = a] \in Blocks
BY AbsentAssumption DEF Blocks, Whole, Empty

LEMMA InitIInv == Init => IInv
<1> SUFFICES ASSUME Init PROVE IInv
  OBVIOUS
<1>1. TypeOK
  <2>1. file \in Blocks \cup {Absent}
    BY Contents, PinAssumption DEF Init
  <2>2. 0 \in 0 .. Attempts
    BY AttemptsAssumption
  <2> QED BY <2>1, <2>2 DEF Init, TypeOK
<1>2. Watched
  BY DEF Init, Watched, Good
<1>3. \A p \in Process : Held(p) /\ Settled(p) /\ Harmless(p)
  BY DEF Init, Held, Settled, Harmless, Downloading
<1> QED BY <1>1, <1>2, <1>3 DEF IInv

-----------------------------------------------------------------------------
(* Steps that leave the file alone.                                        *)
LEMMA QuietStep ==
    ASSUME IInv, NEW p \in Process,
           Start(p) \/ Look(p) \/ Hash(p) \/ LoseDownload(p) \/ Verify(p)
              \/ GiveUp(p) \/ Use(p) \/ Kill(p)
    PROVE  IInv'
<1> USE DEF run, End, Goto, At
<1>0. TypeOK /\ file' = file /\ kind' = kind
  BY DEF IInv, Start, Look, Hash, LoseDownload, Verify, GiveUp, Use, Kill
<1>1. TypeOK'
  <2>1. CASE Start(p)
    <3>1. 0 \in 0 .. Attempts
      BY AttemptsAssumption
    <3>2. pin' \in [Process -> Pin]
      BY <1>0, <2>1 DEF TypeOK, Start
    <3> QED BY <1>0, <2>1, <3>1, <3>2 DEF TypeOK, Start
  <2>2. CASE Look(p)
    BY <1>0, <2>2 DEF TypeOK, Look
  <2>3. CASE Hash(p)
    BY <1>0, <2>3 DEF TypeOK, Hash
  <2>4. CASE LoseDownload(p)
    BY <1>0, <2>4 DEF TypeOK, LoseDownload, Downloading
  <2>5. CASE Verify(p)
    BY <1>0, <2>5 DEF TypeOK, Verify, Downloading
  <2>6. CASE GiveUp(p)
    BY <1>0, <2>6 DEF TypeOK, GiveUp
  <2>7. CASE Use(p)
    <3>1. used' \in [Process -> Blocks \cup {Absent}]
      BY <1>0, <2>7 DEF TypeOK, Use
    <3>2. /\ pc' \in [Process -> {"idle", "look", "hash", "open", "use"} \cup Downloading]
          /\ outcome' \in [Process -> {"none", "used", "fallback", "failed", "killed"}]
          /\ attached' \in [Process -> BOOLEAN]
      BY <1>0, <2>7 DEF TypeOK, Use
    <3> QED BY <1>0, <2>7, <3>1, <3>2 DEF TypeOK, Use
  <2>8. CASE Kill(p)
    <3>1. torn' \in BOOLEAN
      BY <2>8 DEF Kill
    <3>2. /\ pc' \in [Process -> {"idle", "look", "hash", "open", "use"} \cup Downloading]
          /\ outcome' \in [Process -> {"none", "used", "fallback", "failed", "killed"}]
          /\ attached' \in [Process -> BOOLEAN]
      BY <1>0, <2>8 DEF TypeOK, Kill
    <3> QED BY <1>0, <2>8, <3>1, <3>2 DEF TypeOK, Kill
  <2> QED BY <2>1, <2>2, <2>3, <2>4, <2>5, <2>6, <2>7, <2>8
<1>2. ASSUME NEW q \in Process, q # p
      PROVE  /\ pc'[q] = pc[q] /\ pin'[q] = pin[q] /\ attached'[q] = attached[q]
             /\ outcome'[q] = outcome[q] /\ used'[q] = used[q] /\ touched'[q] = touched[q]
             /\ attempt'[q] = attempt[q]
  BY <1>0, <1>2 DEF TypeOK, Start, Look, Hash, LoseDownload, Verify, GiveUp, Use, Kill
<1>3. ASSUME NEW q \in Process, q # p
      PROVE  (Held(q) /\ Settled(q) /\ Harmless(q))'
  <2>1. Held(q) /\ Settled(q) /\ Harmless(q)
    BY DEF IInv
  <2> QED BY <1>0, <1>2, <1>3, <2>1 DEF Held, Settled, Harmless
<1>4. Whole(pin[p]) \in Good /\ Whole(pin[p]) \in {Whole(a) : a \in Content}
      /\ Whole(pin[p]) # Absent
  <2>1. pin[p] \in Pin /\ pin[p] \in Content
    BY <1>0, PinAssumption DEF TypeOK
  <2> QED BY <2>1, Contents DEF Good
<1>5. (Held(p) /\ Settled(p) /\ Harmless(p))'
  <2>1. Held(p) /\ Settled(p) /\ Harmless(p)
    BY DEF IInv
  <2>2. CASE Start(p)
    <3>1. /\ pc'[p] = "look" /\ outcome'[p] = "none" /\ attached'[p] = attached[p]
      BY <1>0, <2>2 DEF TypeOK, Start
    <3> QED BY <1>0, <2>1, <3>1 DEF Held, Settled, Harmless, Downloading
  <2>3. CASE Look(p)
    <3>1. /\ pc'[p] = IF file = Absent THEN "open" ELSE "hash"
          /\ attached'[p] = attached[p] /\ outcome'[p] = outcome[p] /\ pc[p] = "look"
          /\ pin'[p] = pin[p] /\ used'[p] = used[p] /\ touched'[p] = touched[p]
      BY <1>0, <2>3 DEF TypeOK, Look
    <3> QED BY <1>0, <2>1, <3>1 DEF Held, Settled, Harmless, Downloading
  <2>4. CASE Hash(p)
    <3>1. pc[p] = "hash" /\ pin'[p] = pin[p] /\ used'[p] = used[p] /\ touched'[p] = touched[p] /\ attempt'[p] = attempt[p]
      BY <1>0, <2>4 DEF Hash
    <3>2. \/ /\ file = Whole(pin[p]) /\ pc'[p] = "use"
             /\ outcome'[p] = outcome[p] /\ attached'[p] = attached[p]
          \/ /\ pc'[p] = "open" /\ outcome'[p] = outcome[p] /\ attached'[p] = attached[p]
          \/ /\ pc'[p] = "idle" /\ outcome'[p] = "failed" /\ ~attached'[p]
             /\ file = Absent \/ kind = "source"
      BY <1>0, <2>4 DEF TypeOK, Hash
    <3> QED BY <1>0, <2>1, <3>1, <3>2 DEF Held, Settled, Harmless, Downloading
  <2>5. CASE LoseDownload(p)
    <3>1. /\ pc'[p] = "remove" /\ pc[p] \in {"head", "tail"} /\ ~attached'[p]
          /\ outcome'[p] = outcome[p] /\ attempt'[p] = attempt[p]
          /\ pin'[p] = pin[p] /\ used'[p] = used[p] /\ touched'[p] = touched[p]
      BY <1>0, <2>5 DEF TypeOK, LoseDownload
    <3> QED BY <1>0, <2>1, <3>1 DEF Held, Settled, Harmless, Downloading
  <2>6. CASE Verify(p)
    <3>1. pc[p] = "verify" /\ pin'[p] = pin[p] /\ used'[p] = used[p] /\ touched'[p] = touched[p] /\ attempt'[p] = attempt[p]
      BY <1>0, <2>6 DEF Verify
    <3>2. \/ /\ file = Whole(pin[p]) /\ pc'[p] = "use"
             /\ outcome'[p] = outcome[p] /\ attached'[p] = attached[p]
          \/ /\ pc'[p] = "remove" /\ outcome'[p] = outcome[p] /\ attached'[p] = attached[p]
          \/ pc'[p] = "idle" /\ outcome'[p] = "failed" /\ ~attached'[p] /\ file = Absent
      BY <1>0, <2>6 DEF TypeOK, Verify
    <3> QED BY <1>0, <2>1, <3>1, <3>2 DEF Held, Settled, Harmless, Downloading
  <2>7. CASE GiveUp(p)
    <3>1. /\ pc'[p] = "idle" /\ pc[p] = "open" /\ ~attached'[p]
          /\ outcome'[p] = IF kind = "prebuilt" THEN "fallback" ELSE "failed"
          /\ pin'[p] = pin[p] /\ used'[p] = used[p] /\ touched'[p] = touched[p]
      BY <1>0, <2>7 DEF TypeOK, GiveUp
    <3> QED BY <1>0, <2>1, <3>1 DEF Held, Settled, Harmless, Downloading
  <2>8. CASE Use(p)
    <3>1. pc[p] = "use" /\ pc'[p] = "idle" /\ ~attached'[p]
          /\ pin'[p] = pin[p] /\ touched'[p] = touched[p]
      BY <1>0, <2>8 DEF TypeOK, Use
    <3>2. \/ outcome'[p] = "used" /\ used'[p] = file
          \/ outcome'[p] = "failed" /\ file # Whole(pin[p])
      BY <1>0, <1>4, <2>8 DEF TypeOK, Use
    <3> QED BY <1>0, <2>1, <3>1, <3>2 DEF Held, Settled, Harmless, Downloading
  <2>9. CASE Kill(p)
    <3>1. /\ pc'[p] = "idle" /\ ~attached'[p] /\ outcome'[p] = "killed"
          /\ pin'[p] = pin[p] /\ used'[p] = used[p] /\ touched'[p] = touched[p]
      BY <1>0, <2>9 DEF TypeOK, Kill
    <3> QED BY <1>0, <2>1, <3>1 DEF Held, Settled, Harmless, Downloading
  <2> QED BY <2>2, <2>3, <2>4, <2>5, <2>6, <2>7, <2>8, <2>9
<1>6. Watched'
  <2> SUFFICES ASSUME ~torn', file \notin Good
               PROVE  \E q \in Process : pc'[q] \in Downloading
    BY <1>0 DEF Watched, Good
  <2>1. ~torn
    BY DEF Start, Look, Hash, LoseDownload, Verify, GiveUp, Use, Kill
  <2>2. PICK q \in Process : pc[q] \in Downloading
    BY <2>1 DEF IInv, Watched
  <2>3. CASE q # p
    BY <1>2, <2>2, <2>3
  <2>4. CASE q = p
    <3>1. file # Whole(pin[p]) /\ file # Absent
      BY <1>4 DEF Good
    <3>2. LoseDownload(p) \/ Verify(p)
      <4>1. ~Kill(p)
        BY <2>2, <2>4, <3>1 DEF Kill
      <4> QED BY <2>2, <2>4, <4>1 DEF Downloading, Start, Look, Hash, GiveUp, Use
    <3>3. pc'[p] = "remove"
      BY <1>0, <3>1, <3>2 DEF TypeOK, LoseDownload, Verify
    <3> QED BY <3>3 DEF Downloading
  <2> QED BY <2>3, <2>4
<1> QED BY <1>1, <1>3, <1>5, <1>6 DEF IInv

-----------------------------------------------------------------------------
(* Steps that change the file.                                             *)

\* The others that are at work learn of it.
LEMMA OthersSee ==
    ASSUME IInv, NEW p \in Process, Touch(p), NEW q \in Process, q # p,
           pc'[q] = pc[q], pin'[q] = pin[q], outcome'[q] = outcome[q],
           used'[q] = used[q], attempt'[q] = attempt[q], kind' = kind, attached'[q] => file' # Absent
    PROVE  (Held(q) /\ Settled(q) /\ Harmless(q))'
<1>1. Held(q) /\ Settled(q) /\ Harmless(q)
  BY DEF IInv
<1>2. touched'[q] = IF pc[q] = "idle" THEN touched[q]
                    ELSE touched[q] \cup {IF pc[q] = "use" THEN "window" ELSE "early"}
  BY DEF Touch
<1>3. CASE pc[q] = "idle"
  BY <1>1, <1>2, <1>3 DEF Held, Settled, Harmless
<1>4. CASE pc[q] # "idle"
  <2>1. outcome[q] = "none"
    BY <1>1, <1>4 DEF Settled
  <2>2. touched'[q] # {} /\ (pc[q] = "use" => "window" \in touched'[q])
    BY <1>2, <1>4
  <2> QED BY <1>1, <2>1, <2>2 DEF Held, Settled, Harmless
<1> QED BY <1>3, <1>4

LEMMA TouchTyped ==
    ASSUME TypeOK, NEW p \in Process, Touch(p)
    PROVE  touched' \in [Process -> SUBSET {"early", "window"}] /\ touched'[p] = touched[p]
BY DEF TypeOK, Touch

LEMMA OpenStep ==
    ASSUME IInv, NEW p \in Process, Open(p)
    PROVE  IInv'
<1> USE DEF Open, Goto, At, run
<1>0. TypeOK /\ Empty \in Blocks /\ Empty # Absent
  BY Contents DEF IInv
<1>1. TypeOK'
  BY <1>0, TouchTyped DEF TypeOK, Downloading
<1>2. pc'[p] = "head" /\ attached'[p] /\ file' = Empty /\ touched'[p] = touched[p]
      /\ outcome'[p] = outcome[p] /\ pc[p] = "open"
  BY <1>0, TouchTyped DEF TypeOK
<1>3. Watched'
  BY <1>2 DEF Watched, Downloading
<1>4. (Held(p) /\ Settled(p) /\ Harmless(p))'
  BY <1>0, <1>2 DEF IInv, Held, Settled, Harmless
<1>5. ASSUME NEW q \in Process, q # p
      PROVE  (Held(q) /\ Settled(q) /\ Harmless(q))'
  <2>1. pc'[q] = pc[q] /\ file' # Absent
    BY <1>0, <1>2, <1>5 DEF TypeOK
  <2> QED BY <1>5, <2>1, OthersSee
<1> QED BY <1>1, <1>3, <1>4, <1>5 DEF IInv

LEMMA WriteStep ==
    ASSUME IInv, NEW p \in Process, NEW a \in Content, WriteHead(p, a) \/ WriteTail(p, a)
    PROVE  IInv'
<1> USE DEF WriteHead, WriteTail, Goto, At, run
<1>0. TypeOK /\ pc[p] \in {"head", "tail"} /\ Held(p) /\ Settled(p) /\ Harmless(p)
  BY DEF IInv
<1>1. /\ pc'[p] \in {"tail", "verify"} /\ \A q \in Process : q # p => pc'[q] = pc[q]
      /\ attached' \in [Process -> BOOLEAN]
      /\ pc'[p] = "tail" => attached'[p] = attached[p]
      /\ \A q \in Process : attached'[q] => attached[q]
  <2>1. CASE WriteHead(p, a)
    BY <1>0, <2>1 DEF TypeOK
  <2>2. CASE WriteTail(p, a)
    BY <1>0, <2>2 DEF TypeOK
  <2> QED BY <2>1, <2>2
<1>2. ASSUME attached[p]
      PROVE  file \in Blocks /\ file' \in Blocks /\ file' # Absent
  <2>1. file \in Blocks
    BY <1>0, <1>2 DEF TypeOK, Settled
  <2>2. file' = [file EXCEPT !.head = a] \/ file' = [file EXCEPT !.tail = a]
    BY <1>2
  <2>3. file' \in Blocks
    BY <2>1, <2>2, Contents
  <2> QED BY <2>1, <2>3, Contents
<1>3. TypeOK'
  <2>1. touched' \in [Process -> SUBSET {"early", "window"}]
    BY <1>0, TouchTyped DEF TypeOK
  <2>2. pc' \in [Process -> {"idle", "look", "hash", "open", "use"} \cup Downloading]
    BY <1>0 DEF TypeOK, Downloading
  <2>3. file' \in Blocks \cup {Absent}
    BY <1>0, <1>2 DEF TypeOK
  <2> QED BY <1>0, <1>1, <2>1, <2>2, <2>3 DEF TypeOK
<1>4. Watched'
  BY <1>1 DEF Watched, Downloading
<1>5. touched'[p] = touched[p] /\ outcome' = outcome /\ pin' = pin /\ used' = used /\ kind' = kind
  BY <1>0, TouchTyped DEF TypeOK
<1>6. attached[p] \/ file' = file
  BY DEF TypeOK
<1>7. (Held(p) /\ Settled(p) /\ Harmless(p))'
  <2>1. attempt'[p] = attempt[p] /\ outcome[p] = "none"
    BY <1>0 DEF Settled
  <2> QED BY <1>0, <1>1, <1>2, <1>5, <1>6, <2>1 DEF Held, Settled, Harmless, Downloading
<1>8. ASSUME NEW q \in Process, q # p
      PROVE  (Held(q) /\ Settled(q) /\ Harmless(q))'
  <2>1. CASE attached[p]
    <3>1. Touch(p)
      BY <2>1
    <3> QED BY <1>1, <1>2, <1>5, <1>8, <2>1, <3>1, OthersSee
  <2>2. CASE ~attached[p]
    <3>1. file' = file /\ touched' = touched /\ attached'[q] = attached[q]
      BY <1>0, <1>8, <2>2 DEF TypeOK
    <3>2. Held(q) /\ Settled(q) /\ Harmless(q)
      BY DEF IInv
    <3> QED BY <1>1, <1>5, <1>8, <3>1, <3>2 DEF Held, Settled, Harmless
  <2> QED BY <2>1, <2>2
<1> QED BY <1>3, <1>4, <1>7, <1>8 DEF IInv

LEMMA RemoveStep ==
    ASSUME IInv, NEW p \in Process, Remove(p)
    PROVE  IInv'
<1> USE DEF Remove, Goto, At, run
<1>0. TypeOK /\ Settled(p)
  BY DEF IInv
<1>1. attempt[p] + 1 \in 0 .. Attempts
  BY <1>0, AttemptsAssumption DEF TypeOK, Settled, Downloading
<1>2. TypeOK'
  BY <1>0, <1>1, TouchTyped DEF TypeOK
<1>3. Watched'
  BY DEF Watched, Good
<1>4. /\ pc'[p] = "open" /\ ~attached'[p] /\ touched'[p] = touched[p]
      /\ outcome'[p] = outcome[p] /\ pc[p] = "remove" /\ outcome[p] = "none"
  BY <1>0, TouchTyped DEF TypeOK, Settled
<1>5. (Held(p) /\ Settled(p) /\ Harmless(p))'
  BY <1>4 DEF Held, Settled, Harmless, Downloading
<1>6. ASSUME NEW q \in Process, q # p
      PROVE  (Held(q) /\ Settled(q) /\ Harmless(q))'
  <2>1. pc'[q] = pc[q] /\ attempt'[q] = attempt[q] /\ ~attached'[q]
    BY <1>0, <1>6 DEF TypeOK
  <2> QED BY <1>6, <2>1, OthersSee
<1> QED BY <1>2, <1>3, <1>5, <1>6 DEF IInv

LEMMA NextStep == IInv /\ [Next]_vars => IInv'
<1>1. ASSUME IInv, UNCHANGED vars PROVE IInv'
  BY <1>1 DEF vars, IInv, TypeOK, Watched, Good, Held, Settled, Harmless
<1> QED BY <1>1, QuietStep, OpenStep, WriteStep, RemoveStep DEF Next, Step

LEMMA Inductive == Spec => []IInv
BY InitIInv, NextStep, PTL DEF Spec

-----------------------------------------------------------------------------
(* The theorems.                                                           *)

\* The state stays within its types: no fetch makes more than its tries.
THEOREM Typing == Spec => []TypeOK
<1>1. IInv => TypeOK
  BY DEF IInv
<1> QED BY <1>1, Inductive, PTL

\* With any number of configures, a file that nobody is downloading is one that
\* a checkout pins, or was left by a kill.
THEOREM AlwaysVerified == Spec => []RestsVerified
<1>1. IInv => RestsVerified
  BY DEF IInv, Watched, RestsVerified, Good
<1> QED BY <1>1, Inductive, PTL

\* With any number of configures, only a change between the hash and the
\* extraction can give one something else than it pins.
THEOREM AlwaysHarmless == Spec => []OnlyOthersHarm
<1>1. IInv => OnlyOthersHarm
  BY DEF IInv, Harmless, OnlyOthersHarm
<1> QED BY <1>1, Inductive, PTL

\* How the run of a configure may end that shares the cache with no other:
\*  - what it extracts is what its checkout pins;
\*  - a prebuilt is given up only when every try has been made, and is never
\*    the reason of a failure;
\*  - a source is refused only then, too, or with no try made over a file that
\*    is still there and not the pinned one.  Such a file is the rest of a
\*    killed download or what another checkout pins under the same name.
OutcomesAlone ==
    \A p \in Process :
        /\ outcome[p] = "used" => used[p] = Whole(pin[p])
        /\ outcome[p] = "fallback" => attempt[p] = Attempts
        /\ outcome[p] = "failed" =>
              /\ kind = "source"
              /\ \/ attempt[p] = Attempts
                 \/ /\ attempt[p] = 0
                    /\ file \notin {Absent, Whole(pin[p])}
                    /\ torn \/ file \in {Whole(a) : a \in Pin}

\* Nobody else has been at the file, no try is made before the file that was
\* found has been hashed, and what a run has ended for is still to be seen.
Alone(p) ==
    /\ touched[p] = {}
    /\ pc[p] \in {"look", "hash"} => attempt[p] = 0
    /\ outcome[p] = "fallback" => attempt[p] = Attempts
    /\ outcome[p] = "failed" =>
          \/ attempt[p] = Attempts
          \/ attempt[p] = 0 /\ file \notin {Absent, Whole(pin[p])}

LEMMA AloneStep ==
    ASSUME IInv, NEW p \in Process, \A q \in Process : q = p, Alone(p),
           Start(p) \/ Step(p) \/ Kill(p)
    PROVE  Alone(p)'
<1> USE DEF Alone, Goto, At, End, run
<1>1. TypeOK /\ Held(p) /\ Settled(p) /\ Attempts \in Nat
  BY AttemptsAssumption DEF IInv
<1>2. pc[p] # "idle" => outcome[p] = "none"
  BY <1>1 DEF Settled
<1>3. CASE Start(p)
  BY <1>1, <1>3 DEF TypeOK, Start
<1>4. CASE Look(p)
  BY <1>1, <1>2, <1>4 DEF TypeOK, Look
<1>5. CASE Hash(p)
  BY <1>1, <1>2, <1>5 DEF TypeOK, Hash, Held
<1>6. CASE Open(p)
  BY <1>1, <1>2, <1>6 DEF TypeOK, Open, Touch
<1>7. ASSUME NEW a \in Content, WriteHead(p, a) \/ WriteTail(p, a)
      PROVE  Alone(p)'
  BY <1>1, <1>2, <1>7 DEF TypeOK, WriteHead, WriteTail, Touch
<1>8. CASE LoseDownload(p)
  BY <1>1, <1>2, <1>8 DEF TypeOK, LoseDownload
<1>9. CASE Verify(p)
  BY <1>1, <1>2, <1>9 DEF TypeOK, Verify, Held
<1>10. CASE Remove(p)
  BY <1>1, <1>2, <1>10 DEF TypeOK, Remove, Touch
<1>11. CASE GiveUp(p)
  <2>1. attempt[p] = Attempts
    BY <1>1, <1>11 DEF TypeOK, GiveUp
  <2> QED BY <1>1, <1>11, <2>1 DEF TypeOK, GiveUp
<1>12. CASE Use(p)
  <2>1. file = Whole(pin[p]) /\ pin[p] \in Content
    BY <1>1, <1>12, PinAssumption DEF TypeOK, Use, Held
  <2> QED BY <1>1, <1>12, <2>1 DEF TypeOK, Use
<1>13. CASE Kill(p)
  BY <1>1, <1>13 DEF TypeOK, Kill
<1> QED BY <1>3, <1>4, <1>5, <1>6, <1>7, <1>8, <1>9, <1>10, <1>11, <1>12, <1>13 DEF Step

\* A configure that shares the cache with no other ends in one of these ways,
\* whatever the server sends and wherever earlier ones were killed.  With one
\* pin for every name, this is what Prefix takes for granted of its archives and
\* of the tarballs of build_dep.
THEOREM OutcomesWhenAlone ==
    ASSUME \A p, q \in Process : p = q
    PROVE  Spec => []OutcomesAlone
<1> DEFINE AllAlone == \A p \in Process : Alone(p)
<1>1. Init => AllAlone
  BY DEF Init, Alone
<1>2. IInv /\ AllAlone /\ [Next]_vars => AllAlone'
  <2>1. ASSUME UNCHANGED vars, AllAlone PROVE AllAlone'
    BY <2>1 DEF vars, Alone
  <2>2. ASSUME IInv, AllAlone, NEW p \in Process, Start(p) \/ Step(p) \/ Kill(p)
        PROVE  AllAlone'
    <3>1. Alone(p)'
      BY <2>2, AloneStep
    <3> QED BY <3>1
  <2> QED BY <2>1, <2>2 DEF Next
<1>3. IInv /\ AllAlone => OutcomesAlone
  <2> SUFFICES ASSUME IInv, AllAlone, NEW p \in Process
               PROVE  /\ outcome[p] = "used" => used[p] = Whole(pin[p])
                      /\ outcome[p] = "fallback" => attempt[p] = Attempts
                      /\ outcome[p] = "failed" =>
                            /\ kind = "source"
                            /\ \/ attempt[p] = Attempts
                               \/ /\ attempt[p] = 0
                                  /\ file \notin {Absent, Whole(pin[p])}
                                  /\ torn \/ file \in {Whole(a) : a \in Pin}
    BY DEF OutcomesAlone
  <2>1. Alone(p) /\ Settled(p) /\ Harmless(p) /\ kind \in {"prebuilt", "source"}
    BY DEF IInv, TypeOK
  <2>2. outcome[p] = "failed" => torn \/ file \in Good
    BY <2>1 DEF IInv, Watched, Settled, Downloading
  <2> QED BY <2>1, <2>2 DEF Alone, Harmless, Good
<1> QED BY <1>1, <1>2, <1>3, Inductive, PTL DEF Spec

-----------------------------------------------------------------------------
(* How long a configure can take.                                          *)

\* The steps of its own that p may still take: five for every try that is left.
StepsLeft(p) ==
    LET t == 5 * (Attempts - attempt[p])
    IN  IF pc[p] = "idle" THEN 0
        ELSE IF pc[p] = "use" THEN 1
        ELSE IF pc[p] = "remove" THEN t - 3
        ELSE IF pc[p] = "verify" THEN t - 2
        ELSE IF pc[p] = "tail" THEN t - 1
        ELSE IF pc[p] = "head" THEN t
        ELSE IF pc[p] = "open" THEN t + 1
        ELSE IF pc[p] = "hash" THEN t + 2
        ELSE t + 3

\* A configure comes to its end after a bounded number of its own steps, and
\* no step of another one puts that end off.
EndsInTime ==
    /\ [](\A p \in Process : StepsLeft(p) \in 0 .. 5 * Attempts + 3)
    /\ [][\A p \in Process :
            /\ Step(p) \/ Kill(p) => StepsLeft(p)' < StepsLeft(p)
            /\ pc[p] # "idle" => StepsLeft(p)' =< StepsLeft(p)]_vars

LEMMA StepsBound ==
    ASSUME IInv, NEW p \in Process
    PROVE  StepsLeft(p) \in 0 .. 5 * Attempts + 3
<1>1. /\ attempt[p] \in 0 .. Attempts /\ Attempts \in Nat
      /\ pc[p] \in Downloading => attempt[p] < Attempts
  BY AttemptsAssumption DEF IInv, TypeOK, Settled
<1>2. StepsLeft(p) \in Int
  BY <1>1 DEF StepsLeft
<1>3. 0 =< StepsLeft(p) /\ StepsLeft(p) =< 5 * Attempts + 3
  BY <1>1 DEF StepsLeft, Downloading
<1> QED BY <1>1, <1>2, <1>3

LEMMA OwnStepsFall ==
    ASSUME IInv, NEW p \in Process, Step(p) \/ Kill(p)
    PROVE  StepsLeft(p)' < StepsLeft(p)
<1>1. /\ attempt[p] \in 0 .. Attempts /\ Attempts \in Nat
      /\ pc[p] \in Downloading => attempt[p] < Attempts
      /\ pc \in [Process -> {"idle", "look", "hash", "open", "use"} \cup Downloading]
      /\ attempt \in [Process -> 0 .. Attempts]
  BY AttemptsAssumption DEF IInv, TypeOK, Settled
<1> USE <1>1 DEF StepsLeft, Downloading, Goto, At, End
<1>2. CASE Look(p) \/ Hash(p) \/ Open(p)
  BY <1>2 DEF Look, Hash, Open
<1>3. CASE \E a \in Content : WriteHead(p, a) \/ WriteTail(p, a)
  BY <1>3 DEF WriteHead, WriteTail
<1>4. CASE LoseDownload(p) \/ Verify(p)
  BY <1>4 DEF LoseDownload, Verify
<1>5. CASE Remove(p)
  BY <1>5 DEF Remove
<1>6. CASE GiveUp(p) \/ Use(p) \/ Kill(p)
  BY <1>6 DEF GiveUp, Use, Kill
<1> QED BY <1>2, <1>3, <1>4, <1>5, <1>6 DEF Step

LEMMA OthersLeaveIt ==
    ASSUME IInv, NEW p \in Process, NEW q \in Process, p # q,
           Start(q) \/ Step(q) \/ Kill(q)
    PROVE  pc'[p] = pc[p] /\ attempt'[p] = attempt[p]
BY DEF IInv, TypeOK, Start, Step, Look, Hash, Open, WriteHead, WriteTail, LoseDownload,
       Verify, Remove, GiveUp, Use, Kill, Goto, End

\* Configures that take each other's downloads away do not keep each other
\* going: the tries of each are its own, and every way back to the server
\* costs one.
THEOREM AlwaysEndsInTime == Spec => EndsInTime
<1>1. IInv => \A p \in Process : StepsLeft(p) \in 0 .. 5 * Attempts + 3
  BY StepsBound
<1>2. IInv /\ IInv' /\ [Next]_vars
         => [\A p \in Process :
               /\ Step(p) \/ Kill(p) => StepsLeft(p)' < StepsLeft(p)
               /\ pc[p] # "idle" => StepsLeft(p)' =< StepsLeft(p)]_vars
  <2> SUFFICES ASSUME IInv, IInv', Next, NEW p \in Process
               PROVE  /\ Step(p) \/ Kill(p) => StepsLeft(p)' < StepsLeft(p)
                      /\ pc[p] # "idle" => StepsLeft(p)' =< StepsLeft(p)
    OBVIOUS
  <2>1. StepsLeft(p) \in Int /\ StepsLeft(p)' \in Int
    <3>1. /\ attempt[p] \in Int /\ attempt'[p] \in Int /\ Attempts \in Int
      BY AttemptsAssumption DEF IInv, TypeOK
    <3> QED BY <3>1 DEF StepsLeft
  <2>2. Step(p) \/ Kill(p) => StepsLeft(p)' < StepsLeft(p)
    BY OwnStepsFall
  <2>3. CASE Start(p)
    BY <2>2, <2>3 DEF Start, At
  <2>4. CASE Step(p) \/ Kill(p)
    BY <2>1, <2>2, <2>4
  <2>5. ASSUME NEW q \in Process, q # p, Start(q) \/ Step(q) \/ Kill(q)
        PROVE  StepsLeft(p)' = StepsLeft(p)
    BY <2>5, OthersLeaveIt DEF StepsLeft
  <2> QED BY <2>1, <2>2, <2>3, <2>4, <2>5 DEF Next
<1> QED BY <1>1, <1>2, Inductive, PTL DEF Spec, EndsInTime
=============================================================================
