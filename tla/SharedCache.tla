---------------------------- MODULE SharedCache ----------------------------
(* One file of the download cache and the configures that share it: the    *)
(* trees of one user, or jobs with one EXTDEPS_CACHE, which take no lock.  *)
(* The file is an archive of a prebuilt (resolve.cmake) or the tarball of  *)
(* a recipe (build_dependency.cmake); the two differ in what a mismatch    *)
(* and a failed fetch come to.                                             *)
(*                                                                         *)
(* A file has two blocks, so that a reader can see half of it and two      *)
(* writers can mix theirs.  As POSIX has it, opening a file for writing    *)
(* empties it for all who have it open, and who writes to a file that has  *)
(* been removed writes to nobody's file.                                   *)
EXTENDS Naturals

CONSTANTS
    Process,    \* the configures
    Pin,        \* the contents that some checkout asks for under this name
    Content,    \* those, and others that a server may send
    Hole,       \* a block that is not written
    Absent,     \* no file
    Attempts    \* tries of a fetch: three for every URL

ASSUME PinAssumption == Pin \subseteq Content
ASSUME BlockAssumption == Hole \notin Content
ASSUME AttemptsAssumption == Attempts \in Nat \ {0}

Blocks == [head : Content \cup {Hole}, tail : Content \cup {Hole}]
Whole(a) == [head |-> a, tail |-> a]
Empty == [head |-> Hole, tail |-> Hole]

ASSUME AbsentAssumption == Absent \notin Blocks

VARIABLES
    kind,       \* what the file is, "prebuilt" or "source"
    file,       \* the file under its name, or Absent
    pc,         \* where a configure is
    pin,        \* the content that its checkout pins
    attempt,    \* tries it has made
    attached,   \* its download has the file of that name open
    outcome,    \* how its last run has ended
    used,       \* what it has extracted in that run
    touched,    \* others changed the file in this run: "early", or in the
                \* "window" after it was found to be the pinned one
    torn        \* a configure was killed over a file that is not what it wanted

vars == <<kind, file, pc, pin, attempt, attached, outcome, used, touched, torn>>
run == <<pin, outcome, used>>

Downloading == {"head", "tail", "verify", "remove"}

Init ==
    /\ kind \in {"prebuilt", "source"}
    /\ file \in {Absent} \cup {Whole(a) : a \in Pin}
    /\ pc = [p \in Process |-> "idle"]
    /\ pin \in [Process -> Pin]
    /\ attempt = [p \in Process |-> 0]
    /\ attached = [p \in Process |-> FALSE]
    /\ outcome = [p \in Process |-> "none"]
    /\ used = [p \in Process |-> Absent]
    /\ touched = [p \in Process |-> {}]
    /\ torn = FALSE

-----------------------------------------------------------------------------
Goto(p, l) == pc' = [pc EXCEPT ![p] = l]

At(p, l) == pc[p] = l

\* The run of p ends; a download that is still open is closed.
End(p, how) ==
    /\ Goto(p, "idle")
    /\ outcome' = [outcome EXCEPT ![p] = how]
    /\ attached' = [attached EXCEPT ![p] = FALSE]

\* The others that are at work see the file change.
Touch(p) ==
    touched' = [q \in Process |->
        IF q = p \/ pc[q] = "idle" THEN touched[q]
        ELSE touched[q] \cup {IF pc[q] = "use" THEN "window" ELSE "early"}]

Start(p) ==
    /\ At(p, "idle")
    /\ \E a \in Pin : pin' = [pin EXCEPT ![p] = a]
    /\ Goto(p, "look")
    /\ attempt' = [attempt EXCEPT ![p] = 0]
    /\ outcome' = [outcome EXCEPT ![p] = "none"]
    /\ used' = [used EXCEPT ![p] = Absent]
    /\ touched' = [touched EXCEPT ![p] = {}]
    /\ UNCHANGED <<kind, file, attached, torn>>

\* if(EXISTS ...)
Look(p) ==
    /\ At(p, "look")
    /\ Goto(p, IF file = Absent THEN "open" ELSE "hash")
    /\ UNCHANGED <<kind, file, run, attempt, attached, touched, torn>>

\* file(SHA256): fatal if the file has gone.  A cached tarball that is not the
\* pinned one is fatal too, a prebuilt is fetched again.
Hash_Any(p) ==
    /\ At(p, "hash")
    /\ Goto(p, "use")
    /\ UNCHANGED <<kind, file, run, attempt, attached, touched, torn>>

Hash(p) ==
    /\ At(p, "hash")
    /\ \/ /\ file = Whole(pin[p])
          /\ Goto(p, "use")
          /\ UNCHANGED <<outcome, attached>>
       \/ /\ file \notin {Absent, Whole(pin[p])}
          /\ kind = "prebuilt"
          /\ Goto(p, "open")
          /\ UNCHANGED <<outcome, attached>>
       \/ /\ file # Whole(pin[p])
          /\ file = Absent \/ kind = "source"
          /\ End(p, "failed")
    /\ UNCHANGED <<kind, file, pin, used, attempt, touched, torn>>

\* _bd_try_fetch: file(DOWNLOAD) opens its destination.
Open_OnceMore(p) ==
    /\ At(p, "open")
    /\ attempt[p] =< Attempts
    /\ file' = Empty
    /\ attached' = [attached EXCEPT ![p] = TRUE]
    /\ torn' = FALSE
    /\ Touch(p)
    /\ Goto(p, "head")
    /\ UNCHANGED <<kind, run, attempt>>

Open(p) ==
    /\ At(p, "open")
    /\ attempt[p] < Attempts
    /\ file' = Empty
    /\ attached' = [attached EXCEPT ![p] = TRUE]
    /\ torn' = FALSE
    /\ Touch(p)
    /\ Goto(p, "head")
    /\ UNCHANGED <<kind, run, attempt>>

\* The server sends the content a.
WriteHead(p, a) ==
    /\ At(p, "head")
    /\ IF attached[p]
       THEN file' = [file EXCEPT !.head = a] /\ Touch(p)
       ELSE UNCHANGED <<file, touched>>
    /\ Goto(p, "tail")
    /\ UNCHANGED <<kind, run, attempt, attached, torn>>

WriteTail(p, a) ==
    /\ At(p, "tail")
    /\ IF attached[p]
       THEN file' = [file EXCEPT !.tail = a] /\ Touch(p)
       ELSE UNCHANGED <<file, touched>>
    /\ Goto(p, "verify")
    /\ attached' = [attached EXCEPT ![p] = FALSE]
    /\ UNCHANGED <<kind, run, attempt, torn>>

\* The download ends with an error.
LoseDownload(p) ==
    /\ pc[p] \in {"head", "tail"}
    /\ Goto(p, "remove")
    /\ attached' = [attached EXCEPT ![p] = FALSE]
    /\ UNCHANGED <<kind, file, run, attempt, touched, torn>>

\* The file is hashed under its name, whoever has written it.
Verify_KeepsIt(p) ==
    /\ At(p, "verify")
    /\ IF file = Whole(pin[p])
       THEN Goto(p, "use") /\ UNCHANGED attempt
       ELSE Goto(p, "open") /\ attempt' = [attempt EXCEPT ![p] = @ + 1]
    /\ UNCHANGED <<kind, file, run, attached, touched, torn>>

Verify(p) ==
    /\ At(p, "verify")
    /\ IF file = Absent
       THEN End(p, "failed")
       ELSE /\ Goto(p, IF file = Whole(pin[p]) THEN "use" ELSE "remove")
            /\ UNCHANGED <<outcome, attached>>
    /\ UNCHANGED <<kind, file, pin, used, attempt, touched, torn>>

\* file(REMOVE): whoever has the file open goes on writing to nobody's file.
Remove_Uncounted(p) ==
    /\ At(p, "remove")
    /\ file' = Absent
    /\ attached' = [q \in Process |-> FALSE]
    /\ torn' = FALSE
    /\ Touch(p)
    /\ Goto(p, "open")
    /\ UNCHANGED <<kind, run, attempt>>

Remove(p) ==
    /\ At(p, "remove")
    /\ file' = Absent
    /\ attached' = [q \in Process |-> FALSE]
    /\ torn' = FALSE
    /\ attempt' = [attempt EXCEPT ![p] = @ + 1]
    /\ Touch(p)
    /\ Goto(p, "open")
    /\ UNCHANGED <<kind, run>>

\* No prebuilt: build from source.  No source: _bd_fetch is fatal.
GiveUp(p) ==
    /\ At(p, "open")
    /\ attempt[p] >= Attempts
    /\ End(p, IF kind = "prebuilt" THEN "fallback" ELSE "failed")
    /\ UNCHANGED <<kind, file, pin, used, attempt, touched, torn>>

\* file(ARCHIVE_EXTRACT) opens the name again.  What is not an archive may be
\* an error or, as an empty file, an archive with nothing in it.
Use(p) ==
    /\ At(p, "use")
    /\ \/ /\ file # Absent
          /\ End(p, "used")
          /\ used' = [used EXCEPT ![p] = file]
       \/ /\ file \notin {Whole(a) : a \in Content}
          /\ End(p, "failed")
          /\ UNCHANGED used
    /\ UNCHANGED <<kind, file, pin, attempt, touched, torn>>

\* The configure is killed anywhere; the file stays as it is.
Kill(p) ==
    /\ pc[p] # "idle"
    /\ End(p, "killed")
    /\ torn' = (torn \/ (pc[p] \in Downloading /\ file # Whole(pin[p])))
    /\ UNCHANGED <<kind, file, pin, used, attempt, touched>>

Step(p) ==
    \/ Look(p) \/ Hash(p) \/ Open(p)
    \/ \E a \in Content : WriteHead(p, a) \/ WriteTail(p, a)
    \/ LoseDownload(p) \/ Verify(p) \/ Remove(p) \/ GiveUp(p) \/ Use(p)

Next == \E p \in Process : Start(p) \/ Step(p) \/ Kill(p)

Spec == Init /\ [][Next]_vars

\* The operating system keeps running every configure that has started.
FairSpec == Spec /\ \A p \in Process : WF_vars(Step(p))

-----------------------------------------------------------------------------
TypeOK ==
    /\ kind \in {"prebuilt", "source"}
    /\ file \in Blocks \cup {Absent}
    /\ pc \in [Process -> {"idle", "look", "hash", "open", "use"} \cup Downloading]
    /\ pin \in [Process -> Pin]
    /\ attempt \in [Process -> 0 .. Attempts]
    /\ attached \in [Process -> BOOLEAN]
    /\ outcome \in [Process -> {"none", "used", "fallback", "failed", "killed"}]
    /\ used \in [Process -> Blocks \cup {Absent}]
    /\ touched \in [Process -> SUBSET {"early", "window"}]
    /\ torn \in BOOLEAN

\* However downloads overlap, mix their blocks or remove each other's file,
\* once none is under way the cache holds nothing or what a checkout pins; only
\* a killed download can leave something else.  It takes every download to
\* look at what it finds in the end, and not at what it has received.
RestsVerified ==
    (\A p \in Process : pc[p] \notin Downloading) /\ ~torn
        => file \in {Absent} \cup {Whole(a) : a \in Pin}

\* What a configure extracts is what its checkout pins unless another one has
\* changed the file after the hash and before the extraction: interference at
\* any other time does no harm.  And a prebuilt never fails a configure that
\* nobody has interfered with: it falls back to the source.
OnlyOthersHarm ==
    \A p \in Process :
        /\ outcome[p] = "used" /\ "window" \notin touched[p]
              => used[p] = Whole(pin[p])
        /\ kind = "prebuilt" /\ outcome[p] = "failed" => touched[p] # {}

\* Two configures that remove each other's downloads do not go on for ever.
RunEnds == \A p \in Process : pc[p] # "idle" ~> pc[p] = "idle"
=============================================================================
