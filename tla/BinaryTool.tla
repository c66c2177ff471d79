------------------------------ MODULE BinaryTool ------------------------------
(***************************************************************************)
(* An official upstream binary used as a build tool:                       *)
(* _extdeps_fetch_binary_tool() in buildtools/resolve.cmake, over any      *)
(* number of configure runs of one build tree and checkouts of any         *)
(* revision.  There is no stamp: the file is trusted by its hash alone,    *)
(* and its permissions are set last.                                       *)
(***************************************************************************)
EXTENDS Naturals

CONSTANTS
    Binary,     \* binaries that recipes have pinned, by SHA-256
    Absent,     \* no file
    Partial,    \* the rest of a killed download
    Attempts    \* tries of the one URL, 3 in _bd_try_fetch

ASSUME ContentAssumption == Absent # Partial /\ {Absent, Partial} \cap Binary = {}
ASSUME AttemptsAssumption == Attempts \in Nat

VARIABLES
    pin,        \* DEP_BINARY_SHA256_<os>-<arch> of the checkout
    file,       \* local_path/bin/<DEP_BINARY_NAME>
    runs,       \* may the file be executed?
    pc,         \* where the running configure is
    attempt,    \* downloads that failed so far
    outcome,    \* how the last configure of this checkout ended
    torn        \* history: was the file fetched by a configure that died
                \* before the chmod?

vars == <<pin, file, runs, pc, attempt, outcome, torn>>

-----------------------------------------------------------------------------
End(how) == pc' = "idle" /\ outcome' = how

Goto(phase) == pc' = phase /\ UNCHANGED outcome

Checkout ==
    /\ pc = "idle"
    /\ pin' \in Binary
    /\ outcome' = "none"
    /\ UNCHANGED <<file, runs, pc, attempt, torn>>

Verified_IfPresent == file # Absent
Verified == file = pin

Configure ==
    /\ pc = "idle"
    /\ attempt' = 0
    /\ pc' = "check"
    /\ outcome' = "none"
    /\ UNCHANGED <<pin, file, runs, torn>>

(* A file with the right hash is bound as it is.                           *)
Check ==
    /\ pc = "check"
    /\ \/ Verified /\ End("bound")
       \/ ~Verified /\ Goto("fetch")
    /\ UNCHANGED <<pin, file, runs, attempt, torn>>

(* The download goes straight to its place: a file that is there keeps its *)
(* permissions, a new one cannot be executed.                              *)
BeginDownload ==
    /\ pc = "fetch"
    /\ attempt < Attempts
    /\ file' = Partial
    /\ runs' = (file # Absent /\ runs)
    /\ torn' = FALSE
    /\ Goto("receive")
    /\ UNCHANGED <<pin, attempt>>

ReceiveDownload ==
    /\ pc = "receive"
    /\ file' = pin
    /\ Goto("chmod")
    /\ UNCHANGED <<pin, runs, attempt, torn>>

LoseDownload_Uncounted ==
    /\ pc = "receive"
    /\ file' = Absent
    /\ runs' = FALSE
    /\ Goto("fetch")
    /\ UNCHANGED <<pin, attempt, torn>>

LoseDownload_Twice ==
    /\ pc = "receive"
    /\ file' = Absent
    /\ runs' = FALSE
    /\ attempt' = attempt + 2
    /\ Goto("fetch")
    /\ UNCHANGED <<pin, torn>>

(* An error, or other bytes than the pinned ones.                          *)
LoseDownload ==
    /\ pc = "receive"
    /\ file' = Absent
    /\ runs' = FALSE
    /\ attempt' = attempt + 1
    /\ Goto("fetch")
    /\ UNCHANGED <<pin, torn>>

GiveUp ==
    /\ pc = "fetch"
    /\ attempt >= Attempts
    /\ End("failed")
    /\ UNCHANGED <<pin, file, runs, attempt, torn>>

Chmod_Forgotten ==
    /\ pc = "chmod"
    /\ End("bound")
    /\ UNCHANGED <<pin, file, runs, attempt, torn>>

Chmod ==
    /\ pc = "chmod"
    /\ runs' = TRUE
    /\ End("bound")
    /\ UNCHANGED <<pin, file, attempt, torn>>

(* A killed configure may have received the last byte already.             *)
Crash ==
    /\ pc # "idle"
    /\ \/ UNCHANGED file
       \/ pc = "receive" /\ file' = pin
    /\ torn' = (torn \/ (pc \in {"receive", "chmod"} /\ file' = pin /\ ~runs))
    /\ attempt' = 0
    /\ End("none")
    /\ UNCHANGED <<pin, runs>>

-----------------------------------------------------------------------------
Init ==
    /\ pin \in Binary
    /\ file = Absent
    /\ runs = FALSE
    /\ pc = "idle"
    /\ attempt = 0
    /\ outcome = "none"
    /\ torn = FALSE

(* One step of the running configure. *)
Step ==
    \/ Check
    \/ BeginDownload \/ ReceiveDownload \/ LoseDownload \/ GiveUp
    \/ Chmod

Next == Checkout \/ Configure \/ Step \/ Crash

Spec == Init /\ [][Next]_vars

(* The operating system keeps running a started configure.                 *)
FairSpec == Spec /\ WF_vars(Step)

-----------------------------------------------------------------------------
TypeOK ==
    /\ pin \in Binary
    /\ file \in Binary \cup {Absent, Partial}
    /\ runs \in BOOLEAN
    /\ pc \in {"idle", "check", "fetch", "receive", "chmod"}
    /\ attempt \in 0 .. Attempts
    /\ outcome \in {"none", "bound", "failed"}
    /\ torn \in BOOLEAN

(* A tool that is bound can be executed, as manifest.cmake promises of it, *)
(* whatever went before: downloads over an older tool, lost ones, kills.   *)
(* The one exception is the file of a configure that died between the last *)
(* byte and the chmod, which no later configure makes executable.          *)
BoundRuns == outcome = "bound" => runs \/ torn

-----------------------------------------------------------------------------
(* The application's view: Delivery, with binaries for recipes.            *)
Status ==
    CASE pc # "idle" -> "working"
      [] pc = "idle" /\ outcome = "none" -> "idle"
      [] OTHER -> outcome

D == INSTANCE Delivery
     WITH Recipe <- Binary, wanted <- pin, status <- Status,
          delivered <- IF outcome = "bound" THEN {file} ELSE {}

(* Binary tools implement Delivery, with kills anywhere: the application   *)
(* is handed the binary that the recipe pins, or an error.                 *)
DeliversSafely == D!SafeSpec

(* Every fetch comes to an end.                                            *)
FetchEnds == D!Ends
=============================================================================
