------------------------------ MODULE Manifest ------------------------------
(* The calls of a consumer's manifest in one configure after another: each *)
(* resolves a dependency in the mode that the call and the overrides give, *)
(* creates its target, records what is to be packaged, and in the end      *)
(* extdeps_install_consumed packages it.  Properties, targets and PATH     *)
(* live as long as a configure, the prefixes stay on disk.                 *)
(*                                                                         *)
(* How a prefix comes about is the matter of Prefix, SourceTree and        *)
(* BinaryTool; here it works or fails, and leaves libraries of one form.   *)
CONSTANTS
    Library,        \* dependencies of each DEP_KIND
    SourceDep,
    Tool,
    StaticRecipes,  \* libraries whose meta.cmake sets DEP_STATIC
    SystemSources,  \* source dependencies with DEP_SOURCE_SYSTEM
    Hosts,          \* what the host may have of them
    Overrides       \* EXTDEPS_OVERRIDE_*: of every name, and of ALL

Name == Library \cup SourceDep \cup Tool
Values == {"undefined", "", "REBUILD", "SYSTEM", "PREBUILT", "other"}

ASSUME NamesAssumption ==
    /\ Library \cap SourceDep = {} /\ Library \cap Tool = {} /\ SourceDep \cap Tool = {}
    /\ "host" \notin Tool /\ "none" \notin Tool
ASSUME HostsAssumption == Hosts \subseteq SUBSET (Library \cup Tool)
ASSUME OverridesAssumption == Overrides \subseteq [one : [Name -> Values], all : Values]

Forms == {"system", "shared", "static"}
Dirs == Tool \cup {"host"}

VARIABLES
    host,       \* the libraries and tools that the host has
    disk,       \* libraries in the prefixes: the forms that are there
    override,   \* the overrides of this configure
    status,     \* "running", "failed" or "packaged"
    consumed,   \* EXTDEPS_CONSUMED
    target,     \* the form that the imported target of a library links
    install,    \* <name>_INSTALL_LIBRARIES is not empty
    binDir,     \* <name>_BIN_DIR of a tool: its prefix or the host's
    path,       \* the directories on PATH
    ahead,      \* those that are searched before each of them
    packaged,   \* libraries and licenses that are installed with the app
    forms       \* the forms that a library was resolved in (history)

vars == <<host, disk, override, status, consumed, target, install, binDir,
          path, ahead, packaged, forms>>
libraries == <<target, install, forms>>
tools == <<binDir, path, ahead>>

Nothing == [libs |-> {}, licenses |-> {}]

Fresh(o) ==
    /\ override' = o
    /\ status' = "running"
    /\ consumed' = {}
    /\ target' = [n \in Library |-> "none"]
    /\ install' = [n \in Library |-> FALSE]
    /\ binDir' = [n \in Tool |-> "none"]
    /\ path' = {"host"}
    /\ ahead' = [d \in Dirs |-> {}]
    /\ packaged' = Nothing
    /\ forms' = [n \in Library |-> {}]

Init ==
    /\ host \in Hosts
    /\ disk = [n \in Library |-> {}]
    /\ override \in Overrides
    /\ status = "running"
    /\ consumed = {}
    /\ target = [n \in Library |-> "none"]
    /\ install = [n \in Library |-> FALSE]
    /\ binDir = [n \in Tool |-> "none"]
    /\ path = {"host"}
    /\ ahead = [d \in Dirs |-> {}]
    /\ packaged = Nothing
    /\ forms = [n \in Library |-> {}]

-----------------------------------------------------------------------------
\* _extdeps_override: the one of this dependency is used if it is defined, also
\* when it is empty, and ALL leaves the dependencies alone that the manifest
\* itself takes from the system.
OverrideOf(n, mode) ==
    IF override.one[n] # "undefined" THEN override.one[n]
    ELSE IF override.all # "undefined" /\ mode # "SYSTEM" THEN override.all
    ELSE ""

Mode(n, mode) == IF OverrideOf(n, mode) = "" THEN mode ELSE OverrideOf(n, mode)

\* The end of _extdeps_run.
Consume(n) == consumed' = consumed \cup {n}

Fail ==
    /\ status' = "failed"
    /\ UNCHANGED <<host, override, consumed, libraries, tools, packaged>>

-----------------------------------------------------------------------------
(* require_dep                                                             *)
Static(n, arg) == arg = "STATIC" \/ n \in StaticRecipes

DepMode(n, arg) ==
    CASE arg = "STATIC" -> "REBUILD"
      [] arg = "" -> Mode(n, "PREBUILT")
      [] OTHER -> Mode(n, arg)

\* The target keeps what it was first created with, the properties are new.
Bind(n, form) ==
    /\ target' = [target EXCEPT ![n] = IF @ = "none" THEN form ELSE @]
    /\ install' = [install EXCEPT ![n] = (form = "shared")]
    /\ forms' = [forms EXCEPT ![n] = @ \cup {form}]
    /\ Consume(n)
    /\ UNCHANGED <<host, override, status, tools, packaged>>

ResolveSystem(n, arg) ==
    /\ DepMode(n, arg) = "SYSTEM"
    /\ n \in host
    /\ Bind(n, "system")
    /\ UNCHANGED disk

ResolveInstalled_AllBundled(n, arg) ==
    LET form == IF Static(n, arg) THEN "static" ELSE "shared"
    IN /\ DepMode(n, arg) \in {"PREBUILT", "REBUILD"}
       /\ target' = [target EXCEPT ![n] = IF @ = "none" THEN form ELSE @]
       /\ install' = [install EXCEPT ![n] = TRUE]
       /\ forms' = [forms EXCEPT ![n] = @ \cup {form}]
       /\ disk' = [disk EXCEPT ![n] = @ \cup {form}]
       /\ Consume(n)
       /\ UNCHANGED <<host, override, status, tools, packaged>>

\* A prebuilt replaces the prefix unless it is there already, a build adds to it.
ResolveInstalled(n, arg) ==
    LET form == IF Static(n, arg) THEN "static" ELSE "shared"
    IN /\ DepMode(n, arg) \in {"PREBUILT", "REBUILD"}
       /\ \/ disk' = [disk EXCEPT ![n] = @ \cup {form}]
          \/ DepMode(n, arg) = "PREBUILT" /\ disk' = [disk EXCEPT ![n] = {form}]
       /\ Bind(n, form)

\* The host has no such library, the override is unknown, or the prebuilt or the
\* build fails, or leaves a library out, with the prefix in whatever state.
DepFails(n, arg) ==
    /\ Fail
    /\ \/ DepMode(n, arg) = "SYSTEM" /\ n \notin host /\ UNCHANGED disk
       \/ DepMode(n, arg) = "other" /\ UNCHANGED disk
       \/ /\ DepMode(n, arg) \in {"PREBUILT", "REBUILD"}
          /\ \E left \in SUBSET {"shared", "static"} : disk' = [disk EXCEPT ![n] = left]

-----------------------------------------------------------------------------
(* require_tool                                                            *)
Prepend_Appended(d) ==
    /\ path' = path \cup {d}
    /\ ahead' = [e \in Dirs |-> IF e = d THEN path \ {d} ELSE ahead[e] \ {d}]

Prepend_Kept(d) ==
    /\ path' = path \cup {d}
    /\ ahead' = [e \in Dirs |-> IF e # d /\ e \in path THEN ahead[e] \cup {d} ELSE ahead[e]]

\* A directory is found where it was last put; further back it is never reached.
Prepend(d) ==
    /\ path' = path \cup {d}
    /\ ahead' = [e \in Dirs |-> IF e # d /\ e \in path THEN ahead[e] \cup {d} ELSE {}]

UseTool(n, dir) ==
    /\ binDir' = [binDir EXCEPT ![n] = dir]
    /\ Prepend(dir)
    /\ Consume(n)
    /\ UNCHANGED <<host, disk, override, status, libraries, packaged>>

SystemTool(n) ==
    /\ Mode(n, "PREBUILT") = "SYSTEM"
    /\ n \in host
    /\ UseTool(n, "host")

FetchTool(n) ==
    /\ Mode(n, "PREBUILT") \in {"PREBUILT", "REBUILD"}
    /\ UseTool(n, n)

ToolFails(n) ==
    /\ Mode(n, "PREBUILT") = "SYSTEM" => n \notin host
    /\ Fail
    /\ UNCHANGED disk

-----------------------------------------------------------------------------
(* require_source_dep                                                      *)
\* An override cannot take from the system what has no system form.
SourceMode(n, arg) ==
    LET mode == Mode(n, IF arg = "SYSTEM" THEN "SYSTEM" ELSE "REBUILD")
    IN IF mode = "SYSTEM" /\ arg # "SYSTEM" /\ n \notin SystemSources
       THEN "REBUILD" ELSE mode

\* The sources are populated, or in SYSTEM mode there are none.
UseSource(n, arg) ==
    /\ SourceMode(n, arg) # "other"
    /\ Consume(n)
    /\ UNCHANGED <<host, disk, override, status, libraries, tools, packaged>>

SourceFails(n, arg) == SourceMode(n, arg) # "SYSTEM" /\ Fail /\ UNCHANGED disk

-----------------------------------------------------------------------------
\* extdeps_install_consumed; every prefix has the licenses of its recipe.
InstallConsumed ==
    /\ packaged' = [libs |-> {n \in consumed \cap Library : install[n]},
                    licenses |-> {n \in consumed \cap Library : disk[n] # {}}]
    /\ status' = "packaged"
    /\ UNCHANGED <<host, disk, override, consumed, libraries, tools>>

Configure ==
    /\ \E o \in Overrides : Fresh(o)
    /\ UNCHANGED <<host, disk>>

Require ==
    \/ \E n \in Library, arg \in {"", "SYSTEM", "REBUILD", "STATIC"} :
        ResolveSystem(n, arg) \/ ResolveInstalled(n, arg) \/ DepFails(n, arg)
    \/ \E n \in Tool : SystemTool(n) \/ FetchTool(n) \/ ToolFails(n)
    \/ \E n \in SourceDep, arg \in {"", "SYSTEM"} : UseSource(n, arg) \/ SourceFails(n, arg)

Next ==
    \/ status = "running" /\ (Require \/ InstallConsumed)
    \/ status # "running" /\ Configure

Spec == Init /\ [][Next]_vars

-----------------------------------------------------------------------------
\* What stands where on PATH is an order of the directories that are on it.
PathOrdered ==
    /\ "host" \in path
    /\ \A d \in Dirs \ path : ahead[d] = {}
    /\ \A d \in path : ahead[d] \subseteq path
    /\ \A d, e \in path : d \in ahead[e] <=> d # e /\ e \notin ahead[d]
    /\ \A d, e \in path : d \in ahead[e] => ahead[d] \subseteq ahead[e]

TypeOK ==
    /\ host \in Hosts
    /\ disk \in [Library -> SUBSET {"shared", "static"}]
    /\ override \in Overrides
    /\ status \in {"running", "failed", "packaged"}
    /\ consumed \subseteq Name
    /\ target \in [Library -> Forms \cup {"none"}]
    /\ install \in [Library -> BOOLEAN]
    /\ binDir \in [Tool -> Dirs \cup {"none"}]
    /\ path \in SUBSET Dirs /\ ahead \in [Dirs -> SUBSET Dirs] /\ PathOrdered
    /\ packaged \in [libs : SUBSET Library, licenses : SUBSET Library]
    /\ forms \in [Library -> SUBSET Forms]

\* A library that all calls have resolved in one form is whole when the app is
\* packaged: its target links that form, which is still on disk, and the app is
\* given shared libraries just when the target links them, with their licenses.
\* Calls in between, other dependencies and earlier configures in other modes
\* do not matter.
OneFormIsWhole ==
    status = "packaged" =>
        \A n \in Library, f \in Forms : forms[n] = {f} =>
            /\ target[n] = f
            /\ n \in packaged.libs <=> f = "shared"
            /\ f # "system" => f \in disk[n] /\ n \in packaged.licenses

\* What find_program finds: the host has its tools in one directory.
Has(d, n) == IF d = "host" THEN n \in host ELSE d = n
Finds(d, n) == d \in path /\ Has(d, n) /\ \A e \in ahead[d] : ~Has(e, n)

\* A later build finds a tool where require_tool has resolved it, whatever was
\* required in between; only the host's directory, put in front for a tool that
\* is taken from the system, can come before it.
OnlyHostShadows ==
    \A n \in Tool : binDir[n] # "none" =>
        \/ Finds(binDir[n], n)
        \/ Finds("host", n) /\ \E m \in Tool : binDir[m] = "host"
=============================================================================
