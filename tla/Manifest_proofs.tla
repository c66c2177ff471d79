-------------------------- MODULE Manifest_proofs --------------------------
(* For any dependencies, hosts and overrides: a library that one configure *)
(* has resolved in one form is whole when the app is packaged, and a tool  *)
(* is found where it was resolved, or in the host's directory.             *)
EXTENDS Manifest, TLAPS

\* The parts of the type invariant that are about libraries.
LibraryTypes ==
    /\ disk \in [Library -> SUBSET {"shared", "static"}]
    /\ target \in [Library -> Forms \cup {"none"}]
    /\ install \in [Library -> BOOLEAN]
    /\ forms \in [Library -> SUBSET Forms]

\* What a configure that has not failed knows of a library it has resolved.
Resolved(n) ==
    /\ forms[n] = {} => target[n] = "none"
    /\ forms[n] # {} => n \in consumed
    /\ \A f \in Forms : forms[n] = {f} =>
        /\ target[n] = f
        /\ install[n] <=> f = "shared"
        /\ f # "system" => f \in disk[n]

Packaged ==
    status = "packaged" =>
        packaged = [libs |-> {n \in consumed \cap Library : install[n]},
                    licenses |-> {n \in consumed \cap Library : disk[n] # {}}]

IInv ==
    /\ LibraryTypes
    /\ status # "failed" => \A n \in Library : Resolved(n)
    /\ Packaged

LEMMA InitIInv == Init => IInv
BY DEF Init, IInv, LibraryTypes, Resolved, Packaged, Forms

-----------------------------------------------------------------------------
\* A library that is resolved in one form more.
LEMMA BindStep ==
    ASSUME IInv, status = "running", NEW n \in Library, NEW form \in Forms,
           Bind(n, form), disk' \in [Library -> SUBSET {"shared", "static"}],
           \A m \in Library \ {n} : disk'[m] = disk[m],
           form # "system" => form \in disk'[n],
           form = "system" => disk' = disk
    PROVE  IInv'
<1> USE DEF IInv, LibraryTypes
<1>1. target' = [target EXCEPT ![n] = IF @ = "none" THEN form ELSE @]
  BY DEF Bind
<1>2. forms' = [forms EXCEPT ![n] = @ \cup {form}]
  BY DEF Bind
<1>3. install' = [install EXCEPT ![n] = (form = "shared")]
  BY DEF Bind
<1>4. consumed' = consumed \cup {n} /\ status' = "running"
  BY DEF Bind, Consume
<1>5. install' \in [Library -> BOOLEAN]
  BY <1>3, Zenon
<1>6. install'[n] <=> form = "shared"
  BY <1>3, Zenon
<1>7. \A m \in Library \ {n} : install'[m] = install[m]
  BY <1>3, Zenon
<1>8. target' \in [Library -> Forms \cup {"none"}] /\ forms' \in [Library -> SUBSET Forms]
  BY <1>1, <1>2
<1>9. ASSUME NEW m \in Library \ {n} PROVE Resolved(m)'
  <2>1. /\ target'[m] = target[m] /\ forms'[m] = forms[m] /\ disk'[m] = disk[m]
        /\ m \in consumed => m \in consumed'
    BY <1>1, <1>2, <1>4
  <2>2. Resolved(m)
    OBVIOUS
  <2> QED
    BY <2>1, <2>2, <1>7 DEF Resolved
<1>10. Resolved(n)'
  <2>1. target'[n] = IF target[n] = "none" THEN form ELSE target[n]
    BY <1>1
  <2>2. forms'[n] = forms[n] \cup {form} /\ n \in consumed'
    BY <1>2, <1>4
  <2>3. forms'[n] # {}
    BY <2>2
  <2>4. ASSUME NEW f \in Forms, forms'[n] = {f}
        PROVE  f = form /\ target'[n] = form
    <3>1. f = form /\ (forms[n] = {} \/ forms[n] = {form})
      BY <2>2, <2>4
    <3> QED
      BY <3>1, <2>1 DEF Resolved
  <2> QED
    BY <2>2, <2>3, <2>4, <1>6 DEF Resolved
<1> QED
  BY <1>4, <1>5, <1>8, <1>9, <1>10 DEF Packaged

\* A call that does not touch the libraries.
LEMMA OtherStep ==
    ASSUME IInv, status' # "packaged", status' # "failed" => status' = status,
           UNCHANGED <<disk, target, install, forms>>, consumed \subseteq consumed'
    PROVE  IInv'
BY DEF IInv, LibraryTypes, Resolved, Packaged

LEMMA FailedStep ==
    ASSUME IInv, Fail, disk' \in [Library -> SUBSET {"shared", "static"}]
    PROVE  IInv'
BY DEF IInv, LibraryTypes, Packaged, Fail, libraries

LEMMA NextIInv == IInv /\ [Next]_vars => IInv'
<1> SUFFICES ASSUME IInv, [Next]_vars PROVE IInv'
  OBVIOUS
<1>1. ASSUME status = "running", NEW n \in Library, NEW arg, ResolveSystem(n, arg)
      PROVE  IInv'
  BY <1>1, BindStep DEF ResolveSystem, Forms, IInv, LibraryTypes
<1>2. ASSUME status = "running", NEW n \in Library, NEW arg, ResolveInstalled(n, arg)
      PROVE  IInv'
  <2> DEFINE form == IF Static(n, arg) THEN "static" ELSE "shared"
  <2>1. Bind(n, form) /\ form \in Forms /\ form \in {"shared", "static"}
    BY <1>2 DEF ResolveInstalled, Forms
  <2>2. disk' = [disk EXCEPT ![n] = @ \cup {form}] \/ disk' = [disk EXCEPT ![n] = {form}]
    BY <1>2 DEF ResolveInstalled
  <2> HIDE DEF form
  <2>3. /\ disk' \in [Library -> SUBSET {"shared", "static"}]
        /\ form \in disk'[n]
        /\ \A m \in Library \ {n} : disk'[m] = disk[m]
    BY <2>1, <2>2 DEF IInv, LibraryTypes
  <2>4. form # "system"
    BY <2>1
  <2> QED
    BY <1>2, <2>1, <2>3, <2>4, BindStep
<1>3. ASSUME NEW n \in Library, NEW arg, DepFails(n, arg) PROVE IInv'
  <2>1. disk' \in [Library -> SUBSET {"shared", "static"}]
    BY <1>3 DEF DepFails, IInv, LibraryTypes
  <2> QED
    BY <1>3, <2>1, FailedStep DEF DepFails
<1>4. ASSUME status = "running", NEW n \in Tool, SystemTool(n) \/ FetchTool(n) PROVE IInv'
  <2>1. /\ UNCHANGED <<status, disk, target, install, forms>>
        /\ consumed \subseteq consumed'
    BY <1>4 DEF SystemTool, FetchTool, UseTool, Consume, libraries
  <2> QED
    BY <1>4, <2>1, OtherStep
<1>5. ASSUME status = "running", NEW n \in SourceDep, NEW arg, UseSource(n, arg) PROVE IInv'
  <2>1. /\ UNCHANGED <<status, disk, target, install, forms>>
        /\ consumed \subseteq consumed'
    BY <1>5 DEF UseSource, Consume, libraries
  <2> QED
    BY <1>5, <2>1, OtherStep
<1>6. ASSUME Fail, UNCHANGED disk PROVE IInv'
  BY <1>6, FailedStep DEF IInv, LibraryTypes
<1>7. ASSUME status = "running", InstallConsumed PROVE IInv'
  BY <1>7 DEF InstallConsumed, IInv, LibraryTypes, Resolved, Packaged, libraries
<1>8. CASE Configure
  <2>1. PICK o \in Overrides : Fresh(o)
    BY <1>8 DEF Configure
  <2>2. UNCHANGED disk
    BY <1>8 DEF Configure
  <2> QED
    BY <2>1, <2>2 DEF Fresh, IInv, LibraryTypes, Resolved, Packaged, Forms
<1>9. CASE UNCHANGED vars
  BY <1>9 DEF vars, IInv, LibraryTypes, Resolved, Packaged
<1> QED
  BY <1>1, <1>2, <1>3, <1>4, <1>5, <1>6, <1>7, <1>8, <1>9
  DEF Next, Require, ToolFails, SourceFails

\* In any order of calls, modes, overrides and configures, a library that one
\* configure has resolved in one form is packaged as its target links it.
THEOREM AlwaysWholeInOneForm == Spec => []OneFormIsWhole
<1>1. IInv => OneFormIsWhole
  BY DEF IInv, Resolved, Packaged, OneFormIsWhole, LibraryTypes
<1> QED BY InitIInv, NextIInv, <1>1, PTL DEF Spec

-----------------------------------------------------------------------------
(* PATH                                                                    *)

\* A directory that is put in front leaves an order.
LEMMA PrependOrdered ==
    ASSUME path \in SUBSET Dirs, ahead \in [Dirs -> SUBSET Dirs], PathOrdered,
           NEW d \in Dirs, Prepend(d)
    PROVE  /\ path' \in SUBSET Dirs /\ ahead' \in [Dirs -> SUBSET Dirs] /\ PathOrdered'
           /\ path' = path \cup {d} /\ ahead'[d] = {}
           /\ \A e \in path \ {d} : ahead'[e] = ahead[e] \cup {d}
<1>1. path' = path \cup {d}
  BY DEF Prepend
<1>2. ahead' = [e \in Dirs |-> IF e # d /\ e \in path THEN ahead[e] \cup {d} ELSE {}]
  BY DEF Prepend
<1>3. path' \in SUBSET Dirs /\ ahead' \in [Dirs -> SUBSET Dirs]
  BY <1>1, <1>2
<1>4. /\ ahead'[d] = {}
      /\ \A e \in path \ {d} : ahead'[e] = ahead[e] \cup {d}
      /\ \A e \in Dirs \ path : ahead'[e] = {}
  BY <1>2
<1>5. "host" \in path' /\ \A e \in Dirs \ path' : ahead'[e] = {}
  BY <1>1, <1>4 DEF PathOrdered
<1>6. \A e \in path' : ahead'[e] \subseteq path'
  BY <1>1, <1>4 DEF PathOrdered
<1>7. ASSUME NEW a \in path', NEW e \in path'
      PROVE  a \in ahead'[e] <=> a # e /\ e \notin ahead'[a]
  <2>1. CASE e = d
    BY <2>1, <1>1, <1>4 DEF PathOrdered
  <2>2. CASE e # d /\ a = d
    BY <2>2, <1>1, <1>4 DEF PathOrdered
  <2>3. CASE e # d /\ a # d
    BY <2>3, <1>1, <1>4 DEF PathOrdered
  <2> QED
    BY <2>1, <2>2, <2>3
<1>8. ASSUME NEW a \in path', NEW e \in path', a \in ahead'[e]
      PROVE  ahead'[a] \subseteq ahead'[e]
  <2>1. e \in path \ {d}
    BY <1>8, <1>1, <1>4
  <2>2. CASE a = d
    BY <2>2, <1>4
  <2>3. CASE a # d
    BY <2>1, <2>3, <1>8, <1>1, <1>4 DEF PathOrdered
  <2> QED
    BY <2>2, <2>3
<1> QED
  BY <1>1, <1>3, <1>4, <1>5, <1>6, <1>7, <1>8 DEF PathOrdered

-----------------------------------------------------------------------------
(* The type invariant                                                      *)

LEMMA DepType ==
    ASSUME TypeOK, status = "running", NEW n \in Library, NEW form \in Forms,
           Bind(n, form), disk' \in [Library -> SUBSET {"shared", "static"}]
    PROVE  TypeOK'
<1> USE DEF TypeOK
<1>1. install' = [install EXCEPT ![n] = (form = "shared")]
  BY DEF Bind
<1>2. install' \in [Library -> BOOLEAN]
  BY <1>1, Zenon
<1>3. /\ target' = [target EXCEPT ![n] = IF @ = "none" THEN form ELSE @]
      /\ forms' = [forms EXCEPT ![n] = @ \cup {form}]
      /\ consumed' = consumed \cup {n}
      /\ UNCHANGED <<host, override, status, binDir, path, ahead, packaged>>
  BY DEF Bind, Consume, tools
<1>4. /\ target' \in [Library -> Forms \cup {"none"}]
      /\ forms' \in [Library -> SUBSET Forms]
      /\ consumed' \subseteq Name
  BY <1>3 DEF Name
<1>5. PathOrdered'
  BY <1>3 DEF PathOrdered
<1> QED
  BY <1>2, <1>3, <1>4, <1>5

LEMMA ToolType ==
    ASSUME TypeOK, NEW n \in Tool, NEW dir \in Dirs, UseTool(n, dir)
    PROVE  TypeOK'
<1> USE DEF TypeOK
<1>1. /\ binDir' = [binDir EXCEPT ![n] = dir]
      /\ consumed' = consumed \cup {n}
      /\ UNCHANGED <<host, disk, override, status, target, install, forms, packaged>>
  BY DEF UseTool, Consume, libraries
<1>2. binDir' \in [Tool -> Dirs \cup {"none"}] /\ consumed' \subseteq Name
  BY <1>1 DEF Name
<1>3. path' \in SUBSET Dirs /\ ahead' \in [Dirs -> SUBSET Dirs] /\ PathOrdered'
  BY PrependOrdered DEF UseTool
<1> QED
  BY <1>1, <1>2, <1>3

LEMMA NextType == TypeOK /\ [Next]_vars => TypeOK'
<1> SUFFICES ASSUME TypeOK, [Next]_vars PROVE TypeOK'
  OBVIOUS
<1>1. ASSUME status = "running", NEW n \in Library, NEW arg, ResolveSystem(n, arg)
      PROVE  TypeOK'
  BY <1>1, DepType DEF ResolveSystem, Forms, TypeOK
<1>2. ASSUME status = "running", NEW n \in Library, NEW arg, ResolveInstalled(n, arg)
      PROVE  TypeOK'
  <2> DEFINE form == IF Static(n, arg) THEN "static" ELSE "shared"
  <2>1. Bind(n, form) /\ form \in Forms /\ form \in {"shared", "static"}
    BY <1>2 DEF ResolveInstalled, Forms
  <2>2. disk' = [disk EXCEPT ![n] = @ \cup {form}] \/ disk' = [disk EXCEPT ![n] = {form}]
    BY <1>2 DEF ResolveInstalled
  <2> HIDE DEF form
  <2>3. disk' \in [Library -> SUBSET {"shared", "static"}]
    BY <2>1, <2>2 DEF TypeOK
  <2> QED
    BY <1>2, <2>1, <2>3, DepType
<1>3. ASSUME Fail, disk' \in [Library -> SUBSET {"shared", "static"}] PROVE TypeOK'
  BY <1>3 DEF Fail, TypeOK, PathOrdered, libraries, tools
<1>4. ASSUME NEW n \in Library, NEW arg, DepFails(n, arg) PROVE TypeOK'
  <2>1. disk' \in [Library -> SUBSET {"shared", "static"}]
    BY <1>4 DEF DepFails, TypeOK
  <2> QED
    BY <1>4, <2>1, <1>3 DEF DepFails
<1>5. ASSUME NEW n \in Tool, SystemTool(n) \/ FetchTool(n) PROVE TypeOK'
  BY <1>5, ToolType DEF SystemTool, FetchTool, Dirs
<1>6. ASSUME NEW n \in SourceDep, NEW arg, UseSource(n, arg) PROVE TypeOK'
  BY <1>6 DEF UseSource, Consume, TypeOK, PathOrdered, libraries, tools, Name
<1>7. CASE InstallConsumed
  BY <1>7 DEF InstallConsumed, TypeOK, PathOrdered, libraries, tools
<1>8. CASE Configure
  <2>1. PICK o \in Overrides : Fresh(o)
    BY <1>8 DEF Configure
  <2>2. UNCHANGED <<host, disk>>
    BY <1>8 DEF Configure
  <2>3. PathOrdered' /\ path' \in SUBSET Dirs /\ ahead' \in [Dirs -> SUBSET Dirs]
    BY <2>1 DEF Fresh, PathOrdered, Dirs
  <2> QED
    BY <2>1, <2>2, <2>3 DEF Fresh, TypeOK, Forms, Nothing, Dirs
<1>9. CASE UNCHANGED vars
  BY <1>9 DEF vars, TypeOK, PathOrdered
<1>10. ASSUME Fail, UNCHANGED disk PROVE TypeOK'
  BY <1>10, <1>3 DEF TypeOK
<1> QED
  BY <1>1, <1>2, <1>4, <1>5, <1>6, <1>7, <1>8, <1>9, <1>10
  DEF Next, Require, ToolFails, SourceFails

\* The state of a manifest is always one of the declared ones, and PATH is always
\* an order of the directories that are on it.
THEOREM Typing == Spec => []TypeOK
<1>1. Init => TypeOK
  <2> SUFFICES ASSUME Init PROVE TypeOK
    OBVIOUS
  <2>1. PathOrdered /\ path \in SUBSET Dirs /\ ahead \in [Dirs -> SUBSET Dirs]
    BY DEF Init, PathOrdered, Dirs
  <2> QED
    BY <2>1 DEF Init, TypeOK, Forms, Nothing, Dirs
<1> QED BY <1>1, NextType, PTL DEF Spec

-----------------------------------------------------------------------------
(* Where a tool is found                                                   *)

FromSystem(n) == Mode(n, "PREBUILT") = "SYSTEM"

\* A tool is taken from the system or fetched throughout a configure, its own
\* directory is on PATH just when it was fetched, and the directory of the host
\* only gets in front of another for a tool of the host.
ToolInv ==
    /\ \A n \in Tool : binDir[n] = "host" => FromSystem(n) /\ n \in host
    /\ \A n \in Tool : binDir[n] \in Tool => binDir[n] = n /\ ~FromSystem(n)
    /\ \A n \in Tool : n \in path <=> binDir[n] = n
    /\ \A d \in path : "host" \in ahead[d] => \E m \in Tool : binDir[m] = "host"

LEMMA UseToolStep ==
    ASSUME TypeOK, ToolInv, NEW n \in Tool,
           \/ UseTool(n, "host") /\ FromSystem(n) /\ n \in host
           \/ UseTool(n, n) /\ ~FromSystem(n)
    PROVE  ToolInv'
<1> USE NamesAssumption DEF TypeOK
<1>1. UNCHANGED <<host, override>>
  BY DEF UseTool
<1>2. \A m \in Tool : FromSystem(m)' = FromSystem(m)
  BY <1>1 DEF FromSystem, Mode, OverrideOf
<1>3. CASE UseTool(n, "host") /\ FromSystem(n) /\ n \in host
  <2>1. binDir' = [binDir EXCEPT ![n] = "host"] /\ path' = path \cup {"host"}
    BY <1>3 DEF UseTool, Prepend
  <2>2. binDir[n] # n
    BY <1>3 DEF ToolInv
  <2>3. \A m \in Tool : m \in path' <=> binDir'[m] = m
    BY <2>1, <2>2 DEF ToolInv
  <2>4. \E m \in Tool : binDir'[m] = "host"
    BY <2>1
  <2>5. \A m \in Tool : binDir'[m] = "host" => FromSystem(m)' /\ m \in host'
    BY <1>1, <1>2, <1>3, <2>1 DEF ToolInv
  <2>6. \A m \in Tool : binDir'[m] \in Tool => binDir'[m] = m /\ ~FromSystem(m)'
    BY <1>2, <2>1 DEF ToolInv
  <2> QED
    BY <2>3, <2>4, <2>5, <2>6 DEF ToolInv
<1>4. CASE UseTool(n, n) /\ ~FromSystem(n)
  <2>1. binDir' = [binDir EXCEPT ![n] = n] /\ Prepend(n) /\ n \in Dirs
    BY <1>4 DEF UseTool, Dirs
  <2>2. /\ path' = path \cup {n} /\ ahead'[n] = {}
        /\ \A e \in path \ {n} : ahead'[e] = ahead[e] \cup {n}
    BY <2>1, PrependOrdered
  <2>3. \A m \in Tool : m \in path' <=> binDir'[m] = m
    BY <2>1, <2>2 DEF ToolInv
  <2>4. \A m \in Tool : binDir'[m] = "host" => FromSystem(m)' /\ m \in host'
    BY <1>1, <1>2, <2>1 DEF ToolInv
  <2>5. \A m \in Tool : binDir'[m] \in Tool => binDir'[m] = m /\ ~FromSystem(m)'
    BY <1>2, <1>4, <2>1 DEF ToolInv
  <2>6. ASSUME NEW d \in path', "host" \in ahead'[d]
        PROVE  \E m \in Tool : binDir'[m] = "host"
    <3>1. d \in path /\ "host" \in ahead[d]
      BY <2>6, <2>2
    <3>2. PICK m \in Tool : binDir[m] = "host"
      BY <3>1 DEF ToolInv
    <3>3. m # n
      BY <3>2, <1>4 DEF ToolInv
    <3> QED
      BY <3>2, <3>3, <2>1
  <2> QED
    BY <2>3, <2>4, <2>5, <2>6 DEF ToolInv
<1> QED
  BY <1>3, <1>4

LEMMA NextToolInv == TypeOK /\ ToolInv /\ [Next]_vars => ToolInv'
<1> SUFFICES ASSUME TypeOK, ToolInv, [Next]_vars PROVE ToolInv'
  OBVIOUS
<1>1. ASSUME UNCHANGED <<host, override, binDir, path, ahead>> PROVE ToolInv'
  BY <1>1 DEF ToolInv, FromSystem, Mode, OverrideOf
<1>2. ASSUME NEW n \in Tool, SystemTool(n) PROVE ToolInv'
  BY <1>2, UseToolStep DEF SystemTool, FromSystem
<1>3. ASSUME NEW n \in Tool, FetchTool(n) PROVE ToolInv'
  BY <1>3, UseToolStep DEF FetchTool, FromSystem
<1>4. ASSUME Fail PROVE ToolInv'
  BY <1>4, <1>1 DEF Fail, tools
<1>5. ASSUME NEW n \in Library, NEW arg, ResolveSystem(n, arg) \/ ResolveInstalled(n, arg)
      PROVE  ToolInv'
  BY <1>5, <1>1 DEF ResolveSystem, ResolveInstalled, Bind, tools
<1>6. ASSUME NEW n \in SourceDep, NEW arg, UseSource(n, arg) PROVE ToolInv'
  BY <1>6, <1>1 DEF UseSource, tools
<1>7. CASE InstallConsumed
  BY <1>7, <1>1 DEF InstallConsumed, tools
<1>8. CASE Configure
  <2>1. PICK o \in Overrides : Fresh(o)
    BY <1>8 DEF Configure
  <2>2. binDir' = [m \in Tool |-> "none"] /\ path' = {"host"} /\ ahead' = [d \in Dirs |-> {}]
    BY <2>1 DEF Fresh
  <2> QED
    BY <2>2, NamesAssumption DEF ToolInv, Dirs
<1>9. CASE UNCHANGED vars
  BY <1>9, <1>1 DEF vars
<1> QED
  BY <1>2, <1>3, <1>4, <1>5, <1>6, <1>7, <1>8, <1>9
  DEF Next, Require, DepFails, ToolFails, SourceFails

\* A tool can be found in its own directory and in that of the host.
LEMMA HasCases ==
    ASSUME NEW d, NEW n, Has(d, n)
    PROVE  d = n \/ (d = "host" /\ n \in host)
BY DEF Has

\* Wherever require_tool has resolved a tool, a later build finds it there, or in
\* the directory of the host, which then stands in front because another tool was
\* taken from the system.
THEOREM OnlyHostGetsInFront == Spec => []OnlyHostShadows
<1>1. Init => ToolInv
  BY NamesAssumption DEF Init, ToolInv, Dirs
<1>2. ASSUME TypeOK, ToolInv PROVE OnlyHostShadows
  <2> USE <1>2, NamesAssumption DEF TypeOK, PathOrdered
  <2> SUFFICES ASSUME NEW n \in Tool, binDir[n] # "none"
               PROVE  \/ Finds(binDir[n], n)
                      \/ Finds("host", n) /\ \E m \in Tool : binDir[m] = "host"
    BY DEF OnlyHostShadows
  <2>1. \A d \in path : Has(d, n) => d = n \/ (d = "host" /\ n \in host)
    BY HasCases
  <2>2. CASE binDir[n] = "host"
    <3>1. n \notin path /\ n \in host
      BY <2>2 DEF ToolInv
    <3>2. \A e \in ahead["host"] : e \in path /\ e # "host"
      BY DEF Dirs
    <3> QED
      BY <2>1, <2>2, <3>1, <3>2 DEF Finds, Has
  <2>3. CASE binDir[n] # "host"
    <3>1. binDir[n] = n /\ n \in path /\ n # "host"
      BY <2>3 DEF ToolInv, Dirs
    <3>2. CASE "host" \in ahead[n] /\ n \in host
      <4>1. \E m \in Tool : binDir[m] = "host"
        BY <3>1, <3>2 DEF ToolInv
      <4>2. n \notin ahead["host"]
        BY <3>1, <3>2
      <4>3. \A e \in ahead["host"] : e \in path /\ e # "host"
        BY DEF Dirs
      <4> QED
        BY <2>1, <3>2, <4>1, <4>2, <4>3 DEF Finds, Has
    <3>3. CASE ~("host" \in ahead[n] /\ n \in host)
      <4>1. \A e \in ahead[n] : e \in path /\ e # n
        BY <3>1
      <4> QED
        BY <2>1, <3>1, <3>3, <4>1 DEF Finds, Has
    <3> QED
      BY <3>2, <3>3
  <2> QED
    BY <2>2, <2>3
<1> QED BY <1>1, <1>2, NextToolInv, Typing, PTL DEF Spec
=============================================================================
