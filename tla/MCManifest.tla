----------------------------- MODULE MCManifest -----------------------------
(* A manifest of two libraries, two tools and two source dependencies, on  *)
(* three hosts, with the overrides of all or of one, for TLC.              *)
EXTENDS Manifest

MCHosts == {{}, {"ogg", "yasm"}, Library \cup Tool}

Unset == [n \in Name |-> "undefined"]

MCOverrides ==
    {[one |-> Unset, all |-> v] : v \in Values \ {"PREBUILT"}} \cup
    {[one |-> [Unset EXCEPT !["ogg"] = v], all |-> "undefined"] :
        v \in {"REBUILD", "PREBUILT"}} \cup
    {[one |-> [Unset EXCEPT ![n] = ""], all |-> "SYSTEM"] : n \in {"ogg", "yasm"}} \cup
    {[one |-> [Unset EXCEPT !["yasm"] = "SYSTEM"], all |-> "undefined"]}
=============================================================================
