------------------------------ MODULE MCPrefix ------------------------------
(* A dependency with a library, its archive form for static builds and a   *)
(* header, for TLC.                                                        *)
EXTENDS Prefix

\* Every recipe installs a header and the library that its linkage needs; a
\* configuration with fewer files leaves out one of them.
Library(k) == IF k = "static" THEN "a" ELSE "so"

MCInstalls ==
    [r \in Recipe |-> [k \in Linkage |-> {"h", Library(k)} \cap File]]
MCLinks ==
    [r \in Recipe |-> [k \in Linkage |-> {Library(k)} \cap File]]

\* The first two recipes differ in a patch only, a later one in its source.
MCTarballOf == [r \in Recipe |-> IF r <= 2 THEN 1 ELSE 2]
=============================================================================
