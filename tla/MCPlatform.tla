----------------------------- MODULE MCPlatform -----------------------------
(* Two libraries and a tool, for TLC.                                      *)
EXTENDS Platform

CONSTANT yasm

MCKind == [n \in Name |-> IF n = yasm THEN "tool" ELSE "library"]
=============================================================================
