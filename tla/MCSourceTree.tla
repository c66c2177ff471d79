---------------------------- MODULE MCSourceTree ----------------------------
(* A source dependency with a tarball and a git subdirectory, for TLC.     *)
EXTENDS SourceTree

Tar(sub, name, pin) ==
    [sub |-> sub, kind |-> "tarball", name |-> name, pin |-> pin, fields |-> 4]
Git(sub, pin) ==
    [sub |-> sub, kind |-> "git", name |-> "none", pin |-> pin, fields |-> 4]

\* Four fields as validate.cmake wants them, and three as README.md does.
LocalDir(fields) ==
    [sub |-> "lv2", kind |-> "local", name |-> "none", pin |-> "l", fields |-> fields]

\* Two revisions that differ in every pin and in a patch, one with a single
\* subdirectory, one with the entries of the first and other patches, and
\* three that are local, badly written, or lack the directory of a patch.
Sources(second) ==
    [r \in Revision |->
        CASE r \in {1, 4} -> <<Tar("lv2", "v1", "t1"), Git("zlib", "g1")>>
          [] r = 2 -> <<Tar("lv2", second, "t2"), Git("zlib", "g2")>>
          [] r = 3 -> <<Git("zlib", "g2")>>
          [] r = 5 -> <<LocalDir(4), Git("zlib", "g2")>>
          [] r = 6 -> <<LocalDir(3)>>
          [] r = 7 -> <<Tar("lv2", "v1", "t1"), Git("zlib", "g1")>>]

MCEntries == Sources("v2")
ReusedNames == Sources("v1")

For(dir, id) == [dir |-> dir, id |-> id]

MCPatches ==
    [r \in Revision |->
        CASE r = 1 -> <<For("lv2", "a")>>
          [] r = 2 -> <<For("lv2", "a"), For("zlib", "b")>>
          [] r \in {3, 7} -> <<For(Absent, "b")>>
          [] OTHER -> <<>>]

\* In the runs without kills in these phases.
MCPhase == Phases \ {"wipe"}
MCPhaseWhole == Phases \ {"wipe", "receive"}
=============================================================================
