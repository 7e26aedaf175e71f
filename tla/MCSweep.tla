------------------------------- MODULE MCSweep ------------------------------
(* A directory with two files and a symlink to a directory. *)
EXTENDS Sweep, TLC

CONSTANTS f, g, link, a, b, p1, p2

MCLength  == [c \in Contents |-> 1]
MCDirs    == {"d"}
MCFree    == {None, 0, 100}
MCInodes  == 1..4
Symmetric == Permutations({a, b})
=============================================================================
