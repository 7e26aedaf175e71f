------------------------------ MODULE MCReclaim -----------------------------
(* Two places, a file and a directory or two files, three archive roots of   *)
(* which one is on another filesystem.                                       *)
EXTENDS Reclaim

CONSTANTS p1, p2, i1, i2, i3

Place(dir, name) == [dir |-> dir, run |-> 0, name |-> name]
MCApart     == {Place("a", "x"), Place("b", "y")}
MCSameNames == {Place("a", "x"), Place("b", "x")}
MCRoots     == {".old", "near", "far"}
MCAdjacent  == ".old"
MCFar       == {"far"}
=============================================================================
