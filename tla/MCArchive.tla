------------------------------ MODULE MCArchive -----------------------------
(* Small instances of Archive: two names, two contents of the same length    *)
(* and one that is longer.                                                   *)
EXTENDS Archive, TLC

CONSTANTS x, y, a, b, long, p1, p2

MCLength  == [c \in Contents |-> IF c = long THEN 3 ELSE 1]
MCSources == {"d"}
MCKey     == [s \in MCSources |-> s]
MCFree    == {None, 0, 100}

Flags(checksum, exclude, content) ==
  [checksum |-> checksum, exclude |-> exclude, content |-> content]

(* One set of flags of each kind under which an archive is Exact. *)
MCExact == {Flags(TRUE, {}, FALSE), Flags(FALSE, {}, TRUE), Flags(TRUE, {x}, TRUE)}
MCBoth  == {Flags(TRUE, {}, FALSE), Flags(FALSE, {x}, TRUE)}
MCTally == {Flags(TRUE, {}, FALSE)}

Symmetric == Permutations({a, b})
=============================================================================
