---------------------------- MODULE MCProjectFiles --------------------------
(* A directory with a directory or a file in it, two names, a worker that    *)
(* deletes and one that serves everything.                                   *)
EXTENDS ProjectFiles

CONSTANTS p1, p2, n1, n2, s1, s2, s3, s4

MCServes == (p1 :> {"delete"}) @@ (p2 :> Ops)
MCRequests == (p1 :> 1) @@ (p2 :> 2)
MCPaths  == {<<n1>>, <<n2>>, <<n1, n2>>, <<n2, n2>>}
MCInodes == 1..7
Free     == [i \in MCInodes |-> None]
Holding(what) ==
  [kind |-> [i \in MCInodes |-> IF i \in {1, 2} THEN "dir" ELSE IF i = 3 THEN what ELSE "free"],
   dir  |-> [Free EXCEPT ![2] = 1, ![3] = 2],
   name |-> [Free EXCEPT ![2] = n1, ![3] = n2]]
MCTrees  == {Holding("dir"), Holding("file")}
=============================================================================
