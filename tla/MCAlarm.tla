------------------------------- MODULE MCAlarm ------------------------------
(* The default paths, home and root; a healthy filesystem, one with little   *)
(* space left, one with few inodes left.                                     *)
EXTENDS Alarm

CONSTANT r1

Measured(free, inodes) == [state |-> "up", free |-> free, inodes |-> inodes]

MCPaths    == <<"home", "root">>
MCSizes    == <<100, 100>>
MCMeasures == <<{Measured(50, 10), Measured(4, 10)}, {Measured(50, 10), Measured(50, 90)}>>
=============================================================================
