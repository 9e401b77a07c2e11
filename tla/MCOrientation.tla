---------------------------- MODULE MCOrientation ----------------------------
(****************************************************************************)
(* Small instances of Orientation: two process identifiers, a tablet that   *)
(* lies flat or stands on one of two edges.                                 *)
(****************************************************************************)
EXTENDS Orientation, TLC

CONSTANTS p1, p2

MCPids     == {p1, p2}
MCPostures == {FLAT, TOP, RIGHT}
AnEdge     == {RIGHT}
TwoPostures == {FLAT, LEFT}
ENOENT     == {-2}
AllFaults  == FaultKinds
Errno      == {"errno"}
None       == {}
=============================================================================
