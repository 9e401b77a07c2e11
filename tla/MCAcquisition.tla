---------------------------- MODULE MCAcquisition ----------------------------
(****************************************************************************)
(* Small instances of Acquisition: one process, or two on one device.       *)
(****************************************************************************)
EXTENDS Acquisition, TLC

CONSTANTS u1, u2

One   == {u1}
Two   == {u1, u2}
All   == FaultKinds
Stops == {"stop"}
=============================================================================
