--------------------------- MODULE MCSensorDriver ---------------------------
(****************************************************************************)
(* A small instance of SensorDriver: two drivers for two sensors, one of    *)
(* them with the wrong argument in its removal, and reports with the fields *)
(* of one sensor, of both, and of none that has a driver.                   *)
(****************************************************************************)
EXTENDS SensorDriver, TLC

CONSTANTS a, b, accel, als, other

MCDrivers == {a, b}
MCUsages  == {accel, als, other}
TwoUsages == a :> accel @@ b :> als
MCReports == {<<accel>>, <<accel, als>>, <<als, other>>}
OnlyB     == {b}
None      == {}
=============================================================================
