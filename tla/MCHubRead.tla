------------------------------ MODULE MCHubRead ------------------------------
(****************************************************************************)
(* A small instance of HubRead: two readers, two attributes, and reports    *)
(* with one attribute or both (the Cartesian product of an accelerometer's  *)
(* axes), one of them with a field that comes twice.                        *)
(****************************************************************************)
EXTENDS HubRead, TLC

CONSTANTS r1, r2, x, y

MCReaders == {r1, r2}
MCAttrs   == {x, y}
MCReports == {<<x, y>>, <<x, x>>}
=============================================================================
