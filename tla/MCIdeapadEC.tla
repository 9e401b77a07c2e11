----------------------------- MODULE MCIdeapadEC -----------------------------
(****************************************************************************)
(* A small instance of IdeapadEC: two threads, a cell that is written and a *)
(* switch, each on or off.                                                  *)
(****************************************************************************)
EXTENDS IdeapadEC, TLC

CONSTANTS t1, t2, fan, rf, on, off

MCThreads  == {t1, t2}
MCCells    == {fan, rf}
MCSwitches == {rf}
MCValues   == {on, off}
=============================================================================
