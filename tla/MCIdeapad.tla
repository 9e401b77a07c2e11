------------------------------- MODULE MCIdeapad -------------------------------
(****************************************************************************)
(* A small instance of Ideapad: one radio.                                 *)
(****************************************************************************)
EXTENDS Ideapad

MCRadios == {0}
=============================================================================
