---------------------------- MODULE MCSessionFile ---------------------------
EXTENDS SessionFile

(* Three clock readings: a turn before, at and after the creation.         *)
MCTime == 0..2
=============================================================================
