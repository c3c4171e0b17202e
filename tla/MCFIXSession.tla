---------------------------- MODULE MCFIXSession ----------------------------
(* Model checking of FIXSession.  The configurations differ in what the     *)
(* environment may do (silence, gaps); every parameter is a number,         *)
(* a Boolean or a set of strings and is given in the .cfg.                  *)
EXTENDS FIXSession
=============================================================================
