--------------------------- MODULE MCFIXFraming ---------------------------
(* Values for TLC: a message the parser knows, and a longer one it does    *)
(* not know.                                                               *)
EXTENDS FIXFraming

MCKinds == {[type |-> 1, extra |-> 0], [type |-> 2, extra |-> 1]}
=============================================================================
