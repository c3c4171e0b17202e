--------------------------- MODULE MCLimitOffice ---------------------------
(* Model checking of LimitOffice: every parameter is given in the .cfg.     *)
EXTENDS LimitOffice
=============================================================================
