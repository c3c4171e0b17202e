--------------------------- MODULE MCPriceStream ---------------------------
(* Model checking of PriceStream: the two market offices of main().         *)
EXTENDS PriceStream

BothOffices == 1 .. 2
=============================================================================
