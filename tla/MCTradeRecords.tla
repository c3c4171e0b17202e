--------------------------- MODULE MCTradeRecords ---------------------------
(* Model checking of TradeRecords: two pairs, two reports.                  *)
EXTENDS TradeRecords
=============================================================================
