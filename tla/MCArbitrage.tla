---------------------------- MODULE MCArbitrage ----------------------------
(* Values for TLC: three quotes without spread, one pip apart.             *)
EXTENDS Arbitrage

Tick(p) == [bid |-> p, ask |-> p]
MCQuotes == {Tick(0), Tick(1), Tick(2)}
MCTwoQuotes == {Tick(0), Tick(2)}
MCOneQuote == {Tick(0)}
=============================================================================
