---------------------------- MODULE TradingRings ----------------------------
(* What the business office and the two trade offices share: the order     *)
(* ring (business -> trade), the execution ring (trade -> business) and    *)
(* the isRunning flag of main().                                           *)
EXTENDS Integers, Sequences, FiniteSets, Disruptor

CONSTANTS OrderRingSize,   \* slots of the order ring (16 in main.cpp)
          ExecRingSize     \* slots of the execution ring (16 in main.cpp)

ASSUME RingSizesAssumption ==
    /\ OrderRingSize \in Nat \ {0}
    /\ ExecRingSize \in Nat \ {0}

VARIABLES orderRing, execRing, isRunning

ringVars == <<orderRing, execRing, isRunning>>

Brokers == {"LMAX", "IB"}      \* the brokers the business office trades with
Sides   == {"BUY", "SELL"}

CORRECTION_ID == 0             \* 99699 in the code; legs have ids from 1 up

(* type and price are left out: every order here is a MARKET order, whose  *)
(* price the trade office ignores.  label ("OPEN", "CLOSE" or "NONE" for a *)
(* correction) and corrects (the execution event a correction answers, 0   *)
(* for a leg) are history: no field of the code carries them.              *)
OrderEvent ==
    [broker : Brokers \cup {"NONE"}, side : Sides, id : Nat,
     label : {"OPEN", "CLOSE", "NONE"}, corrects : Nat]

\* reports (the position in the order log of the order reported on) is history.
ExecutionEvent ==
    [broker : Brokers, side : Sides, isFilled : BOOLEAN, id : Nat,
     reports : Nat]

BUSINESS == "BUSINESS"
ExecReaders == {BUSINESS}

TypeOKRings ==
    /\ orderRing \in Rings(OrderEvent, Brokers)
    /\ execRing \in Rings(ExecutionEvent, ExecReaders)
    /\ isRunning \in BOOLEAN

InitRings ==
    /\ orderRing = NewRing(Brokers)
    /\ execRing = NewRing(ExecReaders)
    /\ isRunning = TRUE

orders == orderRing.log
executions == execRing.log
=============================================================================
