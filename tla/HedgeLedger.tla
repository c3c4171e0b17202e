---------------------------- MODULE HedgeLedger ----------------------------
(* What the business office and its two trade offices promise together,    *)
(* without rings, threads, messages and delays: a ledger of orders that    *)
(* come in pairs, one leg at each broker on opposite sides, and in which   *)
(* an order the broker rejected may be replaced, once, by one at the other *)
(* broker on the same side.                                                *)
EXTENDS Integers, Sequences, FiniteSets

VARIABLES ledger,    \* the orders: broker, side, and the order it replaces or 0
          half,      \* the second leg of the last order's pair is to come
          filled, rejected

ledgerVars == <<ledger, half, filled, rejected>>

Entry == [broker : {"LMAX", "IB"}, side : {"BUY", "SELL"}, replaces : Nat]

Init ==
    /\ ledger = << >> /\ half = FALSE
    /\ filled = {} /\ rejected = {}

last == ledger[Len(ledger)]
Standing == {i \in DOMAIN ledger : \A j \in DOMAIN ledger : ledger[j].replaces # i}

FirstLeg(leg) ==
    /\ ~half /\ leg.replaces = 0
    /\ ledger' = Append(ledger, leg) /\ half' = TRUE
    /\ UNCHANGED <<filled, rejected>>

SecondLeg(leg) ==
    /\ half /\ leg.replaces = 0
    /\ leg.broker # last.broker /\ leg.side # last.side
    /\ ledger' = Append(ledger, leg) /\ half' = FALSE
    /\ UNCHANGED <<filled, rejected>>

Replace(order) ==
    /\ ~half
    /\ order.replaces \in Standing \cap rejected
    /\ ledger[order.replaces].replaces = 0
    /\ order.broker # ledger[order.replaces].broker
    /\ order.side = ledger[order.replaces].side
    /\ ledger' = Append(ledger, order)
    /\ UNCHANGED <<half, filled, rejected>>

Answer(i) ==
    /\ i \in DOMAIN ledger \ (filled \cup rejected)
    /\ \/ filled' = filled \cup {i} /\ UNCHANGED rejected
       \/ rejected' = rejected \cup {i} /\ UNCHANGED filled
    /\ UNCHANGED <<ledger, half>>

Next ==
    \/ \E order \in [broker : {"LMAX", "IB"}, side : {"BUY", "SELL"},
                     replaces : {0} \cup DOMAIN ledger] :
          FirstLeg(order) \/ SecondLeg(order) \/ Replace(order)
    \/ \E i \in DOMAIN ledger : Answer(i)

Spec == Init /\ [][Next]_ledgerVars
-----------------------------------------------------------------------------
Bought == {i \in Standing : ledger[i].side = "BUY"}
Sold == {i \in Standing : ledger[i].side = "SELL"}

\* The orders that were not replaced balance, up to a leg whose pair is not
\* complete, and what was filled stands: a replacement never doubles a fill.
Balanced ==
    /\ Cardinality(Bought) - Cardinality(Sold)
          = IF ~half THEN 0 ELSE IF last.side = "BUY" THEN 1 ELSE -1
    /\ filled \subseteq Standing
=============================================================================
