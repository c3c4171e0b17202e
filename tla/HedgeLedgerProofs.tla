------------------------- MODULE HedgeLedgerProofs -------------------------
(* The ledger balances, however long it is and whatever the brokers answer. *)
EXTENDS HedgeLedger, FiniteSetTheorems, SequenceTheorems, TLAPS

\* An order replaces an earlier one that was rejected, and the answers are about
\* orders in the ledger, one each.
LedgerInv ==
    /\ ledger \in Seq(Entry)
    /\ half \in BOOLEAN
    /\ half => ledger # << >>
    /\ filled \cup rejected \subseteq DOMAIN ledger
    /\ filled \cap rejected = {}
    /\ \A i \in DOMAIN ledger :
          /\ ledger[i].replaces < i
          /\ ledger[i].replaces # 0 => ledger[i].replaces \in rejected
    /\ Balanced

\* The positions of the ledger, and the finite sets that are counted.
LEMMA LedgerFacts ==
    ASSUME LedgerInv
    PROVE  /\ Len(ledger) \in Nat
           /\ DOMAIN ledger = 1 .. Len(ledger)
           /\ \A i \in DOMAIN ledger : ledger[i] \in Entry
           /\ half => last \in Entry
           /\ IsFiniteSet(Bought) /\ IsFiniteSet(Sold)
           /\ Cardinality(Bought) \in Nat /\ Cardinality(Sold) \in Nat
  <1>1. /\ Len(ledger) \in Nat /\ DOMAIN ledger = 1 .. Len(ledger)
        /\ \A i \in DOMAIN ledger : ledger[i] \in Entry
    BY DEF LedgerInv
  <1>2. IsFiniteSet(DOMAIN ledger)
    BY <1>1, FS_Interval
  <1>3. Bought \subseteq DOMAIN ledger /\ Sold \subseteq DOMAIN ledger
    BY DEF Bought, Sold, Standing
  <1>4. IsFiniteSet(Bought) /\ IsFiniteSet(Sold)
    BY <1>2, <1>3, FS_Subset
  <1>5. half => last \in Entry
    BY <1>1 DEF LedgerInv, last
  <1> QED  BY <1>1, <1>4, <1>5, FS_CardinalityType

\* What a new order does to the orders that stand.
LEMMA AppendStanding ==
    ASSUME LedgerInv, NEW e \in Entry, e.replaces \in {0} \cup DOMAIN ledger,
           ledger' = Append(ledger, e)
    PROVE  LET n == Len(ledger) + 1
           IN  /\ DOMAIN ledger' = DOMAIN ledger \cup {n}
               /\ n \notin DOMAIN ledger
               /\ \A i \in DOMAIN ledger : ledger'[i] = ledger[i]
               /\ ledger'[n] = e /\ last' = e
               /\ Standing' = (Standing \ {e.replaces}) \cup {n}
  <1> DEFINE n == Len(ledger) + 1
  <1>1. Len(ledger) \in Nat /\ DOMAIN ledger = 1 .. Len(ledger)
    BY LedgerFacts
  <1>2. /\ DOMAIN ledger' = 1 .. n /\ Len(ledger') = n
        /\ \A i \in DOMAIN ledger : ledger'[i] = ledger[i]
        /\ ledger'[n] = e
    BY <1>1 DEF LedgerInv
  <1>3. DOMAIN ledger' = DOMAIN ledger \cup {n} /\ n \notin DOMAIN ledger
    BY <1>1, <1>2
  <1>4. last' = e
    BY <1>2 DEF last
  <1>5. \A i, j \in DOMAIN ledger : ledger[j].replaces # n
    BY <1>1, <1>3 DEF LedgerInv, Entry
  <1>6. e.replaces # n
    BY <1>1
  <1>7. Standing' = (Standing \ {e.replaces}) \cup {n}
    BY <1>1, <1>2, <1>3, <1>5, <1>6 DEF Standing
  <1> QED  BY <1>2, <1>3, <1>4, <1>7

\* A new order keeps everything but the balance.
LEMMA AppendLinks ==
    ASSUME LedgerInv, NEW e \in Entry, e.replaces \in {0} \cup rejected,
           ledger' = Append(ledger, e), half' \in BOOLEAN,
           UNCHANGED <<filled, rejected>>
    PROVE  /\ ledger' \in Seq(Entry) /\ ledger' # << >>
           /\ filled' \cup rejected' \subseteq DOMAIN ledger'
           /\ filled' \cap rejected' = {}
           /\ \A i \in DOMAIN ledger' :
                 /\ ledger'[i].replaces < i
                 /\ ledger'[i].replaces # 0 => ledger'[i].replaces \in rejected'
           /\ filled' \subseteq Standing'
  <1> DEFINE n == Len(ledger) + 1
  <1>1. e.replaces \in {0} \cup DOMAIN ledger
    BY DEF LedgerInv
  <1>2. /\ DOMAIN ledger' = DOMAIN ledger \cup {n}
        /\ \A i \in DOMAIN ledger : ledger'[i] = ledger[i]
        /\ ledger'[n] = e
        /\ Standing' = (Standing \ {e.replaces}) \cup {n}
    BY <1>1, AppendStanding
  <1>3. e.replaces < n /\ 0 < n
    BY <1>1, LedgerFacts
  <1>4. ledger' \in Seq(Entry) /\ ledger' # << >>
    BY DEF LedgerInv
  <1>5. filled' \subseteq Standing'
    <2>1. 0 \notin filled
      BY LedgerFacts DEF LedgerInv
    <2> QED  BY <1>2, <2>1 DEF LedgerInv, Balanced
  <1> QED  BY <1>2, <1>3, <1>4, <1>5 DEF LedgerInv

\* A leg adds one to its side.
LEMMA LegCounts ==
    ASSUME LedgerInv, NEW e \in Entry, e.replaces = 0, ledger' = Append(ledger, e)
    PROVE  /\ Cardinality(Bought)' = Cardinality(Bought) + IF e.side = "BUY" THEN 1 ELSE 0
           /\ Cardinality(Sold)' = Cardinality(Sold) + IF e.side = "SELL" THEN 1 ELSE 0
  <1> DEFINE n == Len(ledger) + 1
  <1>1. /\ n \notin DOMAIN ledger
        /\ \A i \in DOMAIN ledger : ledger'[i] = ledger[i]
        /\ ledger'[n] = e
        /\ Standing' = (Standing \ {0}) \cup {n}
    BY AppendStanding
  <1>2. 0 \notin Standing /\ Standing \subseteq DOMAIN ledger
    BY LedgerFacts DEF Standing
  <1>3. Standing' = Standing \cup {n} /\ n \notin Standing
    BY <1>1, <1>2
  <1>4. e.side \in {"BUY", "SELL"}
    BY DEF Entry
  <1>5. Bought' = IF e.side = "BUY" THEN Bought \cup {n} ELSE Bought
    BY <1>1, <1>2, <1>3 DEF Bought
  <1>6. Sold' = IF e.side = "SELL" THEN Sold \cup {n} ELSE Sold
    BY <1>1, <1>2, <1>3 DEF Sold
  <1>7. n \notin Bought /\ n \notin Sold
    BY <1>3 DEF Bought, Sold
  <1>8. /\ Cardinality(Bought \cup {n}) = Cardinality(Bought) + 1
        /\ Cardinality(Sold \cup {n}) = Cardinality(Sold) + 1
        /\ Cardinality(Bought) \in Nat /\ Cardinality(Sold) \in Nat
    BY <1>7, LedgerFacts, FS_AddElement
  <1>9. CASE e.side = "BUY"
    BY <1>5, <1>6, <1>8, <1>9
  <1>10. CASE e.side = "SELL"
    BY <1>5, <1>6, <1>8, <1>10
  <1> QED  BY <1>4, <1>9, <1>10

\* A replacement takes the place of the order it replaces.
LEMMA ReplacementCounts ==
    ASSUME LedgerInv, NEW e \in Entry, e.replaces \in Standing,
           e.side = ledger[e.replaces].side, ledger' = Append(ledger, e)
    PROVE  /\ Cardinality(Bought)' = Cardinality(Bought)
           /\ Cardinality(Sold)' = Cardinality(Sold)
  <1> DEFINE n == Len(ledger) + 1
             r == e.replaces
  <1>1. r \in DOMAIN ledger /\ Standing \subseteq DOMAIN ledger
    BY DEF Standing
  <1>2. /\ n \notin DOMAIN ledger
        /\ \A i \in DOMAIN ledger : ledger'[i] = ledger[i]
        /\ ledger'[n] = e
        /\ Standing' = (Standing \ {r}) \cup {n}
    BY <1>1, AppendStanding
  <1>3. Bought' = IF r \in Bought THEN (Bought \ {r}) \cup {n} ELSE Bought
    BY <1>1, <1>2 DEF Bought
  <1>4. Sold' = IF r \in Sold THEN (Sold \ {r}) \cup {n} ELSE Sold
    BY <1>1, <1>2 DEF Sold
  <1>5. n \notin Bought /\ n \notin Sold
    BY <1>1, <1>2 DEF Bought, Sold
  <1>6. ASSUME NEW S, IsFiniteSet(S), n \notin S
        PROVE  r \in S => Cardinality((S \ {r}) \cup {n}) = Cardinality(S)
    <2>1. ASSUME r \in S
          PROVE  Cardinality((S \ {r}) \cup {n}) = Cardinality(S)
      <3>1. /\ IsFiniteSet(S \ {r}) /\ Cardinality(S \ {r}) = Cardinality(S) - 1
        BY <1>6, <2>1, FS_RemoveElement
      <3>2. Cardinality((S \ {r}) \cup {n}) = Cardinality(S \ {r}) + 1
        BY <1>6, <3>1, FS_AddElement
      <3>3. Cardinality(S) \in Nat
        BY <1>6, FS_CardinalityType
      <3> QED  BY <3>1, <3>2, <3>3
    <2> QED  BY <2>1
  <1>7. Cardinality(Bought') = Cardinality(Bought)
    BY <1>3, <1>5, <1>6, LedgerFacts
  <1>8. Cardinality(Sold') = Cardinality(Sold)
    BY <1>4, <1>5, <1>6, LedgerFacts
  <1> QED  BY <1>7, <1>8

\* An empty ledger balances.
LEMMA LedgerInit == ASSUME Init PROVE LedgerInv
  <1>1. Standing = {} /\ Bought = {} /\ Sold = {}
    BY DEF Init, Standing, Bought, Sold
  <1>2. Balanced
    BY <1>1, FS_EmptySet DEF Init, Balanced
  <1>3. ledger \in Seq(Entry) /\ DOMAIN ledger = {}
    BY DEF Init
  <1> QED  BY <1>2, <1>3 DEF Init, LedgerInv

\* Every entry and every answer keeps the balance.
LEMMA LedgerStep == ASSUME LedgerInv, [Next]_ledgerVars PROVE LedgerInv'
  <1> DEFINE orders == [broker : {"LMAX", "IB"}, side : {"BUY", "SELL"},
                        replaces : {0} \cup DOMAIN ledger]
  <1>1. orders \subseteq Entry
    BY LedgerFacts DEF Entry
  <1>2. ASSUME NEW leg \in orders, FirstLeg(leg) PROVE LedgerInv'
    <2>1. /\ leg \in Entry /\ leg.replaces = 0 /\ ledger' = Append(ledger, leg)
          /\ ~half /\ half' = TRUE /\ UNCHANGED <<filled, rejected>>
      BY <1>1, <1>2 DEF FirstLeg
    <2>2. last' = leg
      BY <2>1, AppendStanding
    <2>3. Cardinality(Bought)' - Cardinality(Sold)' = IF leg.side = "BUY" THEN 1 ELSE -1
      <3>1. Cardinality(Bought) - Cardinality(Sold) = 0
        BY <2>1 DEF LedgerInv, Balanced
      <3>2. leg.side \in {"BUY", "SELL"}
        BY <2>1 DEF Entry
      <3>3. /\ Cardinality(Bought)' = Cardinality(Bought) + IF leg.side = "BUY" THEN 1 ELSE 0
            /\ Cardinality(Sold)' = Cardinality(Sold) + IF leg.side = "SELL" THEN 1 ELSE 0
        BY <2>1, LegCounts
      <3> QED  BY <3>1, <3>2, <3>3, LedgerFacts
    <2>4. Balanced'
      BY <2>1, <2>2, <2>3, AppendLinks DEF Balanced
    <2> QED  BY <2>1, <2>4, AppendLinks DEF LedgerInv
  <1>3. ASSUME NEW leg \in orders, SecondLeg(leg) PROVE LedgerInv'
    <2>1. /\ leg \in Entry /\ leg.replaces = 0 /\ ledger' = Append(ledger, leg)
          /\ half /\ half' = FALSE /\ leg.side # last.side
          /\ UNCHANGED <<filled, rejected>>
      BY <1>1, <1>3 DEF SecondLeg
    <2>2. last \in Entry
      BY <2>1, LedgerFacts
    <2>3. Cardinality(Bought)' - Cardinality(Sold)' = 0
      BY <2>1, <2>2, LegCounts, LedgerFacts DEF LedgerInv, Balanced, Entry
    <2>4. Balanced'
      BY <2>1, <2>3, AppendLinks DEF Balanced
    <2> QED  BY <2>1, <2>4, AppendLinks DEF LedgerInv
  <1>4. ASSUME NEW order \in orders, Replace(order) PROVE LedgerInv'
    <2>1. /\ order \in Entry /\ order.replaces \in Standing \cap rejected
          /\ order.side = ledger[order.replaces].side
          /\ ledger' = Append(ledger, order)
          /\ ~half /\ UNCHANGED <<half, filled, rejected>>
      BY <1>1, <1>4 DEF Replace
    <2>2. Cardinality(Bought)' = Cardinality(Bought) /\ Cardinality(Sold)' = Cardinality(Sold)
      BY <2>1, ReplacementCounts
    <2>3. half' \in BOOLEAN
      BY <2>1 DEF LedgerInv
    <2>4. Balanced'
      BY <2>1, <2>2, <2>3, AppendLinks DEF LedgerInv, Balanced
    <2> QED  BY <2>1, <2>3, <2>4, AppendLinks DEF LedgerInv
  <1>5. ASSUME NEW i \in DOMAIN ledger, Answer(i) PROVE LedgerInv'
    <2>1. /\ UNCHANGED <<ledger, half>>
          /\ i \notin filled \cup rejected
          /\ \/ filled' = filled \cup {i} /\ UNCHANGED rejected
             \/ rejected' = rejected \cup {i} /\ UNCHANGED filled
      BY <1>5 DEF Answer
    <2>2. Standing' = Standing /\ Bought' = Bought /\ Sold' = Sold
      BY <2>1 DEF Standing, Bought, Sold
    <2>3. filled' \subseteq Standing
      <3>1. CASE i \in Standing
        BY <2>1, <3>1 DEF LedgerInv, Balanced
      <3>2. CASE i \notin Standing
        <4>1. PICK j \in DOMAIN ledger : ledger[j].replaces = i
          BY <3>2 DEF Standing
        <4>2. i # 0
          BY LedgerFacts
        <4> QED  BY <2>1, <4>1, <4>2 DEF LedgerInv
      <3> QED  BY <3>1, <3>2
    <2>4. Balanced'
      BY <2>1, <2>2, <2>3 DEF LedgerInv, Balanced, last
    <2> QED  BY <2>1, <2>4 DEF LedgerInv
  <1>6. CASE UNCHANGED ledgerVars
    <2>1. Standing' = Standing /\ Bought' = Bought /\ Sold' = Sold /\ last' = last
      BY <1>6 DEF ledgerVars, Standing, Bought, Sold, last
    <2> QED  BY <1>6, <2>1 DEF ledgerVars, LedgerInv, Balanced
  <1> QED  BY <1>2, <1>3, <1>4, <1>5, <1>6 DEF Next

\* The orders that stand balance in every reachable ledger, and no order that was
\* filled is replaced.
THEOREM LedgerBalances == Spec => []Balanced
  <1>1. Init => LedgerInv
    BY LedgerInit
  <1>2. LedgerInv /\ [Next]_ledgerVars => LedgerInv'
    BY LedgerStep
  <1>3. LedgerInv => Balanced
    BY DEF LedgerInv
  <1> QED  BY <1>1, <1>2, <1>3, PTL DEF Spec
=============================================================================
