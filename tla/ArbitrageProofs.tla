-------------------------- MODULE ArbitrageProofs --------------------------
(* Theorems of the arbitrage engine, for every ring size, set of quotes,   *)
(* threshold, order limit and failure bound.                               *)
EXTENDS Arbitrage, DisruptorProofs, SequenceTheorems, FiniteSetTheorems

-----------------------------------------------------------------------------
(* Type correctness.  A handler reads an event by its position, so the     *)
(* positions have to stay inside the logs.                                 *)

InboxBounded ==
    \A b \in Brokers : \A k \in 1 .. Len(inbox[b]) :
       inbox[b][k].order \in DOMAIN orders

Bounded ==
    /\ handled <= available
    /\ available <= Len(executions)
    /\ received \subseteq DOMAIN orders
    /\ InboxBounded

TypeInv == TypeOK /\ Bounded

\* The initial state is well typed.
LEMMA TypeInit == ASSUME Init PROVE TypeInv
  <1>1. TypeOKRings
    BY DEF Init, InitRings, TypeOKRings, Rings, NewRing
  <1>2. TypeOKBusiness
    BY BusinessAssumption DEF Init, InitBusiness, TypeOKBusiness, Differences
  <1>3. TypeOKTrade
    BY DEF Init, InitTrade, TypeOKTrade
  <1>4. Bounded
    BY DEF Init, InitRings, InitBusiness, InitTrade, Bounded, InboxBounded,
           NewRing, executions, orders
  <1> QED  BY <1>1, <1>2, <1>3, <1>4 DEF TypeInv, TypeOK

\* What type correctness says of the two logs and of the inboxes.
LEMMA LogTypes ==
    ASSUME TypeInv
    PROVE  /\ orders \in Seq(OrderEvent) /\ Len(orders) \in Nat
           /\ DOMAIN orders = 1 .. Len(orders)
           /\ executions \in Seq(ExecutionEvent) /\ Len(executions) \in Nat
           /\ DOMAIN executions = 1 .. Len(executions)
           /\ \A i \in DOMAIN orders : orders[i] \in OrderEvent
           /\ \A n \in DOMAIN executions : executions[n] \in ExecutionEvent
           /\ \A b \in Brokers : inbox[b] \in Seq(Report)
  <1>1. orders \in Seq(OrderEvent) /\ executions \in Seq(ExecutionEvent)
    BY DEF TypeInv, TypeOK, TypeOKRings, Rings, orders, executions
  <1>2. \A b \in Brokers : inbox[b] \in Seq(Report)
    BY DEF TypeInv, TypeOK, TypeOKTrade
  <1> QED  BY <1>1, <1>2

\* A published order keeps the rings well typed and every position inside.
LEMMA PublishOrderType ==
    ASSUME TypeInv, NEW e \in OrderEvent, orderRing' = Publish(orderRing, e),
           UNCHANGED <<execRing, isRunning>>
    PROVE  /\ TypeOKRings'
           /\ orders' = Append(orders, e)
           /\ Len(orders') = Len(orders) + 1
           /\ DOMAIN orders \subseteq DOMAIN orders'
           /\ DOMAIN orders' = 1 .. (Len(orders) + 1)
           /\ \A i \in DOMAIN orders : orders'[i] = orders[i]
           /\ orders'[Len(orders) + 1] = e
  <1>1. orderRing \in Rings(OrderEvent, Brokers)
    BY DEF TypeInv, TypeOK, TypeOKRings
  <1>2. /\ orderRing' \in Rings(OrderEvent, Brokers)
        /\ orders' = Append(orders, e)
    BY <1>1, PublishFacts DEF orders
  <1>3. orders \in Seq(OrderEvent)
    BY LogTypes
  <1>4. TypeOKRings'
    BY <1>2 DEF TypeInv, TypeOK, TypeOKRings
  <1> QED  BY <1>2, <1>3, <1>4, AppendFacts

\* The same for a published execution.
LEMMA PublishExecutionType ==
    ASSUME TypeInv, NEW e \in ExecutionEvent, execRing' = Publish(execRing, e),
           UNCHANGED <<orderRing, isRunning>>
    PROVE  /\ TypeOKRings'
           /\ executions' = Append(executions, e)
           /\ Len(executions') = Len(executions) + 1
           /\ DOMAIN executions' = 1 .. (Len(executions) + 1)
           /\ \A i \in DOMAIN executions : executions'[i] = executions[i]
           /\ executions'[Len(executions) + 1] = e
  <1>1. execRing \in Rings(ExecutionEvent, ExecReaders)
    BY DEF TypeInv, TypeOK, TypeOKRings
  <1>2. /\ execRing' \in Rings(ExecutionEvent, ExecReaders)
        /\ executions' = Append(executions, e)
    BY <1>1, PublishFacts DEF executions
  <1>3. executions \in Seq(ExecutionEvent)
    BY LogTypes
  <1>4. TypeOKRings'
    BY <1>2 DEF TypeInv, TypeOK, TypeOKRings
  <1> QED  BY <1>2, <1>3, <1>4, AppendFacts

\* Attaching, detaching and consuming leave both logs as they are.
LEMMA SameLogs ==
    ASSUME TypeInv, UNCHANGED isRunning \/ isRunning' = FALSE,
           \/ orderRing' = orderRing
           \/ \E b \in Brokers : orderRing' = AddGate(orderRing, b)
           \/ \E b \in Brokers : orderRing' = RemoveGate(orderRing, b)
           \/ \E b \in Brokers, n \in Nat : orderRing' = ConsumeTo(orderRing, b, n),
           \/ execRing' = execRing
           \/ execRing' = AddGate(execRing, BUSINESS)
           \/ execRing' = RemoveGate(execRing, BUSINESS)
           \/ \E n \in Nat : execRing' = ConsumeTo(execRing, BUSINESS, n)
    PROVE  TypeOKRings' /\ orders' = orders /\ executions' = executions
  <1>1. /\ orderRing \in Rings(OrderEvent, Brokers)
        /\ execRing \in Rings(ExecutionEvent, ExecReaders)
        /\ isRunning \in BOOLEAN
    BY DEF TypeInv, TypeOK, TypeOKRings
  <1>2. /\ orderRing' \in Rings(OrderEvent, Brokers)
        /\ orderRing'.log = orderRing.log
    <2>1. CASE orderRing' = orderRing
      BY <1>1, <2>1
    <2>2. CASE \E b \in Brokers : orderRing' = AddGate(orderRing, b)
      <3>1. PICK b \in Brokers : orderRing' = AddGate(orderRing, b)
        BY <2>2
      <3>2. /\ AddGate(orderRing, b) \in Rings(OrderEvent, Brokers)
            /\ AddGate(orderRing, b).log = orderRing.log
        BY <1>1, AddGateFacts
      <3> QED  BY <3>1, <3>2
    <2>3. CASE \E b \in Brokers : orderRing' = RemoveGate(orderRing, b)
      BY <1>1, <2>3, RemoveGateFacts
    <2>4. CASE \E b \in Brokers, n \in Nat : orderRing' = ConsumeTo(orderRing, b, n)
      <3>1. PICK b \in Brokers, n \in Nat : orderRing' = ConsumeTo(orderRing, b, n)
        BY <2>4
      <3>2. /\ ConsumeTo(orderRing, b, n) \in Rings(OrderEvent, Brokers)
            /\ ConsumeTo(orderRing, b, n).log = orderRing.log
        BY <1>1, ConsumeToFacts
      <3> QED  BY <3>1, <3>2
    <2> QED  BY <2>1, <2>2, <2>3, <2>4
  <1>3. /\ execRing' \in Rings(ExecutionEvent, ExecReaders)
        /\ execRing'.log = execRing.log
    <2>0. BUSINESS \in ExecReaders
      BY DEF ExecReaders
    <2>1. CASE execRing' = execRing
      BY <1>1, <2>1
    <2>2. CASE execRing' = AddGate(execRing, BUSINESS)
      <3>1. /\ AddGate(execRing, BUSINESS) \in Rings(ExecutionEvent, ExecReaders)
            /\ AddGate(execRing, BUSINESS).log = execRing.log
        BY <1>1, <2>0, AddGateFacts
      <3> QED  BY <3>1, <2>2
    <2>3. CASE execRing' = RemoveGate(execRing, BUSINESS)
      BY <1>1, <2>3, RemoveGateFacts
    <2>4. CASE \E n \in Nat : execRing' = ConsumeTo(execRing, BUSINESS, n)
      <3>1. PICK n \in Nat : execRing' = ConsumeTo(execRing, BUSINESS, n)
        BY <2>4
      <3>2. /\ ConsumeTo(execRing, BUSINESS, n)
                  \in Rings(ExecutionEvent, ExecReaders)
            /\ ConsumeTo(execRing, BUSINESS, n).log = execRing.log
        BY <1>1, <2>0, ConsumeToFacts
      <3> QED  BY <3>1, <3>2
    <2> QED  BY <2>1, <2>2, <2>3, <2>4
  <1> QED  BY <1>1, <1>2, <1>3 DEF TypeOKRings, orders, executions

\* The prices move between quotes and the reset value.
LEMMA PriceTypes ==
    ASSUME TypeInv
    PROVE  /\ PriceAfterPair(priceA) \in
                [broker : {"LMAX", "NONE"}, quote : Quotes \cup {NoQuote}]
           /\ PriceAfterPair(priceB) \in
                [broker : {"IB", "NONE"}, quote : Quotes \cup {NoQuote}]
  BY DEF TypeInv, TypeOK, TypeOKBusiness, PriceAfterPair

\* Every step of the business office preserves the type invariant.
LEMMA TypeBusiness ==
    ASSUME TypeInv, BusinessStep, UNCHANGED tradeVars
    PROVE  TypeInv'
  <1> USE DEF businessVars, ringVars, tradeVars
  <1>0. TypeOKTrade'
    BY DEF TypeInv, TypeOK, TypeOKTrade
  <1>a. ASSUME orders' = orders, executions' = executions,
               TypeOKRings', TypeOKBusiness',
               handled' <= available', available' <= Len(executions)
        PROVE  TypeInv'
    BY <1>0, <1>a DEF TypeInv, TypeOK, Bounded, InboxBounded
  <1>1. CASE BusinessInitiate
    <2>1. TypeOKRings' /\ orders' = orders /\ executions' = executions
      BY <1>1, SameLogs DEF BusinessInitiate
    <2>2. Len(executions) \in Nat
      BY LogTypes
    <2>3. TypeOKBusiness'
      BY <1>1, <2>2 DEF BusinessInitiate, TypeInv, TypeOK, TypeOKBusiness
    <2>4. handled' <= available' /\ available' <= Len(executions)
      BY <1>1, <2>2 DEF BusinessInitiate
    <2> QED  BY <1>a, <2>1, <2>3, <2>4
  <1>2. ASSUME NEW b \in Brokers, NEW q \in Quotes, PollPrices(b, q)
        PROVE  TypeInv'
    <2>1. TypeOKRings' /\ orders' = orders /\ executions' = executions
      BY <1>2, SameLogs DEF PollPrices
    <2>2. TypeOKBusiness'
      BY <1>2 DEF PollPrices, TypeInv, TypeOK, TypeOKBusiness, IsPriceA, Brokers
    <2>3. handled' <= available' /\ available' <= Len(executions)
      BY <1>2 DEF PollPrices, TypeInv, Bounded
    <2> QED  BY <1>a, <2>1, <2>2, <2>3
  <1>3. CASE PollExecutions
    <2>1. TypeOKRings' /\ orders' = orders /\ executions' = executions
      BY <1>3, SameLogs DEF PollExecutions
    <2>2. Len(executions) \in Nat
      BY LogTypes
    <2>3. TypeOKBusiness'
      BY <1>3, <2>2 DEF PollExecutions, TypeInv, TypeOK, TypeOKBusiness
    <2>4. handled' <= available' /\ available' <= Len(executions)
      BY <1>3, <2>2 DEF PollExecutions, TypeInv, TypeOK, TypeOKBusiness
    <2> QED  BY <1>a, <2>1, <2>3, <2>4
  <1>4. CASE HandleExecution
    <2>1. /\ handled + 1 \in DOMAIN executions
          /\ handled \in Nat /\ available \in Nat /\ ordersCount \in Int
      BY <1>4, LogTypes
         DEF HandleExecution, TypeInv, TypeOK, TypeOKBusiness, Bounded
    <2>2. executions[handled + 1] \in ExecutionEvent
      BY <2>1, LogTypes
    <2>3. TypeOKBusiness'
      <3>1. CountAfter(executions[handled + 1]) \in Int
        BY <2>1, <2>2 DEF CountAfter, ExecutionEvent
      <3> QED  BY <1>4, <2>1, <3>1
               DEF HandleExecution, TypeInv, TypeOK, TypeOKBusiness
    <2>4. handled' <= available' /\ available' <= Len(executions)
      BY <1>4, <2>1 DEF HandleExecution, TypeInv, Bounded
    <2>5. CASE NeedsCorrection(executions[handled + 1])
      <3> DEFINE c == Correction(executions[handled + 1], handled + 1)
      <3>1. c \in OrderEvent
        BY <2>1, <2>2 DEF Correction, OrderEvent, ExecutionEvent, CORRECTION_ID,
               CorrectionBroker, CorrectionSide, Brokers, Sides
      <3>2. orderRing' = Publish(orderRing, c) /\ UNCHANGED <<execRing, isRunning>>
        BY <1>4, <2>5 DEF HandleExecution
      <3>3. /\ TypeOKRings'
            /\ DOMAIN orders \subseteq DOMAIN orders'
        BY <3>1, <3>2, PublishOrderType
      <3>4. executions' = executions
        BY <3>2 DEF executions
      <3> QED  BY <1>0, <2>3, <2>4, <3>3, <3>4
               DEF TypeInv, TypeOK, Bounded, InboxBounded
    <2>6. CASE ~NeedsCorrection(executions[handled + 1])
      <3>1. TypeOKRings' /\ orders' = orders /\ executions' = executions
        BY <1>4, <2>6, SameLogs DEF HandleExecution
      <3> QED  BY <1>a, <2>3, <2>4, <3>1
    <2> QED  BY <2>5, <2>6
  <1>5. ASSUME EndOfPoll, currentDiff' \in Differences,
               currentOrder' \in Differences,
               orderType' \in {"OPEN", "CLOSE", "NONE"},
               isOrderDelayed' \in BOOLEAN, pairs' \in Nat,
               businessPc' \in {"poll", "first"}
        PROVE  TypeInv'
    <2>1. available \in Nat
      BY DEF TypeInv, TypeOK, TypeOKBusiness
    <2>2. TypeOKRings' /\ orders' = orders /\ executions' = executions
      BY <1>5, <2>1, SameLogs DEF EndOfPoll
    <2>3. TypeOKBusiness'
      BY <1>5 DEF EndOfPoll, TypeInv, TypeOK, TypeOKBusiness
    <2>4. handled' <= available' /\ available' <= Len(executions)
      BY <1>5 DEF EndOfPoll, TypeInv, Bounded
    <2> QED  BY <1>a, <2>2, <2>3, <2>4
  <1>6. DiffNow \in Differences
    BY DEF TypeInv, TypeOK, TypeOKBusiness, DiffNow, Differences
  <1>7. CASE StillDelayed
    BY <1>5, <1>7 DEF StillDelayed, TypeInv, TypeOK, TypeOKBusiness
  <1>8. CASE NoTrade
    BY <1>5, <1>6, <1>8 DEF NoTrade, TypeInv, TypeOK, TypeOKBusiness
  <1>9. ASSUME NEW d \in {"A", "B"}, Trigger(d)
        PROVE  TypeInv'
    <2>1. currentDiff' \in Differences /\ currentOrder' \in Differences
      BY <1>6, <1>9 DEF Trigger, Differences
    <2>2. /\ orderType' \in {"OPEN", "CLOSE", "NONE"}
          /\ isOrderDelayed' \in BOOLEAN
          /\ businessPc' \in {"poll", "first"}
      BY <1>9 DEF Trigger
    <2>3. pairs' \in Nat
      BY <1>9 DEF Trigger, TypeInv, TypeOK, TypeOKBusiness
    <2>4. EndOfPoll
      BY <1>9 DEF Trigger
    <2> QED  BY <1>5, <2>1, <2>2, <2>3, <2>4
  <1>10. ASSUME NEW side \in Sides, NEW broker \in Brokers \cup {"NONE"},
                orderRing' = Publish(orderRing, Leg(broker, side)),
                UNCHANGED <<execRing, isRunning, handled, available>>,
                TypeOKBusiness'
         PROVE  TypeInv'
    <2>1. Leg(broker, side) \in OrderEvent
      BY <1>10 DEF Leg, OrderEvent, TypeInv, TypeOK, TypeOKBusiness
    <2>2. TypeOKRings' /\ DOMAIN orders \subseteq DOMAIN orders'
      BY <1>10, <2>1, PublishOrderType
    <2>3. executions' = executions
      BY <1>10 DEF executions
    <2> QED  BY <1>0, <1>10, <2>2, <2>3
             DEF TypeInv, TypeOK, Bounded, InboxBounded
  <1>11. /\ FirstSide \in Sides /\ SecondSide \in Sides
         /\ priceA.broker \in Brokers \cup {"NONE"}
         /\ priceB.broker \in Brokers \cup {"NONE"}
    BY DEF FirstSide, SecondSide, Sides, Brokers, TypeInv, TypeOK, TypeOKBusiness
  <1>12. CASE FirstLeg
    <2>1. TypeOKBusiness'
      BY <1>12 DEF FirstLeg, TypeInv, TypeOK, TypeOKBusiness
    <2> QED  BY <1>10, <1>11, <1>12, <2>1 DEF FirstLeg
  <1>13. CASE SecondLeg
    <2>1. TypeOKBusiness'
      BY <1>13, PriceTypes
         DEF SecondLeg, TypeInv, TypeOK, TypeOKBusiness, Differences
    <2> QED  BY <1>10, <1>11, <1>13, <2>1 DEF SecondLeg
  <1>14. CASE BusinessTerminate
    <2>1. TypeOKRings' /\ orders' = orders /\ executions' = executions
      BY <1>14, SameLogs DEF BusinessTerminate
    <2>2. TypeOKBusiness'
      BY <1>14 DEF BusinessTerminate, TypeInv, TypeOK, TypeOKBusiness
    <2>3. handled' <= available' /\ available' <= Len(executions)
      BY <1>14 DEF BusinessTerminate, TypeInv, Bounded
    <2> QED  BY <1>a, <2>1, <2>2, <2>3
  <1> QED
    BY <1>1, <1>2, <1>3, <1>4, <1>7, <1>8, <1>9, <1>12, <1>13, <1>14
       DEF BusinessStep

\* Every step of a trade office, a failing session included, preserves it.
LEMMA TypeTrade ==
    ASSUME TypeInv, NEW b \in Brokers, TradeStep(b) \/ SessionFails(b),
           UNCHANGED businessVars
    PROVE  TypeInv'
  <1> USE DEF businessVars, ringVars, tradeVars
  <1>0. TypeOKBusiness'
    BY DEF TypeInv, TypeOK, TypeOKBusiness
  <1>a. ASSUME orders' = orders, executions' = executions,
               TypeOKRings', TypeOKTrade', received' \subseteq DOMAIN orders,
               inbox' = inbox
        PROVE  TypeInv'
    BY <1>0, <1>a DEF TypeInv, TypeOK, Bounded, InboxBounded
  <1>1. CASE TradeInitiate(b)
    <2>1. TypeOKRings' /\ orders' = orders /\ executions' = executions
      BY <1>1, SameLogs DEF TradeInitiate
    <2>2. TypeOKTrade'
      BY <1>1 DEF TradeInitiate, TypeInv, TypeOK, TypeOKTrade
    <2> QED  BY <1>1, <1>a, <2>1, <2>2 DEF TradeInitiate, TypeInv, Bounded
  <1>2. CASE WaitForRoom(b)
    <2>1. TypeOKRings' /\ orders' = orders /\ executions' = executions
      BY <1>2, SameLogs DEF WaitForRoom
    <2>2. TypeOKTrade'
      BY <1>2 DEF WaitForRoom, TypeInv, TypeOK, TypeOKTrade
    <2> QED  BY <1>2, <1>a, <2>1, <2>2 DEF WaitForRoom, TypeInv, Bounded
  <1>3. CASE PublishReport(b)
    <2> DEFINE r == Head(inbox[b])
    <2>1. /\ inbox[b] \in Seq(Report) /\ inbox[b] # << >>
          /\ r = inbox[b][1] /\ 1 \in 1 .. Len(inbox[b])
          /\ r \in Report
      BY <1>3, LogTypes DEF PublishReport
    <2>2. r.order \in DOMAIN orders
      BY <2>1 DEF TypeInv, Bounded, InboxBounded
    <2>3. ExecutionOf(b, r) \in ExecutionEvent
      <3>1. orders[r.order] \in OrderEvent
        BY <2>2, LogTypes
      <3>2. r.order \in Nat /\ r.isFilled \in BOOLEAN
        BY <2>1 DEF Report
      <3> QED  BY <3>1, <3>2 DEF ExecutionOf, ExecutionEvent, OrderEvent
    <2>4. /\ execRing' = Publish(execRing, ExecutionOf(b, r))
          /\ UNCHANGED <<orderRing, isRunning, received, filled, rejected>>
      BY <1>3 DEF PublishReport
    <2>5. /\ TypeOKRings'
          /\ Len(executions') = Len(executions) + 1
      BY <2>3, <2>4, PublishExecutionType
    <2>6. orders' = orders
      BY <2>4 DEF orders
    <2>7. /\ Tail(inbox[b]) \in Seq(Report)
          /\ Len(Tail(inbox[b])) = Len(inbox[b]) - 1
          /\ Len(inbox[b]) \in Nat
          /\ \A k \in 1 .. Len(Tail(inbox[b])) :
                Tail(inbox[b])[k] = inbox[b][k + 1]
      BY <2>1
    <2>8. /\ inbox' = [inbox EXCEPT ![b] = Tail(inbox[b])]
          /\ inbox \in [Brokers -> Seq(Report)]
      BY <1>3 DEF PublishReport, TypeInv, TypeOK, TypeOKTrade
    <2>9. TypeOKTrade'
      BY <1>3, <2>7, <2>8 DEF PublishReport, TypeInv, TypeOK, TypeOKTrade
    <2>10. InboxBounded'
      <3> SUFFICES ASSUME NEW a \in Brokers, NEW k \in 1 .. Len(inbox'[a])
                   PROVE  inbox'[a][k].order \in DOMAIN orders
        BY <2>6 DEF InboxBounded
      <3>1. CASE a = b
        BY <2>7, <2>8, <3>1 DEF TypeInv, Bounded, InboxBounded
      <3>2. CASE a # b
        BY <2>8, <3>2 DEF TypeInv, Bounded, InboxBounded
      <3> QED  BY <3>1, <3>2
    <2>11. Len(executions) \in Nat /\ available \in Nat
      BY LogTypes DEF TypeInv, TypeOK, TypeOKBusiness
    <2> QED  BY <1>0, <2>4, <2>5, <2>6, <2>9, <2>10, <2>11
             DEF TypeInv, TypeOK, Bounded
  <1>4. CASE SessionFails(b)
    <2>1. TypeOKRings' /\ orders' = orders /\ executions' = executions
      BY <1>4, SameLogs DEF SessionFails, Detached
    <2>2. TypeOKTrade'
      BY <1>4 DEF SessionFails, TypeInv, TypeOK, TypeOKTrade
    <2> QED  BY <1>4, <1>a, <2>1, <2>2 DEF SessionFails, TypeInv, Bounded
  <1>5. CASE PollOrders(b)
    <2>1. PICK last \in orderRing.seq[b] .. Len(orders) :
             /\ orderRing' = ConsumeTo(orderRing, b, last)
             /\ \E sent \in IF SendMayFail THEN SUBSET Own(b, last)
                                           ELSE {Own(b, last)} :
                   received' = received \cup sent
      BY <1>5 DEF PollOrders
    <2>2. orderRing.seq[b] \in Nat /\ Len(orders) \in Nat
      BY LogTypes DEF TypeInv, TypeOK, TypeOKRings, Rings
    <2>3. last \in Nat
      BY <2>2
    <2>4. TypeOKRings' /\ orders' = orders /\ executions' = executions
      BY <1>5, <2>1, <2>3, SameLogs DEF PollOrders
    <2>5. Own(b, last) \subseteq DOMAIN orders
      BY <2>2, LogTypes DEF Own
    <2>6. received' \subseteq DOMAIN orders
      <3>1. received' \subseteq received \cup Own(b, last)
        BY <2>1
      <3> QED  BY <2>5, <3>1 DEF TypeInv, Bounded
    <2>7. TypeOKTrade'
      BY <1>5, <2>6, LogTypes DEF PollOrders, TypeInv, TypeOK, TypeOKTrade
    <2> QED  BY <1>5, <1>a, <2>4, <2>6, <2>7 DEF PollOrders
  <1>6. CASE TradeTerminate(b)
    <2>1. TypeOKRings' /\ orders' = orders /\ executions' = executions
      BY <1>6, SameLogs DEF TradeTerminate, Detached
    <2>2. TypeOKTrade'
      BY <1>6 DEF TradeTerminate, TypeInv, TypeOK, TypeOKTrade
    <2> QED  BY <1>6, <1>a, <2>1, <2>2 DEF TradeTerminate, TypeInv, Bounded
  <1> QED  BY <1>1, <1>2, <1>3, <1>4, <1>5, <1>6 DEF TradeStep

\* Every answer of a broker preserves it.
LEMMA TypeBroker ==
    ASSUME TypeInv, BrokerStep, UNCHANGED businessVars
    PROVE  TypeInv'
  <1> USE DEF businessVars, ringVars
  <1>1. PICK i \in received, isFilled \in BOOLEAN : BrokerAnswers(i, isFilled)
    BY DEF BrokerStep
  <1> DEFINE a == orders[i].broker
             r == [order |-> i, isFilled |-> isFilled]
  <1>2. i \in Nat /\ i \in DOMAIN orders /\ r \in Report
    BY DEF TypeInv, TypeOK, TypeOKTrade, Bounded, Report
  <1>3. /\ inbox \in [Brokers -> Seq(Report)]
        /\ inbox' = [inbox EXCEPT ![a] = Append(inbox[a], r)]
        /\ orders' = orders /\ executions' = executions
        /\ UNCHANGED <<tradePc, received>>
    BY <1>1 DEF BrokerAnswers, TypeInv, TypeOK, TypeOKTrade, orders, executions
  <1>4. TypeOKRings' /\ TypeOKBusiness'
    BY <1>1 DEF BrokerAnswers, TypeInv, TypeOK, TypeOKRings, TypeOKBusiness
  <1>5. inbox' \in [Brokers -> Seq(Report)]
    <2>1. a \in Brokers => Append(inbox[a], r) \in Seq(Report)
      BY <1>2, <1>3
    <2> QED  BY <1>3, <2>1
  <1>6. TypeOKTrade'
    BY <1>1, <1>2, <1>5 DEF BrokerAnswers, TypeInv, TypeOK, TypeOKTrade
  <1>7. InboxBounded'
    <2> SUFFICES ASSUME NEW b \in Brokers, NEW k \in 1 .. Len(inbox'[b])
                 PROVE  inbox'[b][k].order \in DOMAIN orders
      BY <1>3 DEF InboxBounded
    <2>1. CASE b = a
      <3>1. inbox[b] \in Seq(Report) /\ inbox'[b] = Append(inbox[b], r)
        BY <1>3, <2>1
      <3>2. CASE k = Len(inbox[b]) + 1
        BY <1>2, <3>1, <3>2, AppendFacts
      <3>3. CASE k # Len(inbox[b]) + 1
        <4>1. k \in 1 .. Len(inbox[b]) /\ inbox'[b][k] = inbox[b][k]
          BY <1>2, <3>1, <3>3, AppendFacts
        <4> QED  BY <4>1 DEF TypeInv, Bounded, InboxBounded
      <3> QED  BY <3>2, <3>3
    <2>2. CASE b # a
      BY <1>3, <2>2 DEF TypeInv, Bounded, InboxBounded
    <2> QED  BY <2>1, <2>2
  <1> QED  BY <1>3, <1>4, <1>6, <1>7 DEF TypeInv, TypeOK, Bounded

\* The type invariant is inductive.
LEMMA TypeNext == ASSUME TypeInv, [Next]_vars PROVE TypeInv'
  <1>1. CASE BusinessStep /\ UNCHANGED tradeVars
    BY <1>1, TypeBusiness
  <1>2. ASSUME NEW b \in Brokers, TradeStep(b) \/ SessionFails(b),
               UNCHANGED businessVars
        PROVE  TypeInv'
    BY <1>2, TypeTrade
  <1>3. CASE BrokerStep /\ UNCHANGED businessVars
    BY <1>3, TypeBroker
  <1>4. CASE UNCHANGED vars
    BY <1>4 DEF vars, ringVars, businessVars, tradeVars, TypeInv, TypeOK,
       TypeOKRings, TypeOKBusiness, TypeOKTrade, Bounded, InboxBounded,
       orders, executions
  <1> QED  BY <1>1, <1>2, <1>3, <1>4 DEF Next, Joined

\* Every variable keeps its type, and every position its log.
THEOREM TypeCorrect == Spec => []TypeOK
  <1>1. Init => TypeInv
    BY TypeInit
  <1>2. TypeInv /\ [Next]_vars => TypeInv'
    BY TypeNext
  <1>3. TypeInv => TypeOK
    BY DEF TypeInv
  <1> QED  BY <1>1, <1>2, <1>3, PTL DEF Spec

-----------------------------------------------------------------------------
(* Fresh quotes.  A broker that was not quoted since the last pair has the *)
(* reset price, and a reset price on either side makes both spreads too    *)
(* small to trade (BusinessAssumption).                                    *)

FreshInv ==
    /\ IF "LMAX" \in fresh THEN priceA.broker = "LMAX" ELSE priceA.quote = NoQuote
    /\ IF "IB" \in fresh THEN priceB.broker = "IB" ELSE priceB.quote = NoQuote
    /\ currentOrder # "NONE" => Brokers \subseteq fresh

\* Whatever direction is wanted, both brokers have been quoted.
LEMMA WantedIsFresh ==
    ASSUME TypeInv, FreshInv, NEW d \in {"A", "B"}, Wanted(d)
    PROVE  Brokers \subseteq fresh
  <1>1. Spread(d) >= DiffOpen \/ Spread(d) >= DiffClose
    BY DEF Wanted, Opens, OpensFirst, OpensMore, Closes
  <1>2. /\ priceA.quote \in Quotes \cup {NoQuote}
        /\ priceB.quote \in Quotes \cup {NoQuote}
    BY DEF TypeInv, TypeOK, TypeOKBusiness
  <1>3. \A q \in Quotes \cup {NoQuote} : q.bid \in Int /\ q.ask \in Int
    BY BusinessAssumption DEF Quote, NoQuote
  <1>4. priceA.quote # NoQuote /\ priceB.quote # NoQuote
    BY <1>1, <1>2, <1>3, BusinessAssumption DEF Spread
  <1> QED  BY <1>4 DEF FreshInv, Brokers

\* The freshness invariant is inductive.
LEMMA FreshNext ==
    ASSUME TypeInv, FreshInv, [Next]_vars
    PROVE  FreshInv'
  <1>1. CASE UNCHANGED <<priceA, priceB, fresh, currentOrder>>
    BY <1>1 DEF FreshInv
  <1>2. ASSUME NEW b \in Brokers, NEW q \in Quotes, PollPrices(b, q)
        PROVE  FreshInv'
    BY <1>2 DEF PollPrices, IsPriceA, FreshInv, Brokers
  <1>3. ASSUME NEW d \in {"A", "B"}, Trigger(d)
        PROVE  FreshInv'
    <2>1. Brokers \subseteq fresh
      BY <1>3, WantedIsFresh DEF Trigger
    <2> QED  BY <1>3, <2>1 DEF Trigger, EndOfPoll, FreshInv
  <1>4. CASE SecondLeg
    <2>1. priceA'.quote = NoQuote /\ priceB'.quote = NoQuote
      BY <1>4 DEF SecondLeg, PriceAfterPair, TypeInv, TypeOK, TypeOKBusiness
    <2> QED  BY <1>4, <2>1 DEF SecondLeg, FreshInv
  <1>5. CASE BusinessStep
    BY <1>1, <1>2, <1>3, <1>4, <1>5
       DEF BusinessStep, BusinessInitiate, PollExecutions, HandleExecution,
           StillDelayed, NoTrade, EndOfPoll, FirstLeg, BusinessTerminate
  <1> QED  BY <1>1, <1>5 DEF Next, Joined, vars, businessVars

\* No pair ever trades on a quote that an earlier pair has used, nor before
\* both brokers were quoted.
THEOREM FreshQuotesHold == Spec => []FreshQuotes
  <1>1. Init => TypeInv /\ FreshInv
    <2>1. Init => FreshInv
      BY DEF Init, InitBusiness, FreshInv
    <2> QED  BY <2>1, TypeInit
  <1>2. (TypeInv /\ FreshInv) /\ [Next]_vars => (TypeInv /\ FreshInv)'
    BY TypeNext, FreshNext
  <1>3. TypeInv /\ FreshInv => FreshQuotes
    BY DEF FreshInv, FreshQuotes, Brokers
  <1> QED  BY <1>1, <1>2, <1>3, PTL DEF Spec

-----------------------------------------------------------------------------
(* Corrections.  Each report in an inbox and each execution speaks of one  *)
(* order, no order is reported twice, and a correction points at the       *)
(* execution it answers.                                                   *)

InboxLinked ==
    \A b \in Brokers : \A k \in 1 .. Len(inbox[b]) :
       /\ orders[inbox[b][k].order].broker = b
       /\ inbox[b][k].order \in filled \cup rejected
       /\ ~inbox[b][k].isFilled => inbox[b][k].order \in rejected

ExecutionsLinked ==
    \A n \in DOMAIN executions :
       LET e == executions[n]
       IN  /\ e.reports \in DOMAIN orders
           /\ e.reports \in filled \cup rejected
           /\ ~e.isFilled => e.reports \in rejected
           /\ e.broker = orders[e.reports].broker
           /\ e.side = orders[e.reports].side
           /\ e.id = orders[e.reports].id

ReportedOnce ==
    /\ \A m, n \in DOMAIN executions :
          executions[m].reports = executions[n].reports => m = n
    /\ \A b \in Brokers : \A k, l \in 1 .. Len(inbox[b]) :
          inbox[b][k].order = inbox[b][l].order => k = l
    /\ \A b \in Brokers : \A k \in 1 .. Len(inbox[b]), n \in DOMAIN executions :
          inbox[b][k].order # executions[n].reports

OrdersLinked ==
    /\ \A i \in DOMAIN orders :
          /\ orders[i].id = CORRECTION_ID <=> orders[i].corrects # 0
          /\ orders[i].corrects # 0 =>
                LET e == executions[orders[i].corrects]
                IN  /\ orders[i].corrects \in 1 .. handled
                    /\ RejectsLeg(e)
                    /\ e.reports < i
                    /\ orders[i].side = e.side
                    /\ orders[i].broker = CorrectionBroker(e)
    /\ \A i, j \in DOMAIN orders :
          orders[i].corrects # 0 /\ orders[i].corrects = orders[j].corrects
             => i = j

Answers ==
    /\ filled \cup rejected \subseteq received
    /\ \A i \in received : orders[i].broker \in Brokers

LinkInv ==
    /\ Answers
    /\ InboxLinked
    /\ ExecutionsLinked
    /\ ReportedOnce
    /\ OrdersLinked
    /\ businessPc \in {"first", "second"} => pairs # 0

\* Initially there is no order to speak of.
LEMMA LinkInit == ASSUME Init PROVE LinkInv
  BY DEF Init, InitRings, InitBusiness, InitTrade, NewRing, orders, executions,
         LinkInv, Answers, InboxLinked, ExecutionsLinked, ReportedOnce,
         OrdersLinked

\* The links give the property.
LEMMA LinkSound == ASSUME TypeInv, LinkInv PROVE CorrectionSound
  <1>1. ASSUME NEW i \in Corrections
        PROVE  /\ orders[i].corrects \in 1 .. handled
               /\ orders[i].corrects \in DOMAIN executions
               /\ RejectsLeg(executions[orders[i].corrects])
               /\ executions[orders[i].corrects].reports < i
               /\ orders[i].side = executions[orders[i].corrects].side
               /\ orders[i].broker = CorrectionBroker(executions[orders[i].corrects])
    <2>1. i \in DOMAIN orders /\ orders[i].corrects # 0
      BY DEF Corrections
    <2>2. /\ handled \in Nat /\ available \in Nat
          /\ handled <= available /\ available <= Len(executions)
          /\ Len(executions) \in Nat /\ DOMAIN executions = 1 .. Len(executions)
      BY LogTypes DEF TypeInv, TypeOK, TypeOKBusiness, Bounded
    <2> QED  BY <2>1, <2>2 DEF LinkInv, OrdersLinked
  <1>2. ASSUME NEW i \in Corrections
        PROVE  LET e == executions[orders[i].corrects]
               IN  /\ e.reports \in Legs \cap rejected
                   /\ e.reports < i
                   /\ orders[i].side = orders[e.reports].side
                   /\ {orders[i].broker, orders[e.reports].broker} = Brokers
    <2> DEFINE e == executions[orders[i].corrects]
    <2>1. /\ e.reports \in DOMAIN orders /\ e.reports \in rejected
          /\ e.broker = orders[e.reports].broker
          /\ e.side = orders[e.reports].side
          /\ e.id = orders[e.reports].id
      BY <1>1 DEF LinkInv, ExecutionsLinked, RejectsLeg
    <2>2. e.reports \in Legs
      BY <1>1, <2>1 DEF LinkInv, OrdersLinked, RejectsLeg, Legs, Corrections
    <2>3. orders[e.reports].broker \in Brokers
      BY <2>1 DEF LinkInv, Answers
    <2>4. {orders[i].broker, orders[e.reports].broker} = Brokers
      BY <1>1, <2>1, <2>3 DEF CorrectionBroker, Brokers
    <2> QED  BY <1>1, <2>1, <2>2, <2>4
  <1>3. ASSUME NEW i \in Corrections, NEW j \in Corrections,
               executions[orders[i].corrects].reports
                 = executions[orders[j].corrects].reports
        PROVE  i = j
    <2>1. orders[i].corrects = orders[j].corrects
      BY <1>1, <1>3 DEF LinkInv, ReportedOnce
    <2> QED  BY <2>1 DEF LinkInv, OrdersLinked, Corrections
  <1> QED  BY <1>1, <1>2, <1>3 DEF CorrectionSound, Handled

\* Steps that publish, report and answer nothing keep every link.
LEMMA LinkFrame ==
    ASSUME TypeInv, LinkInv, TypeInv',
           orders' = orders, executions' = executions,
           UNCHANGED <<filled, rejected, inbox>>,
           received \subseteq received',
           \A i \in received' : orders[i].broker \in Brokers,
           handled <= handled',
           businessPc' \in {"first", "second"} => pairs' # 0
    PROVE  LinkInv'
  <1>1. Answers' /\ InboxLinked' /\ ExecutionsLinked' /\ ReportedOnce'
    BY DEF LinkInv, Answers, InboxLinked, ExecutionsLinked, ReportedOnce
  <1>2. \A n \in 1 .. handled : n \in 1 .. handled'
    BY DEF TypeInv, TypeOK, TypeOKBusiness
  <1>3. OrdersLinked'
    BY <1>2 DEF LinkInv, OrdersLinked
  <1> QED  BY <1>1, <1>3 DEF LinkInv

\* A new order keeps the links when it is a leg, or the correction of the
\* execution being handled.
LEMMA LinkPublishOrder ==
    ASSUME TypeInv, LinkInv, TypeInv',
           NEW e \in OrderEvent, orderRing' = Publish(orderRing, e),
           UNCHANGED <<execRing, isRunning, tradeVars>>,
           \/ e.id # CORRECTION_ID /\ e.corrects = 0 /\ handled' = handled
           \/ /\ handled' = handled + 1 /\ handled < available
              /\ e.id = CORRECTION_ID /\ e.corrects = handled + 1
              /\ RejectsLeg(executions[handled + 1])
              /\ e.side = executions[handled + 1].side
              /\ e.broker = CorrectionBroker(executions[handled + 1]),
           businessPc' \in {"first", "second"} => pairs' # 0
    PROVE  LinkInv'
  <1> USE DEF tradeVars
  <1>1. /\ Len(orders) \in Nat
        /\ DOMAIN orders = 1 .. Len(orders)
        /\ DOMAIN orders' = 1 .. (Len(orders) + 1)
        /\ \A i \in DOMAIN orders : orders'[i] = orders[i]
        /\ orders'[Len(orders) + 1] = e
        /\ DOMAIN orders \subseteq DOMAIN orders'
    BY PublishOrderType, LogTypes
  <1>2. executions' = executions
    BY DEF executions
  <1>3. received \subseteq DOMAIN orders
    BY DEF TypeInv, Bounded
  <1>4. Answers'
    BY <1>1, <1>3 DEF LinkInv, Answers
  <1>5. InboxLinked'
    <2> SUFFICES ASSUME NEW b \in Brokers, NEW k \in 1 .. Len(inbox[b])
                 PROVE  /\ orders'[inbox[b][k].order].broker = b
                        /\ inbox[b][k].order \in filled \cup rejected
                        /\ ~inbox[b][k].isFilled => inbox[b][k].order \in rejected
      BY DEF InboxLinked
    <2>1. inbox[b][k].order \in DOMAIN orders
      BY DEF TypeInv, Bounded, InboxBounded
    <2> QED  BY <1>1, <2>1 DEF LinkInv, InboxLinked
  <1>6. ExecutionsLinked' /\ ReportedOnce'
    BY <1>1, <1>2 DEF LinkInv, ExecutionsLinked, ReportedOnce
  <1>7. /\ handled \in Nat /\ available \in Nat
        /\ handled <= available /\ available <= Len(executions)
        /\ Len(executions) \in Nat /\ DOMAIN executions = 1 .. Len(executions)
        /\ 1 .. handled \subseteq 1 .. handled'
    BY LogTypes DEF TypeInv, TypeOK, TypeOKBusiness, Bounded
  <1>8. OrdersLinked'
    <2>1. ASSUME NEW i \in DOMAIN orders'
          PROVE  /\ orders'[i].id = CORRECTION_ID <=> orders'[i].corrects # 0
                 /\ orders'[i].corrects # 0 =>
                       LET x == executions[orders'[i].corrects]
                       IN  /\ orders'[i].corrects \in 1 .. handled'
                           /\ RejectsLeg(x)
                           /\ x.reports < i
                           /\ orders'[i].side = x.side
                           /\ orders'[i].broker = CorrectionBroker(x)
      <3>1. CASE i \in DOMAIN orders
        BY <1>1, <1>7, <3>1 DEF LinkInv, OrdersLinked
      <3>2. CASE i = Len(orders) + 1 /\ e.corrects = 0
        BY <1>1, <1>7, <3>2
      <3>3. CASE i = Len(orders) + 1 /\ e.corrects # 0
        <4>1. /\ handled' = handled + 1 /\ handled < available
              /\ e.id = CORRECTION_ID /\ e.corrects = handled + 1
              /\ RejectsLeg(executions[handled + 1])
              /\ e.side = executions[handled + 1].side
              /\ e.broker = CorrectionBroker(executions[handled + 1])
          BY <3>3
        <4>2. handled + 1 \in DOMAIN executions
          BY <1>7, <4>1
        <4>3. executions[handled + 1].reports < i
          BY <1>1, <3>3, <4>2 DEF LinkInv, ExecutionsLinked
        <4> QED  BY <1>1, <1>7, <3>3, <4>1, <4>3
      <3> QED  BY <1>1, <3>1, <3>2, <3>3
    <2>2. ASSUME NEW i \in DOMAIN orders', NEW j \in DOMAIN orders',
                 orders'[i].corrects # 0, orders'[i].corrects = orders'[j].corrects
          PROVE  i = j
      <3>1. ASSUME NEW k \in DOMAIN orders
            PROVE  orders[k].corrects # 0 => orders[k].corrects # e.corrects
        BY <1>7 DEF LinkInv, OrdersLinked
      <3>2. CASE i \in DOMAIN orders /\ j \in DOMAIN orders
        BY <1>1, <2>2, <3>2 DEF LinkInv, OrdersLinked
      <3> QED  BY <1>1, <2>2, <3>1, <3>2
    <2> QED  BY <1>2, <2>1, <2>2 DEF OrdersLinked
  <1> QED  BY <1>4, <1>5, <1>6, <1>8 DEF LinkInv

\* The business office keeps the links.
LEMMA LinkBusiness ==
    ASSUME TypeInv, LinkInv, TypeInv', BusinessStep, UNCHANGED tradeVars
    PROVE  LinkInv'
  <1> USE DEF tradeVars, ringVars
  <1>0. \A i \in received : orders[i].broker \in Brokers
    BY DEF LinkInv, Answers
  <1>a. /\ handled \in Nat /\ available \in Nat /\ pairs \in Nat
        /\ handled <= available /\ available <= Len(executions)
        /\ Len(executions) \in Nat /\ DOMAIN executions = 1 .. Len(executions)
    BY LogTypes DEF TypeInv, TypeOK, TypeOKBusiness, Bounded
  <1>1. CASE BusinessInitiate
    <2>1. orders' = orders /\ executions' = executions
      BY <1>1, SameLogs DEF BusinessInitiate
    <2> QED  BY <1>0, <1>a, <1>1, <2>1, LinkFrame DEF BusinessInitiate
  <1>2. ASSUME NEW b \in Brokers, NEW q \in Quotes, PollPrices(b, q)
        PROVE  LinkInv'
    BY <1>0, <1>a, <1>2, LinkFrame DEF PollPrices, orders, executions
  <1>3. CASE PollExecutions
    BY <1>0, <1>a, <1>3, LinkFrame DEF PollExecutions, orders, executions
  <1>4. CASE HandleExecution
    <2>1. /\ handled' = handled + 1 /\ handled < available
          /\ businessPc' = "executions"
          /\ handled + 1 \in DOMAIN executions
      BY <1>a, <1>4 DEF HandleExecution
    <2>2. executions[handled + 1] \in ExecutionEvent
      BY <2>1, LogTypes
    <2>3. CASE NeedsCorrection(executions[handled + 1])
      <3> DEFINE c == Correction(executions[handled + 1], handled + 1)
      <3>1. c \in OrderEvent
        BY <1>a, <2>2 DEF Correction, OrderEvent, ExecutionEvent, CORRECTION_ID,
               CorrectionBroker, CorrectionSide, Brokers, Sides
      <3>2. /\ orderRing' = Publish(orderRing, c)
            /\ UNCHANGED <<execRing, isRunning>>
        BY <1>4, <2>3 DEF HandleExecution
      <3>3. /\ c.id = CORRECTION_ID /\ c.corrects = handled + 1
            /\ c.side = executions[handled + 1].side
            /\ c.broker = CorrectionBroker(executions[handled + 1])
        BY DEF Correction, CorrectionSide
      <3>4. RejectsLeg(executions[handled + 1])
        BY <2>3 DEF NeedsCorrection, RejectsLeg, IsCorrection
      <3> HIDE DEF c
      <3> QED  BY <2>1, <3>1, <3>2, <3>3, <3>4, LinkPublishOrder
    <2>4. CASE ~NeedsCorrection(executions[handled + 1])
      BY <1>0, <1>a, <1>4, <2>1, <2>4, LinkFrame
         DEF HandleExecution, orders, executions
    <2> QED  BY <2>3, <2>4
  <1>5. ASSUME EndOfPoll, businessPc' = "first" => pairs' # 0,
               businessPc' \in {"poll", "first"}
        PROVE  LinkInv'
    <2>1. orders' = orders /\ executions' = executions
      BY <1>5, <1>a, SameLogs DEF EndOfPoll
    <2>2. businessPc' \in {"first", "second"} => pairs' # 0
      BY <1>5
    <2>3. handled' = handled
      BY <1>5 DEF EndOfPoll
    <2>4. handled <= handled'
      BY <1>a, <2>3
    <2> QED  BY SMTT(30), <1>0, <2>1, <2>2, <2>4, LinkFrame
  <1>6. CASE StillDelayed
    BY <1>5, <1>6 DEF StillDelayed
  <1>7. CASE NoTrade
    BY <1>5, <1>7 DEF NoTrade
  <1>8. ASSUME NEW d \in {"A", "B"}, Trigger(d)
        PROVE  LinkInv'
    <2>1. EndOfPoll /\ businessPc' = "first" /\ pairs' # 0
      BY <1>8, <1>a DEF Trigger
    <2> QED  BY <1>5, <2>1
  <1>9. ASSUME NEW side \in Sides, NEW broker \in Brokers \cup {"NONE"},
               orderRing' = Publish(orderRing, Leg(broker, side)),
               UNCHANGED <<execRing, isRunning, handled, pairs>>,
               businessPc \in {"first", "second"}
        PROVE  LinkInv'
    <2>1. Leg(broker, side) \in OrderEvent
      BY <1>9 DEF Leg, OrderEvent, TypeInv, TypeOK, TypeOKBusiness
    <2>2. /\ Leg(broker, side).id # CORRECTION_ID
          /\ Leg(broker, side).corrects = 0
      BY <1>9 DEF Leg, CORRECTION_ID, LinkInv
    <2>3. pairs' # 0
      BY <1>9 DEF LinkInv
    <2> QED  BY <1>9, <2>1, <2>2, <2>3, LinkPublishOrder
  <1>10. /\ FirstSide \in Sides /\ SecondSide \in Sides
         /\ priceA.broker \in Brokers \cup {"NONE"}
         /\ priceB.broker \in Brokers \cup {"NONE"}
    BY DEF FirstSide, SecondSide, Sides, Brokers, TypeInv, TypeOK, TypeOKBusiness
  <1>11. CASE FirstLeg
    BY <1>9, <1>10, <1>11 DEF FirstLeg
  <1>12. CASE SecondLeg
    BY <1>9, <1>10, <1>12 DEF SecondLeg
  <1>13. CASE BusinessTerminate
    <2>1. orders' = orders /\ executions' = executions
      BY <1>13, SameLogs DEF BusinessTerminate
    <2> QED  BY <1>0, <1>a, <1>13, <2>1, LinkFrame DEF BusinessTerminate
  <1> QED
    BY <1>1, <1>2, <1>3, <1>4, <1>6, <1>7, <1>8, <1>11, <1>12, <1>13
       DEF BusinessStep

\* Publishing the report at the head of an inbox moves it, so no order is
\* reported twice.
LEMMA LinkReport ==
    ASSUME TypeInv, LinkInv, TypeInv', NEW b \in Brokers, PublishReport(b),
           UNCHANGED businessVars
    PROVE  LinkInv'
  <1> USE DEF businessVars
  <1> DEFINE r == Head(inbox[b])
             e == ExecutionOf(b, r)
             last == Len(executions) + 1
  <1>1. /\ inbox[b] \in Seq(Report) /\ inbox[b] # << >>
        /\ Len(inbox[b]) \in Nat
        /\ r = inbox[b][1] /\ 1 \in 1 .. Len(inbox[b])
        /\ r \in Report
    BY LogTypes DEF PublishReport
  <1>2. /\ r.order \in DOMAIN orders
        /\ orders[r.order].broker = b
        /\ r.order \in filled \cup rejected
        /\ ~r.isFilled => r.order \in rejected
    BY <1>1 DEF TypeInv, Bounded, InboxBounded, LinkInv, InboxLinked
  <1>3. e \in ExecutionEvent
    <2>1. orders[r.order] \in OrderEvent
      BY <1>2, LogTypes
    <2>2. r.order \in Nat /\ r.isFilled \in BOOLEAN
      BY <1>1 DEF Report
    <2> QED  BY <2>1, <2>2 DEF ExecutionOf, ExecutionEvent, OrderEvent
  <1>4. /\ e.reports = r.order /\ e.isFilled = r.isFilled /\ e.broker = b
        /\ e.side = orders[r.order].side /\ e.id = orders[r.order].id
    BY DEF ExecutionOf
  <1>5. /\ execRing' = Publish(execRing, e)
        /\ UNCHANGED <<orderRing, isRunning, received, filled, rejected>>
        /\ inbox' = [inbox EXCEPT ![b] = Tail(inbox[b])]
        /\ inbox \in [Brokers -> Seq(Report)]
    BY DEF PublishReport, TypeInv, TypeOK, TypeOKTrade
  <1> HIDE DEF e
  <1>6. /\ Len(executions) \in Nat
        /\ DOMAIN executions = 1 .. Len(executions)
        /\ DOMAIN executions' = 1 .. last
        /\ \A n \in DOMAIN executions : executions'[n] = executions[n]
        /\ executions'[last] = e
    BY <1>3, <1>5, PublishExecutionType, LogTypes
  <1>7. orders' = orders
    BY <1>5 DEF orders
  <1>8. \A k \in 1 .. Len(inbox'[b]) :
           /\ k + 1 \in 1 .. Len(inbox[b])
           /\ k + 1 # 1
           /\ inbox'[b][k] = inbox[b][k + 1]
    <2>1. inbox'[b] = Tail(inbox[b])
      BY <1>5
    <2>2. Len(Tail(inbox[b])) = Len(inbox[b]) - 1
      BY <1>1
    <2>3. \A k \in 1 .. Len(Tail(inbox[b])) : Tail(inbox[b])[k] = inbox[b][k + 1]
      BY <1>1
    <2> QED  BY <1>1, <2>1, <2>2, <2>3
  <1>9. \A a \in Brokers : a # b => inbox'[a] = inbox[a]
    BY <1>5
  <1>10. Answers'
    BY <1>5, <1>7 DEF LinkInv, Answers
  <1>11. InboxLinked'
    <2> SUFFICES ASSUME NEW a \in Brokers, NEW k \in 1 .. Len(inbox'[a])
                 PROVE  /\ orders[inbox'[a][k].order].broker = a
                        /\ inbox'[a][k].order \in filled \cup rejected
                        /\ ~inbox'[a][k].isFilled => inbox'[a][k].order \in rejected
      BY ZenonT(40), <1>5, <1>7 DEF InboxLinked
    <2>1. CASE a = b
      BY <1>8, <2>1 DEF LinkInv, InboxLinked
    <2>2. CASE a # b
      BY <1>9, <2>2 DEF LinkInv, InboxLinked
    <2> QED  BY <2>1, <2>2
  <1>12. ExecutionsLinked'
    <2> SUFFICES ASSUME NEW n \in DOMAIN executions'
                 PROVE  LET x == executions'[n]
                        IN  /\ x.reports \in DOMAIN orders
                            /\ x.reports \in filled \cup rejected
                            /\ ~x.isFilled => x.reports \in rejected
                            /\ x.broker = orders[x.reports].broker
                            /\ x.side = orders[x.reports].side
                            /\ x.id = orders[x.reports].id
      BY <1>5, <1>7 DEF ExecutionsLinked
    <2>1. CASE n \in DOMAIN executions
      BY <1>6, <2>1 DEF LinkInv, ExecutionsLinked
    <2>2. CASE n = last
      BY <1>2, <1>4, <1>6, <2>2
    <2> QED  BY <1>6, <2>1, <2>2
  <1>13. ReportedOnce'
    <2>1. ASSUME NEW n \in DOMAIN executions
          PROVE  executions[n].reports # r.order
      BY <1>1 DEF LinkInv, ReportedOnce
    <2>2. ASSUME NEW m \in DOMAIN executions', NEW n \in DOMAIN executions',
                 executions'[m].reports = executions'[n].reports
          PROVE  m = n
      <3>1. CASE m \in DOMAIN executions /\ n \in DOMAIN executions
        BY <1>6, <2>2, <3>1 DEF LinkInv, ReportedOnce
      <3>2. CASE m = last \/ n = last
        BY <1>4, <1>6, <2>1, <2>2, <3>2
      <3> QED  BY <1>6, <3>1, <3>2
    <2>3. ASSUME NEW a \in Brokers, NEW k \in 1 .. Len(inbox'[a]),
                 NEW l \in 1 .. Len(inbox'[a]),
                 inbox'[a][k].order = inbox'[a][l].order
          PROVE  k = l
      <3>1. CASE a = b
        <4>1. inbox[b][k + 1].order = inbox[b][l + 1].order
          BY <1>8, <2>3, <3>1
        <4>2. k + 1 = l + 1
          BY <1>8, <3>1, <4>1 DEF LinkInv, ReportedOnce
        <4>3. k \in Int /\ l \in Int
          OBVIOUS
        <4> QED  BY <4>2, <4>3
      <3>2. CASE a # b
        BY <1>9, <2>3, <3>2 DEF LinkInv, ReportedOnce
      <3> QED  BY <3>1, <3>2
    <2>4. ASSUME NEW a \in Brokers, NEW k \in 1 .. Len(inbox'[a])
          PROVE  inbox'[a][k].order # r.order
      <3>1. CASE a = b
        <4>1. inbox[b][k + 1].order # inbox[b][1].order
          BY <1>1, <1>8, <3>1 DEF LinkInv, ReportedOnce
        <4> QED  BY <1>1, <1>8, <3>1, <4>1
      <3>2. CASE a # b
        BY <1>2, <1>9, <3>2 DEF LinkInv, InboxLinked
      <3> QED  BY <3>1, <3>2
    <2>5. ASSUME NEW a \in Brokers, NEW k \in 1 .. Len(inbox'[a]),
                 NEW n \in DOMAIN executions
          PROVE  inbox'[a][k].order # executions[n].reports
      <3>1. CASE a = b
        BY <1>8, <3>1 DEF LinkInv, ReportedOnce
      <3>2. CASE a # b
        BY <1>9, <3>2 DEF LinkInv, ReportedOnce
      <3> QED  BY <3>1, <3>2
    <2>6. ASSUME NEW a \in Brokers, NEW k \in 1 .. Len(inbox'[a]),
                 NEW n \in DOMAIN executions'
          PROVE  inbox'[a][k].order # executions'[n].reports
      BY <1>4, <1>6, <2>4, <2>5
    <2> QED  BY <2>2, <2>3, <2>6 DEF ReportedOnce
  <1>14. OrdersLinked'
    <2>1. \A n \in 1 .. handled : n \in DOMAIN executions
      BY <1>6 DEF TypeInv, TypeOK, TypeOKBusiness, Bounded
    <2> QED  BY <1>6, <1>7, <2>1 DEF LinkInv, OrdersLinked
  <1> QED  BY <1>10, <1>11, <1>12, <1>13, <1>14 DEF LinkInv

\* The trade offices keep the links.
LEMMA LinkTrade ==
    ASSUME TypeInv, LinkInv, TypeInv', NEW b \in Brokers,
           TradeStep(b) \/ SessionFails(b), UNCHANGED businessVars
    PROVE  LinkInv'
  <1> USE DEF businessVars, ringVars
  <1>0. /\ \A i \in received : orders[i].broker \in Brokers
        /\ handled \in Nat
        /\ businessPc' \in {"first", "second"} => pairs' # 0
    BY DEF LinkInv, Answers, TypeInv, TypeOK, TypeOKBusiness
  <1>1. ASSUME orders' = orders, executions' = executions,
               UNCHANGED <<received, filled, rejected, inbox>>
        PROVE  LinkInv'
    BY <1>0, <1>1, LinkFrame
  <1>2. CASE TradeInitiate(b)
    <2>1. orders' = orders /\ executions' = executions
      BY <1>2, SameLogs DEF TradeInitiate
    <2> QED  BY <1>1, <1>2, <2>1 DEF TradeInitiate
  <1>3. CASE WaitForRoom(b)
    BY <1>1, <1>3 DEF WaitForRoom, orders, executions
  <1>4. CASE PublishReport(b)
    BY <1>4, LinkReport
  <1>5. CASE SessionFails(b)
    <2>1. orders' = orders /\ executions' = executions
      BY <1>5, SameLogs DEF SessionFails, Detached
    <2> QED  BY <1>1, <1>5, <2>1 DEF SessionFails
  <1>6. CASE PollOrders(b)
    <2>1. PICK last \in orderRing.seq[b] .. Len(orders) :
             /\ orderRing' = ConsumeTo(orderRing, b, last)
             /\ \E sent \in IF SendMayFail THEN SUBSET Own(b, last)
                                           ELSE {Own(b, last)} :
                   received' = received \cup sent
      BY <1>6 DEF PollOrders
    <2>2. orderRing.seq[b] \in Nat /\ Len(orders) \in Nat
      BY LogTypes DEF TypeInv, TypeOK, TypeOKRings, Rings
    <2>3. last \in Nat
      BY <2>2
    <2>4. orders' = orders /\ executions' = executions
      BY <1>6, <2>1, <2>3, SameLogs DEF PollOrders
    <2>5. received \subseteq received' /\ received' \subseteq received \cup Own(b, last)
      BY <2>1
    <2>6. \A i \in received' : orders[i].broker \in Brokers
      BY <1>0, <2>5 DEF Own
    <2> QED  BY <1>0, <1>6, <2>4, <2>5, <2>6, LinkFrame DEF PollOrders
  <1>7. CASE TradeTerminate(b)
    <2>1. orders' = orders /\ executions' = executions
      BY <1>7, SameLogs DEF TradeTerminate, Detached
    <2> QED  BY <1>1, <1>7, <2>1 DEF TradeTerminate
  <1> QED  BY <1>2, <1>3, <1>4, <1>5, <1>6, <1>7 DEF TradeStep

\* An answer of a broker concerns an order that had none.
LEMMA LinkBroker ==
    ASSUME TypeInv, LinkInv, TypeInv', BrokerStep, UNCHANGED businessVars
    PROVE  LinkInv'
  <1> USE DEF businessVars, ringVars
  <1>1. PICK i \in received, isFilled \in BOOLEAN : BrokerAnswers(i, isFilled)
    BY DEF BrokerStep
  <1> DEFINE a == orders[i].broker
             r == [order |-> i, isFilled |-> isFilled]
  <1>2. /\ i \in DOMAIN orders /\ i \notin filled \cup rejected
        /\ i \in Nat /\ a \in Brokers /\ r \in Report
    BY <1>1 DEF TypeInv, TypeOK, TypeOKTrade, Bounded, LinkInv, Answers,
            BrokerAnswers, Report
  <1>3. /\ inbox \in [Brokers -> Seq(Report)]
        /\ inbox' = [inbox EXCEPT ![a] = Append(inbox[a], r)]
        /\ orders' = orders /\ executions' = executions
        /\ received' = received
        /\ filled \cup rejected \subseteq filled' \cup rejected'
        /\ filled' \cup rejected' \subseteq received
        /\ rejected \subseteq rejected'
        /\ i \in filled' \cup rejected'
        /\ ~isFilled => i \in rejected'
    BY <1>1 DEF BrokerAnswers, TypeInv, TypeOK, TypeOKTrade, LinkInv, Answers,
            orders, executions
  <1>4. /\ inbox[a] \in Seq(Report) /\ Len(inbox[a]) \in Nat
        /\ inbox'[a] = Append(inbox[a], r)
        /\ Len(inbox'[a]) = Len(inbox[a]) + 1
        /\ \A k \in 1 .. Len(inbox[a]) : inbox'[a][k] = inbox[a][k]
        /\ inbox'[a][Len(inbox[a]) + 1] = r
        /\ \A b \in Brokers : b # a => inbox'[b] = inbox[b]
    BY <1>2, <1>3, AppendFacts
  <1> DEFINE last == Len(inbox[a]) + 1
  <1>5. Answers'
    BY <1>3 DEF LinkInv, Answers
  <1>6. ASSUME NEW b \in Brokers, NEW k \in 1 .. Len(inbox'[b])
        PROVE  \/ k \in 1 .. Len(inbox[b]) /\ inbox'[b][k] = inbox[b][k]
               \/ b = a /\ k = last /\ inbox'[b][k] = r
    <2>1. CASE b # a
      BY <1>4, <2>1
    <2>2. CASE b = a
      <3>1. k \in 1 .. (Len(inbox[a]) + 1) /\ Len(inbox[a]) \in Nat
        BY <1>4, <2>2
      <3>2. CASE k = last
        BY <1>4, <2>2, <3>2
      <3>3. CASE k # last
        <4>1. k \in 1 .. Len(inbox[a])
          BY <3>1, <3>3
        <4> QED  BY <1>4, <2>2, <4>1
      <3> QED  BY <3>2, <3>3
    <2> QED  BY <2>1, <2>2
  <1>7. InboxLinked'
    <2> SUFFICES ASSUME NEW b \in Brokers, NEW k \in 1 .. Len(inbox'[b])
                 PROVE  /\ orders[inbox'[b][k].order].broker = b
                        /\ inbox'[b][k].order \in filled' \cup rejected'
                        /\ ~inbox'[b][k].isFilled => inbox'[b][k].order \in rejected'
      BY SMTT(30), <1>3 DEF InboxLinked
    <2>1. CASE k \in 1 .. Len(inbox[b]) /\ inbox'[b][k] = inbox[b][k]
      BY <1>3, <2>1 DEF LinkInv, InboxLinked
    <2>2. CASE b = a /\ inbox'[b][k] = r
      BY <1>3, <2>2
    <2> QED  BY SMTT(30), <1>6, <2>1, <2>2
  <1>8. ExecutionsLinked'
    BY <1>3 DEF LinkInv, ExecutionsLinked
  <1>9. ReportedOnce'
    <2>1. ASSUME NEW b \in Brokers, NEW k \in 1 .. Len(inbox[b])
          PROVE  inbox[b][k].order # i
      BY <1>2 DEF LinkInv, InboxLinked
    <2>2. ASSUME NEW b \in Brokers, NEW k \in 1 .. Len(inbox'[b]),
                 NEW l \in 1 .. Len(inbox'[b]),
                 inbox'[b][k].order = inbox'[b][l].order
          PROVE  k = l
      BY SMTT(30), <1>6, <2>1, <2>2 DEF LinkInv, ReportedOnce
    <2>3. ASSUME NEW b \in Brokers, NEW k \in 1 .. Len(inbox'[b]),
                 NEW n \in DOMAIN executions
          PROVE  inbox'[b][k].order # executions[n].reports
      BY <1>2, <1>6 DEF LinkInv, ReportedOnce, ExecutionsLinked
    <2>4. \A m, n \in DOMAIN executions' :
             executions'[m].reports = executions'[n].reports => m = n
      BY <1>3 DEF LinkInv, ReportedOnce
    <2>5. \A b \in Brokers : \A k, l \in 1 .. Len(inbox'[b]) :
             inbox'[b][k].order = inbox'[b][l].order => k = l
      BY <2>2
    <2>6. \A b \in Brokers : \A k \in 1 .. Len(inbox'[b]) :
             \A n \in DOMAIN executions' :
                inbox'[b][k].order # executions'[n].reports
      BY <1>3, <2>3
    <2> QED  BY <2>4, <2>5, <2>6 DEF ReportedOnce
  <1>10. OrdersLinked' /\ (businessPc' \in {"first", "second"} => pairs' # 0)
    BY <1>3 DEF LinkInv, OrdersLinked
  <1> QED  BY <1>5, <1>7, <1>8, <1>9, <1>10 DEF LinkInv

\* The links are inductive.
LEMMA LinkNext ==
    ASSUME TypeInv, LinkInv, [Next]_vars
    PROVE  LinkInv'
  <1>0. TypeInv'
    BY TypeNext
  <1>1. CASE BusinessStep /\ UNCHANGED tradeVars
    BY <1>0, <1>1, LinkBusiness
  <1>2. ASSUME NEW b \in Brokers, TradeStep(b) \/ SessionFails(b),
               UNCHANGED businessVars
        PROVE  LinkInv'
    BY SMTT(30), <1>0, <1>2, LinkTrade
  <1>3. CASE BrokerStep /\ UNCHANGED businessVars
    BY <1>0, <1>3, LinkBroker
  <1>4. CASE UNCHANGED vars
    BY <1>4 DEF vars, ringVars, businessVars, tradeVars, LinkInv, Answers,
       InboxLinked, ExecutionsLinked, ReportedOnce, OrdersLinked, orders,
       executions
  <1> QED  BY <1>1, <1>2, <1>3, <1>4 DEF Next, Joined

\* Every correction answers one rejected leg, at the other broker and on its
\* side, and no leg is corrected twice, whatever the interleaving.
THEOREM CorrectionsSound == Spec => []CorrectionSound
  <1>1. Init => TypeInv /\ LinkInv
    BY TypeInit, LinkInit
  <1>2. (TypeInv /\ LinkInv) /\ [Next]_vars => (TypeInv /\ LinkInv)'
    BY TypeNext, LinkNext
  <1>3. TypeInv /\ LinkInv => CorrectionSound
    BY LinkSound
  <1> QED  BY <1>1, <1>2, <1>3, PTL DEF Spec

-----------------------------------------------------------------------------
(* No rejection is skipped.  The poller starts at the cursor, so this rests *)
(* on there being no execution before the office has published an order.    *)

CompleteInv ==
    /\ CorrectionComplete
    /\ businessPc = "new" => orders = << >>

\* Before the first order no execution exists.
LEMMA NoOrderNoExecution ==
    ASSUME TypeInv, LinkInv, orders = << >>
    PROVE  executions = << >>
  <1>1. DOMAIN orders = {}
    BY LogTypes
  <1>2. DOMAIN executions = {}
    BY <1>1 DEF LinkInv, ExecutionsLinked
  <1> QED  BY <1>2, LogTypes

\* CorrectionComplete survives whatever keeps the orders and the executions
\* handled so far.
LEMMA CompleteFrame ==
    ASSUME TypeInv, CompleteInv, handled' = handled,
           \A n \in DOMAIN executions : executions'[n] = executions[n],
           DOMAIN orders \subseteq DOMAIN orders',
           \A i \in DOMAIN orders : orders'[i] = orders[i]
    PROVE  CorrectionComplete'
  <1>1. \A n \in Handled : n \in DOMAIN executions
    BY LogTypes DEF Handled, TypeInv, TypeOK, TypeOKBusiness, Bounded
  <1>2. Handled' = Handled
    BY DEF Handled
  <1>3. ASSUME NEW i \in Corrections PROVE i \in Corrections'
    BY DEF Corrections
  <1>4. SUFFICES ASSUME NEW n \in Handled, RejectsLeg(executions[n])
                 PROVE  \E i \in Corrections' : orders'[i].corrects = n
    BY <1>1, <1>2 DEF CorrectionComplete, RejectsLeg
  <1>5. PICK i \in Corrections : orders[i].corrects = n
    BY <1>4 DEF CompleteInv, CorrectionComplete
  <1>6. i \in Corrections' /\ orders'[i].corrects = n
    BY <1>3, <1>5 DEF Corrections
  <1> QED  BY <1>6

\* What a step of the business office adds to the handled executions.
LEMMA CompleteBusiness ==
    ASSUME TypeInv, LinkInv, CompleteInv, BusinessStep
    PROVE  CorrectionComplete' /\ businessPc' # "new"
  <1> USE DEF ringVars
  <1>a. /\ handled \in Nat /\ available \in Nat
        /\ handled <= available /\ available <= Len(executions)
        /\ Len(executions) \in Nat /\ DOMAIN executions = 1 .. Len(executions)
    BY LogTypes DEF TypeInv, TypeOK, TypeOKBusiness, Bounded
  <1>b. ASSUME orders' = orders, executions' = executions, handled' = handled
        PROVE  CorrectionComplete'
    BY <1>b, CompleteFrame
  <1>1. CASE BusinessInitiate
    <2>1. executions = << >>
      BY <1>1, NoOrderNoExecution DEF BusinessInitiate, CompleteInv
    <2>2. handled' = 0 /\ businessPc' = "poll"
      BY <1>1, <2>1 DEF BusinessInitiate
    <2>3. Handled' = {}
      BY <2>2 DEF Handled
    <2> QED  BY <2>2, <2>3 DEF CorrectionComplete
  <1>2. ASSUME NEW b \in Brokers, NEW q \in Quotes, PollPrices(b, q)
        PROVE  CorrectionComplete' /\ businessPc' # "new"
    BY <1>b, <1>2 DEF PollPrices, orders, executions
  <1>3. CASE PollExecutions
    BY <1>b, <1>3 DEF PollExecutions, orders, executions
  <1>4. CASE HandleExecution
    <2> DEFINE n == handled + 1
               e == executions[n]
    <2>1. /\ handled' = n /\ handled < available /\ businessPc' = "executions"
          /\ n \in DOMAIN executions
          /\ execRing' = execRing /\ isRunning' = isRunning
      BY <1>a, <1>4 DEF HandleExecution
    <2>2. e \in ExecutionEvent
      BY <2>1, LogTypes
    <2>3. \A m \in Handled' : m \in Handled \/ m = n
      BY <1>a, <2>1 DEF Handled
    <2>4. executions' = executions
      BY <2>1 DEF executions
    <2>5. \A m \in Handled : RejectsLeg(executions[m]) =>
             \E i \in Corrections : orders[i].corrects = m
      BY DEF CompleteInv, CorrectionComplete
    <2>6. CASE NeedsCorrection(e)
      <3> DEFINE c == Correction(e, n)
                 last == Len(orders) + 1
      <3>1. c \in OrderEvent
        BY <1>a, <2>2 DEF Correction, OrderEvent, ExecutionEvent, CORRECTION_ID,
               CorrectionBroker, CorrectionSide, Brokers, Sides
      <3>2. orderRing' = Publish(orderRing, c)
        BY <1>4, <2>6 DEF HandleExecution
      <3>3. c.corrects = n /\ n # 0
        BY <1>a DEF Correction
      <3> HIDE DEF c
      <3>4. /\ DOMAIN orders \subseteq DOMAIN orders' /\ last \in DOMAIN orders'
            /\ \A i \in DOMAIN orders : orders'[i] = orders[i]
            /\ orders'[last] = c
        BY <2>1, <3>1, <3>2, PublishOrderType, LogTypes
      <3>5. last \in Corrections' /\ orders'[last].corrects = n
        BY <3>3, <3>4 DEF Corrections
      <3>6. \A i \in Corrections : i \in Corrections' /\ orders'[i] = orders[i]
        BY <3>4 DEF Corrections
      <3>7. SUFFICES ASSUME NEW m \in Handled', RejectsLeg(executions[m])
                     PROVE  \E i \in Corrections' : orders'[i].corrects = m
        BY <2>1, <2>4 DEF CorrectionComplete, RejectsLeg
      <3>8. CASE m = n
        BY <3>5, <3>8
      <3>9. CASE m \in Handled
        <4>1. PICK i \in Corrections : orders[i].corrects = m
          BY <2>5, <3>7, <3>9
        <4> QED  BY <3>6, <4>1
      <3> QED  BY <2>3, <3>8, <3>9
    <2>7. CASE ~NeedsCorrection(e)
      <3>1. orders' = orders
        BY <1>4, <2>7 DEF HandleExecution, orders
      <3>2. ~RejectsLeg(e)
        BY <2>7 DEF NeedsCorrection, RejectsLeg, IsCorrection
      <3>3. \A m \in Handled' : RejectsLeg(executions[m]) =>
               \E i \in Corrections : orders[i].corrects = m
        BY <2>3, <2>5, <3>2
      <3>4. Corrections' = Corrections
        BY <3>1 DEF Corrections
      <3> QED  BY <2>1, <2>4, <3>1, <3>3, <3>4 DEF CorrectionComplete, RejectsLeg
    <2> QED  BY <2>6, <2>7
  <1>5. ASSUME EndOfPoll, businessPc' \in {"poll", "first"}
        PROVE  CorrectionComplete' /\ businessPc' # "new"
    <2>1. orders' = orders /\ executions' = executions
      BY <1>5, <1>a, SameLogs DEF EndOfPoll
    <2> QED  BY SMTT(30), <1>b, <1>5, <2>1 DEF EndOfPoll
  <1>6. CASE StillDelayed
    BY <1>5, <1>6 DEF StillDelayed
  <1>7. CASE NoTrade
    BY <1>5, <1>7 DEF NoTrade
  <1>8. ASSUME NEW d \in {"A", "B"}, Trigger(d)
        PROVE  CorrectionComplete' /\ businessPc' # "new"
    BY <1>5, <1>8 DEF Trigger
  <1>9. ASSUME NEW side \in Sides, NEW broker \in Brokers \cup {"NONE"},
               orderRing' = Publish(orderRing, Leg(broker, side)),
               UNCHANGED <<execRing, isRunning, handled>>
        PROVE  CorrectionComplete'
    <2>1. Leg(broker, side) \in OrderEvent
      BY <1>9 DEF Leg, OrderEvent, TypeInv, TypeOK, TypeOKBusiness
    <2>2. /\ DOMAIN orders \subseteq DOMAIN orders'
          /\ \A i \in DOMAIN orders : orders'[i] = orders[i]
      BY <1>9, <2>1, PublishOrderType
    <2>3. executions' = executions
      BY <1>9 DEF executions
    <2> QED  BY <1>9, <2>2, <2>3, CompleteFrame
  <1>10. CASE FirstLeg
    <2>1. FirstSide \in Sides /\ priceA.broker \in Brokers \cup {"NONE"}
      BY DEF FirstSide, Sides, Brokers, TypeInv, TypeOK, TypeOKBusiness
    <2> QED  BY <1>9, <1>10, <2>1 DEF FirstLeg
  <1>11. CASE SecondLeg
    <2>1. SecondSide \in Sides /\ priceB.broker \in Brokers \cup {"NONE"}
      BY DEF SecondSide, Sides, Brokers, TypeInv, TypeOK, TypeOKBusiness
    <2> QED  BY <1>9, <1>11, <2>1 DEF SecondLeg
  <1>12. CASE BusinessTerminate
    <2>1. orders' = orders /\ executions' = executions
      BY <1>12, SameLogs DEF BusinessTerminate
    <2> QED  BY <1>b, <1>12, <2>1 DEF BusinessTerminate
  <1> QED  BY <1>1, <1>2, <1>3, <1>4, <1>6, <1>7, <1>8, <1>10, <1>11, <1>12
           DEF BusinessStep

\* A trade office adds no order and keeps the executions there are.
LEMMA TradeLogs ==
    ASSUME TypeInv, NEW b \in Brokers, TradeStep(b) \/ SessionFails(b)
    PROVE  /\ orders' = orders
           /\ \A n \in DOMAIN executions : executions'[n] = executions[n]
  <1> USE DEF ringVars
  <1>1. CASE TradeInitiate(b)
    BY <1>1, SameLogs DEF TradeInitiate
  <1>2. CASE WaitForRoom(b)
    BY <1>2 DEF WaitForRoom, orders, executions
  <1>3. CASE PublishReport(b)
    <2> DEFINE r == Head(inbox[b])
    <2>1. /\ inbox[b] # << >> /\ inbox[b] \in Seq(Report) /\ r = inbox[b][1]
          /\ 1 \in 1 .. Len(inbox[b]) /\ r \in Report
      BY <1>3, LogTypes DEF PublishReport
    <2>2. orders[r.order] \in OrderEvent
      BY <2>1, LogTypes DEF TypeInv, Bounded, InboxBounded
    <2>3. r.order \in Nat /\ r.isFilled \in BOOLEAN
      BY <2>1 DEF Report
    <2>4. ExecutionOf(b, r) \in ExecutionEvent
      BY <2>2, <2>3 DEF ExecutionOf, ExecutionEvent, OrderEvent
    <2>5. /\ execRing' = Publish(execRing, ExecutionOf(b, r))
          /\ UNCHANGED <<orderRing, isRunning>>
      BY <1>3 DEF PublishReport
    <2>6. orders' = orders
      BY <2>5 DEF orders
    <2> HIDE DEF r
    <2> QED  BY <2>4, <2>5, <2>6, PublishExecutionType
  <1>4. CASE SessionFails(b)
    BY <1>4, SameLogs DEF SessionFails, Detached
  <1>5. CASE PollOrders(b)
    <2>1. PICK last \in orderRing.seq[b] .. Len(orders) :
             orderRing' = ConsumeTo(orderRing, b, last)
      BY <1>5 DEF PollOrders
    <2>2. orderRing.seq[b] \in Nat /\ Len(orders) \in Nat
      BY LogTypes DEF TypeInv, TypeOK, TypeOKRings, Rings
    <2>3. last \in Nat
      BY <2>2
    <2> QED  BY <1>5, <2>1, <2>3, SameLogs DEF PollOrders
  <1>6. CASE TradeTerminate(b)
    BY <1>6, SameLogs DEF TradeTerminate, Detached
  <1> QED  BY <1>1, <1>2, <1>3, <1>4, <1>5, <1>6 DEF TradeStep

\* Only a step of the business office handles an execution or adds an order.
LEMMA CompleteNext ==
    ASSUME TypeInv, LinkInv, CompleteInv, [Next]_vars
    PROVE  CompleteInv'
  <1> USE DEF ringVars, businessVars, tradeVars
  <1>1. CASE BusinessStep
    BY <1>1, CompleteBusiness DEF CompleteInv
  <1>2. ASSUME orders' = orders, UNCHANGED businessVars,
               \A n \in DOMAIN executions : executions'[n] = executions[n]
        PROVE  CompleteInv'
    BY <1>2, CompleteFrame DEF CompleteInv
  <1>3. ASSUME NEW b \in Brokers, TradeStep(b) \/ SessionFails(b),
               UNCHANGED businessVars
        PROVE  CompleteInv'
    BY <1>2, <1>3, TradeLogs
  <1>4. CASE BrokerStep /\ UNCHANGED businessVars
    BY <1>2, <1>4 DEF BrokerStep, BrokerAnswers, orders, executions
  <1>5. CASE UNCHANGED vars
    BY <1>2, <1>5 DEF vars, orders, executions
  <1> QED  BY <1>1, <1>3, <1>4, <1>5 DEF Next, Joined

\* Every rejection of a leg that was handled has its correction: no event of a
\* batch is skipped and none is handled twice.
THEOREM CorrectionsComplete == Spec => []CorrectionComplete
  <1>1. Init => TypeInv /\ LinkInv
    BY TypeInit, LinkInit
  <1>2. Init => CompleteInv
    BY DEF Init, InitRings, InitBusiness, NewRing, CompleteInv,
           CorrectionComplete, Handled, orders
  <1>3. (TypeInv /\ LinkInv /\ CompleteInv) /\ [Next]_vars
           => (TypeInv /\ LinkInv /\ CompleteInv)'
    BY TypeNext, LinkNext, CompleteNext
  <1>4. CompleteInv => CorrectionComplete
    BY DEF CompleteInv
  <1> QED  BY <1>1, <1>2, <1>3, <1>4, PTL DEF Spec

-----------------------------------------------------------------------------
(* The ledger.  The business office, the trade offices and their rings     *)
(* keep the ledger of HedgeLedger, and so the exposure is conserved,       *)
(* however the answers are interleaved.  When the delay outlasts every     *)
(* answer, the parity of the count tells the office that a pair is         *)
(* settled, the count bounds the open pairs, and the rings never fill.     *)

LP == INSTANCE HedgeLedgerProofs WITH ledger <- Book, half <- businessPc = "second"

\* While a pair is under way both prices are those of their brokers, and between
\* its legs the last order is the first of them.
PairInv ==
    /\ businessPc \in {"first", "second"} => currentOrder \in {"A", "B"}
    /\ businessPc = "second" =>
          /\ orders # << >>
          /\ orders[Len(orders)].broker = "LMAX"
          /\ orders[Len(orders)].side = FirstSide

IInv == TypeInv /\ LinkInv /\ FreshInv /\ PairInv

\* The brokers of a pair under way.
LEMMA PairBrokers ==
    ASSUME IInv, businessPc \in {"first", "second"}
    PROVE  priceA.broker = "LMAX" /\ priceB.broker = "IB"
  BY DEF IInv, PairInv, FreshInv, Brokers

\* Only the business office touches what PairInv speaks of.
LEMMA PairFrame ==
    ASSUME PairInv, orders' = orders, UNCHANGED <<businessPc, currentOrder>>
    PROVE  PairInv'
  BY DEF PairInv, FirstSide

\* Every step keeps it.
LEMMA PairNext == ASSUME IInv, [Next]_vars PROVE PairInv'
  <1> USE DEF ringVars, businessVars, tradeVars
  <1>p. PairInv /\ TypeInv
    BY DEF IInv
  <1>1. CASE BusinessStep
    <2>1. ASSUME businessPc' \notin {"first", "second"} PROVE PairInv'
      BY <2>1 DEF PairInv
    <2>2. ASSUME NEW b \in Brokers, NEW q \in Quotes, PollPrices(b, q) PROVE PairInv'
      BY <2>1, <2>2 DEF PollPrices
    <2>3. CASE HandleExecution
      BY <2>1, <2>3 DEF HandleExecution
    <2>4. ASSUME NEW d \in {"A", "B"}, Trigger(d) PROVE PairInv'
      BY <2>4 DEF Trigger, PairInv
    <2>5. CASE FirstLeg
      <3>1. FirstSide \in Sides /\ pairs \in Nat /\ orderType \in {"OPEN", "CLOSE", "NONE"}
        BY <1>p DEF FirstSide, Sides, TypeInv, TypeOK, TypeOKBusiness
      <3>2. priceA.broker = "LMAX"
        BY <2>5, PairBrokers DEF FirstLeg
      <3>3. Leg("LMAX", FirstSide) \in OrderEvent
        BY <3>1 DEF Leg, OrderEvent, Brokers
      <3>4. /\ Len(orders') = Len(orders) + 1
            /\ DOMAIN orders' = 1 .. (Len(orders) + 1)
            /\ orders'[Len(orders) + 1] = Leg("LMAX", FirstSide)
        BY <1>p, <2>5, <3>2, <3>3, PublishOrderType DEF FirstLeg
      <3>5. Len(orders) \in Nat
        BY <1>p, LogTypes
      <3>6. orders' # << >>
        BY <3>4, <3>5
      <3>7. /\ businessPc' = "second" /\ businessPc = "first"
            /\ UNCHANGED currentOrder
        BY <2>5 DEF FirstLeg
      <3> QED  BY <1>p, <3>4, <3>6, <3>7 DEF PairInv, Leg, FirstSide
    <2>6. CASE SecondLeg
      BY <2>1, <2>6 DEF SecondLeg
    <2> QED  BY <1>1, <2>1, <2>2, <2>3, <2>4, <2>5, <2>6
             DEF BusinessStep, BusinessInitiate, PollExecutions, StillDelayed, NoTrade,
                 BusinessTerminate
  <1>2. ASSUME NEW b \in Brokers, TradeStep(b) \/ SessionFails(b), UNCHANGED businessVars
        PROVE  PairInv'
    BY <1>p, <1>2, TradeLogs, PairFrame
  <1>3. CASE BrokerStep /\ UNCHANGED businessVars
    BY <1>p, <1>3, PairFrame DEF BrokerStep, BrokerAnswers, orders
  <1>4. CASE UNCHANGED vars
    BY <1>p, <1>4, PairFrame DEF vars, orders
  <1> QED  BY <1>1, <1>2, <1>3, <1>4 DEF Next, Joined

-----------------------------------------------------------------------------
(* The book.                                                               *)

\* What an order is in the book.
EntryOf(e) ==
    [broker |-> e.broker, side |-> e.side,
     replaces |-> IF e.corrects = 0 THEN 0 ELSE executions[e.corrects].reports]

\* The book is read order by order.
LEMMA BookFacts ==
    ASSUME TypeInv
    PROVE  /\ DOMAIN Book = DOMAIN orders /\ Len(Book) = Len(orders)
           /\ \A i \in DOMAIN orders : Book[i] = EntryOf(orders[i])
  <1>1. DOMAIN Book = 1 .. Len(orders) /\ Len(orders) \in Nat
    BY LogTypes DEF Book
  <1> QED  BY <1>1, LogTypes DEF Book, EntryOf

\* More executions leave the book alone.
LEMMA SameBook ==
    ASSUME TypeInv, LinkInv, orders' = orders,
           \A n \in DOMAIN executions : executions'[n] = executions[n]
    PROVE  Book' = Book
  <1>1. ASSUME NEW i \in DOMAIN orders, orders[i].corrects # 0
        PROVE  orders[i].corrects \in DOMAIN executions
    BY <1>1, LogTypes DEF LinkInv, OrdersLinked, TypeInv, TypeOK, TypeOKBusiness, Bounded
  <1> QED  BY <1>1 DEF Book

\* A function on 1 .. n + 1 is its restriction to 1 .. n with one more element.
LEMMA AppendIsFunction ==
    ASSUME NEW n \in Nat, NEW s, NEW t,
           s = [i \in 1 .. n |-> s[i]], t = [i \in 1 .. (n + 1) |-> t[i]],
           \A i \in 1 .. n : t[i] = s[i]
    PROVE  t = Append(s, t[n + 1])
  <1> DEFINE S == {t[i] : i \in 1 .. (n + 1)}
  <1>1. s \in [1 .. n -> S] /\ t \in [1 .. (n + 1) -> S] /\ t[n + 1] \in S
    <2>1. 1 .. n \subseteq 1 .. (n + 1) /\ n + 1 \in 1 .. (n + 1)
      OBVIOUS
    <2> QED  BY <2>1
  <1> HIDE DEF S
  <1>2. s \in Seq(S) /\ Len(s) = n /\ t \in Seq(S) /\ Len(t) = n + 1
    BY <1>1
  <1>3. /\ Append(s, t[n + 1]) \in Seq(S) /\ Len(Append(s, t[n + 1])) = n + 1
        /\ \A i \in 1 .. n : Append(s, t[n + 1])[i] = s[i]
        /\ Append(s, t[n + 1])[n + 1] = t[n + 1]
    BY <1>1, <1>2, AppendFacts
  <1>4. ASSUME NEW i \in 1 .. Len(t) PROVE t[i] = Append(s, t[n + 1])[i]
    <2>1. CASE i = n + 1
      BY ONLY <1>3, <2>1
    <2>2. CASE i # n + 1
      <3>1. i \in 1 .. n
        BY ONLY n \in Nat, <1>2, <1>4, <2>2
      <3> QED  BY <1>3, <3>1
    <2> QED  BY <2>1, <2>2
  <1> QED  BY <1>2, <1>3, <1>4, SeqEqual

\* A published order is a new last entry.
LEMMA BookGrows ==
    ASSUME TypeInv, NEW e \in OrderEvent, orderRing' = Publish(orderRing, e),
           UNCHANGED <<execRing, isRunning>>
    PROVE  Book' = Append(Book, EntryOf(e))
  <1>1. /\ DOMAIN orders' = 1 .. (Len(orders) + 1)
        /\ \A i \in DOMAIN orders : orders'[i] = orders[i]
        /\ orders'[Len(orders) + 1] = e
    BY PublishOrderType
  <1>2. /\ Len(Book) = Len(orders) /\ Len(orders) \in Nat
        /\ DOMAIN orders = 1 .. Len(orders)
        /\ \A i \in DOMAIN orders : Book[i] = EntryOf(orders[i])
    BY BookFacts, LogTypes
  <1>3. executions' = executions
    BY DEF executions
  <1>4. /\ Book = [i \in 1 .. Len(orders) |-> Book[i]]
        /\ Book' = [i \in 1 .. (Len(orders) + 1) |-> Book'[i]]
    BY <1>1, <1>2 DEF Book
  <1>5. \A i \in 1 .. Len(orders) : Book'[i] = Book[i]
    BY <1>1, <1>2, <1>3 DEF Book
  <1>6. Book'[Len(orders) + 1] = EntryOf(e)
    BY <1>1, <1>2, <1>3 DEF Book, EntryOf
  <1> QED  BY <1>2, <1>4, <1>5, <1>6, AppendIsFunction

-----------------------------------------------------------------------------
(* The steps.                                                              *)

\* A rejected leg that has not been corrected stands, and is a leg in the book.
LEMMA RejectedStands ==
    ASSUME IInv, NEW n \in DOMAIN executions, n > handled, RejectsLeg(executions[n])
    PROVE  LET r == executions[n].reports
           IN  /\ r \in DOMAIN Book /\ r \in rejected
               /\ r \in Ledger!Standing
               /\ Book[r].replaces = 0
               /\ Book[r].broker = executions[n].broker
               /\ Book[r].side = executions[n].side
               /\ executions[n].broker \in Brokers
  <1> DEFINE r == executions[n].reports
  <1>0. TypeInv /\ LinkInv
    BY DEF IInv
  <1>1. /\ r \in DOMAIN orders /\ r \in rejected
        /\ executions[n].broker = orders[r].broker
        /\ executions[n].side = orders[r].side
        /\ executions[n].id = orders[r].id
    BY <1>0 DEF LinkInv, ExecutionsLinked, RejectsLeg
  <1>2. orders[r].corrects = 0
    BY <1>0, <1>1 DEF LinkInv, OrdersLinked, RejectsLeg
  <1>3. orders[r].broker \in Brokers
    BY <1>0, <1>1 DEF LinkInv, Answers
  <1>4. /\ DOMAIN Book = DOMAIN orders
        /\ \A i \in DOMAIN orders : Book[i] = EntryOf(orders[i])
    BY <1>0, BookFacts
  <1>5. ASSUME NEW j \in DOMAIN orders PROVE Book[j].replaces # r
    <2>1. r # 0
      BY <1>0, <1>1, LogTypes
    <2>2. CASE orders[j].corrects = 0
      BY <1>4, <2>1, <2>2 DEF EntryOf
    <2>3. CASE orders[j].corrects # 0
      <3>1. orders[j].corrects \in 1 .. handled
        BY <1>0, <2>3 DEF LinkInv, OrdersLinked
      <3>2. orders[j].corrects \in DOMAIN executions /\ orders[j].corrects # n
        BY <1>0, <3>1, LogTypes DEF TypeInv, TypeOK, TypeOKBusiness, Bounded
      <3>3. executions[orders[j].corrects].reports # r
        BY <1>0, <3>2 DEF LinkInv, ReportedOnce
      <3> QED  BY <1>4, <2>3, <3>3 DEF EntryOf
    <2> QED  BY <2>2, <2>3
  <1>6. r \in Ledger!Standing
    BY <1>1, <1>4, <1>5 DEF Ledger!Standing
  <1> QED  BY <1>1, <1>2, <1>3, <1>4, <1>6 DEF EntryOf

\* A correction replaces the order whose rejection it answers.
LEMMA CorrectionReplaces ==
    ASSUME IInv, HandleExecution, NeedsCorrection(executions[handled + 1]),
           UNCHANGED tradeVars
    PROVE  Ledger!Next
  <1> USE DEF tradeVars
  <1> DEFINE n == handled + 1
             e == executions[n]
             c == Correction(e, n)
  <1>0. TypeInv
    BY DEF IInv
  <1>1. /\ handled \in Nat /\ n \in DOMAIN executions /\ n > handled
        /\ e \in ExecutionEvent
    <2>1. handled \in Nat /\ handled < available /\ available \in Nat
          /\ available <= Len(executions)
      BY <1>0 DEF HandleExecution, TypeInv, TypeOK, TypeOKBusiness, Bounded
    <2> QED  BY <1>0, <2>1, LogTypes
  <1>2. RejectsLeg(e)
    BY DEF NeedsCorrection, RejectsLeg, IsCorrection
  <1>3. /\ e.reports \in DOMAIN Book /\ e.reports \in rejected
        /\ e.reports \in Ledger!Standing
        /\ Book[e.reports].replaces = 0
        /\ Book[e.reports].broker = e.broker
        /\ Book[e.reports].side = e.side
        /\ e.broker \in Brokers
    BY <1>1, <1>2, RejectedStands
  <1>4. c \in OrderEvent
    BY <1>1 DEF Correction, OrderEvent, ExecutionEvent, CORRECTION_ID,
           CorrectionBroker, CorrectionSide, Brokers, Sides
  <1>5. /\ orderRing' = Publish(orderRing, c) /\ UNCHANGED <<execRing, isRunning>>
        /\ businessPc = "executions" /\ businessPc' = "executions"
    BY DEF HandleExecution
  <1>6. /\ c.broker = CorrectionBroker(e) /\ c.side = e.side /\ c.corrects = n
        /\ n # 0
    BY <1>1 DEF Correction, CorrectionSide
  <1> DEFINE entry == EntryOf(c)
  <1>7. entry = [broker |-> CorrectionBroker(e), side |-> e.side, replaces |-> e.reports]
    BY <1>6 DEF EntryOf
  <1> HIDE DEF c, entry
  <1>8. Book' = Append(Book, entry)
    BY <1>0, <1>4, <1>5, BookGrows DEF entry
  <1>9. e.side \in {"BUY", "SELL"}
    BY <1>1 DEF ExecutionEvent, Sides
  <1>10. CorrectionBroker(e) \in {"LMAX", "IB"} /\ CorrectionBroker(e) # e.broker
    BY <1>3 DEF CorrectionBroker, Brokers
  <1> HIDE DEF e
  <1>11. entry \in [broker : {"LMAX", "IB"}, side : {"BUY", "SELL"},
                     replaces : {0} \cup DOMAIN Book]
    BY <1>3, <1>7, <1>9, <1>10
  <1>12. Ledger!Replace(entry)
    BY <1>3, <1>5, <1>7, <1>8, <1>10 DEF Ledger!Replace
  <1> QED  BY <1>11, <1>12 DEF Ledger!Next

\* The two legs of a pair are entered one after the other.
LEMMA LegsPair ==
    ASSUME IInv, FirstLeg \/ SecondLeg, UNCHANGED tradeVars
    PROVE  Ledger!Next
  <1> USE DEF tradeVars
  <1>0. TypeInv /\ PairInv
    BY DEF IInv
  <1>1. priceA.broker = "LMAX" /\ priceB.broker = "IB"
    BY PairBrokers DEF FirstLeg, SecondLeg
  <1>2. /\ FirstSide \in Sides /\ SecondSide \in Sides /\ SecondSide # FirstSide
        /\ pairs \in Nat /\ orderType \in {"OPEN", "CLOSE", "NONE"}
    BY <1>0 DEF FirstSide, SecondSide, Sides, TypeInv, TypeOK, TypeOKBusiness
  <1> DEFINE Entries == [broker : {"LMAX", "IB"}, side : {"BUY", "SELL"},
                         replaces : {0} \cup DOMAIN Book]
  <1>3. ASSUME NEW broker \in Brokers, NEW side \in Sides,
               orderRing' = Publish(orderRing, Leg(broker, side)),
               UNCHANGED <<execRing, isRunning>>
        PROVE  LET entry == [broker |-> broker, side |-> side, replaces |-> 0]
               IN  entry \in Entries /\ Book' = Append(Book, entry)
    <2>1. Leg(broker, side) \in OrderEvent
      BY <1>2 DEF Leg, OrderEvent
    <2>2. EntryOf(Leg(broker, side)) = [broker |-> broker, side |-> side, replaces |-> 0]
      BY DEF EntryOf, Leg
    <2>3. Book' = Append(Book, EntryOf(Leg(broker, side)))
      BY <1>0, <1>3, <2>1, BookGrows
    <2> QED  BY <2>2, <2>3 DEF Brokers, Sides
  <1>4. CASE FirstLeg
    <2> DEFINE entry == [broker |-> "LMAX", side |-> FirstSide, replaces |-> 0]
    <2>1. entry \in Entries /\ Book' = Append(Book, entry)
      BY <1>1, <1>2, <1>3, <1>4 DEF FirstLeg, Brokers
    <2>2. businessPc = "first" /\ businessPc' = "second"
      BY <1>4 DEF FirstLeg
    <2>3. Ledger!FirstLeg(entry)
      BY <2>1, <2>2 DEF Ledger!FirstLeg
    <2> QED  BY <2>1, <2>3 DEF Ledger!Next
  <1>5. CASE SecondLeg
    <2> DEFINE entry == [broker |-> "IB", side |-> SecondSide, replaces |-> 0]
    <2>1. entry \in Entries /\ Book' = Append(Book, entry)
      BY <1>1, <1>2, <1>3, <1>5 DEF SecondLeg, Brokers
    <2>2. businessPc = "second" /\ businessPc' = "poll"
      BY <1>5 DEF SecondLeg
    <2>3. Ledger!last.broker = "LMAX" /\ Ledger!last.side = FirstSide
      <3>1. /\ Len(orders) \in DOMAIN orders
            /\ orders[Len(orders)].broker = "LMAX"
            /\ orders[Len(orders)].side = FirstSide
        BY <1>0, <2>2, LogTypes DEF PairInv
      <3> QED  BY <1>0, <3>1, BookFacts DEF Ledger!last, EntryOf
    <2>4. Ledger!SecondLeg(entry)
      BY <1>2, <2>1, <2>2, <2>3 DEF Ledger!SecondLeg
    <2> QED  BY <2>1, <2>4 DEF Ledger!Next
  <1> QED  BY <1>4, <1>5

\* Every step of the system is a step of the ledger or leaves it alone.
LEMMA LedgerNext ==
    ASSUME IInv, [Next]_vars
    PROVE  [Ledger!Next]_(Ledger!ledgerVars)
  <1> USE DEF ringVars, businessVars, tradeVars
  <1>0. TypeInv /\ LinkInv
    BY DEF IInv
  <1>1. ASSUME Book' = Book, (businessPc' = "second") = (businessPc = "second"),
               UNCHANGED <<filled, rejected>>
        PROVE  UNCHANGED Ledger!ledgerVars
    BY <1>1 DEF Ledger!ledgerVars
  <1>2. CASE BusinessStep /\ UNCHANGED tradeVars
    <2>1. ASSUME orders' = orders, executions' = executions,
                 businessPc # "second", businessPc' # "second"
          PROVE  UNCHANGED Ledger!ledgerVars
      BY <1>0, <1>1, <1>2, <2>1, SameBook
    <2>2. handled \in Nat /\ available \in Nat
      BY <1>0 DEF TypeInv, TypeOK, TypeOKBusiness
    <2>3. CASE BusinessInitiate \/ BusinessTerminate
      <3>1. orders' = orders /\ executions' = executions
        BY <1>0, <2>3, SameLogs DEF BusinessInitiate, BusinessTerminate
      <3> QED  BY <2>1, <2>3, <3>1 DEF BusinessInitiate, BusinessTerminate
    <2>4. CASE PollExecutions \/ \E b \in Brokers, q \in Quotes : PollPrices(b, q)
      BY <2>1, <2>4 DEF PollExecutions, PollPrices, orders, executions
    <2>5. CASE HandleExecution
      <3>1. CASE NeedsCorrection(executions[handled + 1])
        BY <1>2, <2>5, <3>1, CorrectionReplaces
      <3>2. CASE ~NeedsCorrection(executions[handled + 1])
        BY <2>1, <2>5, <3>2 DEF HandleExecution, orders, executions
      <3> QED  BY <3>1, <3>2
    <2>6. ASSUME EndOfPoll, businessPc' \in {"poll", "first"}
          PROVE  UNCHANGED Ledger!ledgerVars
      <3>1. orders' = orders /\ executions' = executions
        BY <1>0, <2>2, <2>6, SameLogs DEF EndOfPoll
      <3>2. businessPc \in {"poll", "executions"}
        BY <2>6 DEF EndOfPoll
      <3> QED  BY <2>1, <2>6, <3>1, <3>2
    <2>7. CASE StillDelayed \/ NoTrade \/ \E d \in {"A", "B"} : Trigger(d)
      BY <2>6, <2>7 DEF StillDelayed, NoTrade, Trigger
    <2>8. CASE FirstLeg \/ SecondLeg
      BY <1>2, <2>8, LegsPair
    <2> QED  BY <1>2, <2>3, <2>4, <2>5, <2>7, <2>8 DEF BusinessStep
  <1>3. ASSUME NEW b \in Brokers, TradeStep(b) \/ SessionFails(b), UNCHANGED businessVars
        PROVE  UNCHANGED Ledger!ledgerVars
    <2>1. UNCHANGED <<filled, rejected>>
      BY <1>3 DEF TradeStep, SessionFails, TradeInitiate, WaitForRoom, PublishReport,
             PollOrders, TradeTerminate
    <2>2. Book' = Book
      BY <1>0, <1>3, TradeLogs, SameBook
    <2> QED  BY <1>1, <1>3, <2>1, <2>2
  <1>4. CASE BrokerStep /\ UNCHANGED businessVars
    <2>1. PICK i \in received, isFilled \in BOOLEAN : BrokerAnswers(i, isFilled)
      BY <1>4 DEF BrokerStep
    <2>2. /\ i \notin filled \cup rejected /\ i \in DOMAIN Book
          /\ \/ filled' = filled \cup {i} /\ UNCHANGED rejected
             \/ rejected' = rejected \cup {i} /\ UNCHANGED filled
      BY <1>0, <2>1, BookFacts DEF BrokerAnswers, TypeInv, Bounded
    <2>3. Book' = Book
      BY <1>0, <2>1, SameBook DEF BrokerAnswers, orders, executions
    <2>4. Ledger!Answer(i)
      BY <1>4, <2>2, <2>3 DEF Ledger!Answer
    <2> QED  BY <2>2, <2>4 DEF Ledger!Next
  <1>5. CASE UNCHANGED vars
    <2>1. Book' = Book
      BY <1>0, <1>5, SameBook DEF vars, orders, executions
    <2> QED  BY <1>1, <1>5, <2>1 DEF vars
  <1> QED  BY <1>2, <1>3, <1>4, <1>5 DEF Next, Joined

\* It starts with an empty ledger.
LEMMA LedgerStart == ASSUME Init PROVE Ledger!Init /\ IInv
  <1>1. orders = << >> /\ businessPc = "new" /\ filled = {} /\ rejected = {}
    BY DEF Init, InitRings, InitBusiness, InitTrade, NewRing, orders
  <1>2. Book = << >>
    BY <1>1 DEF Book
  <1>3. FreshInv /\ PairInv
    BY <1>1 DEF Init, InitBusiness, FreshInv, PairInv
  <1> QED  BY <1>1, <1>2, <1>3, TypeInit, LinkInit DEF Ledger!Init, IInv

\* The invariant the refinement rests on is inductive.
LEMMA IInvNext == ASSUME IInv, [Next]_vars PROVE IInv'
  BY TypeNext, LinkNext, FreshNext, PairNext DEF IInv

\* The two offices, their rings and the brokers implement the ledger: legs come in
\* pairs with nothing between the two, and only a rejected leg is replaced, once.
THEOREM KeepsLedger == Spec => LedgerSpec
  <1>1. Init => Ledger!Init /\ IInv
    BY LedgerStart
  <1>2. IInv /\ [Next]_vars => IInv'
    BY IInvNext
  <1>3. IInv /\ [Next]_vars => [Ledger!Next]_(Ledger!ledgerVars)
    BY LedgerNext
  <1> QED  BY <1>1, <1>2, <1>3, PTL DEF Spec, LedgerSpec, Ledger!Spec

\* The orders no correction has replaced are those that stand in the ledger.
LEMMA StandingInLedger ==
    ASSUME TypeInv
    PROVE  /\ Standing = LP!Standing
           /\ OnSide(Standing, "BUY") = LP!Bought
           /\ OnSide(Standing, "SELL") = LP!Sold
  <1>1. DOMAIN Book = DOMAIN orders /\ 0 \notin DOMAIN orders
    BY BookFacts, LogTypes
  <1>2. ASSUME NEW i \in DOMAIN orders
        PROVE  Corrected(i) <=> \E j \in DOMAIN Book : Book[j].replaces = i
    BY <1>1, BookFacts DEF Corrected, Corrections, EntryOf
  <1>3. Standing = LP!Standing
    BY <1>1, <1>2 DEF Standing, LP!Standing
  <1>4. \A i \in DOMAIN orders : Book[i].side = orders[i].side
    BY BookFacts DEF EntryOf
  <1>5. OnSide(Standing, "BUY") = LP!Bought /\ OnSide(Standing, "SELL") = LP!Sold
    BY <1>1, <1>3, <1>4 DEF OnSide, LP!Bought, LP!Sold, Standing
  <1> QED  BY <1>3, <1>5

\* The ledger counts as the offices do.
LEMMA SameCount == ASSUME NEW S PROVE LP!Cardinality(S) = Cardinality(S)
  BY DEF LP!Cardinality, Cardinality

\* A balanced ledger is a conserved exposure.
LEMMA LedgerExposure == ASSUME IInv, LP!Balanced PROVE ExposureConserved
  <1>0. TypeInv /\ PairInv
    BY DEF IInv
  <1>1. businessPc = "second" => LP!last.side = FirstSide
    <2> SUFFICES ASSUME businessPc = "second" PROVE LP!last.side = FirstSide
      OBVIOUS
    <2>1. Len(orders) \in DOMAIN orders /\ orders[Len(orders)].side = FirstSide
      BY <1>0, LogTypes DEF PairInv
    <2> QED  BY <1>0, <2>1, BookFacts DEF LP!last, EntryOf
  <1>2. Cardinality(OnSide(Standing, "BUY")) - Cardinality(OnSide(Standing, "SELL"))
           = HalfPair
    BY <1>0, <1>1, StandingInLedger, SameCount DEF LP!Balanced, HalfPair
  <1>3. filled \subseteq Standing
    BY <1>0, StandingInLedger DEF LP!Balanced
  <1> QED  BY <1>2, <1>3 DEF ExposureConserved, Net

\* The orders that stand always balance, up to a leg whose pair is under way, and no
\* filled order is ever replaced, whatever is lost, rejected or late and however the
\* threads interleave: every open position is an answer under way, a lost order or
\* a rejected correction.
THEOREM ExposureIsConserved == Spec => []ExposureConserved
  <1>1. Init => LP!LedgerInv /\ IInv
    BY LedgerStart, LP!LedgerInit DEF Ledger!Init, LP!Init
  <1>2. IInv /\ [Next]_vars => IInv'
    BY IInvNext
  <1>3. IInv /\ LP!LedgerInv /\ [Next]_vars => LP!LedgerInv'
    <2>1. [Ledger!Next]_(Ledger!ledgerVars) => [LP!Next]_(LP!ledgerVars)
      BY DEF Ledger!Next, Ledger!ledgerVars, Ledger!FirstLeg, Ledger!SecondLeg,
             Ledger!Replace, Ledger!Answer, Ledger!last, Ledger!Standing,
             LP!Next, LP!ledgerVars, LP!FirstLeg, LP!SecondLeg, LP!Replace, LP!Answer,
             LP!last, LP!Standing
    <2> QED  BY <2>1, LedgerNext, LP!LedgerStep
  <1>4. IInv /\ LP!LedgerInv => ExposureConserved
    BY LedgerExposure DEF LP!LedgerInv
  <1> QED  BY <1>1, <1>2, <1>3, <1>4, PTL DEF Spec

\* When all that stands was filled and no pair is half entered, the position is
\* flat: nothing else has to be awaited.
THEOREM QuietIsHedged == Spec => []HedgedWhenQuiet
  <1>1. ExposureConserved => HedgedWhenQuiet
    <2> SUFFICES ASSUME ExposureConserved, businessPc = "poll", Standing \subseteq filled
                 PROVE  Net(filled) = 0
      BY DEF HedgedWhenQuiet
    <2>1. filled = Standing
      BY DEF ExposureConserved
    <2> QED  BY <2>1 DEF ExposureConserved, HalfPair
  <1> QED  BY <1>1, ExposureIsConserved, PTL

-----------------------------------------------------------------------------
(* The parity test.  The office knows of its pairs only a count, so that a *)
(* pair is settled follows from the count alone, together with what can    *)
(* have become of the two legs.                                            *)

\* The pair an order is part of: a correction is part of that of its leg.
PairOf(i) ==
    IF orders[i].corrects = 0 THEN orders[i].id
    ELSE orders[executions[orders[i].corrects].reports].id

\* The orders of the last pair on a side.
OfPair(S, side) == {i \in S : PairOf(i) = pairs /\ orders[i].side = side}

FillOn(side) == IF OfPair(filled, side) = {} THEN 0 ELSE 1

\* What the handled fills of the last pair on a side have added to the count: a filled
\* leg adds one, a filled correction takes one away.
Gain(side) ==
    LET done == OfPair(filled \cap Reported, side)
    IN  IF done \cap Legs # {} THEN 1 ELSE IF done # {} THEN -1 ELSE 0

\* The count when the last pair was triggered.
Before == ordersCount - Gain("BUY") - Gain("SELL")

\* An office that polls orders gates their ring.
GateInv ==
    \A b \in Brokers :
       tradePc[b] \in {"fix", "waiting", "orders"} => b \in orderRing.gates

\* An order has one answer, and the reports repeat it.
AnswerInv ==
    /\ filled \cap rejected = {}
    /\ \A b \in Brokers : \A k \in 1 .. Len(inbox[b]) :
          inbox[b][k].isFilled => inbox[b][k].order \in filled
    /\ \A n \in DOMAIN executions :
          executions[n].isFilled => executions[n].reports \in filled

\* Every pair has at most one leg on a side.
LegInv ==
    /\ \A i \in Legs : orders[i].id \in 1 .. pairs
    /\ \A i, j \in Legs :
          orders[i].id = orders[j].id /\ orders[i].side = orders[j].side => i = j
    /\ businessPc = "new" => orders = << >> /\ pairs = 0
    /\ businessPc = "first" => \A i \in Legs : orders[i].id # pairs
    /\ businessPc = "second" =>
          \A i \in Legs : orders[i].id = pairs => orders[i].side = FirstSide

\* Only orders of the last pair are on their way, and none while no pair is delayed.
QuietInv ==
    DelayCovers =>
       /\ \A i \in InFlight : PairOf(i) = pairs
       /\ ~isOrderDelayed /\ businessPc # "second" => InFlight = {}

\* The earlier pairs are hedged, and the count was even when the last was triggered.
CountInv ==
    DelayCovers =>
       /\ Net(filled) = FillOn("BUY") - FillOn("SELL")
       /\ pairs # 0 => Before % 2 = 0

SettledInv == IInv /\ GateInv /\ AnswerInv /\ LegInv /\ QuietInv /\ CountInv

\* A leg is an order.
LEMMA LegPublished ==
    ASSUME TypeInv, FirstLeg \/ SecondLeg
    PROVE  \E e \in OrderEvent : orderRing' = Publish(orderRing, e)
  <1>1. /\ FirstSide \in Sides /\ SecondSide \in Sides
        /\ priceA.broker \in Brokers \cup {"NONE"}
        /\ priceB.broker \in Brokers \cup {"NONE"}
    BY DEF FirstSide, SecondSide, Sides, Brokers, TypeInv, TypeOK, TypeOKBusiness
  <1>2. \A broker \in Brokers \cup {"NONE"}, side \in Sides : Leg(broker, side) \in OrderEvent
    BY DEF Leg, OrderEvent, TypeInv, TypeOK, TypeOKBusiness
  <1> QED  BY <1>1, <1>2 DEF FirstLeg, SecondLeg

\* Nothing is taken out of a log.
LEMMA Growth ==
    ASSUME IInv, [Next]_vars
    PROVE  /\ DOMAIN orders \subseteq DOMAIN orders'
           /\ \A i \in DOMAIN orders : orders'[i] = orders[i]
           /\ \A n \in DOMAIN executions : executions'[n] = executions[n]
  <1> USE DEF ringVars, businessVars, tradeVars
  <1>0. TypeInv
    BY DEF IInv
  <1>a. handled \in Nat /\ available \in Nat /\ Len(orders) \in Nat
    BY <1>0, LogTypes DEF TypeInv, TypeOK, TypeOKBusiness
  <1>1. CASE BusinessStep /\ UNCHANGED tradeVars
    <2>1. CASE BusinessInitiate \/ BusinessTerminate
      BY <1>0, <2>1, SameLogs DEF BusinessInitiate, BusinessTerminate
    <2>2. CASE PollExecutions \/ \E b \in Brokers, q \in Quotes : PollPrices(b, q)
      BY <2>2 DEF PollExecutions, PollPrices, orders, executions
    <2>3. CASE EndOfPoll
      BY <1>0, <1>a, <2>3, SameLogs DEF EndOfPoll
    <2>4. ASSUME NEW e \in OrderEvent, orderRing' = Publish(orderRing, e),
                 UNCHANGED <<execRing, isRunning>>
          PROVE  /\ DOMAIN orders \subseteq DOMAIN orders'
                 /\ \A i \in DOMAIN orders : orders'[i] = orders[i]
                 /\ \A n \in DOMAIN executions : executions'[n] = executions[n]
      BY <1>0, <2>4, PublishOrderType DEF executions
    <2>5. CASE HandleExecution
      <3>1. handled + 1 \in DOMAIN executions
        BY <1>0, <1>a, <2>5, LogTypes DEF HandleExecution, TypeInv, Bounded
      <3>2. Correction(executions[handled + 1], handled + 1) \in OrderEvent
        <4>1. executions[handled + 1] \in ExecutionEvent
          BY <1>0, <3>1, LogTypes
        <4> QED  BY <1>a, <4>1 DEF Correction, OrderEvent, ExecutionEvent, CORRECTION_ID,
                        CorrectionBroker, CorrectionSide, Brokers, Sides
      <3>3. CASE NeedsCorrection(executions[handled + 1])
        BY <2>4, <2>5, <3>2, <3>3 DEF HandleExecution
      <3>4. CASE ~NeedsCorrection(executions[handled + 1])
        BY <2>5, <3>4 DEF HandleExecution, orders, executions
      <3> QED  BY <3>3, <3>4
    <2>6. CASE FirstLeg \/ SecondLeg
      BY <1>0, <2>4, <2>6, LegPublished DEF FirstLeg, SecondLeg
    <2> QED  BY <1>1, <2>1, <2>2, <2>3, <2>5, <2>6
             DEF BusinessStep, StillDelayed, NoTrade, Trigger
  <1>2. ASSUME NEW b \in Brokers, TradeStep(b) \/ SessionFails(b)
        PROVE  orders' = orders /\ \A n \in DOMAIN executions : executions'[n] = executions[n]
    BY <1>0, <1>2, TradeLogs
  <1>3. CASE BrokerStep
    BY <1>3 DEF BrokerStep, BrokerAnswers, orders, executions
  <1>4. CASE UNCHANGED vars
    BY <1>4 DEF vars, orders, executions
  <1> QED  BY <1>1, <1>2, <1>3, <1>4 DEF Next, Joined

\* What a correction is linked to.
LEMMA CorrectsLeg ==
    ASSUME IInv, NEW i \in DOMAIN orders, orders[i].corrects # 0
    PROVE  LET r == executions[orders[i].corrects].reports
           IN  /\ orders[i].corrects \in DOMAIN executions
               /\ orders[i].corrects \in 1 .. handled
               /\ r \in Legs /\ r \in rejected /\ r \in Reported
               /\ orders[i].side = orders[r].side /\ PairOf(i) = orders[r].id
  <1>0. TypeInv /\ LinkInv
    BY DEF IInv
  <1>1. /\ orders[i].corrects \in 1 .. handled
        /\ RejectsLeg(executions[orders[i].corrects])
        /\ orders[i].side = executions[orders[i].corrects].side
    BY <1>0 DEF LinkInv, OrdersLinked
  <1>2. orders[i].corrects \in DOMAIN executions
    <2>1. /\ handled \in Nat /\ available \in Nat
          /\ handled <= available /\ available <= Len(executions)
          /\ Len(executions) \in Nat /\ DOMAIN executions = 1 .. Len(executions)
      BY <1>0, LogTypes DEF TypeInv, TypeOK, TypeOKBusiness, Bounded
    <2> QED  BY <1>1, <2>1
  <1> DEFINE e == executions[orders[i].corrects]
  <1>3. /\ e.reports \in DOMAIN orders /\ e.reports \in rejected
        /\ e.side = orders[e.reports].side /\ e.id = orders[e.reports].id
    BY <1>0, <1>1, <1>2 DEF LinkInv, ExecutionsLinked, RejectsLeg
  <1>4. e.reports \in Legs
    BY <1>0, <1>1, <1>3 DEF LinkInv, OrdersLinked, RejectsLeg, Legs, Corrections
  <1>5. e.reports \in Reported
    BY <1>1 DEF Reported
  <1> QED  BY <1>1, <1>2, <1>3, <1>4, <1>5 DEF PairOf

\* An order stays in its pair.
LEMMA PairOfKept ==
    ASSUME IInv, [Next]_vars
    PROVE  /\ \A i \in DOMAIN orders : PairOf(i)' = PairOf(i) /\ (i \in Legs' <=> i \in Legs)
           /\ Legs \subseteq Legs'
  <1>1. /\ DOMAIN orders \subseteq DOMAIN orders'
        /\ \A i \in DOMAIN orders : orders'[i] = orders[i]
        /\ \A n \in DOMAIN executions : executions'[n] = executions[n]
    BY Growth
  <1>2. ASSUME NEW i \in DOMAIN orders PROVE PairOf(i)' = PairOf(i)
    <2>1. CASE orders[i].corrects = 0
      BY <1>1, <2>1 DEF PairOf
    <2>2. CASE orders[i].corrects # 0
      <3>1. /\ orders[i].corrects \in DOMAIN executions
            /\ executions[orders[i].corrects].reports \in DOMAIN orders
        BY <2>2, CorrectsLeg DEF Legs
      <3> QED  BY <1>1, <2>2, <3>1 DEF PairOf
    <2> QED  BY <2>1, <2>2
  <1>3. \A i \in DOMAIN orders : i \in Legs' <=> i \in Legs
    BY <1>1 DEF Legs, Corrections
  <1>4. Legs \subseteq DOMAIN orders
    BY DEF Legs
  <1> QED  BY <1>2, <1>3, <1>4

\* Two orders of one pair on one side: one is a leg that the other corrects.
LEMMA OneSlot ==
    ASSUME IInv, LegInv, NEW i \in DOMAIN orders, NEW k \in DOMAIN orders, i # k,
           PairOf(i) = PairOf(k), orders[i].side = orders[k].side
    PROVE  (i \in rejected \cap Legs /\ i \in Reported)
              \/ (k \in rejected \cap Legs /\ k \in Reported)
  <1> DEFINE R(j) == executions[orders[j].corrects].reports
  <1>1. \A j \in DOMAIN orders : orders[j].corrects = 0 => j \in Legs /\ PairOf(j) = orders[j].id
    BY DEF Legs, Corrections, PairOf
  <1>2. \A j \in DOMAIN orders : orders[j].corrects # 0 =>
           /\ R(j) \in Legs /\ R(j) \in rejected /\ R(j) \in Reported
           /\ orders[j].side = orders[R(j)].side /\ PairOf(j) = orders[R(j)].id
           /\ orders[j].corrects \in DOMAIN executions
    BY CorrectsLeg
  <1>3. \A a, b \in Legs :
           orders[a].id = orders[b].id /\ orders[a].side = orders[b].side => a = b
    BY DEF LegInv
  <1>4. CASE orders[i].corrects = 0 /\ orders[k].corrects = 0
    BY <1>1, <1>3, <1>4
  <1>5. CASE orders[i].corrects = 0 /\ orders[k].corrects # 0
    <2>1. i = R(k)
      BY <1>1, <1>2, <1>3, <1>5
    <2> QED  BY <1>2, <1>5, <2>1
  <1>6. CASE orders[i].corrects # 0 /\ orders[k].corrects = 0
    <2>1. k = R(i)
      BY <1>1, <1>2, <1>3, <1>6
    <2> QED  BY <1>2, <1>6, <2>1
  <1>7. CASE orders[i].corrects # 0 /\ orders[k].corrects # 0
    <2>1. R(i) = R(k)
      BY <1>2, <1>3, <1>7
    <2>2. orders[i].corrects = orders[k].corrects
      BY <1>2, <1>7, <2>1 DEF IInv, LinkInv, ReportedOnce
    <2> QED  BY <1>7, <2>2 DEF IInv, LinkInv, OrdersLinked
  <1> QED  BY <1>4, <1>5, <1>6, <1>7

\* Attaching and detaching an office changes the gates, and nothing else does.
LEMMA GateNext == ASSUME IInv, GateInv, [Next]_vars PROVE GateInv'
  <1> USE DEF ringVars, businessVars, tradeVars
  <1>0. /\ orderRing \in Rings(OrderEvent, Brokers)
        /\ tradePc \in [Brokers -> {"new", "fix", "waiting", "orders", "stopped"}]
    BY DEF IInv, TypeInv, TypeOK, TypeOKRings, TypeOKTrade
  <1>1. ASSUME orderRing'.gates = orderRing.gates,
               \/ UNCHANGED tradePc
               \/ \E b \in Brokers, pc \in {"fix", "waiting", "orders"} :
                     /\ tradePc[b] \in {"fix", "waiting", "orders"}
                     /\ tradePc' = [tradePc EXCEPT ![b] = pc]
        PROVE  GateInv'
    BY <1>0, <1>1 DEF GateInv
  <1>2. CASE BusinessStep /\ UNCHANGED tradeVars
    <2>1. orderRing' = orderRing \/ \E e : orderRing' = Publish(orderRing, e)
      BY <1>2 DEF BusinessStep, BusinessInitiate, PollPrices, PollExecutions, HandleExecution,
             StillDelayed, NoTrade, Trigger, EndOfPoll, FirstLeg, SecondLeg, BusinessTerminate
    <2>2. orderRing'.gates = orderRing.gates
      BY <1>0, <2>1 DEF Publish, Rings
    <2> QED  BY <1>1, <1>2, <2>2
  <1>3. ASSUME NEW b \in Brokers, TradeInitiate(b) PROVE GateInv'
    <2>1. tradePc' = [tradePc EXCEPT ![b] = "fix"] /\ orderRing' = AddGate(orderRing, b)
      BY <1>3 DEF TradeInitiate
    <2>2. orderRing'.gates = orderRing.gates \cup {b}
      BY <1>0, <2>1 DEF AddGate, Rings
    <2> QED  BY <1>0, <2>1, <2>2 DEF GateInv
  <1>4. ASSUME NEW b \in Brokers, WaitForRoom(b) \/ PublishReport(b) PROVE GateInv'
    BY <1>1, <1>4 DEF WaitForRoom, PublishReport
  <1>5. ASSUME NEW b \in Brokers, PollOrders(b) PROVE GateInv'
    <2>1. \E last : orderRing' = ConsumeTo(orderRing, b, last)
      BY <1>5 DEF PollOrders
    <2>2. orderRing'.gates = orderRing.gates
      BY <1>0, <2>1 DEF ConsumeTo, Rings
    <2> QED  BY <1>1, <1>5, <2>2 DEF PollOrders
  <1>6. ASSUME NEW b \in Brokers, TradeTerminate(b) \/ SessionFails(b) PROVE GateInv'
    <2>1. tradePc' = [tradePc EXCEPT ![b] = "stopped"] /\ orderRing' = RemoveGate(orderRing, b)
      BY <1>6 DEF TradeTerminate, SessionFails, Detached
    <2>2. orderRing'.gates = orderRing.gates \ {b}
      BY <1>0, <2>1 DEF RemoveGate, Rings
    <2> QED  BY <1>0, <2>1, <2>2 DEF GateInv
  <1>7. CASE BrokerStep \/ UNCHANGED vars
    BY <1>1, <1>7 DEF BrokerStep, BrokerAnswers, vars
  <1> QED  BY <1>2, <1>3, <1>4, <1>5, <1>6, <1>7 DEF Next, Joined, TradeStep

\* A fill is reported as a fill.
LEMMA AnswerNext == ASSUME IInv, AnswerInv, [Next]_vars PROVE AnswerInv'
  <1> USE DEF ringVars, businessVars, tradeVars
  <1>0. TypeInv /\ LinkInv
    BY DEF IInv
  <1>1. ASSUME executions' = executions, UNCHANGED <<inbox, filled, rejected>>
        PROVE  AnswerInv'
    BY <1>1 DEF AnswerInv
  <1>2. CASE BusinessStep /\ UNCHANGED tradeVars
    <2>1. available \in Nat
      BY <1>0 DEF TypeInv, TypeOK, TypeOKBusiness
    <2>2. CASE BusinessInitiate \/ BusinessTerminate \/ EndOfPoll
      <3>1. executions' = executions
        BY <1>0, <2>1, <2>2, SameLogs DEF BusinessInitiate, BusinessTerminate, EndOfPoll
      <3> QED  BY <1>1, <1>2, <3>1
    <2>3. CASE UNCHANGED execRing
      BY <1>1, <1>2, <2>3 DEF executions
    <2> QED  BY <1>2, <2>2, <2>3
             DEF BusinessStep, PollPrices, PollExecutions, HandleExecution, StillDelayed,
                 NoTrade, Trigger, FirstLeg, SecondLeg
  <1>3. ASSUME NEW b \in Brokers, PublishReport(b) PROVE AnswerInv'
    <2> DEFINE r == Head(inbox[b])
    <2>1. /\ inbox[b] \in Seq(Report) /\ inbox[b] # << >> /\ Len(inbox[b]) \in Nat
          /\ r = inbox[b][1] /\ 1 \in 1 .. Len(inbox[b]) /\ r \in Report
      BY <1>0, <1>3, LogTypes DEF PublishReport
    <2>2. r.isFilled => r.order \in filled
      BY <2>1 DEF AnswerInv
    <2>3. ExecutionOf(b, r) \in ExecutionEvent
      <3>1. orders[r.order] \in OrderEvent
        BY <1>0, <2>1, LogTypes DEF TypeInv, Bounded, InboxBounded
      <3>2. r.order \in Nat /\ r.isFilled \in BOOLEAN
        BY <2>1 DEF Report
      <3> QED  BY <3>1, <3>2 DEF ExecutionOf, ExecutionEvent, OrderEvent
    <2>4. /\ execRing' = Publish(execRing, ExecutionOf(b, r))
          /\ UNCHANGED <<orderRing, isRunning, filled, rejected>>
          /\ inbox' = [inbox EXCEPT ![b] = Tail(inbox[b])]
          /\ inbox \in [Brokers -> Seq(Report)]
      BY <1>0, <1>3 DEF PublishReport, TypeInv, TypeOK, TypeOKTrade
    <2>5. /\ DOMAIN executions' = 1 .. (Len(executions) + 1)
          /\ DOMAIN executions = 1 .. Len(executions) /\ Len(executions) \in Nat
          /\ \A n \in DOMAIN executions : executions'[n] = executions[n]
          /\ executions'[Len(executions) + 1] = ExecutionOf(b, r)
      BY <1>0, <2>3, <2>4, PublishExecutionType, LogTypes
    <2>6. /\ ExecutionOf(b, r).isFilled = r.isFilled
          /\ ExecutionOf(b, r).reports = r.order
      BY DEF ExecutionOf
    <2> HIDE DEF r
    <2>7. ASSUME NEW n \in DOMAIN executions', executions'[n].isFilled
          PROVE  executions'[n].reports \in filled
      <3>1. CASE n \in DOMAIN executions
        BY <2>5, <2>7, <3>1 DEF AnswerInv
      <3>2. CASE n = Len(executions) + 1
        BY <2>2, <2>5, <2>6, <2>7, <3>2
      <3> QED  BY <2>5, <3>1, <3>2
    <2>8. ASSUME NEW a \in Brokers, NEW k \in 1 .. Len(inbox'[a]), inbox'[a][k].isFilled
          PROVE  inbox'[a][k].order \in filled
      <3>1. CASE a = b
        <4>1. inbox'[b] = Tail(inbox[b]) /\ Len(Tail(inbox[b])) = Len(inbox[b]) - 1
          BY <2>1, <2>4
        <4>2. k \in Nat /\ k + 1 \in 1 .. Len(inbox[b]) /\ k \in 1 .. Len(Tail(inbox[b]))
          BY <2>1, <3>1, <4>1
        <4>3. Tail(inbox[b])[k] = inbox[b][k + 1]
          BY <2>1, <4>2
        <4> QED  BY <2>8, <3>1, <4>1, <4>2, <4>3 DEF AnswerInv
      <3>2. CASE a # b
        BY <2>4, <2>8, <3>2 DEF AnswerInv
      <3> QED  BY <3>1, <3>2
    <2> QED  BY <2>4, <2>7, <2>8 DEF AnswerInv
  <1>4. ASSUME NEW b \in Brokers, (TradeStep(b) /\ ~PublishReport(b)) \/ SessionFails(b)
        PROVE  AnswerInv'
    BY <1>1, <1>4
       DEF TradeStep, TradeInitiate, WaitForRoom, PollOrders, TradeTerminate, SessionFails,
           executions
  <1>5. CASE BrokerStep
    <2>1. PICK i \in received, isFilled \in BOOLEAN : BrokerAnswers(i, isFilled)
      BY <1>5 DEF BrokerStep
    <2> DEFINE a == orders[i].broker
               r == [order |-> i, isFilled |-> isFilled]
    <2>2. /\ i \notin filled \cup rejected /\ a \in Brokers /\ i \in Nat /\ r \in Report
      BY <1>0, <2>1 DEF TypeInv, TypeOK, TypeOKTrade, LinkInv, Answers, BrokerAnswers, Report
    <2>3. /\ inbox \in [Brokers -> Seq(Report)]
          /\ inbox' = [inbox EXCEPT ![a] = Append(inbox[a], r)]
          /\ executions' = executions
          /\ filled \subseteq filled'
          /\ isFilled => filled' = filled \cup {i} /\ rejected' = rejected
          /\ ~isFilled => filled' = filled /\ rejected' = rejected \cup {i}
      BY <1>0, <2>1 DEF BrokerAnswers, TypeInv, TypeOK, TypeOKTrade, executions
    <2>4. /\ Len(inbox[a]) \in Nat /\ inbox'[a] = Append(inbox[a], r)
          /\ Len(inbox'[a]) = Len(inbox[a]) + 1
          /\ \A k \in 1 .. Len(inbox[a]) : inbox'[a][k] = inbox[a][k]
          /\ inbox'[a][Len(inbox[a]) + 1] = r
      BY <2>2, <2>3, AppendFacts
    <2>5. r.order = i /\ r.isFilled = isFilled
      OBVIOUS
    <2> HIDE DEF r
    <2>6. ASSUME NEW b \in Brokers, NEW k \in 1 .. Len(inbox'[b]), inbox'[b][k].isFilled
          PROVE  inbox'[b][k].order \in filled'
      <3>1. CASE b # a
        <4>1. inbox'[b] = inbox[b]
          BY <2>3, <3>1
        <4> QED  BY <2>3, <2>6, <4>1 DEF AnswerInv
      <3>2. CASE b = a /\ k = Len(inbox[a]) + 1
        BY <2>3, <2>4, <2>5, <2>6, <3>2
      <3>3. CASE b = a /\ k # Len(inbox[a]) + 1
        <4>1. k \in 1 .. Len(inbox[a])
          BY <2>4, <3>3
        <4> QED  BY <2>3, <2>4, <2>6, <3>3, <4>1 DEF AnswerInv
      <3> QED  BY <3>1, <3>2, <3>3
    <2>7. \A n \in DOMAIN executions' :
             executions'[n].isFilled => executions'[n].reports \in filled'
      BY <2>3 DEF AnswerInv
    <2>8. filled' \cap rejected' = {}
      BY <2>2, <2>3 DEF AnswerInv
    <2> QED  BY <2>6, <2>7, <2>8 DEF AnswerInv
  <1>6. CASE UNCHANGED vars
    BY <1>1, <1>6 DEF vars, executions
  <1> QED  BY <1>2, <1>3, <1>4, <1>5, <1>6 DEF Next, Joined

\* A new order is a leg of the pair under way, or the correction of the execution that
\* is handled.
LEMMA NewOrder ==
    ASSUME IInv, [Next]_vars, NEW i \in DOMAIN orders', i \notin DOMAIN orders
    PROVE  /\ i = Len(orders) + 1 /\ DOMAIN orders' = DOMAIN orders \cup {i}
           /\ executions' = executions /\ UNCHANGED tradeVars
           /\ \/ FirstLeg /\ orders'[i] = Leg(priceA.broker, FirstSide)
              \/ SecondLeg /\ orders'[i] = Leg(priceB.broker, SecondSide)
              \/ /\ HandleExecution /\ RejectsLeg(executions[handled + 1])
                 /\ orders'[i] = Correction(executions[handled + 1], handled + 1)
                 /\ handled + 1 \in DOMAIN executions
  <1> USE DEF ringVars, businessVars, tradeVars
  <1>0. TypeInv
    BY DEF IInv
  <1>a. /\ handled \in Nat /\ available \in Nat /\ Len(orders) \in Nat
        /\ DOMAIN orders = 1 .. Len(orders)
    BY <1>0, LogTypes DEF TypeInv, TypeOK, TypeOKBusiness
  <1>b. orders' # orders
    OBVIOUS
  <1>1. ASSUME NEW b \in Brokers, TradeStep(b) \/ SessionFails(b) PROVE FALSE
    BY <1>0, <1>1, <1>b, TradeLogs
  <1>2. BusinessStep /\ UNCHANGED tradeVars
    BY <1>1, <1>b DEF Next, Joined, BrokerStep, BrokerAnswers, vars, orders
  <1>3. HandleExecution \/ FirstLeg \/ SecondLeg
    <2>1. CASE BusinessInitiate \/ BusinessTerminate \/ EndOfPoll
      BY <1>0, <1>a, <1>b, <2>1, SameLogs DEF BusinessInitiate, BusinessTerminate, EndOfPoll
    <2>2. CASE UNCHANGED orderRing
      BY <1>b, <2>2 DEF orders
    <2> QED  BY <1>2, <2>1, <2>2
             DEF BusinessStep, PollPrices, PollExecutions, StillDelayed, NoTrade, Trigger
  <1>4. ASSUME NEW e \in OrderEvent, orderRing' = Publish(orderRing, e),
               UNCHANGED <<execRing, isRunning>>
        PROVE  /\ i = Len(orders) + 1 /\ DOMAIN orders' = DOMAIN orders \cup {i}
               /\ executions' = executions /\ orders'[i] = e
    <2>1. /\ DOMAIN orders' = 1 .. (Len(orders) + 1) /\ orders'[Len(orders) + 1] = e
      BY <1>0, <1>4, PublishOrderType
    <2>2. i = Len(orders) + 1
      BY <1>a, <2>1
    <2> QED  BY <1>4, <1>a, <2>1, <2>2 DEF executions
  <1>5. CASE HandleExecution
    <2>1. handled + 1 \in DOMAIN executions
      BY <1>0, <1>a, <1>5, LogTypes DEF HandleExecution, TypeInv, Bounded
    <2>2. Correction(executions[handled + 1], handled + 1) \in OrderEvent
      <3>1. executions[handled + 1] \in ExecutionEvent
        BY <1>0, <2>1, LogTypes
      <3> QED  BY <1>a, <3>1 DEF Correction, OrderEvent, ExecutionEvent, CORRECTION_ID,
                      CorrectionBroker, CorrectionSide, Brokers, Sides
    <2>3. NeedsCorrection(executions[handled + 1])
      BY <1>5, <1>b DEF HandleExecution, orders
    <2>4. RejectsLeg(executions[handled + 1])
      BY <2>3 DEF NeedsCorrection, RejectsLeg, IsCorrection
    <2>5. /\ orderRing' = Publish(orderRing, Correction(executions[handled + 1], handled + 1))
          /\ UNCHANGED <<execRing, isRunning>>
      BY <1>5, <2>3 DEF HandleExecution
    <2> QED  BY <1>2, <1>4, <1>5, <2>1, <2>2, <2>4, <2>5
  <1>6. CASE FirstLeg \/ SecondLeg
    <2>1. /\ FirstSide \in Sides /\ SecondSide \in Sides
          /\ priceA.broker \in Brokers \cup {"NONE"}
          /\ priceB.broker \in Brokers \cup {"NONE"}
      BY <1>0 DEF FirstSide, SecondSide, Sides, Brokers, TypeInv, TypeOK, TypeOKBusiness
    <2>2. \A broker \in Brokers \cup {"NONE"}, side \in Sides : Leg(broker, side) \in OrderEvent
      BY <1>0 DEF Leg, OrderEvent, TypeInv, TypeOK, TypeOKBusiness
    <2>3. CASE FirstLeg
      BY <1>2, <1>4, <2>1, <2>2, <2>3 DEF FirstLeg
    <2>4. CASE SecondLeg
      BY <1>2, <1>4, <2>1, <2>2, <2>4 DEF SecondLeg
    <2> QED  BY <1>6, <2>3, <2>4
  <1> QED  BY <1>3, <1>5, <1>6

\* The pair that a new order is part of.
LEMMA NewOrderPair ==
    ASSUME IInv, [Next]_vars, NEW i \in DOMAIN orders', i \notin DOMAIN orders
    PROVE  /\ pairs' = pairs
           /\ \/ /\ i \in Legs' /\ PairOf(i)' = pairs /\ orders'[i].id = pairs
                 /\ \/ FirstLeg /\ orders'[i].side = FirstSide
                    \/ SecondLeg /\ orders'[i].side = SecondSide
                 /\ orders'[i].label = orderType
                 /\ handled' = handled
              \/ /\ HandleExecution /\ i \notin Legs'
                 /\ handled + 1 \in DOMAIN executions
                 /\ executions[handled + 1].reports \in Legs
                 /\ PairOf(i)' = PairOf(executions[handled + 1].reports)
  <1> DEFINE n == handled + 1
             r == executions[n].reports
  <1>1. /\ executions' = executions
        /\ \/ FirstLeg /\ orders'[i] = Leg(priceA.broker, FirstSide)
           \/ SecondLeg /\ orders'[i] = Leg(priceB.broker, SecondSide)
           \/ /\ HandleExecution /\ RejectsLeg(executions[n])
              /\ orders'[i] = Correction(executions[n], n)
              /\ n \in DOMAIN executions
    BY NewOrder
  <1>2. ASSUME NEW broker, NEW side, orders'[i] = Leg(broker, side)
        PROVE  /\ i \in Legs' /\ PairOf(i)' = pairs /\ orders'[i].id = pairs
               /\ orders'[i].side = side /\ orders'[i].label = orderType
    <2>1. /\ orders'[i].corrects = 0 /\ orders'[i].id = pairs /\ orders'[i].side = side
          /\ orders'[i].label = orderType
      BY <1>2 DEF Leg
    <2> QED  BY <2>1 DEF Legs, Corrections, PairOf
  <1>3. CASE FirstLeg /\ orders'[i] = Leg(priceA.broker, FirstSide)
    BY <1>2, <1>3 DEF FirstLeg
  <1>4. CASE SecondLeg /\ orders'[i] = Leg(priceB.broker, SecondSide)
    BY <1>2, <1>4 DEF SecondLeg
  <1>5. CASE HandleExecution /\ orders'[i] = Correction(executions[n], n)
    <2>1. n \in DOMAIN executions /\ RejectsLeg(executions[n]) /\ n # 0
      <3>1. handled \in Nat
        BY DEF IInv, TypeInv, TypeOK, TypeOKBusiness
      <3>2. CASE FirstLeg \/ SecondLeg
        BY <1>5, <3>2 DEF HandleExecution, FirstLeg, SecondLeg
      <3> QED  BY <1>1, <3>1, <3>2
    <2>2. orders'[i].corrects = n
      BY <1>5 DEF Correction
    <2>3. r \in DOMAIN orders /\ executions[n].id = orders[r].id
      BY <2>1 DEF IInv, LinkInv, ExecutionsLinked
    <2>4. orders[r].corrects = 0
      BY <2>1, <2>3 DEF IInv, LinkInv, OrdersLinked, RejectsLeg
    <2>5. orders'[r] = orders[r]
      BY <2>3, Growth
    <2>6. PairOf(i)' = PairOf(r) /\ i \notin Legs' /\ r \in Legs
      BY <1>1, <2>1, <2>2, <2>3, <2>4, <2>5 DEF PairOf, Legs, Corrections
    <2> QED  BY <1>5, <2>1, <2>6 DEF HandleExecution
  <1> QED  BY <1>1, <1>3, <1>4, <1>5

\* Legs are only added to the pair under way, the first on one side, the second on
\* the other.
LEMMA LegNext == ASSUME IInv, LegInv, [Next]_vars PROVE LegInv'
  <1> USE DEF ringVars, businessVars, tradeVars
  <1>0. /\ pairs \in Nat
        /\ businessPc \in {"first", "second"} => pairs # 0
        /\ businessPc \in {"new", "poll", "executions", "first", "second", "stopped"}
    BY DEF IInv, TypeInv, TypeOK, TypeOKBusiness, LinkInv
  <1>g. /\ \A i \in DOMAIN orders : orders'[i] = orders[i]
        /\ \A i \in DOMAIN orders : i \in Legs' <=> i \in Legs
        /\ DOMAIN orders \subseteq DOMAIN orders'
    BY Growth, PairOfKept
  <1>l. Legs \subseteq DOMAIN orders /\ Legs' \subseteq DOMAIN orders'
    BY DEF Legs
  <1>1. CASE Legs' \subseteq DOMAIN orders
    <2>1. Legs' = Legs /\ \A i \in Legs : orders'[i] = orders[i]
      BY <1>1, <1>g, <1>l
    <2>2. /\ pairs' \in {pairs, pairs + 1}
          /\ \A i \in Legs' : orders'[i].id \in 1 .. pairs
      <3>1. pairs' \in {pairs, pairs + 1}
        BY DEF Next, Joined, vars, BusinessStep, BusinessInitiate, PollPrices, PollExecutions,
               HandleExecution, StillDelayed, NoTrade, Trigger, FirstLeg, SecondLeg,
               BusinessTerminate
      <3> QED  BY <2>1, <3>1 DEF LegInv
    <2>3. \A i \in Legs' : orders'[i].id \in 1 .. pairs'
      BY <1>0, <2>2
    <2>4. \A i, j \in Legs' :
             orders'[i].id = orders'[j].id /\ orders'[i].side = orders'[j].side => i = j
      BY <2>1 DEF LegInv
    <2>5. CASE UNCHANGED <<businessPc, currentOrder, pairs>>
      <3>1. businessPc = "new" => orders' = orders
        <4>1. CASE businessPc = "new"
          <5> SUFFICES ASSUME orders' # orders PROVE FALSE
            BY <4>1
          <5>1. TypeInv
            BY DEF IInv
          <5>2. \A b \in Brokers : ~(TradeStep(b) \/ SessionFails(b))
            BY <5>1, TradeLogs
          <5> QED  BY <2>5, <4>1, <5>2
                   DEF Next, Joined, vars, BusinessStep, BusinessInitiate, PollPrices,
                       PollExecutions, HandleExecution, StillDelayed, NoTrade, Trigger,
                       EndOfPoll, FirstLeg, SecondLeg, BusinessTerminate, BrokerStep,
                       BrokerAnswers, orders
        <4> QED  BY <4>1
      <3> QED  BY <2>1, <2>3, <2>4, <2>5, <3>1 DEF LegInv, FirstSide
    <2>6. CASE businessPc' \in {"poll", "executions", "stopped"}
      BY <2>3, <2>4, <2>6 DEF LegInv
    <2>7. ASSUME NEW d \in {"A", "B"}, Trigger(d) PROVE LegInv'
      <3>1. businessPc' = "first" /\ pairs' = pairs + 1
        BY <2>7 DEF Trigger
      <3>2. \A i \in Legs' : orders'[i].id # pairs'
        BY <1>0, <2>2, <3>1
      <3> QED  BY <2>3, <2>4, <3>1, <3>2 DEF LegInv
    <2>8. CASE FirstLeg \/ SecondLeg
      <3>1. TypeInv /\ UNCHANGED <<execRing, isRunning>>
        BY <2>8 DEF FirstLeg, SecondLeg, IInv
      <3>2. Len(orders) + 1 \in DOMAIN orders' \ DOMAIN orders
        <4>1. PICK e \in OrderEvent : orderRing' = Publish(orderRing, e)
          BY <2>8, <3>1, LegPublished
        <4> QED  BY <3>1, <4>1, PublishOrderType, LogTypes
      <3>3. Len(orders) + 1 \in Legs'
        BY <2>8, <3>2, NewOrderPair DEF FirstLeg, SecondLeg, HandleExecution
      <3> QED  BY <1>1, <3>2, <3>3
    <2> QED
      BY <2>5, <2>6, <2>7, <2>8
         DEF Next, Joined, vars, BusinessStep, BusinessInitiate, PollPrices, PollExecutions,
             HandleExecution, StillDelayed, NoTrade, BusinessTerminate
  <1>2. ASSUME NEW i \in Legs', i \notin DOMAIN orders PROVE LegInv'
    <2>1. /\ pairs' = pairs /\ orders'[i].id = pairs
          /\ \/ FirstLeg /\ orders'[i].side = FirstSide
             \/ SecondLeg /\ orders'[i].side = SecondSide
          /\ DOMAIN orders' = DOMAIN orders \cup {i}
      BY <1>2, <1>l, NewOrder, NewOrderPair
    <2>2. Legs' = Legs \cup {i} /\ \A j \in Legs : orders'[j] = orders[j]
      BY <1>2, <1>g, <1>l, <2>1
    <2>3. \A j \in Legs : orders[j].id = pairs => orders[j].side # orders'[i].side
      BY <2>1 DEF LegInv, FirstLeg, SecondLeg, FirstSide, SecondSide
    <2>4. pairs # 0
      BY <1>0, <2>1 DEF FirstLeg, SecondLeg
    <2>5. \A j \in Legs' : orders'[j].id \in 1 .. pairs'
      BY <1>0, <2>1, <2>2, <2>4 DEF LegInv
    <2>6. \A j, k \in Legs' :
             orders'[j].id = orders'[k].id /\ orders'[j].side = orders'[k].side => j = k
      BY <2>1, <2>2, <2>3 DEF LegInv
    <2>7. CASE FirstLeg /\ orders'[i].side = FirstSide
      <3>1. businessPc' = "second" /\ FirstSide' = FirstSide
        BY <2>7 DEF FirstLeg, FirstSide
      <3>2. \A j \in Legs' : orders'[j].id = pairs' => orders'[j].side = FirstSide'
        BY <2>1, <2>2, <2>7, <3>1 DEF LegInv, FirstLeg
      <3> QED  BY <2>5, <2>6, <3>1, <3>2 DEF LegInv
    <2>8. CASE SecondLeg
      BY <2>5, <2>6, <2>8 DEF LegInv, SecondLeg
    <2> QED  BY <2>1, <2>7, <2>8
  <1> QED  BY <1>1, <1>2

-----------------------------------------------------------------------------
(* What is on its way.                                                     *)

\* An order is on its way until the answer to it is handled, or it is lost.
LEMMA InFlightIs ==
    ASSUME IInv
    PROVE  /\ InFlight = Unpolled \cup (received \ Reported)
           /\ Unpolled \subseteq DOMAIN orders /\ received \subseteq DOMAIN orders
           /\ Reported \subseteq filled \cup rejected
           /\ \A n \in DOMAIN executions : n \in 1 .. handled <=> ~(n > handled)
           /\ 1 .. handled \subseteq DOMAIN executions
  <1>1. /\ handled \in Nat /\ available \in Nat
        /\ handled <= available /\ available <= Len(executions)
        /\ Len(executions) \in Nat /\ DOMAIN executions = 1 .. Len(executions)
    BY LogTypes DEF IInv, TypeInv, TypeOK, TypeOKBusiness, Bounded
  <1>2. /\ 1 .. handled \subseteq DOMAIN executions
        /\ \A n \in DOMAIN executions : n \in 1 .. handled <=> ~(n > handled)
    BY <1>1
  <1>3. Reported \subseteq filled \cup rejected
    BY <1>2 DEF Reported, IInv, LinkInv, ExecutionsLinked
  <1>4. filled \cup rejected \subseteq received /\ received \subseteq DOMAIN orders
    BY DEF IInv, TypeInv, Bounded, LinkInv, Answers
  <1>5. InFlight = Unpolled \cup (received \ Reported)
    BY <1>4 DEF InFlight, Unanswered
  <1> QED  BY <1>2, <1>3, <1>4, <1>5 DEF Unpolled

\* The order that an unhandled execution reports on is on its way.
LEMMA UnhandledInFlight ==
    ASSUME IInv, NEW n \in DOMAIN executions, n > handled
    PROVE  /\ executions[n].reports \in InFlight
           /\ executions[n].reports \in received
           /\ executions[n].reports \notin Reported
  <1>1. executions[n].reports \in received
    BY DEF IInv, LinkInv, ExecutionsLinked, Answers
  <1>2. ASSUME executions[n].reports \in Reported PROVE FALSE
    <2>1. PICK m \in 1 .. handled : executions[m].reports = executions[n].reports
      BY <1>2 DEF Reported
    <2>2. m \in DOMAIN executions
      BY <2>1, InFlightIs
    <2>3. m = n
      BY <2>1, <2>2 DEF IInv, LinkInv, ReportedOnce
    <2> QED  BY <2>1, <2>3, InFlightIs
  <1> QED  BY <1>1, <1>2, InFlightIs

\* The reports that were handled stay handled.
LEMMA ReportedGrows ==
    ASSUME IInv, [Next]_vars
    PROVE  handled' \in Nat /\ handled <= handled' /\ Reported \subseteq Reported'
  <1> USE DEF ringVars, businessVars, tradeVars
  <1>1. /\ handled \in Nat /\ Len(executions) \in Nat
        /\ handled <= Len(executions)
        /\ handled' \in {handled, handled + 1, Len(executions)}
    <2>1. /\ handled \in Nat /\ available \in Nat /\ Len(executions) \in Nat
          /\ handled <= available /\ available <= Len(executions)
      BY LogTypes DEF IInv, TypeInv, TypeOK, TypeOKBusiness, Bounded
    <2>2. handled' \in {handled, handled + 1, Len(executions)}
      BY DEF Next, Joined, vars, BusinessStep, BusinessInitiate, PollPrices, PollExecutions,
             HandleExecution, StillDelayed, NoTrade, Trigger, EndOfPoll, FirstLeg, SecondLeg,
             BusinessTerminate
    <2> QED  BY <2>1, <2>2
  <1>2. handled' \in Nat /\ handled <= handled' /\ 1 .. handled \subseteq 1 .. handled'
    BY <1>1
  <1>3. \A n \in 1 .. handled : executions'[n] = executions[n]
    BY Growth, InFlightIs
  <1> QED  BY <1>2, <1>3 DEF Reported

\* The position of a poller never goes back, but where an office is attached: there it
\* is moved to the last order.
LEMMA SeqStep ==
    ASSUME TypeInv, [Next]_vars, NEW b \in Brokers, b \in orderRing'.gates
    PROVE  \/ b \in orderRing.gates /\ orderRing'.seq[b] >= orderRing.seq[b]
           \/ orderRing'.seq[b] = Len(orders)
  <1> USE DEF ringVars, businessVars, tradeVars
  <1>0. /\ orderRing \in Rings(OrderEvent, Brokers) /\ orderRing.seq \in [Brokers -> Nat]
        /\ Len(orders) \in Nat /\ DOMAIN orders = 1 .. Len(orders)
        /\ orderRing.gates \subseteq Brokers
    BY LogTypes DEF TypeInv, TypeOK, TypeOKRings, Rings
  <1> DEFINE Held == b \in orderRing.gates /\ orderRing'.seq[b] >= orderRing.seq[b]
             Joins == orderRing'.seq[b] = Len(orders)
             Kept == orderRing' = orderRing \/ \E e : orderRing' = Publish(orderRing, e)
             Gated ==
                \E c \in Brokers :
                   orderRing' \in {AddGate(orderRing, c), RemoveGate(orderRing, c)}
             Consumed ==
                \E c \in Brokers : \E n \in orderRing.seq[c] .. Len(orders) :
                   orderRing' = ConsumeTo(orderRing, c, n)
  <1>1. CASE Kept
    <2>1. orderRing'.gates = orderRing.gates /\ orderRing'.seq = orderRing.seq
      BY <1>0, <1>1 DEF Publish, Rings
    <2> QED  BY <1>0, <2>1
  <1>2. CASE \E c \in Brokers : orderRing' = RemoveGate(orderRing, c)
    <2>1. orderRing'.gates \subseteq orderRing.gates /\ orderRing'.seq = orderRing.seq
      BY <1>0, <1>2 DEF RemoveGate, Rings
    <2> QED  BY <1>0, <2>1
  <1>3. ASSUME NEW c \in Brokers, orderRing' = AddGate(orderRing, c)
        PROVE  Held \/ Joins
    <2>1. orderRing'.gates = orderRing.gates \cup {c}
          /\ orderRing'.seq = [orderRing.seq EXCEPT ![c] = Len(orders)]
      BY <1>0, <1>3 DEF AddGate, Rings, orders
    <2> QED  BY <1>0, <2>1
  <1>4. ASSUME NEW c \in Brokers, NEW n \in orderRing.seq[c] .. Len(orders),
               orderRing' = ConsumeTo(orderRing, c, n) PROVE Held \/ Joins
    <2>1. orderRing'.gates = orderRing.gates
          /\ orderRing'.seq = [orderRing.seq EXCEPT ![c] = n]
      BY <1>0, <1>4 DEF ConsumeTo, Rings
    <2>2. n >= orderRing.seq[c]
      BY <1>0
    <2>3. orderRing.seq[b] \in Nat /\ b \in orderRing.gates
      BY <1>0, <2>1
    <2>4. orderRing'.seq[b] = IF b = c THEN n ELSE orderRing.seq[b]
      BY <1>0, <2>1
    <2>5. orderRing'.seq[b] >= orderRing.seq[b]
      BY <2>2, <2>3, <2>4
    <2> QED  BY <2>3, <2>5
  <1>5. Kept \/ Gated \/ Consumed
    <2>1. CASE BusinessStep
      BY <2>1 DEF BusinessStep, BusinessInitiate, PollPrices, PollExecutions, HandleExecution,
             StillDelayed, NoTrade, Trigger, EndOfPoll, FirstLeg, SecondLeg, BusinessTerminate
    <2>2. ASSUME NEW c \in Brokers, TradeStep(c) \/ SessionFails(c)
          PROVE  Kept \/ Gated \/ Consumed
      BY <2>2 DEF TradeStep, TradeInitiate, WaitForRoom, PublishReport, PollOrders,
             TradeTerminate, SessionFails, Detached
    <2> QED  BY <2>1, <2>2 DEF Next, Joined, vars, BrokerStep, BrokerAnswers
  <1> QED  BY <1>1, <1>2, <1>3, <1>4, <1>5

\* An order is on its way at once or never.
LEMMA InFlightStep ==
    ASSUME IInv, GateInv, [Next]_vars
    PROVE  InFlight' \cap DOMAIN orders \subseteq InFlight
  <1> USE DEF ringVars, businessVars, tradeVars
  <1>0. /\ orderRing \in Rings(OrderEvent, Brokers) /\ orderRing.seq \in [Brokers -> Nat]
        /\ Len(orders) \in Nat /\ DOMAIN orders = 1 .. Len(orders)
        /\ \A i \in DOMAIN orders : orders[i].broker \in Brokers \cup {"NONE"}
        /\ orderRing.gates \subseteq Brokers
    BY LogTypes DEF IInv, TypeInv, TypeOK, TypeOKRings, Rings, OrderEvent
  <1>1. IInv' /\ \A i \in DOMAIN orders : orders'[i] = orders[i]
    BY IInvNext, Growth
  <1>2. ASSUME NEW i \in DOMAIN orders, i \in Unpolled' PROVE i \in Unpolled
    <2> DEFINE b == orders[i].broker
    <2>1. b \in orderRing'.gates /\ i > orderRing'.seq[b] /\ b \in Brokers
      <3>1. b \in orderRing'.gates /\ i > orderRing'.seq[b]
        BY <1>1, <1>2 DEF Unpolled
      <3>2. orderRing'.gates \subseteq Brokers
        BY <1>1 DEF IInv, TypeInv, TypeOK, TypeOKRings, Rings
      <3> QED  BY <3>1, <3>2
    <2>2. b \in orderRing.gates /\ orderRing'.seq[b] >= orderRing.seq[b]
      BY <1>0, <2>1, SeqStep DEF IInv
    <2>3. orderRing'.seq[b] \in Nat /\ orderRing.seq[b] \in Nat
      BY <1>0, <1>1, <2>1 DEF IInv, TypeInv, TypeOK, TypeOKRings, Rings
    <2> QED  BY <1>0, <2>1, <2>2, <2>3 DEF Unpolled
  <1>3. ASSUME NEW i \in DOMAIN orders, i \in received', i \notin received PROVE i \in Unpolled
    <2>1. PICK b \in Brokers : PollOrders(b)
      BY <1>3 DEF Next, Joined, vars, BrokerStep, BrokerAnswers, TradeStep, TradeInitiate,
             WaitForRoom, PublishReport, TradeTerminate, SessionFails
    <2>2. b \in orderRing.gates
      BY <2>1 DEF PollOrders, GateInv
    <2>3. PICK last \in orderRing.seq[b] .. Len(orders) : i \in Own(b, last)
      BY <1>3, <2>1 DEF PollOrders
    <2>4. i > orderRing.seq[b] /\ orders[i].broker = b
      BY <1>0, <2>3 DEF Own
    <2> QED  BY <2>2, <2>4 DEF Unpolled
  <1>4. Reported \subseteq Reported'
    BY ReportedGrows
  <1>5. InFlight = Unpolled \cup (received \ Reported)
        /\ InFlight' = Unpolled' \cup (received' \ Reported')
    BY <1>1, InFlightIs DEF InFlight, Unanswered, IInv, LinkInv, Answers
  <1> QED  BY <1>2, <1>3, <1>4, <1>5

\* A pair is triggered only when nothing is on its way.
LEMMA TriggeredQuiet ==
    ASSUME QuietInv, DelayCovers, [Next]_vars, pairs' # pairs
    PROVE  /\ \E d \in {"A", "B"} : Trigger(d)
           /\ InFlight = {} /\ UNCHANGED <<orderRing, tradeVars, isRunning>>
  <1> USE DEF ringVars, businessVars, tradeVars
  <1>1. (\E d \in {"A", "B"} : Trigger(d)) /\ DelayOver /\ UNCHANGED tradeVars
    BY DEF Next, Joined, vars, BusinessStep, BusinessInitiate, PollPrices, PollExecutions,
           HandleExecution, StillDelayed, NoTrade, FirstLeg, SecondLeg, BusinessTerminate
  <1>2. businessPc # "second"
    BY <1>1 DEF Trigger, EndOfPoll
  <1>3. InFlight = {}
    BY <1>1, <1>2 DEF DelayOver, IsDelayed, QuietInv
  <1> QED  BY <1>1, <1>3 DEF Trigger, EndOfPoll

\* The orders of one pair at a time are on their way.
LEMMA QuietNext ==
    ASSUME IInv, GateInv, QuietInv, [Next]_vars
    PROVE  QuietInv'
  <1> USE DEF ringVars, businessVars, tradeVars
  <1> SUFFICES ASSUME DelayCovers
               PROVE  /\ \A i \in InFlight' : PairOf(i)' = pairs'
                      /\ ~isOrderDelayed' /\ businessPc' # "second" => InFlight' = {}
    BY DEF QuietInv
  <1>1. InFlight' \cap DOMAIN orders \subseteq InFlight
    BY InFlightStep
  <1>2. InFlight' \subseteq DOMAIN orders'
    BY IInvNext DEF InFlight, Unanswered, Unpolled, IInv, LinkInv, Answers, TypeInv, Bounded
  <1>3. ASSUME NEW i \in DOMAIN orders', i \notin DOMAIN orders, HandleExecution,
               handled + 1 \in DOMAIN executions
        PROVE  executions[handled + 1].reports \in InFlight
    <2>1. handled + 1 > handled
      BY DEF IInv, TypeInv, TypeOK, TypeOKBusiness
    <2> QED  BY <1>3, <2>1, UnhandledInFlight
  <1>4. ASSUME NEW i \in InFlight' PROVE PairOf(i)' = pairs'
    <2>1. CASE i \in DOMAIN orders
      <3>1. i \in InFlight
        BY <1>1, <1>4, <2>1
      <3>2. pairs' = pairs
        BY <3>1, TriggeredQuiet
      <3>3. PairOf(i)' = PairOf(i)
        BY <2>1, PairOfKept
      <3>4. PairOf(i) = pairs
        BY <3>1 DEF QuietInv
      <3> QED  BY <3>2, <3>3, <3>4
    <2>2. CASE i \notin DOMAIN orders
      <3> DEFINE r == executions[handled + 1].reports
      <3>0. i \in DOMAIN orders'
        BY <1>2, <1>4
      <3>1. pairs' = pairs
        BY <2>2, <3>0, NewOrderPair
      <3>2. \/ PairOf(i)' = pairs
            \/ HandleExecution /\ handled + 1 \in DOMAIN executions /\ PairOf(i)' = PairOf(r)
        BY <2>2, <3>0, NewOrderPair
      <3>3. CASE HandleExecution /\ handled + 1 \in DOMAIN executions /\ PairOf(i)' = PairOf(r)
        <4>1. r \in InFlight
          BY <1>3, <2>2, <3>0, <3>3
        <4>2. PairOf(r) = pairs
          BY <4>1 DEF QuietInv
        <4> QED  BY <3>1, <3>3, <4>2
      <3> QED  BY <3>1, <3>2, <3>3
    <2> QED  BY <2>1, <2>2
  <1>5. ASSUME ~isOrderDelayed', businessPc' # "second" PROVE InFlight' = {}
    <2>1. InFlight = {}
      <3>1. CASE \E d \in {"A", "B"} : Trigger(d) /\ DelayOver
        <4>1. businessPc # "second"
          BY <3>1 DEF Trigger, EndOfPoll
        <4> QED  BY <3>1, <4>1 DEF DelayOver, IsDelayed, QuietInv
      <3>2. CASE NoTrade /\ DelayOver
        <4>1. businessPc # "second"
          BY <3>2 DEF NoTrade, EndOfPoll
        <4> QED  BY <3>2, <4>1 DEF DelayOver, IsDelayed, QuietInv
      <3>3. CASE UNCHANGED isOrderDelayed /\ businessPc # "second"
        BY <1>5, <3>3 DEF QuietInv
      <3>4. CASE UNCHANGED <<isOrderDelayed, businessPc>>
        BY <1>5, <3>4 DEF QuietInv
      <3>5. CASE BusinessStep
        BY <1>5, <3>1, <3>2, <3>3, <3>4, <3>5
           DEF BusinessStep, BusinessInitiate, PollPrices, PollExecutions, HandleExecution,
               StillDelayed, EndOfPoll, FirstLeg, SecondLeg, BusinessTerminate
      <3> QED  BY <3>4, <3>5 DEF Next, Joined, vars
    <2>2. ASSUME NEW i \in InFlight' PROVE FALSE
      <3>1. i \in DOMAIN orders' /\ i \notin DOMAIN orders
        BY <1>1, <1>2, <2>1, <2>2
      <3>2. ~FirstLeg /\ ~SecondLeg
        BY <1>5 DEF FirstLeg, SecondLeg
      <3>3. HandleExecution /\ handled + 1 \in DOMAIN executions
        BY <3>1, <3>2, NewOrderPair
      <3> QED  BY <1>3, <2>1, <3>1, <3>3
    <2> QED  BY <2>2
  <1> QED  BY <1>4, <1>5

-----------------------------------------------------------------------------
(* The count.                                                              *)

\* Every order is part of a pair that was triggered.
LEMMA PairOfRange ==
    ASSUME IInv, LegInv, NEW i \in DOMAIN orders
    PROVE  PairOf(i) \in 1 .. pairs
  <1>1. CASE orders[i].corrects = 0
    BY <1>1 DEF LegInv, PairOf, Legs, Corrections
  <1>2. CASE orders[i].corrects # 0
    BY <1>2, CorrectsLeg DEF LegInv
  <1> QED  BY <1>1, <1>2

\* While no pair is triggered the orders of the last one are the same.
LEMMA SameOrders ==
    ASSUME IInv, [Next]_vars, pairs' = pairs, NEW S \in SUBSET DOMAIN orders, NEW side
    PROVE  /\ {i \in S : PairOf(i)' = pairs' /\ orders'[i].side = side} = OfPair(S, side)
           /\ {i \in S : orders'[i].side = side} = OnSide(S, side)
           /\ S \cap Legs' = S \cap Legs
  <1>1. \A i \in S : PairOf(i)' = PairOf(i) /\ orders'[i] = orders[i]
    BY PairOfKept, Growth
  <1>2. S \cap Legs' = S \cap Legs
    BY PairOfKept
  <1> QED  BY <1>1, <1>2 DEF OfPair, OnSide

\* An order that is filled or was answered was published.
LEMMA AnsweredPublished ==
    ASSUME IInv
    PROVE  /\ filled \subseteq DOMAIN orders /\ rejected \subseteq DOMAIN orders
           /\ filled \cap Reported \subseteq DOMAIN orders
  BY DEF IInv, TypeInv, Bounded, LinkInv, Answers

\* No fill is added and no report of a fill is handled.
LEMMA CountFrame ==
    ASSUME IInv, [Next]_vars, CountInv, UNCHANGED <<pairs, filled, ordersCount>>,
           (filled \cap Reported)' = filled \cap Reported
    PROVE  CountInv' /\ Before' = Before
  <1>1. /\ filled \in SUBSET DOMAIN orders
        /\ filled \cap Reported \in SUBSET DOMAIN orders
    BY AnsweredPublished
  <1>2. \A side : OfPair(filled, side)' = OfPair(filled, side)
    <2> TAKE side
    <2>1. OfPair(filled, side)' = {i \in filled : PairOf(i)' = pairs' /\ orders'[i].side = side}
      BY DEF OfPair
    <2> QED  BY <1>1, <2>1, SameOrders
  <1>3. \A side : /\ OfPair(filled \cap Reported, side)' = OfPair(filled \cap Reported, side)
                  /\ OfPair(filled \cap Reported, side) \cap Legs'
                        = OfPair(filled \cap Reported, side) \cap Legs
    <2> TAKE side
    <2>1. OfPair(filled \cap Reported, side)'
             = {i \in filled \cap Reported : PairOf(i)' = pairs' /\ orders'[i].side = side}
      BY DEF OfPair
    <2>2. OfPair(filled \cap Reported, side) \in SUBSET DOMAIN orders
      BY <1>1 DEF OfPair
    <2> QED  BY <1>1, <2>1, <2>2, SameOrders
  <1>4. \A side : OnSide(filled, side)' = OnSide(filled, side)
    <2> TAKE side
    <2>1. OnSide(filled, side)' = {i \in filled : orders'[i].side = side}
      BY DEF OnSide
    <2> QED  BY <1>1, <2>1, SameOrders
  <1>5. \A side : FillOn(side)' = FillOn(side) /\ Gain(side)' = Gain(side)
    BY <1>2, <1>3 DEF FillOn, Gain
  <1>6. Net(filled)' = Net(filled)
    BY <1>4 DEF Net
  <1>7. Before' = Before
    BY <1>5 DEF Before
  <1> QED  BY <1>5, <1>6, <1>7 DEF CountInv

\* When nothing is on its way, an even count tells that the position is flat: each
\* side of the last pair has one fill or none, and changed the count accordingly.
LEMMA EvenIsFlat ==
    ASSUME IInv, LegInv, CountInv, DelayCovers, InFlight = {}, CountAllows
    PROVE  Net(filled) = 0
  <1>1. filled \cap Reported = filled
    BY InFlightIs DEF IInv, LinkInv, Answers
  <1>2. Net(filled) = FillOn("BUY") - FillOn("SELL")
    BY DEF CountInv
  <1>3. CASE pairs = 0
    <2>1. \A i \in DOMAIN orders : PairOf(i) # pairs
      BY <1>3, PairOfRange
    <2>2. \A side : OfPair(filled, side) = {}
      BY <2>1, AnsweredPublished DEF OfPair
    <2> QED  BY <1>2, <2>2 DEF FillOn
  <1>4. CASE pairs # 0
    <2>1. \A side : \/ Gain(side) = 0 /\ FillOn(side) = 0
                    \/ Gain(side) \in {1, -1} /\ FillOn(side) = 1
      BY <1>1 DEF Gain, FillOn
    <2>2. /\ (ordersCount - Gain("BUY") - Gain("SELL")) % 2 = 0
          /\ ordersCount % 2 = 0 /\ ordersCount \in Int
      BY <1>4 DEF CountInv, Before, CountAllows, IInv, TypeInv, TypeOK, TypeOKBusiness
    <2>3. ASSUME NEW c \in Int, NEW g \in {0, 1, -1}, NEW h \in {0, 1, -1},
                 c % 2 = 0, (c - g - h) % 2 = 0
          PROVE  g = 0 <=> h = 0
      BY <2>3
    <2>4. /\ Gain("BUY") \in {0, 1, -1} /\ Gain("SELL") \in {0, 1, -1}
          /\ FillOn("BUY") = IF Gain("BUY") = 0 THEN 0 ELSE 1
          /\ FillOn("SELL") = IF Gain("SELL") = 0 THEN 0 ELSE 1
      BY <2>1
    <2>5. FillOn("BUY") = FillOn("SELL") /\ FillOn("BUY") \in Int
      BY <2>2, <2>3, <2>4
    <2> QED  BY <1>2, <2>5
  <1> QED  BY <1>3, <1>4

\* Only finitely many orders are published.
LEMMA OrdersFinite == ASSUME TypeInv, NEW S \in SUBSET DOMAIN orders PROVE IsFiniteSet(S)
  <1>1. DOMAIN orders = 1 .. Len(orders) /\ Len(orders) \in Nat
    BY LogTypes
  <1>2. IsFiniteSet(DOMAIN orders)
    BY <1>1, FS_Interval
  <1> QED  BY <1>2, FS_Subset

\* One more order on a side moves the net position by one.
LEMMA NetAdd ==
    ASSUME TypeInv, NEW S \in SUBSET DOMAIN orders, NEW i \in DOMAIN orders, i \notin S
    PROVE  /\ Net(S) \in Int
           /\ Net(S \cup {i}) = IF orders[i].side = "BUY" THEN Net(S) + 1 ELSE Net(S) - 1
  <1>1. orders[i].side \in {"BUY", "SELL"}
    BY LogTypes DEF OrderEvent, Sides
  <1>2. \A side : OnSide(S, side) \in SUBSET DOMAIN orders /\ i \notin OnSide(S, side)
    BY DEF OnSide
  <1>3. \A side : IsFiniteSet(OnSide(S, side)) /\ Cardinality(OnSide(S, side)) \in Nat
    BY <1>2, OrdersFinite, FS_CardinalityType
  <1>4. \A side : Cardinality(OnSide(S, side) \cup {i}) = Cardinality(OnSide(S, side)) + 1
    BY <1>2, <1>3, FS_AddElement
  <1>5. \A side : OnSide(S \cup {i}, side)
                    = IF orders[i].side = side THEN OnSide(S, side) \cup {i} ELSE OnSide(S, side)
    BY DEF OnSide
  <1>6. CASE orders[i].side = "BUY"
    <2>1. /\ OnSide(S \cup {i}, "BUY") = OnSide(S, "BUY") \cup {i}
          /\ OnSide(S \cup {i}, "SELL") = OnSide(S, "SELL")
      BY <1>5, <1>6
    <2>2. /\ Cardinality(OnSide(S \cup {i}, "BUY")) = Cardinality(OnSide(S, "BUY")) + 1
          /\ Cardinality(OnSide(S \cup {i}, "SELL")) = Cardinality(OnSide(S, "SELL"))
      BY <1>4, <2>1
    <2> QED  BY <1>3, <1>6, <2>2 DEF Net
  <1>7. CASE orders[i].side = "SELL"
    <2>1. /\ OnSide(S \cup {i}, "SELL") = OnSide(S, "SELL") \cup {i}
          /\ OnSide(S \cup {i}, "BUY") = OnSide(S, "BUY")
      BY <1>5, <1>7
    <2>2. /\ Cardinality(OnSide(S \cup {i}, "SELL")) = Cardinality(OnSide(S, "SELL")) + 1
          /\ Cardinality(OnSide(S \cup {i}, "BUY")) = Cardinality(OnSide(S, "BUY"))
      BY <1>4, <2>1
    <2> QED  BY <1>3, <1>7, <2>2 DEF Net
  <1> QED  BY <1>1, <1>6, <1>7

\* An order of the last pair that is not rejected is the only one on its side that
\* can be filled.
LEMMA OnlyFill ==
    ASSUME IInv, LegInv, AnswerInv, NEW i \in DOMAIN orders, i \notin rejected,
           PairOf(i) = pairs
    PROVE  OfPair(filled, orders[i].side) \subseteq {i}
  <1> SUFFICES ASSUME NEW k \in OfPair(filled, orders[i].side), k # i PROVE FALSE
    OBVIOUS
  <1>1. k \in filled /\ PairOf(k) = PairOf(i) /\ orders[k].side = orders[i].side
    BY DEF OfPair
  <1>2. k \in DOMAIN orders /\ k \notin rejected
    BY <1>1, AnsweredPublished DEF AnswerInv
  <1> QED  BY <1>1, <1>2, OneSlot

\* The broker fills an order of the last pair.
LEMMA CountFill ==
    ASSUME IInv, LegInv, AnswerInv, QuietInv, CountInv, [Next]_vars,
           NEW i \in received, BrokerAnswers(i, TRUE), UNCHANGED businessVars,
           DelayCovers
    PROVE  CountInv' /\ Before' = Before
  <1> USE DEF ringVars, businessVars
  <1>0. TypeInv
    BY DEF IInv
  <1>1. /\ filled' = filled \cup {i} /\ i \notin filled /\ i \notin rejected
        /\ orders' = orders /\ executions' = executions
        /\ UNCHANGED <<pairs, handled, ordersCount, received>>
    BY DEF BrokerAnswers, orders, executions
  <1>2. i \in DOMAIN orders /\ i \notin Reported /\ i \in InFlight
    BY <1>1, InFlightIs
  <1>3. PairOf(i) = pairs
    BY <1>2 DEF QuietInv
  <1>s. PICK s \in {"BUY", "SELL"} : s = orders[i].side
    BY <1>0, <1>2, LogTypes DEF OrderEvent, Sides
  <1>4. OfPair(filled, s) = {}
    BY <1>s, <1>1, <1>2, <1>3, OnlyFill DEF OfPair
  <1>5. \A side : OfPair(filled, side)'
                    = IF side = s THEN OfPair(filled, side) \cup {i} ELSE OfPair(filled, side)
    BY <1>s, <1>1, <1>3 DEF OfPair, PairOf
  <1>6. FillOn(s) = 0 /\ FillOn(s)' = 1
    BY <1>4, <1>5 DEF FillOn
  <1>7. \A side : side # s => FillOn(side)' = FillOn(side)
    BY <1>5 DEF FillOn
  <1>8. Reported' = Reported /\ (filled \cap Reported)' = filled \cap Reported
    BY SMTT(30), <1>1, <1>2 DEF Reported
  <1>9. \A side : Gain(side)' = Gain(side)
    BY <1>1, <1>8 DEF Gain, OfPair, PairOf, Legs, Corrections
  <1>10. /\ Net(filled) \in Int
         /\ Net(filled \cup {i}) = IF s = "BUY" THEN Net(filled) + 1 ELSE Net(filled) - 1
    BY <1>s, <1>0, <1>1, <1>2, NetAdd, AnsweredPublished
  <1>11. Net(filled)' = Net(filled \cup {i})
    BY <1>1 DEF Net, OnSide
  <1>12. FillOn("BUY") \in {0, 1} /\ FillOn("SELL") \in {0, 1}
    BY DEF FillOn
  <1>13. Net(filled)' = FillOn("BUY")' - FillOn("SELL")'
    <2>1. CASE s = "BUY"
      <3>1. FillOn("BUY") = 0 /\ FillOn("BUY")' = 1 /\ FillOn("SELL")' = FillOn("SELL")
        BY <1>6, <1>7, <2>1
      <3>2. Net(filled)' = Net(filled) + 1 /\ Net(filled) = FillOn("BUY") - FillOn("SELL")
        BY <1>10, <1>11, <2>1 DEF CountInv
      <3> QED  BY <1>12, <3>1, <3>2
    <2>2. CASE s = "SELL"
      <3>1. FillOn("SELL") = 0 /\ FillOn("SELL")' = 1 /\ FillOn("BUY")' = FillOn("BUY")
        BY <1>6, <1>7, <2>2
      <3>2. Net(filled)' = Net(filled) - 1 /\ Net(filled) = FillOn("BUY") - FillOn("SELL")
        BY <1>10, <1>11, <2>2 DEF CountInv
      <3> QED  BY <1>12, <3>1, <3>2
    <2> QED  BY <1>s, <2>1, <2>2
  <1>14. Before' = Before
    BY <1>1, <1>9 DEF Before
  <1> QED  BY <1>1, <1>13, <1>14 DEF CountInv

\* A handled fill of the last pair changes the count and what the pair has gained alike;
\* any other report changes neither.
LEMMA CountHandle ==
    ASSUME IInv, LegInv, AnswerInv, QuietInv, CountInv, [Next]_vars,
           HandleExecution, UNCHANGED tradeVars, DelayCovers
    PROVE  CountInv' /\ Before' = Before
  <1> USE DEF tradeVars
  <1> DEFINE n == handled + 1
             e == executions[n]
             i == e.reports
  <1>1. n \in DOMAIN executions /\ n > handled /\ e \in ExecutionEvent /\ ordersCount \in Int
    <2>1. /\ handled \in Nat /\ available \in Nat /\ handled < available
          /\ available <= Len(executions) /\ ordersCount \in Int
      BY DEF HandleExecution, IInv, TypeInv, TypeOK, TypeOKBusiness, Bounded
    <2> QED  BY <2>1, LogTypes DEF IInv
  <1>2. /\ executions' = executions /\ handled' = n
        /\ ordersCount' = CountAfter(e)
        /\ UNCHANGED <<pairs, filled, received, rejected>>
    BY DEF HandleExecution, executions
  <1>3. Reported' = Reported \cup {i}
    <2>1. 1 .. n = (1 .. handled) \cup {n}
      BY DEF IInv, TypeInv, TypeOK, TypeOKBusiness
    <2> QED  BY <1>2, <2>1 DEF Reported
  <1>4. /\ i \in DOMAIN orders /\ i \in InFlight /\ i \notin Reported
        /\ e.id = orders[i].id /\ (~e.isFilled => i \in rejected)
    BY <1>1, UnhandledInFlight DEF IInv, LinkInv, ExecutionsLinked
  <1>5. CASE ~e.isFilled
    <2>1. i \notin filled
      BY <1>4, <1>5 DEF AnswerInv
    <2>2. (filled \cap Reported)' = filled \cap Reported
      BY <1>2, <1>3, <2>1
    <2>3. UNCHANGED ordersCount
      BY <1>2, <1>5 DEF CountAfter
    <2> QED  BY <1>2, <2>2, <2>3, CountFrame
  <1>6. CASE e.isFilled
    <2>1. i \in filled /\ i \notin rejected
      BY <1>1, <1>6 DEF AnswerInv
    <2>2. PairOf(i) = pairs
      BY <1>4 DEF QuietInv
    <2>3. PICK s \in {"BUY", "SELL"} : s = orders[i].side
      BY <1>4, LogTypes DEF OrderEvent, Sides, IInv
    <2>4. OfPair(filled \cap Reported, s) = {}
      <3>1. OfPair(filled, s) \subseteq {i}
        BY <1>4, <2>1, <2>2, <2>3, OnlyFill
      <3> QED  BY <1>4, <3>1 DEF OfPair
    <2>5. /\ filled \in SUBSET DOMAIN orders
          /\ (filled \cap Reported) \cup {i} \in SUBSET DOMAIN orders
          /\ (filled \cap Reported)' = (filled \cap Reported) \cup {i}
      BY <1>2, <1>3, <1>4, <2>1, AnsweredPublished
    <2>6. \A side : OfPair(filled \cap Reported, side)'
                      = IF side = s THEN OfPair(filled \cap Reported, side) \cup {i}
                                    ELSE OfPair(filled \cap Reported, side)
      <3> TAKE side
      <3> DEFINE S == (filled \cap Reported) \cup {i}
      <3>1. OfPair(filled \cap Reported, side)'
               = {j \in S : PairOf(j)' = pairs' /\ orders'[j].side = side}
        BY <2>5 DEF OfPair
      <3>2. OfPair(filled \cap Reported, side)' = OfPair(S, side)
        BY <1>2, <2>5, <3>1, SameOrders
      <3> QED  BY <2>2, <2>3, <3>2 DEF OfPair
    <2>7. \A side : OfPair(filled, side)' = OfPair(filled, side)
      <3> TAKE side
      <3>1. OfPair(filled, side)' = {j \in filled : PairOf(j)' = pairs' /\ orders'[j].side = side}
        BY <1>2 DEF OfPair
      <3> QED  BY <1>2, <2>5, <3>1, SameOrders
    <2>8. /\ \A j \in DOMAIN orders : j \in Legs' <=> j \in Legs
          /\ i \in Legs <=> e.id # CORRECTION_ID
      BY <1>4, PairOfKept DEF IInv, LinkInv, OrdersLinked, Legs, Corrections
    <2>9. Gain(s) = 0 /\ Gain(s)' = IF e.id = CORRECTION_ID THEN -1 ELSE 1
      BY <1>4, <2>4, <2>6, <2>8 DEF Gain
    <2>10. \A side : side # s => Gain(side)' = Gain(side)
      <3> TAKE side
      <3>1. OfPair(filled \cap Reported, side) \subseteq DOMAIN orders
        BY <2>5 DEF OfPair
      <3> QED  BY <2>6, <2>8, <3>1 DEF Gain
    <2>11. ordersCount' = IF e.id = CORRECTION_ID THEN ordersCount - 1 ELSE ordersCount + 1
      BY <1>2, <1>6 DEF CountAfter, IsCorrection
    <2>12. Gain("BUY") \in Int /\ Gain("SELL") \in Int
      BY DEF Gain
    <2>13. Before' = Before
      <3>1. CASE s = "BUY"
        <4>1. Gain("SELL")' = Gain("SELL")
          BY <2>10, <3>1
        <4>2. Before' = ordersCount' - Gain("BUY")' - Gain("SELL")
          BY <4>1 DEF Before
        <4> QED  BY <1>1, <2>9, <2>11, <2>12, <3>1, <4>2 DEF Before
      <3>2. CASE s = "SELL"
        <4>1. Gain("BUY")' = Gain("BUY")
          BY <2>10, <3>2
        <4>2. Before' = ordersCount' - Gain("BUY") - Gain("SELL")'
          BY <4>1 DEF Before
        <4> QED  BY <1>1, <2>9, <2>11, <2>12, <3>2, <4>2 DEF Before
      <3> QED  BY <3>1, <3>2
    <2>14. \A side : FillOn(side)' = FillOn(side)
      BY <2>7 DEF FillOn
    <2>15. Net(filled)' = Net(filled)
      <3>1. \A side : OnSide(filled, side)' = OnSide(filled, side)
        <4> TAKE side
        <4>1. OnSide(filled, side)' = {j \in filled : orders'[j].side = side}
          BY <1>2 DEF OnSide
        <4> QED  BY <1>2, <2>5, <4>1, SameOrders
      <3> QED  BY <3>1 DEF Net
    <2> QED  BY <1>2, <2>13, <2>14, <2>15 DEF CountInv
  <1> QED  BY <1>5, <1>6

\* A pair is triggered from a flat position, at an even count.
LEMMA TriggeredFlat ==
    ASSUME SettledInv, DelayCovers, [Next]_vars, pairs' # pairs
    PROVE  /\ \E d \in {"A", "B"} : Trigger(d)
           /\ InFlight = {} /\ CountAllows /\ pairs' = pairs + 1
           /\ UNCHANGED <<orders, executions, handled, ordersCount, tradeVars>>
           /\ Net(filled) = 0
  <1>1. /\ \E d \in {"A", "B"} : Trigger(d)
        /\ InFlight = {} /\ UNCHANGED <<orderRing, tradeVars, isRunning>>
    BY TriggeredQuiet DEF SettledInv
  <1>2. CountAllows /\ pairs' = pairs + 1 /\ UNCHANGED <<handled, ordersCount>>
    BY <1>1 DEF Trigger, Wanted, EndOfPoll
  <1>3. orders' = orders /\ executions' = executions
    <2>1. available \in Nat /\ execRing' = ConsumeTo(execRing, BUSINESS, available)
      BY <1>1 DEF Trigger, EndOfPoll, SettledInv, IInv, TypeInv, TypeOK, TypeOKBusiness
    <2> QED  BY <1>1, <2>1, SameLogs DEF SettledInv, IInv
  <1>4. Net(filled) = 0
    BY <1>1, <1>2, EvenIsFlat DEF SettledInv
  <1> QED  BY <1>1, <1>2, <1>3, <1>4

\* The pair that is triggered has no order yet.
LEMMA CountTrigger ==
    ASSUME SettledInv, DelayCovers, [Next]_vars, pairs' # pairs
    PROVE  CountInv' /\ Before' = ordersCount
  <1> USE DEF tradeVars
  <1>1. /\ CountAllows /\ pairs' = pairs + 1
        /\ UNCHANGED <<orders, executions, handled, ordersCount, filled>>
        /\ Net(filled) = 0
    BY TriggeredFlat
  <1>2. \A i \in DOMAIN orders : PairOf(i)' # pairs'
    <2> TAKE i \in DOMAIN orders
    <2>1. PairOf(i)' = PairOf(i)
      BY PairOfKept DEF SettledInv
    <2>2. PairOf(i) \in 1 .. pairs /\ pairs \in Nat
      BY PairOfRange DEF SettledInv, IInv, TypeInv, TypeOK, TypeOKBusiness
    <2> QED  BY <1>1, <2>1, <2>2
  <1>3. filled' \subseteq DOMAIN orders /\ (filled \cap Reported)' \subseteq DOMAIN orders
    BY <1>1, AnsweredPublished DEF Reported, SettledInv
  <1>4. \A side : /\ OfPair(filled, side)' = {}
                  /\ OfPair(filled \cap Reported, side)' = {}
    BY <1>2, <1>3 DEF OfPair
  <1>5. \A side : FillOn(side)' = 0 /\ Gain(side)' = 0
    BY <1>4 DEF FillOn, Gain
  <1>6. Net(filled)' = Net(filled)
    BY <1>1 DEF Net, OnSide
  <1>7. Before' = ordersCount
    <2>1. ordersCount \in Int
      BY DEF SettledInv, IInv, TypeInv, TypeOK, TypeOKBusiness
    <2> QED  BY <1>1, <1>5, <2>1 DEF Before
  <1> QED  BY <1>1, <1>5, <1>6, <1>7 DEF CountInv, CountAllows

\* The count follows what the brokers filled.
LEMMA CountNext ==
    ASSUME SettledInv, [Next]_vars
    PROVE  CountInv' /\ (DelayCovers /\ pairs' = pairs => Before' = Before)
  <1> USE DEF ringVars, businessVars, tradeVars
  <1> DEFINE Kept == CountInv' /\ (pairs' = pairs => Before' = Before)
  <1> SUFFICES ASSUME DelayCovers PROVE Kept
    BY DEF CountInv
  <1>0. IInv /\ LegInv /\ AnswerInv /\ QuietInv /\ CountInv
    BY DEF SettledInv
  <1>1. CASE pairs' # pairs
    BY <1>1, CountTrigger
  <1>2. ASSUME UNCHANGED <<pairs, handled, filled, ordersCount>> PROVE Kept
    <2>1. Reported' = Reported
      <3>1. \A n \in 1 .. handled : executions'[n] = executions[n]
        BY <1>0, Growth, InFlightIs
      <3> QED  BY <1>2, <3>1 DEF Reported
    <2> QED  BY <1>0, <1>2, <2>1, CountFrame
  <1>3. CASE BusinessStep /\ UNCHANGED tradeVars /\ pairs' = pairs
    <2>1. CASE BusinessInitiate
      <3>1. orders = << >>
        BY <1>0, <2>1 DEF BusinessInitiate, LegInv
      <3>2. filled = {} /\ filled' = {}
        BY <1>0, <1>3, <3>1, AnsweredPublished
      <3>3. (filled \cap Reported)' = filled \cap Reported
        BY <3>2
      <3> QED  BY <1>0, <1>3, <2>1, <3>3, CountFrame DEF BusinessInitiate
    <2>2. CASE HandleExecution
      BY <1>0, <1>3, <2>2, CountHandle
    <2> QED
      BY <1>2, <1>3, <2>1, <2>2
         DEF BusinessStep, PollPrices, PollExecutions, StillDelayed, NoTrade, Trigger,
             EndOfPoll, FirstLeg, SecondLeg, BusinessTerminate
  <1>4. ASSUME NEW b \in Brokers, TradeStep(b) \/ SessionFails(b), UNCHANGED businessVars
        PROVE  Kept
    BY <1>2, <1>4 DEF TradeStep, TradeInitiate, WaitForRoom, PublishReport, PollOrders,
           TradeTerminate, SessionFails
  <1>5. CASE BrokerStep /\ UNCHANGED businessVars
    <2>1. PICK i \in received, isFilled \in BOOLEAN : BrokerAnswers(i, isFilled)
      BY <1>5 DEF BrokerStep
    <2>2. CASE isFilled
      <3>1. BrokerAnswers(i, TRUE)
        BY <2>1, <2>2
      <3> QED  BY <1>0, <1>5, <3>1, CountFill
    <2>3. CASE ~isFilled
      BY <1>2, <1>5, <2>1, <2>3 DEF BrokerAnswers
    <2> QED  BY <2>2, <2>3
  <1>6. CASE UNCHANGED vars
    BY <1>2, <1>6 DEF vars
  <1> QED  BY <1>1, <1>3, <1>4, <1>5, <1>6 DEF Next, Joined

\* Nothing was ordered at the start.
LEMMA SettledInit == ASSUME Init PROVE SettledInv
  <1>0. IInv
    BY LedgerStart
  <1>1. /\ orders = << >> /\ executions = << >> /\ filled = {} /\ rejected = {} /\ received = {}
        /\ handled = 0 /\ pairs = 0 /\ businessPc = "new"
        /\ inbox = [b \in Brokers |-> << >>] /\ tradePc = [b \in Brokers |-> "new"]
    BY DEF Init, InitRings, InitBusiness, InitTrade, NewRing, orders, executions
  <1>2. DOMAIN orders = {} /\ DOMAIN executions = {} /\ \A b \in Brokers : Len(inbox[b]) = 0
    BY <1>1
  <1>3. GateInv /\ AnswerInv
    BY <1>1, <1>2 DEF GateInv, AnswerInv
  <1>4. LegInv
    BY <1>1, <1>2 DEF LegInv, Legs
  <1>5. InFlight = {}
    BY <1>1, <1>2 DEF InFlight, Unpolled, Unanswered
  <1>6. \A side : OnSide(filled, side) = {} /\ FillOn(side) = 0
    BY <1>1 DEF OnSide, FillOn, OfPair
  <1>7. Net(filled) = 0
    BY <1>6, FS_EmptySet DEF Net
  <1> QED  BY <1>0, <1>1, <1>3, <1>4, <1>5, <1>6, <1>7 DEF SettledInv, QuietInv, CountInv

\* Every step keeps it.
LEMMA SettledNext == ASSUME SettledInv, [Next]_vars PROVE SettledInv'
  BY IInvNext, GateNext, AnswerNext, LegNext, QuietNext, CountNext DEF SettledInv

\* When the delay outlasts every answer, a pair is only ever triggered from a flat
\* position, although the office looks at nothing but the parity of its count
\* (BusinessOffice.h:85): one order of a pair that is lost, or a correction that is
\* rejected, leaves the count odd, and no further pair starts.
THEOREM TriggersAreHedged == Spec => HedgedTrigger
  <1>1. Init => SettledInv
    BY SettledInit
  <1>2. SettledInv /\ [Next]_vars => SettledInv'
    BY SettledNext
  <1>3. SettledInv /\ [Next]_vars => [pairs' # pairs => (DelayCovers => Net(filled) = 0)]_vars
    BY TriggeredFlat
  <1> QED  BY <1>1, <1>2, <1>3, PTL DEF Spec, HedgedTrigger

-----------------------------------------------------------------------------
(* The limit.                                                              *)

\* Of every pair at least one leg was not rejected.
NoneBothRejected == \A p \in 1 .. pairs : ~BothRejected(p)

\* The environment in which the limit holds.
Limited == DelayCovers /\ MaxOrders > 0 /\ InitCount >= 0 /\ NoneBothRejected

\* The pairs that were open when the last was triggered.
Earlier == OpenPairs \ {pairs}

\* The last pair opens, or is to open, a position.
Opening ==
    \/ orderType = "OPEN"
    \/ \E i \in Legs : orders[i].id = pairs /\ orders[i].label = "OPEN"

\* Without a direction nothing is on its way or about to be.
IdleInv ==
    DelayCovers /\ currentDiff = "NONE" =>
       InFlight = {} /\ businessPc \notin {"first", "second"}

\* Every open pair adds two to the count, so one more is opened only while there is
\* room for it.
CapInv ==
    Limited =>
       /\ Before >= 2 * Cardinality(Earlier)
       /\ 2 * Cardinality(Earlier) <= MaxOrders + 1
       /\ Opening => 2 * Cardinality(Earlier) + 2 <= MaxOrders + 1
       /\ currentDiff = "NONE" => OpenPairs = {}

LimitInv == SettledInv /\ IdleInv /\ CapInv

\* A set with at most one element on each side has two if and only if it has one on
\* both.
LEMMA TwoSides ==
    ASSUME NEW S, NEW f \in [S -> {"BUY", "SELL"}], \A i, j \in S : f[i] = f[j] => i = j
    PROVE  Cardinality(S) = 2 <=> \A side \in {"BUY", "SELL"} : \E i \in S : f[i] = side
  <1>1. ASSUME NEW a \in S, NEW b \in S, f[a] = "BUY", f[b] = "SELL"
        PROVE  Cardinality(S) = 2
    <2>1. S = {a} \cup {b} /\ b \notin {a}
      BY <1>1
    <2>2. IsFiniteSet({a}) /\ Cardinality({a}) = 1
      BY FS_Singleton
    <2>3. Cardinality({a} \cup {b}) = 2
      BY <2>1, <2>2, FS_AddElement
    <2> QED  BY <2>1, <2>3
  <1>2. ASSUME NEW side \in {"BUY", "SELL"}, \A i \in S : f[i] # side
        PROVE  Cardinality(S) # 2
    <2>1. \A i, j \in S : i = j
      BY <1>2
    <2>2. S = {} \/ \E x : S = {x}
      BY <2>1
    <2>3. Cardinality({}) = 0 /\ \A x : Cardinality({x}) = 1
      BY FS_EmptySet, FS_Singleton
    <2>4. Cardinality(S) \in {0, 1}
      BY <2>2, <2>3
    <2> QED  BY <2>4
  <1> QED  BY <1>1, <1>2

\* Both legs of a pair were rejected: one on either side.
LEMMA BothRejectedIs ==
    ASSUME IInv, LegInv, NEW p
    PROVE  BothRejected(p)
              <=> \A side \in Sides : \E i \in rejected \cap Legs :
                     orders[i].id = p /\ orders[i].side = side
  <1> DEFINE S == {i \in rejected \cap Legs : orders[i].id = p}
             f == [i \in S |-> orders[i].side]
  <1>1. \A i \in S : orders[i].side \in {"BUY", "SELL"}
    BY LogTypes DEF IInv, Legs, OrderEvent, Sides
  <1>2. f \in [S -> {"BUY", "SELL"}]
    BY <1>1
  <1>3. \A i, j \in S : f[i] = f[j] => i = j
    BY DEF LegInv
  <1>4. \A i \in S : f[i] = orders[i].side
    OBVIOUS
  <1>5. BothRejected(p) <=> Cardinality(S) = 2
    BY DEF BothRejected
  <1> HIDE DEF f
  <1>6. Cardinality(S) = 2 <=> \A side \in {"BUY", "SELL"} : \E i \in S : f[i] = side
    BY <1>2, <1>3, TwoSides
  <1> QED  BY <1>4, <1>5, <1>6 DEF Sides

\* A pair whose legs were both rejected stays one.
LEMMA RejectedStay ==
    ASSUME SettledInv, [Next]_vars, NoneBothRejected'
    PROVE  NoneBothRejected
  <1> USE DEF ringVars, businessVars, tradeVars
  <1>0. /\ IInv /\ LegInv /\ IInv' /\ LegInv' /\ pairs \in Nat
        /\ pairs' \in {pairs, pairs + 1}
    <2>1. pairs' \in {pairs, pairs + 1}
      BY DEF Next, Joined, vars, BusinessStep, BusinessInitiate, PollPrices, PollExecutions,
             HandleExecution, StillDelayed, NoTrade, Trigger, FirstLeg, SecondLeg,
             BusinessTerminate
    <2> QED  BY <2>1, IInvNext, LegNext DEF SettledInv, IInv, TypeInv, TypeOK, TypeOKBusiness
  <1>1. rejected \subseteq rejected'
    BY DEF Next, Joined, vars, BusinessStep, TradeStep, TradeInitiate, WaitForRoom,
           PublishReport, PollOrders, TradeTerminate, SessionFails, BrokerStep, BrokerAnswers
  <1>2. Legs \subseteq Legs' /\ \A i \in Legs : orders'[i] = orders[i]
    BY <1>0, PairOfKept, Growth DEF Legs
  <1> SUFFICES ASSUME NEW p \in 1 .. pairs, BothRejected(p) PROVE FALSE
    BY DEF NoneBothRejected
  <1> DEFINE S == {i \in rejected' \cap Legs' : orders'[i].id = p}
             f == [i \in S |-> orders'[i].side]
  <1>3. \A side \in {"BUY", "SELL"} : \E i \in rejected \cap Legs :
           orders[i].id = p /\ orders[i].side = side
    BY <1>0, BothRejectedIs DEF Sides
  <1>4. \A i \in S : orders'[i].side \in {"BUY", "SELL"}
    <2>1. orders' \in Seq(OrderEvent)
      BY <1>0 DEF IInv, TypeInv, TypeOK, TypeOKRings, Rings, orders
    <2>2. \A i \in S : i \in DOMAIN orders'
      BY DEF Legs
    <2>3. \A i \in DOMAIN orders' : orders'[i] \in OrderEvent
      BY <2>1
    <2> QED  BY <2>2, <2>3 DEF OrderEvent, Sides
  <1>5. f \in [S -> {"BUY", "SELL"}]
    BY <1>4
  <1>6. \A i, j \in S : f[i] = f[j] => i = j
    BY <1>0 DEF LegInv
  <1>7. \A side \in {"BUY", "SELL"} : \E i \in S : f[i] = side
    BY <1>1, <1>2, <1>3
  <1> HIDE DEF f
  <1>8. Cardinality(S) = 2
    BY <1>5, <1>6, <1>7, TwoSides
  <1>9. BothRejected(p)'
    BY <1>8 DEF BothRejected
  <1>10. p \in 1 .. pairs'
    BY <1>0
  <1> QED  BY <1>9, <1>10 DEF NoneBothRejected

\* Only an order that is on its way is filled.
LEMMA FilledStep ==
    ASSUME IInv, [Next]_vars
    PROVE  /\ filled \subseteq filled'
           /\ \A i \in filled' \ filled : i \in InFlight /\ orders' = orders
  <1> USE DEF ringVars, businessVars, tradeVars
  <1>1. CASE BrokerStep
    <2>1. PICK i \in received, isFilled \in BOOLEAN : BrokerAnswers(i, isFilled)
      BY <1>1 DEF BrokerStep
    <2>2. i \in InFlight
      BY <2>1, InFlightIs DEF BrokerAnswers
    <2> QED  BY <2>1, <2>2 DEF BrokerAnswers, orders
  <1>2. CASE filled' = filled
    BY <1>2
  <1> QED
    BY <1>1, <1>2
       DEF Next, Joined, vars, BusinessStep, TradeStep, TradeInitiate, WaitForRoom,
           PublishReport, PollOrders, TradeTerminate, SessionFails

\* Nothing is on its way until the next pair is under way.
LEMMA StillQuiet ==
    ASSUME IInv, GateInv, [Next]_vars, InFlight = {}, businessPc \notin {"first", "second"}
    PROVE  InFlight' = {}
  <1> SUFFICES ASSUME NEW i \in InFlight' PROVE FALSE
    OBVIOUS
  <1>1. i \in DOMAIN orders'
    BY IInvNext DEF InFlight, Unanswered, Unpolled, IInv, LinkInv, Answers, TypeInv, Bounded
  <1>2. i \notin DOMAIN orders
    BY InFlightStep
  <1>3. ~FirstLeg /\ ~SecondLeg
    BY DEF FirstLeg, SecondLeg
  <1>4. HandleExecution /\ handled + 1 \in DOMAIN executions
    BY <1>1, <1>2, <1>3, NewOrderPair
  <1>5. handled + 1 > handled
    BY DEF IInv, TypeInv, TypeOK, TypeOKBusiness
  <1> QED  BY <1>4, <1>5, UnhandledInFlight

\* There are as many open pairs as pairs at most.
LEMMA OpenFinite ==
    ASSUME TypeInv
    PROVE  /\ IsFiniteSet(OpenPairs) /\ Cardinality(OpenPairs) \in Nat
           /\ IsFiniteSet(Earlier) /\ Cardinality(Earlier) \in Nat
           /\ Cardinality(OpenPairs)
                 = IF pairs \in OpenPairs THEN Cardinality(Earlier) + 1
                                          ELSE Cardinality(Earlier)
  <1>1. pairs \in Nat
    BY DEF TypeInv, TypeOK, TypeOKBusiness
  <1>2. IsFiniteSet(1 .. pairs)
    BY <1>1, FS_Interval
  <1>3. OpenPairs \in SUBSET (1 .. pairs)
    BY DEF OpenPairs
  <1>4. IsFiniteSet(OpenPairs) /\ Cardinality(OpenPairs) \in Nat
    BY <1>2, <1>3, FS_Subset, FS_CardinalityType
  <1>5. /\ IsFiniteSet(Earlier)
        /\ Cardinality(Earlier) = IF pairs \in OpenPairs THEN Cardinality(OpenPairs) - 1
                                                         ELSE Cardinality(OpenPairs)
    BY <1>4, FS_RemoveElement DEF Earlier
  <1>6. Cardinality(Earlier) \in Nat
    BY <1>5, FS_CardinalityType
  <1> QED  BY <1>4, <1>5, <1>6

\* Only the last pair can become open.
LEMMA EarlierKept ==
    ASSUME SettledInv, DelayCovers, [Next]_vars, pairs' = pairs
    PROVE  /\ Earlier' = Earlier
           /\ InFlight = {} => OpenPairs' = OpenPairs
  <1>0. /\ IInv /\ filled \subseteq DOMAIN orders
        /\ \A i \in filled : orders'[i] = orders[i]
    BY AnsweredPublished, Growth DEF SettledInv
  <1>1. /\ filled \subseteq filled'
        /\ \A i \in filled' \ filled : i \in InFlight /\ orders' = orders
    BY <1>0, FilledStep
  <1>2. ASSUME NEW p \in 1 .. pairs, NEW side, NEW i \in filled', orders'[i].id = p, p # pairs
        PROVE  i \in filled
    <2> SUFFICES ASSUME i \notin filled PROVE FALSE
      OBVIOUS
    <2>1. i \in InFlight /\ orders[i].id = p
      BY <1>1, <1>2
    <2>2. PairOf(i) = pairs
      BY <2>1 DEF SettledInv, QuietInv
    <2>3. orders[i].corrects = 0
      <3>1. i \in DOMAIN orders
        BY <1>0, <2>1, InFlightIs
      <3>2. p # CORRECTION_ID
        BY DEF CORRECTION_ID
      <3> QED  BY <1>0, <2>1, <3>1, <3>2 DEF IInv, LinkInv, OrdersLinked
    <2> QED  BY <1>2, <2>1, <2>2, <2>3 DEF PairOf
  <1> DEFINE Side(p, side) ==
                \E i \in filled : orders[i].id = p /\ orders[i].side = side
                                  /\ orders[i].label = "OPEN"
  <1>3. ASSUME NEW p \in 1 .. pairs, NEW side, p # pairs \/ InFlight = {}
        PROVE  (\E i \in filled' : /\ orders'[i].id = p /\ orders'[i].side = side
                                   /\ orders'[i].label = "OPEN")
                  <=> Side(p, side)
    BY <1>0, <1>1, <1>2, <1>3
  <1>4. ASSUME NEW p \in 1 .. pairs, p # pairs \/ InFlight = {}
        PROVE  p \in OpenPairs' <=> p \in OpenPairs
    BY <1>3, <1>4 DEF OpenPairs
  <1>5. OpenPairs' \subseteq 1 .. pairs /\ OpenPairs \subseteq 1 .. pairs
    BY DEF OpenPairs
  <1> QED  BY <1>4, <1>5 DEF Earlier

\* Triggering a pair opens none.
LEMMA OpenAtTrigger ==
    ASSUME SettledInv, DelayCovers, [Next]_vars, pairs' # pairs
    PROVE  Earlier' = OpenPairs /\ ~(\E i \in Legs' : orders'[i].id = pairs')
  <1>1. pairs' = pairs + 1 /\ pairs \in Nat /\ UNCHANGED <<orders, tradeVars>>
    BY TriggeredFlat DEF SettledInv, IInv, TypeInv, TypeOK, TypeOKBusiness
  <1>2. \A i \in DOMAIN orders : orders[i].id # pairs + 1
    <2> TAKE i \in DOMAIN orders
    <2>1. CASE orders[i].corrects = 0
      <3>1. orders[i].id \in 1 .. pairs
        BY <2>1 DEF SettledInv, LegInv, Legs, Corrections
      <3> QED  BY <1>1, <3>1
    <2>2. CASE orders[i].corrects # 0
      <3>1. orders[i].id = CORRECTION_ID
        BY <2>2 DEF SettledInv, IInv, LinkInv, OrdersLinked
      <3> QED  BY <1>1, <3>1 DEF CORRECTION_ID
    <2> QED  BY <2>1, <2>2
  <1>3. filled \subseteq DOMAIN orders /\ filled' = filled
    BY <1>1, AnsweredPublished DEF SettledInv, tradeVars
  <1>4. 1 .. (pairs + 1) = (1 .. pairs) \cup {pairs + 1} /\ pairs + 1 \notin 1 .. pairs
    BY <1>1
  <1>5. Legs' \subseteq DOMAIN orders
    BY <1>1 DEF Legs
  <1>6. pairs + 1 \notin OpenPairs'
    BY <1>1, <1>2, <1>3 DEF OpenPairs, Sides
  <1>7. \A p \in 1 .. pairs : p \in OpenPairs' <=> p \in OpenPairs
    BY <1>1, <1>3, <1>4 DEF OpenPairs
  <1>8. OpenPairs' \subseteq 1 .. (pairs + 1) /\ OpenPairs \subseteq 1 .. pairs
    BY <1>1 DEF OpenPairs
  <1>9. Earlier' = OpenPairs
    BY <1>1, <1>4, <1>6, <1>7, <1>8 DEF Earlier
  <1> QED  BY <1>1, <1>2, <1>5, <1>9

\* A filled correction takes the place of a rejected leg on its side.
LEMMA LostLeg ==
    ASSUME IInv, NEW side, Gain(side) = -1
    PROVE  \E i \in rejected \cap Legs : orders[i].id = pairs /\ orders[i].side = side
  <1> DEFINE done == OfPair(filled \cap Reported, side)
  <1>1. done # {} /\ done \cap Legs = {}
    BY DEF Gain
  <1>2. PICK k \in done : k \notin Legs
    BY <1>1
  <1>3. k \in DOMAIN orders /\ PairOf(k) = pairs /\ orders[k].side = side
    BY <1>2, AnsweredPublished DEF OfPair
  <1>4. orders[k].corrects # 0
    BY <1>2, <1>3 DEF Legs, Corrections
  <1> QED  BY <1>3, <1>4, CorrectsLeg

\* An open pair has gained one on either side.
LEMMA OpenGain ==
    ASSUME IInv, filled \subseteq Reported, pairs # 0, pairs \in OpenPairs, NEW side \in Sides
    PROVE  Gain(side) = 1
  <1>1. PICK i \in filled : orders[i].id = pairs /\ orders[i].side = side
    BY DEF OpenPairs
  <1>2. i \in Legs /\ PairOf(i) = pairs
    <2>1. i \in DOMAIN orders
      BY <1>1, AnsweredPublished
    <2>2. orders[i].corrects = 0
      BY <1>1, <2>1 DEF IInv, LinkInv, OrdersLinked, CORRECTION_ID
    <2> QED  BY <1>1, <2>1, <2>2 DEF Legs, Corrections, PairOf
  <1>3. i \in OfPair(filled \cap Reported, side) \cap Legs
    BY <1>1, <1>2 DEF OfPair
  <1> QED  BY <1>3 DEF Gain

\* When nothing is on its way, an even count is at least two for every open pair.
LEMMA CountCoversOpen ==
    ASSUME SettledInv, CapInv, Limited, InFlight = {}, CountAllows
    PROVE  2 * Cardinality(OpenPairs) <= ordersCount
  <1>1. /\ IInv /\ TypeInv /\ LegInv /\ ordersCount \in Int /\ pairs \in Nat
        /\ DelayCovers /\ NoneBothRejected
    BY DEF SettledInv, IInv, TypeInv, TypeOK, TypeOKBusiness, Limited
  <1>2. filled \subseteq Reported
    BY <1>1, InFlightIs DEF IInv, LinkInv, Answers
  <1>3. /\ Gain("BUY") \in {0, 1, -1} /\ Gain("SELL") \in {0, 1, -1}
        /\ Cardinality(Earlier) \in Nat /\ Cardinality(OpenPairs) \in Nat
    BY <1>1, OpenFinite DEF Gain
  <1>4. ordersCount - Gain("BUY") - Gain("SELL") >= 2 * Cardinality(Earlier)
    BY DEF CapInv, Before
  <1>5. CASE pairs \in OpenPairs
    <2>1. Gain("BUY") = 1 /\ Gain("SELL") = 1
      <3>1. pairs # 0
        BY <1>1, <1>5 DEF OpenPairs
      <3> QED  BY <1>1, <1>2, <1>5, <3>1, OpenGain DEF Sides
    <2>2. Cardinality(OpenPairs) = Cardinality(Earlier) + 1
      BY <1>1, <1>5, OpenFinite
    <2> QED  BY <1>1, <1>3, <1>4, <2>1, <2>2
  <1>6. CASE pairs \notin OpenPairs
    <2>1. Cardinality(OpenPairs) = Cardinality(Earlier)
      BY <1>1, <1>6, OpenFinite
    <2>2. Gain("BUY") = 0 <=> Gain("SELL") = 0
      <3>1. CASE pairs = 0
        <4>1. \A i \in DOMAIN orders : PairOf(i) # pairs
          BY <1>1, <3>1, PairOfRange
        <4>2. \A side : OfPair(filled \cap Reported, side) = {}
          BY <1>1, <4>1, AnsweredPublished DEF OfPair
        <4> QED  BY <4>2 DEF Gain
      <3>2. CASE pairs # 0
        <4>1. (ordersCount - Gain("BUY") - Gain("SELL")) % 2 = 0 /\ ordersCount % 2 = 0
          BY <1>1, <3>2 DEF SettledInv, CountInv, Before, CountAllows
        <4>2. ASSUME NEW g \in {0, 1, -1}, NEW h \in {0, 1, -1},
                     (ordersCount - g - h) % 2 = 0
              PROVE  g = 0 <=> h = 0
          BY <1>1, <4>1, <4>2
        <4> QED  BY <1>3, <4>1, <4>2
      <3> QED  BY <3>1, <3>2
    <2>3. ~(Gain("BUY") = -1 /\ Gain("SELL") = -1)
      <3> SUFFICES ASSUME Gain("BUY") = -1, Gain("SELL") = -1 PROVE FALSE
        OBVIOUS
      <3>1. \A side \in Sides : \E i \in rejected \cap Legs :
               orders[i].id = pairs /\ orders[i].side = side
        BY <1>1, LostLeg DEF Sides
      <3>2. BothRejected(pairs)
        BY <1>1, <3>1, BothRejectedIs
      <3>3. pairs \in 1 .. pairs
        <4>1. PICK i \in Legs : orders[i].id = pairs
          BY <3>1 DEF Sides
        <4> QED  BY <1>1, <4>1 DEF LegInv
      <3> QED  BY <1>1, <3>2, <3>3 DEF NoneBothRejected
    <2>4. Gain("BUY") + Gain("SELL") >= 0
      BY <1>3, <2>2, <2>3
    <2> QED  BY <1>1, <1>3, <1>4, <2>1, <2>4
  <1> QED  BY <1>5, <1>6

\* The limit holds where its reasons do.
LEMMA CapHolds ==
    ASSUME SettledInv, CapInv, Limited
    PROVE  2 * Cardinality(OpenPairs) <= MaxOrders + 1
  <1>1. IInv /\ TypeInv /\ MaxOrders \in Int
    BY BusinessAssumption DEF SettledInv, IInv
  <1>2. /\ 2 * Cardinality(Earlier) <= MaxOrders + 1
        /\ Opening => 2 * Cardinality(Earlier) + 2 <= MaxOrders + 1
    BY DEF CapInv
  <1>3. CASE pairs \in OpenPairs
    <2>1. PICK i \in filled : orders[i].id = pairs /\ orders[i].label = "OPEN"
      BY <1>3 DEF OpenPairs, Sides
    <2>2. i \in DOMAIN orders /\ pairs # 0
      BY <1>1, <1>3, <2>1, AnsweredPublished DEF OpenPairs
    <2>3. i \in Legs
      BY <1>1, <2>1, <2>2 DEF IInv, LinkInv, OrdersLinked, CORRECTION_ID, Legs, Corrections
    <2>4. 2 * Cardinality(Earlier) + 2 <= MaxOrders + 1
      BY <1>2, <2>1, <2>3 DEF Opening
    <2>5. /\ Cardinality(OpenPairs) = Cardinality(Earlier) + 1
          /\ Cardinality(Earlier) \in Nat
      BY <1>1, <1>3, OpenFinite
    <2> QED  BY <1>1, <2>4, <2>5
  <1>4. CASE pairs \notin OpenPairs
    BY <1>1, <1>2, <1>4, OpenFinite
  <1> QED  BY <1>3, <1>4

\* A pair has a direction, and the direction is given up only when nothing is on its way
\* and the count is zero.
LEMMA DirectionStep ==
    ASSUME SettledInv, DelayCovers, [Next]_vars, currentDiff' = "NONE"
    PROVE  /\ pairs' = pairs
           /\ currentDiff # "NONE" =>
                 /\ NoTrade /\ InFlight = {} /\ ordersCount = 0
                 /\ businessPc \notin {"first", "second"}
  <1> USE DEF ringVars, businessVars, tradeVars
  <1>1. ASSUME NEW d \in {"A", "B"}, Trigger(d) PROVE FALSE
    <2>1. OpensFirst(d) \/ OpensMore(d) \/ Closes(d)
      BY <1>1 DEF Trigger, Wanted, Opens
    <2>2. currentDiff' = IF OpensFirst(d) THEN d ELSE DiffNow
      BY <1>1 DEF Trigger
    <2>3. CASE OpensFirst(d)
      BY <2>2, <2>3
    <2>4. CASE ~OpensFirst(d)
      <3>1. DiffNow = d \/ DiffNow = Other(d)
        BY <2>1, <2>4 DEF OpensMore, Closes
      <3>2. d # "NONE" /\ Other(d) # "NONE"
        BY DEF Other
      <3> QED  BY <2>2, <2>4, <3>1, <3>2
    <2> QED  BY <2>3, <2>4
  <1>2. pairs' = pairs
    BY <1>1, TriggeredFlat
  <1>3. CASE currentDiff # "NONE"
    <2>1. NoTrade /\ DelayOver
      BY <1>1, <1>3
         DEF Next, Joined, vars, BusinessStep, BusinessInitiate, PollPrices, PollExecutions,
             HandleExecution, StillDelayed, FirstLeg, SecondLeg, BusinessTerminate
    <2>2. businessPc \notin {"first", "second"}
      BY <2>1 DEF NoTrade, EndOfPoll
    <2>3. InFlight = {}
      BY <2>1, <2>2 DEF DelayOver, IsDelayed, SettledInv, QuietInv
    <2>4. ordersCount = 0
      BY <1>3, <2>1 DEF NoTrade, DiffNow
    <2> QED  BY <1>2, <2>1, <2>2, <2>3, <2>4
  <1> QED  BY <1>2, <1>3

\* The direction is chosen with the pair and given up after it.
LEMMA IdleNext == ASSUME SettledInv, IdleInv, [Next]_vars PROVE IdleInv'
  <1> USE DEF ringVars, businessVars, tradeVars
  <1> SUFFICES ASSUME DelayCovers, currentDiff' = "NONE"
               PROVE  InFlight' = {} /\ businessPc' \notin {"first", "second"}
    BY DEF IdleInv
  <1>1. pairs' = pairs /\ InFlight = {} /\ businessPc \notin {"first", "second"}
    BY DirectionStep DEF IdleInv
  <1>2. InFlight' = {}
    BY <1>1, StillQuiet DEF SettledInv
  <1>3. ASSUME NEW d \in {"A", "B"}, Trigger(d) PROVE FALSE
    BY <1>1, <1>3 DEF Trigger, SettledInv, IInv, TypeInv, TypeOK, TypeOKBusiness
  <1>4. businessPc' \notin {"first", "second"}
    BY <1>1, <1>3
       DEF Next, Joined, vars, BusinessStep, BusinessInitiate, PollPrices, PollExecutions,
           HandleExecution, StillDelayed, NoTrade, FirstLeg, SecondLeg, BusinessTerminate
  <1> QED  BY <1>2, <1>4

\* A pair that is triggered to open adds to fewer pairs than the limit allows.
LEMMA RoomToOpen ==
    ASSUME SettledInv, CapInv, Limited, CountAllows, InFlight = {},
           NEW d \in {"A", "B"}, Opens(d)
    PROVE  2 * Cardinality(OpenPairs) + 2 <= MaxOrders + 1
  <1>1. 2 * Cardinality(OpenPairs) <= ordersCount
    BY CountCoversOpen
  <1>2. /\ Cardinality(OpenPairs) \in Nat /\ ordersCount \in Int /\ MaxOrders \in Int
        /\ MaxOrders > 0
    BY OpenFinite, BusinessAssumption
       DEF SettledInv, IInv, TypeInv, TypeOK, TypeOKBusiness, Limited
  <1>3. CASE OpensMore(d)
    BY <1>1, <1>2, <1>3 DEF OpensMore, CanOpen
  <1>4. CASE OpensFirst(d)
    <2>1. ordersCount = 0 \/ currentDiff = "NONE"
      BY <1>4 DEF OpensFirst, DiffNow
    <2>2. CASE ordersCount = 0
      BY <1>1, <1>2, <2>2
    <2>3. CASE currentDiff = "NONE"
      <3>1. Cardinality(OpenPairs) = 0
        BY <2>3, FS_EmptySet DEF CapInv
      <3> QED  BY <1>2, <3>1
    <2> QED  BY <2>1, <2>2, <2>3
  <1> QED  BY <1>3, <1>4 DEF Opens

\* A pair under way stays what it was triggered as.
LEMMA OpeningKept ==
    ASSUME SettledInv, [Next]_vars, pairs' = pairs, Opening'
    PROVE  Opening
  <1> USE DEF ringVars, businessVars, tradeVars
  <1>1. ASSUME NEW d, Trigger(d) PROVE FALSE
    BY <1>1 DEF Trigger, SettledInv, IInv, TypeInv, TypeOK, TypeOKBusiness
  <1>2. orderType' \in {orderType, "NONE"}
    BY <1>1 DEF Next, Joined, vars, BusinessStep, BusinessInitiate, PollPrices,
           PollExecutions, HandleExecution, StillDelayed, NoTrade, FirstLeg, SecondLeg,
           BusinessTerminate
  <1>3. ASSUME NEW i \in Legs', orders'[i].id = pairs', orders'[i].label = "OPEN"
        PROVE  Opening
    <2>1. i \in DOMAIN orders'
      BY DEF Legs
    <2>2. CASE i \in DOMAIN orders
      <3>1. i \in Legs /\ orders'[i] = orders[i]
        BY <2>2, PairOfKept, Growth DEF SettledInv
      <3> QED  BY <1>3, <3>1 DEF Opening
    <2>3. CASE i \notin DOMAIN orders
      BY <1>3, <2>1, <2>3, NewOrderPair DEF SettledInv, Opening
    <2> QED  BY <2>2, <2>3
  <1> QED  BY <1>2, <1>3 DEF Opening

\* A pair is opened below the limit, and becomes open on its own.
LEMMA CapNext == ASSUME LimitInv, [Next]_vars PROVE CapInv'
  <1> SUFFICES ASSUME Limited'
               PROVE  /\ Before' >= 2 * Cardinality(Earlier')
                      /\ 2 * Cardinality(Earlier') <= MaxOrders + 1
                      /\ Opening' => 2 * Cardinality(Earlier') + 2 <= MaxOrders + 1
                      /\ currentDiff' = "NONE" => OpenPairs' = {}
    BY DEF CapInv
  <1>0. /\ SettledInv /\ CapInv /\ IdleInv /\ TypeInv
        /\ Limited /\ DelayCovers
    BY RejectedStay DEF LimitInv, Limited, SettledInv, IInv
  <1>1. CASE pairs' # pairs
    <2>1. InFlight = {} /\ CountAllows
      BY <1>0, <1>1, TriggeredFlat
    <2>2. PICK d \in {"A", "B"} : Trigger(d)
      BY <1>0, <1>1, TriggeredFlat
    <2>3. Before' = ordersCount
      BY <1>0, <1>1, CountTrigger
    <2>4. Earlier' = OpenPairs /\ ~(\E i \in Legs' : orders'[i].id = pairs')
      BY <1>0, <1>1, OpenAtTrigger
    <2>5. 2 * Cardinality(OpenPairs) <= ordersCount
      BY <1>0, <2>1, CountCoversOpen
    <2>6. Before' >= 2 * Cardinality(Earlier')
      <3>1. ordersCount \in Int /\ Cardinality(OpenPairs) \in Nat
        BY <1>0, OpenFinite DEF TypeInv, TypeOK, TypeOKBusiness
      <3> QED  BY <2>3, <2>4, <2>5, <3>1
    <2>7. 2 * Cardinality(Earlier') <= MaxOrders + 1
      BY <1>0, <2>4, CapHolds
    <2>8. ASSUME Opening' PROVE 2 * Cardinality(Earlier') + 2 <= MaxOrders + 1
      <3>1. orderType' = "OPEN"
        BY <2>4, <2>8 DEF Opening
      <3>2. Opens(d)
        BY <2>2, <3>1 DEF Trigger
      <3> QED  BY <1>0, <2>1, <2>4, <3>2, RoomToOpen
    <2>9. currentDiff' # "NONE"
      BY <1>0, <1>1, DirectionStep
    <2> QED  BY <2>6, <2>7, <2>8, <2>9
  <1>2. CASE pairs' = pairs
    <2>1. Before' = Before /\ Earlier' = Earlier
      BY <1>0, <1>2, CountNext, EarlierKept
    <2>2. Opening' => Opening
      BY <1>0, <1>2, OpeningKept
    <2>3. ASSUME currentDiff' = "NONE" PROVE OpenPairs' = {}
      <3>1. InFlight = {}
        BY <1>0, <2>3, DirectionStep DEF IdleInv
      <3>2. OpenPairs' = OpenPairs
        BY <1>0, <1>2, <3>1, EarlierKept
      <3>3. CASE currentDiff = "NONE"
        BY <1>0, <3>2, <3>3 DEF CapInv
      <3>4. CASE currentDiff # "NONE"
        <4>1. ordersCount = 0
          BY <1>0, <2>3, <3>4, DirectionStep
        <4>2. CountAllows
          BY <4>1 DEF CountAllows
        <4>3. 2 * Cardinality(OpenPairs) <= 0
          BY <1>0, <3>1, <4>1, <4>2, CountCoversOpen
        <4>4. IsFiniteSet(OpenPairs) /\ Cardinality(OpenPairs) \in Nat
          BY <1>0, OpenFinite
        <4>5. Cardinality(OpenPairs) = 0
          BY <4>3, <4>4
        <4> QED  BY <3>2, <4>4, <4>5, FS_EmptySet
      <3> QED  BY <3>3, <3>4
    <2> QED  BY <1>0, <2>1, <2>2, <2>3 DEF CapInv
  <1> QED  BY <1>1, <1>2

\* Every step keeps the invariant.
LEMMA LimitNext == ASSUME LimitInv, [Next]_vars PROVE LimitInv'
  BY SettledNext, IdleNext, CapNext DEF LimitInv

\* Nothing is open at the start.
LEMMA LimitInit == ASSUME Init PROVE LimitInv
  <1>1. SettledInv
    BY SettledInit
  <1>2. /\ orders = << >> /\ filled = {} /\ received = {} /\ rejected = {} /\ pairs = 0
        /\ orderType = "NONE" /\ ordersCount = InitCount /\ businessPc = "new"
    BY DEF Init, InitRings, InitBusiness, InitTrade, NewRing, orders
  <1>3. InFlight = {}
    BY <1>2 DEF InFlight, Unpolled, Unanswered
  <1>4. OpenPairs = {} /\ Earlier = {}
    BY <1>2 DEF OpenPairs, Earlier
  <1>5. ~Opening
    BY <1>2 DEF Opening, Legs
  <1>6. Gain("BUY") = 0 /\ Gain("SELL") = 0
    BY <1>2 DEF Gain, OfPair
  <1>7. Before = InitCount /\ Cardinality(Earlier) = 0
    BY <1>2, <1>4, <1>6, FS_EmptySet, BusinessAssumption DEF Before
  <1>8. CapInv
    BY <1>4, <1>5, <1>7, BusinessAssumption DEF CapInv, Limited
  <1> QED  BY <1>1, <1>2, <1>3, <1>8 DEF LimitInv, IdleInv

\* MAX_ORDERS bounds the pairs that are held, whatever is rejected or lost, when the
\* delay outlasts every answer and no pair has both its legs rejected
\* (BusinessOffice.h:89): the corrections of such a pair would take two from the count.
THEOREM OpenIsCapped == Spec => []OpenCapped
  <1>1. Init => LimitInv
    BY LimitInit
  <1>2. LimitInv /\ [Next]_vars => LimitInv'
    BY LimitNext
  <1>3. LimitInv => OpenCapped
    BY CapHolds DEF LimitInv, OpenCapped, Limited, NoneBothRejected
  <1> QED  BY <1>1, <1>2, <1>3, PTL DEF Spec

-----------------------------------------------------------------------------
(* Room in the rings.  An order is polled before the next pair starts by   *)
(* the office of its broker, but the other one may still have to pass over *)
(* it, so what is unread is of two pairs.                                  *)

UnreadBy(b) == {i \in DOMAIN orders : i > orderRing.seq[b]}

\* A pair has one leg at each broker.
PlaceInv ==
    /\ \A i \in Legs : orders[i].broker \in Brokers
    /\ \A i, j \in Legs :
          orders[i].id = orders[j].id /\ orders[i].broker = orders[j].broker => i = j
    /\ businessPc = "second" =>
          /\ \E i \in Legs : orders[i].id = pairs
          /\ \A i \in Legs : orders[i].id = pairs => orders[i].broker = "LMAX"
    /\ businessPc \notin {"first", "second"} /\ pairs # 0 =>
          \A b \in Brokers : \E i \in Legs : orders[i].id = pairs /\ orders[i].broker = b

\* The orders of a pair follow those of the pairs before.
LaterInv ==
    DelayCovers => \A i, j \in DOMAIN orders : i < j => PairOf(i) <= PairOf(j)

\* What a broker received was polled.
PolledInv ==
    \A i \in received :
       orders[i].broker \in orderRing.gates => i <= orderRing.seq[orders[i].broker]

\* An office has not read orders of the last pair, and orders of the other broker of
\* the pair before.
LagInv ==
    DelayCovers =>
       \A b \in orderRing.gates : \A i \in UnreadBy(b) :
          PairOf(i) = pairs \/ (PairOf(i) = pairs - 1 /\ orders[i].broker # b)

\* The executions the business office has not read are of the last pair.
ReadInv ==
    BUSINESS \in execRing.gates =>
       /\ execRing.seq[BUSINESS] <= available
       /\ DelayCovers =>
             \A n \in DOMAIN executions :
                n > execRing.seq[BUSINESS] => PairOf(executions[n].reports) = pairs

RoomInv == SettledInv /\ PlaceInv /\ LaterInv /\ PolledInv /\ LagInv /\ ReadInv

\* The first leg goes to LMAX and the second to IB.
LEMMA PlaceNext == ASSUME IInv, LegInv, PlaceInv, [Next]_vars PROVE PlaceInv'
  <1> USE DEF ringVars, businessVars, tradeVars
  <1>0. /\ pairs \in Nat
        /\ businessPc \in {"new", "poll", "executions", "first", "second", "stopped"}
    BY DEF IInv, TypeInv, TypeOK, TypeOKBusiness
  <1>g. /\ \A i \in DOMAIN orders : orders'[i] = orders[i]
        /\ \A i \in DOMAIN orders : i \in Legs' <=> i \in Legs
        /\ DOMAIN orders \subseteq DOMAIN orders'
    BY Growth, PairOfKept
  <1>l. Legs \subseteq DOMAIN orders /\ Legs' \subseteq DOMAIN orders'
    BY DEF Legs
  <1>1. CASE Legs' \subseteq DOMAIN orders
    <2>1. Legs' = Legs /\ \A i \in Legs : orders'[i] = orders[i]
      BY <1>1, <1>g, <1>l
    <2>2. /\ \A i \in Legs' : orders'[i].broker \in Brokers
          /\ \A i, j \in Legs' :
                orders'[i].id = orders'[j].id /\ orders'[i].broker = orders'[j].broker => i = j
      BY <2>1 DEF PlaceInv
    <2>3. CASE UNCHANGED <<businessPc, pairs>>
      BY <2>1, <2>2, <2>3 DEF PlaceInv
    <2>4. CASE /\ businessPc \notin {"first", "second"} /\ businessPc' \notin {"first", "second"}
               /\ pairs' = pairs
      BY <2>1, <2>2, <2>4 DEF PlaceInv
    <2>5. CASE businessPc' = "first"
      BY <2>2, <2>5 DEF PlaceInv
    <2>6. CASE FirstLeg \/ SecondLeg
      <3>1. TypeInv /\ UNCHANGED <<execRing, isRunning>>
        BY <2>6 DEF FirstLeg, SecondLeg, IInv
      <3>2. Len(orders) + 1 \in DOMAIN orders' \ DOMAIN orders
        <4>1. PICK e \in OrderEvent : orderRing' = Publish(orderRing, e)
          BY <2>6, <3>1, LegPublished
        <4> QED  BY <3>1, <4>1, PublishOrderType, LogTypes
      <3>3. Len(orders) + 1 \in Legs'
        BY <2>6, <3>2, NewOrderPair DEF FirstLeg, SecondLeg, HandleExecution
      <3> QED  BY <1>1, <3>2, <3>3
    <2> QED
      BY <2>3, <2>4, <2>5, <2>6
         DEF Next, Joined, vars, BusinessStep, BusinessInitiate, PollPrices, PollExecutions,
             HandleExecution, StillDelayed, NoTrade, Trigger, EndOfPoll, BusinessTerminate
  <1>2. ASSUME NEW i \in Legs', i \notin DOMAIN orders PROVE PlaceInv'
    <2> DEFINE o == orders'[i]
    <2>1. /\ pairs' = pairs /\ o.id = pairs /\ DOMAIN orders' = DOMAIN orders \cup {i}
          /\ FirstLeg \/ SecondLeg
      BY <1>2, <1>l, NewOrder, NewOrderPair
    <2>2. o.broker = IF FirstLeg THEN "LMAX" ELSE "IB"
      <3>1. \/ FirstLeg /\ o = Leg(priceA.broker, FirstSide)
            \/ SecondLeg /\ o = Leg(priceB.broker, SecondSide)
        BY <1>2, <1>l, <2>1, NewOrder DEF FirstLeg, SecondLeg, HandleExecution
      <3>2. businessPc = IF FirstLeg THEN "first" ELSE "second"
        BY <2>1 DEF FirstLeg, SecondLeg
      <3>3. priceA.broker = "LMAX" /\ priceB.broker = "IB"
        BY <3>2, PairBrokers
      <3> QED  BY <3>1, <3>2, <3>3 DEF Leg, FirstLeg, SecondLeg
    <2>3. Legs' = Legs \cup {i} /\ \A j \in Legs : orders'[j] = orders[j]
      BY <1>2, <1>g, <1>l, <2>1
    <2>4. \A j \in Legs : orders[j].id = pairs => orders[j].broker # o.broker
      <3>1. CASE FirstLeg
        BY <3>1 DEF LegInv, FirstLeg
      <3>2. CASE ~FirstLeg
        BY <2>1, <2>2, <3>2 DEF PlaceInv, SecondLeg
      <3> QED  BY <3>1, <3>2
    <2>5. o.broker \in Brokers
      BY <2>2 DEF Brokers
    <2>6. /\ \A j \in Legs' : orders'[j].broker \in Brokers
          /\ \A j, k \in Legs' :
                orders'[j].id = orders'[k].id /\ orders'[j].broker = orders'[k].broker => j = k
      BY <2>1, <2>3, <2>4, <2>5 DEF PlaceInv
    <2>7. CASE FirstLeg
      <3>1. businessPc' = "second" /\ \A j \in Legs : orders[j].id # pairs
        BY <2>7 DEF FirstLeg, LegInv
      <3> QED  BY <2>1, <2>2, <2>3, <2>6, <2>7, <3>1 DEF PlaceInv
    <2>8. CASE ~FirstLeg
      <3>1. businessPc = "second" /\ businessPc' = "poll"
        BY <2>1, <2>8 DEF SecondLeg
      <3>2. PICK j \in Legs : orders[j].id = pairs /\ orders[j].broker = "LMAX"
        BY <3>1 DEF PlaceInv
      <3>3. \A b \in Brokers : \E k \in Legs' : orders'[k].id = pairs' /\ orders'[k].broker = b
        BY <2>1, <2>2, <2>3, <2>8, <3>2 DEF Brokers
      <3> QED  BY <2>6, <3>1, <3>3 DEF PlaceInv
    <2> QED  BY <2>7, <2>8
  <1> QED  BY <1>1, <1>2

\* Every new order is of the last pair.
LEMMA NewIsLast ==
    ASSUME IInv, QuietInv, DelayCovers, [Next]_vars,
           NEW i \in DOMAIN orders', i \notin DOMAIN orders
    PROVE  PairOf(i)' = pairs /\ pairs' = pairs
  <1> DEFINE r == executions[handled + 1].reports
  <1>1. /\ pairs' = pairs
        /\ \/ PairOf(i)' = pairs
           \/ handled + 1 \in DOMAIN executions /\ PairOf(i)' = PairOf(r)
    BY NewOrderPair
  <1>2. CASE handled + 1 \in DOMAIN executions /\ PairOf(i)' = PairOf(r)
    <2>1. handled + 1 > handled
      BY DEF IInv, TypeInv, TypeOK, TypeOKBusiness
    <2>2. r \in InFlight
      BY <1>2, <2>1, UnhandledInFlight
    <2> QED  BY <1>1, <1>2, <2>2 DEF QuietInv
  <1> QED  BY <1>1, <1>2

\* A new order comes after all others.
LEMMA LaterNext == ASSUME SettledInv, LaterInv, [Next]_vars PROVE LaterInv'
  <1> SUFFICES ASSUME DelayCovers, NEW i \in DOMAIN orders', NEW j \in DOMAIN orders', i < j
               PROVE  PairOf(i)' <= PairOf(j)'
    BY DEF LaterInv
  <1>0. IInv /\ LegInv /\ QuietInv /\ TypeInv
    BY DEF SettledInv, IInv
  <1>a. /\ Len(orders) \in Nat /\ DOMAIN orders = 1 .. Len(orders)
        /\ \A k \in DOMAIN orders' : k \notin DOMAIN orders => k = Len(orders) + 1
    BY <1>0, LogTypes, NewOrder
  <1>1. i \in DOMAIN orders
    <2> SUFFICES ASSUME i \notin DOMAIN orders PROVE FALSE
      OBVIOUS
    <2>1. i = Len(orders) + 1
      BY <1>a
    <2>2. j \in 1 .. Len(orders) \/ j = Len(orders) + 1
      BY <1>a
    <2> QED  BY <1>a, <2>1, <2>2
  <1>2. PairOf(i)' = PairOf(i) /\ PairOf(i) \in 1 .. pairs
    BY <1>0, <1>1, PairOfKept, PairOfRange
  <1>3. CASE j \in DOMAIN orders
    <2>1. PairOf(j)' = PairOf(j)
      BY <1>0, <1>3, PairOfKept
    <2> QED  BY <1>1, <1>2, <1>3, <2>1 DEF LaterInv
  <1>4. CASE j \notin DOMAIN orders
    <2>1. PairOf(j)' = pairs
      BY <1>0, <1>4, NewIsLast
    <2>2. pairs \in Nat
      BY <1>0 DEF TypeInv, TypeOK, TypeOKBusiness
    <2> QED  BY <1>2, <2>1, <2>2
  <1> QED  BY <1>3, <1>4

\* Orders are sent as they are polled.
LEMMA PolledNext == ASSUME IInv, PolledInv, [Next]_vars PROVE PolledInv'
  <1> USE DEF ringVars, businessVars, tradeVars
  <1>0. /\ orderRing \in Rings(OrderEvent, Brokers) /\ orderRing.seq \in [Brokers -> Nat]
        /\ Len(orders) \in Nat /\ DOMAIN orders = 1 .. Len(orders)
        /\ orderRing'.seq \in [Brokers -> Nat]
        /\ TypeInv
    BY IInvNext, LogTypes DEF IInv, TypeInv, TypeOK, TypeOKRings, Rings
  <1> SUFFICES ASSUME NEW i \in received', orders'[i].broker \in orderRing'.gates
               PROVE  i <= orderRing'.seq[orders'[i].broker]
    BY DEF PolledInv
  <1>1. CASE i \in received
    <2> DEFINE b == orders[i].broker
    <2>1. i \in DOMAIN orders /\ orders'[i] = orders[i] /\ b \in Brokers
      BY <1>1, Growth DEF IInv, LinkInv, Answers, TypeInv, Bounded
    <2>2. CASE b \in orderRing.gates /\ orderRing'.seq[b] >= orderRing.seq[b]
      <3>1. i <= orderRing.seq[b]
        BY <1>1, <2>2 DEF PolledInv
      <3> QED  BY <1>0, <2>1, <2>2, <3>1
    <2>3. CASE orderRing'.seq[b] = Len(orders)
      BY <1>0, <2>1, <2>3
    <2> QED  BY <1>0, <2>1, <2>2, <2>3, SeqStep
  <1>2. CASE i \notin received
    <2>1. PICK b \in Brokers : PollOrders(b)
      BY <1>2 DEF Next, Joined, vars, BrokerStep, BrokerAnswers, TradeStep, TradeInitiate,
             WaitForRoom, PublishReport, TradeTerminate, SessionFails
    <2>2. PICK last \in orderRing.seq[b] .. Len(orders) :
             i \in Own(b, last) /\ orderRing' = ConsumeTo(orderRing, b, last)
      BY <1>2, <2>1 DEF PollOrders
    <2>3. i <= last /\ orders[i].broker = b
      BY <1>0, <2>2 DEF Own
    <2>4. orderRing'.seq[b] = last /\ orders' = orders
      BY <1>0, <2>2 DEF ConsumeTo, Rings, orders
    <2> QED  BY <2>3, <2>4
  <1> QED  BY <1>1, <1>2

\* A pair is triggered when the office of each broker has polled its leg of the pair
\* before, and so all that came earlier.
LEMMA LagNext ==
    ASSUME SettledInv, PlaceInv, LaterInv, LagInv, [Next]_vars
    PROVE  LagInv'
  <1> USE DEF ringVars, businessVars, tradeVars
  <1>s. IInv /\ LegInv /\ QuietInv /\ TypeInv
    BY DEF SettledInv, IInv
  <1>0. /\ orderRing \in Rings(OrderEvent, Brokers) /\ orderRing.seq \in [Brokers -> Nat]
        /\ Len(orders) \in Nat /\ DOMAIN orders = 1 .. Len(orders)
        /\ orderRing'.seq \in [Brokers -> Nat] /\ orderRing'.gates \subseteq Brokers
        /\ pairs \in Nat
    BY <1>s, IInvNext, LogTypes DEF IInv, TypeInv, TypeOK, TypeOKRings, TypeOKBusiness, Rings
  <1> SUFFICES ASSUME DelayCovers, NEW b \in orderRing'.gates, NEW i \in DOMAIN orders',
                      i > orderRing'.seq[b]
               PROVE  PairOf(i)' = pairs' \/ (PairOf(i)' = pairs' - 1 /\ orders'[i].broker # b)
    BY DEF LagInv, UnreadBy
  <1>1. CASE i \notin DOMAIN orders
    BY <1>s, <1>1, NewIsLast
  <1>2. CASE i \in DOMAIN orders
    <2>1. PairOf(i)' = PairOf(i) /\ orders'[i] = orders[i] /\ PairOf(i) \in 1 .. pairs
      BY <1>s, <1>2, PairOfKept, Growth, PairOfRange
    <2>2. b \in orderRing.gates /\ i > orderRing.seq[b] /\ b \in Brokers
      <3>1. b \in Brokers /\ orderRing'.seq[b] # Len(orders)
        BY <1>0, <1>2
      <3>2. b \in orderRing.gates /\ orderRing'.seq[b] >= orderRing.seq[b]
        BY <1>s, <3>1, SeqStep
      <3> QED  BY <1>0, <1>2, <3>1, <3>2
    <2>3. PairOf(i) = pairs \/ (PairOf(i) = pairs - 1 /\ orders[i].broker # b)
      BY <1>2, <2>2 DEF LagInv, UnreadBy
    <2>4. CASE pairs' = pairs
      BY <2>1, <2>3, <2>4
    <2>5. CASE pairs' # pairs
      <3>1. (\E d \in {"A", "B"} : Trigger(d)) /\ InFlight = {}
        BY <1>s, <2>5, TriggeredQuiet
      <3>2. pairs' = pairs + 1 /\ businessPc \notin {"first", "second"}
        BY <3>1 DEF Trigger, EndOfPoll
      <3>3. \A k \in DOMAIN orders : k > orderRing.seq[b] => orders[k].broker # b
        BY <2>2, <3>1 DEF InFlight, Unpolled
      <3>4. PairOf(i) = pairs
        <4> SUFFICES ASSUME PairOf(i) = pairs - 1 PROVE FALSE
          BY <2>3
        <4>1. pairs # 0
          BY <1>0, <2>1
        <4>2. PICK k \in Legs : orders[k].id = pairs /\ orders[k].broker = b
          BY <2>2, <3>2, <4>1 DEF PlaceInv
        <4>3. k \in DOMAIN orders /\ PairOf(k) = pairs
          BY <4>2 DEF Legs, Corrections, PairOf
        <4>4. ~(PairOf(k) <= PairOf(i))
          BY <1>0, <4>3
        <4>5. ~(k < i) /\ k # i
          BY <1>2, <4>3, <4>4, <1>0 DEF LaterInv
        <4>6. k > orderRing.seq[b]
          BY <1>0, <1>2, <2>2, <4>3, <4>5
        <4> QED  BY <3>3, <4>2, <4>3, <4>6
      <3> QED  BY <1>0, <1>2, <2>1, <2>2, <3>2, <3>3, <3>4
    <2> QED  BY <2>4, <2>5
  <1> QED  BY <1>1, <1>2

\* The position of the business office in the executions never goes back, but where it
\* is attached.
LEMMA ExecSeqStep ==
    ASSUME IInv, ReadInv, [Next]_vars, BUSINESS \in execRing'.gates
    PROVE  /\ \/ /\ BUSINESS \in execRing.gates
                 /\ execRing'.seq[BUSINESS] >= execRing.seq[BUSINESS]
              \/ execRing'.seq[BUSINESS] = Len(executions)
           /\ execRing'.seq[BUSINESS] <= available'
  <1> USE DEF ringVars, businessVars, tradeVars
  <1>0. /\ execRing \in Rings(ExecutionEvent, ExecReaders)
        /\ execRing.seq \in [{BUSINESS} -> Nat]
        /\ Len(executions) \in Nat /\ available \in Nat /\ available <= Len(executions)
    BY LogTypes DEF IInv, TypeInv, Bounded, TypeOK, TypeOKRings, TypeOKBusiness, Rings,
           ExecReaders
  <1>1. CASE /\ execRing' = execRing \/ \E e : execRing' = Publish(execRing, e)
             /\ available' \in {available, Len(executions)}
    <2>1. execRing'.seq = execRing.seq /\ execRing'.gates = execRing.gates
      BY <1>0, <1>1 DEF Publish, Rings
    <2> QED  BY <1>0, <1>1, <2>1 DEF ReadInv
  <1>2. CASE execRing' = RemoveGate(execRing, BUSINESS)
    BY <1>0, <1>2 DEF RemoveGate, Rings
  <1>3. CASE execRing' = AddGate(execRing, BUSINESS) /\ available' = Len(executions)
    <2>1. execRing'.seq[BUSINESS] = Len(executions)
      BY <1>0, <1>3 DEF AddGate, Rings, executions
    <2> QED  BY <1>0, <1>3, <2>1
  <1>4. CASE execRing' = ConsumeTo(execRing, BUSINESS, available) /\ available' = available
    <2>1. execRing'.seq[BUSINESS] = available /\ execRing'.gates = execRing.gates
      BY <1>0, <1>4 DEF ConsumeTo, Rings
    <2> QED  BY <1>0, <1>4, <2>1 DEF ReadInv
  <1>5. CASE BusinessStep
    BY <1>1, <1>2, <1>3, <1>4, <1>5
       DEF BusinessStep, BusinessInitiate, PollPrices, PollExecutions, HandleExecution,
           StillDelayed, NoTrade, Trigger, EndOfPoll, FirstLeg, SecondLeg, BusinessTerminate
  <1>6. ASSUME NEW b \in Brokers, TradeStep(b) \/ SessionFails(b), UNCHANGED businessVars
        PROVE  /\ execRing' = execRing \/ \E e : execRing' = Publish(execRing, e)
               /\ available' = available
    BY <1>6 DEF TradeStep, TradeInitiate, WaitForRoom, PublishReport, PollOrders,
           TradeTerminate, SessionFails
  <1> QED  BY <1>1, <1>5, <1>6 DEF Next, Joined, vars, BrokerStep, BrokerAnswers

\* The report at the head of an inbox has not been published.
LEMMA HeadUnreported ==
    ASSUME IInv, NEW b \in Brokers, inbox[b] # << >>
    PROVE  LET o == Head(inbox[b]).order
           IN  /\ o \in DOMAIN orders /\ o \in received \ Reported
               /\ \A n \in DOMAIN executions : executions[n].reports # o
  <1> DEFINE o == Head(inbox[b]).order
  <1>1. 1 \in 1 .. Len(inbox[b]) /\ Head(inbox[b]) = inbox[b][1]
    <2>1. inbox[b] \in Seq(Report)
      BY LogTypes DEF IInv
    <2> QED  BY <2>1
  <1>2. o \in DOMAIN orders
    BY <1>1 DEF IInv, TypeInv, Bounded, InboxBounded
  <1>3. o \in received
    BY <1>1 DEF IInv, LinkInv, Answers, InboxLinked
  <1>4. \A n \in DOMAIN executions : executions[n].reports # o
    BY <1>1 DEF IInv, LinkInv, ReportedOnce
  <1>5. o \notin Reported
    BY <1>4, InFlightIs DEF Reported
  <1> QED  BY <1>2, <1>3, <1>4, <1>5

\* What the business office has not read when a pair is triggered was read, and what is
\* reported afterwards is of that pair.
LEMMA ReadNext == ASSUME SettledInv, ReadInv, [Next]_vars PROVE ReadInv'
  <1> USE DEF ringVars, businessVars, tradeVars
  <1>s. IInv /\ QuietInv /\ TypeInv /\ IInv'
    BY IInvNext DEF SettledInv, IInv
  <1> SUFFICES ASSUME BUSINESS \in execRing'.gates, DelayCovers, NEW n \in DOMAIN executions',
                      n > execRing'.seq[BUSINESS]
               PROVE  PairOf(executions[n].reports)' = pairs'
    BY <1>s, ExecSeqStep DEF ReadInv
  <1>0. /\ execRing.seq \in [{BUSINESS} -> Nat] /\ execRing'.seq \in [{BUSINESS} -> Nat]
        /\ Len(executions) \in Nat /\ DOMAIN executions = 1 .. Len(executions)
        /\ n \in Nat /\ handled \in Nat /\ available \in Nat /\ handled <= available
    BY SMTT(30), <1>s, LogTypes DEF IInv, TypeInv, Bounded, TypeOK, TypeOKRings, TypeOKBusiness, Rings,
           ExecReaders
  <1>g. \A m \in DOMAIN executions : executions'[m] = executions[m]
    BY <1>s, Growth
  <1>1. CASE n \in DOMAIN executions
    <2> DEFINE r == executions[n].reports
    <2>1. /\ BUSINESS \in execRing.gates /\ n > execRing.seq[BUSINESS]
          /\ execRing'.seq[BUSINESS] <= available'
      <3>1. execRing'.seq[BUSINESS] # Len(executions)
        BY <1>0, <1>1
      <3>2. /\ BUSINESS \in execRing.gates /\ execRing'.seq[BUSINESS] <= available'
            /\ execRing'.seq[BUSINESS] >= execRing.seq[BUSINESS]
        BY <1>s, <3>1, ExecSeqStep
      <3> QED  BY <1>0, <3>2
    <2>2. r \in DOMAIN orders /\ PairOf(r) = pairs
      BY <1>1, <1>s, <2>1 DEF ReadInv, IInv, LinkInv, ExecutionsLinked
    <2>3. PairOf(r)' = pairs
      BY <1>1, <1>g, <1>s, <2>2, PairOfKept
    <2>4. CASE pairs' # pairs
      <3>1. InFlight = {} /\ \E d \in {"A", "B"} : Trigger(d)
        BY <1>s, <2>4, TriggeredQuiet
      <3>2. execRing' = ConsumeTo(execRing, BUSINESS, available)
        BY <3>1 DEF Trigger, EndOfPoll
      <3>3. execRing'.seq[BUSINESS] = available
        BY <1>0, <1>s, <3>2
           DEF ConsumeTo, Rings, TypeInv, TypeOK, TypeOKRings, ExecReaders
      <3>4. n > handled
        BY <1>0, <3>3
      <3> QED  BY <1>1, <1>s, <3>1, <3>4, UnhandledInFlight
    <2> QED  BY <2>3, <2>4
  <1>2. CASE n \notin DOMAIN executions
    <2>1. PICK b \in Brokers : PublishReport(b) /\ UNCHANGED businessVars
      <3>1. CASE BusinessStep
        <4>1. executions' = executions
          <5>1. CASE BusinessInitiate \/ BusinessTerminate \/ EndOfPoll
            BY <1>0, <1>s, <5>1, SameLogs DEF BusinessInitiate, BusinessTerminate, EndOfPoll
          <5> QED  BY <3>1, <5>1
                   DEF BusinessStep, PollPrices, PollExecutions, HandleExecution, StillDelayed,
                       NoTrade, Trigger, FirstLeg, SecondLeg, executions
        <4> QED  BY <1>2, <4>1
      <3>2. ASSUME NEW b \in Brokers, TradeStep(b) \/ SessionFails(b), ~PublishReport(b)
            PROVE  executions' = executions
        BY <3>2 DEF TradeStep, TradeInitiate, WaitForRoom, PollOrders, TradeTerminate,
               SessionFails, executions
      <3>3. CASE BrokerStep \/ UNCHANGED vars
        BY <1>2, <3>3 DEF BrokerStep, BrokerAnswers, vars, executions
      <3> QED  BY <1>2, <3>1, <3>2, <3>3 DEF Next, Joined
    <2> DEFINE o == Head(inbox[b]).order
    <2>2. /\ inbox[b] \in Seq(Report) /\ inbox[b] # << >> /\ UNCHANGED <<orderRing, isRunning>>
          /\ execRing' = Publish(execRing, ExecutionOf(b, Head(inbox[b])))
      BY <1>s, <2>1, LogTypes DEF PublishReport
    <2>3. Head(inbox[b]) \in Report
      BY <2>2
    <2>4. o \in DOMAIN orders /\ o \in received \ Reported
      BY <1>s, <2>2, HeadUnreported
    <2>5. ExecutionOf(b, Head(inbox[b])) \in ExecutionEvent
      <3>1. orders[o] \in OrderEvent
        BY <1>s, <2>4, LogTypes
      <3> QED  BY <2>3, <3>1 DEF ExecutionOf, ExecutionEvent, OrderEvent, Report
    <2>6. /\ DOMAIN executions' = 1 .. (Len(executions) + 1)
          /\ executions'[Len(executions) + 1] = ExecutionOf(b, Head(inbox[b]))
      BY <1>s, <2>2, <2>5, PublishExecutionType
    <2>7. n = Len(executions) + 1
      BY <1>0, <1>2, <2>6
    <2>8. executions'[n].reports = o
      BY <2>6, <2>7 DEF ExecutionOf
    <2>10. PairOf(o) = pairs
      BY <1>s, <2>4, InFlightIs DEF QuietInv
    <2> QED  BY <1>s, <2>4, <2>8, <2>1, <2>10, PairOfKept
  <1> QED  BY <1>1, <1>2

-----------------------------------------------------------------------------
(* A pair has four orders at most: a leg and a correction at each broker.  *)

Slot(i) ==
    (IF orders[i].broker = "LMAX" THEN 0 ELSE 2) + (IF orders[i].corrects = 0 THEN 0 ELSE 1)

\* Corrections go to brokers as well.
LEMMA AtBroker ==
    ASSUME IInv, PlaceInv, NEW i \in DOMAIN orders
    PROVE  orders[i].broker \in Brokers /\ Slot(i) \in 0 .. 3
  <1>1. CASE orders[i].corrects = 0
    BY <1>1 DEF PlaceInv, Legs, Corrections, Slot
  <1>2. CASE orders[i].corrects # 0
    BY <1>2 DEF IInv, LinkInv, OrdersLinked, CorrectionBroker, Brokers, Slot
  <1> QED  BY <1>1, <1>2

\* The leg that a correction repeats is at the other broker.
LEMMA CorrectsOther ==
    ASSUME IInv, PlaceInv, NEW i \in DOMAIN orders, orders[i].corrects # 0
    PROVE  LET r == executions[orders[i].corrects].reports
           IN  /\ r \in Legs /\ r \in rejected /\ orders[r].id = PairOf(i)
               /\ {orders[i].broker, orders[r].broker} = Brokers
               /\ orders[i].corrects \in DOMAIN executions
  <1> DEFINE e == executions[orders[i].corrects]
             r == e.reports
  <1>1. /\ orders[i].corrects \in DOMAIN executions
        /\ r \in Legs /\ r \in rejected /\ PairOf(i) = orders[r].id
    BY CorrectsLeg
  <1>2. orders[i].broker = CorrectionBroker(e) /\ e.broker = orders[r].broker
    BY <1>1 DEF IInv, LinkInv, OrdersLinked, ExecutionsLinked
  <1>3. orders[r].broker \in Brokers
    BY <1>1, AtBroker DEF Legs
  <1> QED  BY <1>1, <1>2, <1>3 DEF CorrectionBroker, Brokers

\* No two orders of a pair share a slot.
LEMMA SlotIsOne ==
    ASSUME IInv, PlaceInv, NEW i \in DOMAIN orders, NEW k \in DOMAIN orders,
           PairOf(i) = PairOf(k), Slot(i) = Slot(k)
    PROVE  i = k
  <1>1. /\ orders[i].broker \in Brokers /\ orders[k].broker \in Brokers
        /\ orders[i].broker = orders[k].broker
        /\ orders[i].corrects = 0 <=> orders[k].corrects = 0
    BY AtBroker DEF Slot, Brokers
  <1>2. CASE orders[i].corrects = 0
    BY <1>1, <1>2 DEF PlaceInv, PairOf, Legs, Corrections
  <1>3. CASE orders[i].corrects # 0
    <2> DEFINE R(j) == executions[orders[j].corrects].reports
    <2>1. \A j \in {i, k} :
             /\ R(j) \in Legs /\ orders[R(j)].id = PairOf(j)
             /\ {orders[j].broker, orders[R(j)].broker} = Brokers
             /\ orders[j].corrects \in DOMAIN executions
      BY <1>1, <1>3, CorrectsOther
    <2>2. orders[R(i)].broker = orders[R(k)].broker
      BY <1>1, <2>1 DEF Brokers
    <2>3. R(i) = R(k)
      BY <2>1, <2>2 DEF PlaceInv
    <2>4. orders[i].corrects = orders[k].corrects
      BY <2>1, <2>3 DEF IInv, LinkInv, ReportedOnce
    <2> QED  BY <1>3, <2>4 DEF IInv, LinkInv, OrdersLinked
  <1> QED  BY <1>2, <1>3

\* The slots are counted from 0.
LEMMA SlotCount ==
    ASSUME NEW n \in Nat PROVE IsFiniteSet(0 .. n) /\ Cardinality(0 .. n) = n + 1
  <1>1. 0 \in Int /\ n \in Int
    OBVIOUS
  <1>2. IsFiniteSet(0 .. n) /\ Cardinality(0 .. n) = IF 0 > n THEN 0 ELSE n - 0 + 1
    BY <1>1, FS_Interval
  <1> DEFINE c == Cardinality(0 .. n)
  <1>3. c = IF 0 > n THEN 0 ELSE n - 0 + 1
    BY <1>2
  <1> HIDE DEF c
  <1>4. c = n + 1
    BY <1>3
  <1> QED  BY <1>2, <1>4 DEF c

\* An interval that is mapped one to one into n slots has at most n elements.
LEMMA FitsSlots ==
    ASSUME NEW a \in Nat, NEW b \in Nat, a <= b, NEW T, IsFiniteSet(T),
           NEW f \in [(a + 1) .. b -> T],
           \A i, k \in (a + 1) .. b : f[i] = f[k] => i = k
    PROVE  b - a <= Cardinality(T)
  <1> DEFINE U == (a + 1) .. b
  <1>1. f \in Injection(U, T)
    BY DEF Injection, IsInjective
  <1>2. Cardinality(U) <= Cardinality(T)
    BY <1>1, FS_Injection
  <1>3. Cardinality(U) = b - a
    <2>1. a + 1 \in Int /\ b \in Int
      OBVIOUS
    <2>2. Cardinality(U) = IF a + 1 > b THEN 0 ELSE b - (a + 1) + 1
      BY <2>1, FS_Interval
    <2> HIDE DEF U
    <2> QED  BY <2>2
  <1> QED  BY <1>2, <1>3

-----------------------------------------------------------------------------
(* The readers keep up.                                                    *)

\* An office has at most five orders to read: the four of the last pair, and of the
\* pair before the leg and the correction at the other broker.  While that pair has
\* one left, the office has not read its own leg of the last pair, which then has no
\* correction.
LEMMA OrdersFit ==
    ASSUME RoomInv, DelayCovers, NEW b \in orderRing.gates
    PROVE  Unread(orderRing, b) <= 5
  <1>s. IInv /\ PlaceInv /\ LaterInv /\ PolledInv /\ LagInv /\ LegInv
    BY DEF RoomInv, SettledInv
  <1> DEFINE a == orderRing.seq[b]
             n == Len(orders)
             U == (a + 1) .. n
             OfPrior(i) == PairOf(i) # pairs
             At(i) == IF OfPrior(i) /\ orders[i].corrects = 0 THEN 4 ELSE Slot(i)
  <1>0. /\ a \in Nat /\ n \in Nat /\ DOMAIN orders = 1 .. n /\ b \in Brokers /\ pairs \in Nat
        /\ Unread(orderRing, b) = n - a
    BY <1>s, LogTypes
       DEF IInv, TypeInv, TypeOK, TypeOKRings, TypeOKBusiness, Rings, Unread, orders
  <1>1. \A i \in U : i \in DOMAIN orders /\ i > a /\ Slot(i) \in 0 .. 3
    BY <1>0, <1>s, AtBroker
  <1>2. \A i \in U : OfPrior(i) => PairOf(i) = pairs - 1 /\ orders[i].broker # b
    BY <1>1, <1>s DEF LagInv, UnreadBy
  <1>3. \A i \in U : At(i) \in 0 .. 4
    BY <1>1
  <1>4. ASSUME NEW i \in U, NEW k \in U, OfPrior(i), ~OfPrior(k), orders[k].corrects # 0
        PROVE  orders[k].broker = b
    <2> SUFFICES ASSUME orders[k].broker # b PROVE FALSE
      OBVIOUS
    <2> DEFINE r == executions[orders[k].corrects].reports
    <2>1. /\ r \in Legs /\ r \in rejected /\ orders[r].id = pairs
          /\ {orders[k].broker, orders[r].broker} = Brokers
      BY <1>1, <1>4, <1>s, CorrectsOther
    <2>2. orders[r].broker = b
      <3>1. b \in {orders[k].broker, orders[r].broker}
        BY SMTT(30), <1>0, <2>1
      <3> QED  BY <3>1
    <2>3. r \in received /\ r \in DOMAIN orders /\ PairOf(r) = pairs
      BY <1>s, <2>1 DEF IInv, LinkInv, Answers, Legs, Corrections, PairOf
    <2>4. r <= a
      BY <1>s, <2>2, <2>3 DEF PolledInv
    <2>5. r < i
      BY <1>0, <1>1, <2>3, <2>4
    <2>6. PairOf(r) <= PairOf(i)
      BY <1>1, <1>s, <2>3, <2>5 DEF LaterInv
    <2> QED  BY <1>0, <1>2, <1>4, <2>3, <2>6
  <1>5. ASSUME NEW i \in U, NEW k \in U, At(i) = At(k) PROVE i = k
    <2>1. \A j \in U : At(j) = 4 <=> OfPrior(j) /\ orders[j].corrects = 0
      BY <1>1
    <2>2. Slot(i) = Slot(k)
      <3>1. CASE At(i) = 4
        <4>1. orders[i].corrects = 0 /\ orders[k].corrects = 0 /\ OfPrior(i) /\ OfPrior(k)
          BY <1>5, <2>1, <3>1
        <4>2. orders[i].broker = orders[k].broker
          BY <1>0, <1>1, <1>2, <1>s, <4>1, AtBroker DEF Brokers
        <4> QED  BY <4>1, <4>2 DEF Slot
      <3>2. CASE At(i) # 4
        BY <1>5, <2>1, <3>2
      <3> QED  BY <3>1, <3>2
    <2>3. orders[i].broker = orders[k].broker /\ (orders[i].corrects = 0 <=> orders[k].corrects = 0)
      BY <1>1, <1>s, <2>2, AtBroker DEF Slot, Brokers
    <2>4. OfPrior(i) <=> OfPrior(k)
      BY <1>2, <1>4, <1>5, <2>1, <2>3
    <2>5. PairOf(i) = PairOf(k)
      BY <1>2, <2>4
    <2> QED  BY <1>1, <1>s, <2>2, <2>5, SlotIsOne
  <1>6. CASE a <= n
    <2> DEFINE f == [i \in U |-> At(i)]
    <2>1. f \in [U -> 0 .. 4]
      BY <1>3
    <2>2. \A i, k \in U : f[i] = f[k] => i = k
      BY <1>5
    <2>3. IsFiniteSet(0 .. 4) /\ Cardinality(0 .. 4) = 5
      <3>1. 4 \in Nat
        OBVIOUS
      <3>2. IsFiniteSet(0 .. 4) /\ Cardinality(0 .. 4) = 4 + 1
        BY <3>1, SlotCount, Zenon
      <3> QED  BY <3>2
    <2> HIDE DEF f, At, OfPrior
    <2>4. n - a <= Cardinality(0 .. 4)
      BY <1>0, <1>6, <2>1, <2>2, <2>3, FitsSlots
    <2> QED  BY <1>0, <2>3, <2>4
  <1>7. CASE ~(a <= n)
    BY <1>0, <1>7
  <1> QED  BY <1>6, <1>7

\* The business office has at most three executions to read while a report waits to be
\* published: that one is of the same pair.
LEMMA ExecutionsFit ==
    ASSUME RoomInv, DelayCovers, BUSINESS \in execRing.gates,
           NEW b \in Brokers, inbox[b] # << >>
    PROVE  Unread(execRing, BUSINESS) <= 3
  <1>s. IInv /\ PlaceInv /\ ReadInv /\ QuietInv
    BY DEF RoomInv, SettledInv
  <1> DEFINE a == execRing.seq[BUSINESS]
             n == Len(executions)
             U == (a + 1) .. n
             O(m) == executions[m].reports
             h == Head(inbox[b]).order
             T == (0 .. 3) \ {Slot(h)}
  <1>0. /\ a \in Nat /\ n \in Nat /\ DOMAIN executions = 1 .. n /\ a <= n
        /\ Unread(execRing, BUSINESS) = n - a
    <2>1. a \in Nat /\ Unread(execRing, BUSINESS) = n - a
      BY <1>s DEF IInv, TypeInv, TypeOK, TypeOKRings, Rings, ExecReaders, Unread, executions
    <2>2. a <= available /\ available <= n /\ available \in Nat /\ n \in Nat
      BY <1>s, LogTypes DEF ReadInv, IInv, TypeInv, TypeOK, TypeOKBusiness, Bounded
    <2> QED  BY <1>s, <2>1, <2>2, LogTypes DEF IInv
  <1>1. \A m \in U : m \in DOMAIN executions /\ m > a
    BY <1>0
  <1>2. \A m \in U : O(m) \in DOMAIN orders /\ PairOf(O(m)) = pairs
    BY <1>1, <1>s DEF ReadInv, IInv, LinkInv, ExecutionsLinked
  <1>3. h \in DOMAIN orders /\ PairOf(h) = pairs /\ \A m \in DOMAIN executions : O(m) # h
    BY <1>s, HeadUnreported, InFlightIs DEF QuietInv
  <1> HIDE DEF h
  <1>4. \A m \in U : Slot(O(m)) \in 0 .. 3 /\ Slot(O(m)) # Slot(h)
    BY <1>1, <1>2, <1>3, <1>s, AtBroker, SlotIsOne
  <1>5. ASSUME NEW m \in U, NEW k \in U, Slot(O(m)) = Slot(O(k)) PROVE m = k
    <2>1. O(m) = O(k)
      BY <1>2, <1>5, <1>s, SlotIsOne
    <2> QED  BY <1>1, <1>s, <2>1 DEF IInv, LinkInv, ReportedOnce
  <1>6. IsFiniteSet(T) /\ Cardinality(T) = 3
    <2>1. Slot(h) \in 0 .. 3
      BY <1>3, <1>s, AtBroker
    <2>2. IsFiniteSet(0 .. 3) /\ Cardinality(0 .. 3) = 4
      <3>1. 3 \in Nat
        OBVIOUS
      <3>2. IsFiniteSet(0 .. 3) /\ Cardinality(0 .. 3) = 3 + 1
        BY <3>1, SlotCount, Zenon
      <3> QED  BY <3>2
    <2>3. /\ IsFiniteSet(T)
          /\ Cardinality(T) = IF Slot(h) \in 0 .. 3 THEN Cardinality(0 .. 3) - 1
                              ELSE Cardinality(0 .. 3)
      BY <2>2, FS_RemoveElement
    <2> QED  BY <2>1, <2>2, <2>3
  <1> DEFINE f == [m \in U |-> Slot(O(m))]
  <1>7. f \in [U -> T]
    BY <1>4
  <1>8. \A m, k \in U : f[m] = f[k] => m = k
    BY <1>5
  <1> HIDE DEF f, T, O
  <1>9. n - a <= Cardinality(T)
    BY <1>0, <1>6, <1>7, <1>8, FitsSlots
  <1> QED  BY <1>0, <1>6, <1>9

\* Nothing is published at the start.
LEMMA RoomInit == ASSUME Init PROVE RoomInv
  <1>1. /\ orders = << >> /\ executions = << >> /\ received = {} /\ pairs = 0
        /\ businessPc = "new" /\ orderRing.gates = {} /\ execRing.gates = {}
    BY DEF Init, InitRings, InitBusiness, InitTrade, NewRing, orders, executions
  <1>2. Legs = {} /\ DOMAIN orders = {}
    BY <1>1 DEF Legs
  <1>3. PlaceInv /\ LaterInv /\ PolledInv /\ LagInv /\ ReadInv
    BY <1>1, <1>2 DEF PlaceInv, LaterInv, PolledInv, LagInv, ReadInv
  <1> QED  BY <1>3, SettledInit DEF RoomInv

\* Every step keeps it.
LEMMA RoomNext == ASSUME RoomInv, [Next]_vars PROVE RoomInv'
  <1>1. /\ SettledInv /\ IInv /\ LegInv /\ PlaceInv /\ LaterInv /\ PolledInv /\ LagInv
        /\ ReadInv
    BY DEF RoomInv, SettledInv
  <1> QED  BY <1>1, SettledNext, PlaceNext, LaterNext, PolledNext, LagNext, ReadNext DEF RoomInv

\* When the delay outlasts every answer, no thread ever waits in next() for a slot: six
\* slots for the orders and four for the executions are enough, and main() gives both
\* rings 16 (main.cpp:36, 42).
THEOREM NoneWaits == Spec => []NobodyWaits
  <1>1. Init => RoomInv
    BY RoomInit
  <1>2. RoomInv /\ [Next]_vars => RoomInv'
    BY RoomNext
  <1>3. RoomInv => NobodyWaits
    <2> SUFFICES ASSUME RoomInv, DelayCovers, OrderRingSize > 5, ExecRingSize > 3
                 PROVE  /\ HasRoom(orderRing, OrderRingSize)
                        /\ \A b \in Brokers :
                              (tradePc[b] = "fix" /\ inbox[b] # << >>)
                                 => HasRoom(execRing, ExecRingSize)
      BY DEF NobodyWaits
    <2>0. /\ TypeInv /\ OrderRingSize \in Nat /\ ExecRingSize \in Nat
          /\ execRing.gates \subseteq {BUSINESS}
      BY RingSizesAssumption
         DEF RoomInv, SettledInv, IInv, TypeInv, TypeOK, TypeOKRings, Rings, ExecReaders
    <2>1. \A b \in orderRing.gates : Unread(orderRing, b) \in Int
      BY <2>0, LogTypes DEF Unread, orders, TypeInv, TypeOK, TypeOKRings, Rings
    <2>2. Unread(execRing, BUSINESS) \in Int
      BY <2>0, LogTypes DEF Unread, executions, TypeInv, TypeOK, TypeOKRings, Rings, ExecReaders
    <2>3. HasRoom(orderRing, OrderRingSize)
      BY <2>0, <2>1, OrdersFit DEF HasRoom
    <2>4. ASSUME NEW b \in Brokers, inbox[b] # << >> PROVE HasRoom(execRing, ExecRingSize)
      BY <2>0, <2>2, <2>4, ExecutionsFit DEF HasRoom
    <2> QED  BY <2>3, <2>4
  <1> QED  BY <1>1, <1>2, <1>3, PTL DEF Spec
=============================================================================
