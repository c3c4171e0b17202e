--------------------------- MODULE BusinessOffice ---------------------------
(* The arbitrage decision thread: BusinessOffice::doWork polls prices and  *)
(* executions, answers every rejected leg with a correction at the other   *)
(* broker, and opens or closes a pair of opposite orders when the spread   *)
(* between the two brokers allows it.  Prices are integers (pips): the     *)
(* code only subtracts and compares them.                                  *)
EXTENDS TradingRings

CONSTANTS Quotes,       \* the quotes a broker may publish, [bid, ask]
          DiffOpen,     \* DIFF_OPEN
          DiffClose,    \* DIFF_CLOSE
          MaxOrders,    \* MAX_ORDERS
          InitCount,    \* ORDERS_COUNT of the environment at start
          InitDiff,     \* CURRENT_DIFF of the environment at start
          MaxPairs      \* bound: the pairs triggered in one behaviour

Quote == [bid : Int, ask : Int]
NoQuote == [bid |-> -99, ask |-> 99]     \* the reset value of a price

\* A quote of one broker compared with the reset price of the other never
\* looks like a spread worth trading.
ASSUME BusinessAssumption ==
    /\ Quotes \subseteq Quote
    /\ DiffOpen \in Int /\ DiffClose \in Int
    /\ \A q \in Quotes \cup {NoQuote}, diff \in {DiffOpen, DiffClose} :
          q.bid - NoQuote.ask < diff /\ NoQuote.bid - q.ask < diff
    /\ MaxOrders \in Int /\ InitCount \in Int
    /\ InitDiff \in {"A", "B", "NONE"}
    /\ MaxPairs \in Nat

VARIABLES businessPc,      \* where the thread is in its loop
          priceA, priceB,  \* m_priceA, m_priceB: broker and quote
          handled,         \* executions handled so far, and
          available,       \* the last one of the batch being polled
          ordersCount,     \* m_ordersCount
          currentDiff,     \* m_currentDiff
          currentOrder,    \* m_currentOrder
          orderType,       \* orderType, the label of the pair under way
          isOrderDelayed,  \* m_isOrderDelayed
          pairs,           \* pairs triggered so far, the id of the last one
          fresh            \* history: brokers quoted since the last pair

businessVars ==
    <<businessPc, priceA, priceB, handled, available, ordersCount, currentDiff,
      currentOrder, orderType, isOrderDelayed, pairs, fresh>>

Differences == {"A", "B", "NONE"}

TypeOKBusiness ==
    /\ businessPc \in {"new", "poll", "executions", "first", "second", "stopped"}
    /\ priceA \in [broker : {"LMAX", "NONE"}, quote : Quotes \cup {NoQuote}]
    /\ priceB \in [broker : {"IB", "NONE"}, quote : Quotes \cup {NoQuote}]
    /\ handled \in Nat /\ available \in Nat
    /\ ordersCount \in Int
    /\ currentDiff \in Differences
    /\ currentOrder \in Differences
    /\ orderType \in {"OPEN", "CLOSE", "NONE"}
    /\ isOrderDelayed \in BOOLEAN
    /\ pairs \in Nat
    /\ fresh \subseteq Brokers

InitBusiness ==
    /\ businessPc = "new"
    /\ priceA = [broker |-> "NONE", quote |-> NoQuote]
    /\ priceB = [broker |-> "NONE", quote |-> NoQuote]
    /\ handled = 0 /\ available = 0
    /\ ordersCount = InitCount
    /\ currentDiff = InitDiff
    /\ currentOrder = "NONE"
    /\ orderType = "NONE"
    /\ isOrderDelayed = FALSE
    /\ pairs = 0
    /\ fresh = {}

-----------------------------------------------------------------------------
\* initiate() attaches the execution poller; the price poller's ring is left out.
BusinessInitiate ==
    /\ businessPc = "new"
    /\ businessPc' = "poll"
    /\ execRing' = AddGate(execRing, BUSINESS)
    /\ handled' = Len(executions) /\ available' = Len(executions)
    /\ UNCHANGED <<orderRing, isRunning, priceA, priceB, ordersCount, currentDiff,
                   currentOrder, orderType, isOrderDelayed, pairs, fresh>>

\* The event handler of the prices keeps LMAX in m_priceA, IB in m_priceB.
MutIsPriceA(broker) == broker = "IB"
IsPriceA(broker) == broker = "LMAX"

\* A poll of the prices leaves the last quote of a broker that published.  It
\* touches nothing another thread sees, so it is a step of its own at the top
\* of the loop.  Once the bound on pairs is reached no price matters.
PollPrices(broker, q) ==
    /\ businessPc = "poll"
    /\ isRunning
    /\ pairs < MaxPairs
    /\ IF IsPriceA(broker)
         THEN /\ priceA' = [broker |-> broker, quote |-> q]
              /\ priceB' = priceB
         ELSE /\ priceB' = [broker |-> broker, quote |-> q]
              /\ priceA' = priceA
    /\ fresh' = fresh \cup {broker}
    /\ UNCHANGED <<ringVars, businessPc, handled, available, ordersCount,
                   currentDiff, currentOrder, orderType, isOrderDelayed, pairs>>

\* The execution poll finds a batch: what is published when it starts.
PollExecutions ==
    /\ businessPc = "poll"
    /\ isRunning
    /\ handled < Len(executions)
    /\ businessPc' = "executions"
    /\ available' = Len(executions)
    /\ UNCHANGED <<ringVars, priceA, priceB, handled, ordersCount, currentDiff,
                   currentOrder, orderType, isOrderDelayed, pairs, fresh>>

IsCorrection(e) == e.id = CORRECTION_ID

CountAfter(e) ==
    IF ~e.isFilled THEN ordersCount
    ELSE IF IsCorrection(e) THEN ordersCount - 1 ELSE ordersCount + 1

MutNeedsCorrection(e) == ~e.isFilled /\ IsCorrection(e)
NeedsCorrection(e) == ~e.isFilled /\ ~IsCorrection(e)

MutCorrectionSide(e) == IF e.side = "BUY" THEN "SELL" ELSE "BUY"
CorrectionSide(e) == e.side

MutCorrectionBroker(e) == e.broker
CorrectionBroker(e) == IF e.broker = "IB" THEN "LMAX" ELSE "IB"

Correction(e, n) ==
    [broker |-> CorrectionBroker(e), side |-> CorrectionSide(e), id |-> CORRECTION_ID,
     label |-> "NONE", corrects |-> n]

\* m_executionEventHandler on the next event of the batch.  A correction is
\* published from inside the handler, which waits there for a free slot.
HandleExecution ==
    /\ businessPc = "executions"
    /\ handled < available
    /\ LET n == handled + 1
           e == executions[n]
       IN  /\ handled' = n
           /\ ordersCount' = CountAfter(e)
           /\ IF NeedsCorrection(e)
                THEN /\ HasRoom(orderRing, OrderRingSize)
                     /\ orderRing' = Publish(orderRing, Correction(e, n))
                ELSE orderRing' = orderRing
    /\ UNCHANGED <<execRing, isRunning, businessPc, priceA, priceB, available,
                   currentDiff, currentOrder, orderType, isOrderDelayed, pairs,
                   fresh>>

-----------------------------------------------------------------------------
Other(d) == IF d = "A" THEN "B" ELSE "A"

\* diffA and diffB
Spread(d) == IF d = "A" THEN priceA.quote.bid - priceB.quote.ask
                        ELSE priceB.quote.bid - priceA.quote.ask

DiffNow == IF ordersCount = 0 THEN "NONE" ELSE currentDiff

MutCanOpen == ordersCount <= MaxOrders
CanOpen == ordersCount < MaxOrders

OpensFirst(d) ==
    /\ DiffNow = "NONE"
    /\ Spread(d) >= DiffOpen
    /\ d = "B" => Spread("A") < DiffOpen

OpensMore(d) == DiffNow = d /\ CanOpen /\ Spread(d) >= DiffOpen

Closes(d) ==
    /\ DiffNow = Other(d)
    /\ ~OpensMore(Other(d))
    /\ Spread(d) >= DiffClose

Opens(d) == OpensFirst(d) \/ OpensMore(d)

MutCountAllows == TRUE
CountAllows == ordersCount % 2 = 0

Wanted(d) == CountAllows /\ (Opens(d) \/ Closes(d))

\* The decision follows the execution poll: the end of a batch, where the
\* poller stores its sequence, or a poll that found nothing.
EndOfPoll ==
    /\ \/ businessPc = "executions" /\ handled = available
       \/ businessPc = "poll" /\ isRunning /\ handled = Len(executions)
    /\ execRing' = ConsumeTo(execRing, BUSINESS, available)
    /\ UNCHANGED <<orderRing, isRunning, priceA, priceB, handled, available,
                   ordersCount, fresh>>

MutIsDelayed == FALSE
IsDelayed == isOrderDelayed

StillDelayed ==
    /\ EndOfPoll
    /\ IsDelayed
    /\ businessPc' = "poll"
    /\ UNCHANGED <<currentDiff, currentOrder, orderType, isOrderDelayed, pairs>>

\* No spread is wide enough, the count is odd, or the bound is reached.
NoTrade ==
    /\ EndOfPoll
    /\ pairs = MaxPairs \/ \A d \in {"A", "B"} : ~Wanted(d)
    /\ businessPc' = "poll"
    /\ isOrderDelayed' = FALSE
    /\ currentDiff' = DiffNow
    /\ UNCHANGED <<currentOrder, orderType, pairs>>

Trigger(d) ==
    /\ EndOfPoll
    /\ pairs < MaxPairs
    /\ Wanted(d)
    /\ businessPc' = "first"
    /\ isOrderDelayed' = FALSE
    /\ currentDiff' = IF OpensFirst(d) THEN d ELSE DiffNow
    /\ currentOrder' = d
    /\ orderType' = IF Opens(d) THEN "OPEN" ELSE "CLOSE"
    /\ pairs' = pairs + 1

-----------------------------------------------------------------------------
Leg(broker, side) ==
    [broker |-> broker, side |-> side, id |-> pairs, label |-> orderType,
     corrects |-> 0]

MutFirstSide == "SELL"
FirstSide == IF currentOrder = "A" THEN "SELL" ELSE "BUY"
SecondSide == IF currentOrder = "A" THEN "BUY" ELSE "SELL"

FirstLeg ==
    /\ businessPc = "first"
    /\ HasRoom(orderRing, OrderRingSize)
    /\ orderRing' = Publish(orderRing, Leg(priceA.broker, FirstSide))
    /\ businessPc' = "second"
    /\ UNCHANGED <<execRing, isRunning, priceA, priceB, handled, available,
                   ordersCount, currentDiff, currentOrder, orderType,
                   isOrderDelayed, pairs, fresh>>

MutPriceAfterPair(price) == price
PriceAfterPair(price) == [price EXCEPT !.quote = NoQuote]

SecondLeg ==
    /\ businessPc = "second"
    /\ HasRoom(orderRing, OrderRingSize)
    /\ orderRing' = Publish(orderRing, Leg(priceB.broker, SecondSide))
    /\ businessPc' = "poll"
    /\ currentOrder' = "NONE"
    /\ orderType' = "NONE"
    /\ priceA' = PriceAfterPair(priceA)
    /\ priceB' = PriceAfterPair(priceB)
    /\ fresh' = {}
    /\ isOrderDelayed' = TRUE
    /\ UNCHANGED <<execRing, isRunning, handled, available, ordersCount,
                   currentDiff, pairs>>

\* The loop of the thread ends and terminate() detaches the poller.
BusinessTerminate ==
    /\ businessPc = "poll"
    /\ ~isRunning
    /\ businessPc' = "stopped"
    /\ execRing' = RemoveGate(execRing, BUSINESS)
    /\ UNCHANGED <<orderRing, isRunning, priceA, priceB, handled, available,
                   ordersCount, currentDiff, currentOrder, orderType,
                   isOrderDelayed, pairs, fresh>>
=============================================================================
