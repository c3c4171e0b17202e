---------------------------- MODULE LimitOffice ----------------------------
(* The limit office of one broker: it keeps one buy limit order resting a   *)
(* pip under the bid, moves it as the bid moves, and places the next one    *)
(* when it was filled.  The market office that publishes the prices and the *)
(* broker (external) run beside it; requests and reports travel in order on *)
(* the FIX session, which may fail and be initiated again.                  *)
EXTENDS Disruptor

CONSTANTS Bids,            \* the bids of the price events
          WarmUp,          \* prices up to this number place no order (10)
          PriceRingSize,   \* slots of the price ring
          FillTypes,       \* the ExecType of a fill, as the broker reports it
          MaxPrices,       \* bound on the prices published,
          MaxFills,        \* on the fills,
          MaxSpoils,       \* on what the broker refuses or cancels, or is lost,
          MaxRounds        \* and on the sessions

ASSUME LimitAssumption ==
    /\ Bids \subseteq Nat
    /\ {WarmUp, MaxPrices, MaxFills, MaxSpoils, MaxRounds} \subseteq Nat
    /\ PriceRingSize \in Nat \ {0}
    /\ FillTypes \subseteq {"2", "F"}

VARIABLES pc,           \* closed, fix (about to poll the session), or prices
          available,    \* in a batch of prices: its last sequence
          handled,      \* and the last one handled
          orderPlaced, canUpdate, lastPrice,
          priceRing,
          toBroker,     \* requests on their way to the broker,
          toOffice,     \* reports on their way back
          resting,      \* the broker: the prices of the orders that rest
          filled,       \* history: how many orders were filled,
          spoiled,      \* what was refused, cancelled or lost,
          rounds        \* and how often the session was initiated

batchVars == <<available, handled>>
orderVars == <<orderPlaced, canUpdate, lastPrice>>
brokerVars == <<resting, filled>>
vars == <<pc, batchVars, orderVars, priceRing, toBroker, toOffice, brokerVars,
          spoiled, rounds>>

LIMIT == "limit"               \* the one consumer here
PriceEvent == [bid : Bids, sequence : Nat \ {0}]
\* The bid the price of the request is a pip under.
Request == [type : {"New", "Replace"}, price : Bids]

\* ExecType: 0 new, 5 replaced, 8 rejected, 4 cancelled, 2 and F filled; and
\* the order cancel reject, a message type of its own.
Reports == {"0", "5", "8", "4", "2", "F", "CancelReject"}

TypeOK ==
    /\ pc \in {"closed", "fix", "prices"}
    /\ available \in Nat /\ handled \in Nat
    /\ orderPlaced \in BOOLEAN /\ canUpdate \in BOOLEAN /\ lastPrice \in Bids
    /\ priceRing \in Rings(PriceEvent, {LIMIT})
    /\ toBroker \in Seq(Request) /\ toOffice \in Seq(Reports)
    /\ resting \in Seq(Bids) /\ filled \in Nat
    /\ spoiled \in Nat /\ rounds \in Nat

\* m_lastPrice is not initialised: it may hold any value, and is not read before
\* the first order was placed.
Init ==
    /\ pc = "closed"
    /\ available = 0 /\ handled = 0
    /\ orderPlaced = FALSE /\ canUpdate = FALSE /\ lastPrice \in Bids
    /\ priceRing = NewRing({LIMIT})
    /\ toBroker = << >> /\ toOffice = << >>
    /\ resting = << >> /\ filled = 0
    /\ spoiled = 0 /\ rounds = 0

-----------------------------------------------------------------------------
(* The office.                                                             *)

Initiate ==
    /\ pc = "closed" /\ rounds < MaxRounds
    /\ pc' = "fix"
    /\ priceRing' = AddGate(priceRing, LIMIT)
    /\ rounds' = rounds + 1
    /\ UNCHANGED <<batchVars, orderVars, toBroker, toOffice, brokerVars, spoiled>>

\* The flags after an execution report.
MutAfterReport(type) ==
    /\ orderPlaced' = (orderPlaced /\ type # "2")
    /\ canUpdate' = (type = "0" \/ (canUpdate /\ type # "2"))
AfterReport(type) ==
    /\ orderPlaced' = (orderPlaced /\ type # "2")
    /\ canUpdate' = (type \in {"0", "5"} \/ (canUpdate /\ type # "2"))

\* m_fixSession.poll(), and the start of m_pricePoller->poll().
Batch == /\ pc' = "prices"
         /\ available' = Len(priceRing.log)
         /\ handled' = priceRing.seq[LIMIT]

PollReport ==
    /\ pc = "fix" /\ toOffice # << >>
    /\ AfterReport(Head(toOffice))
    /\ toOffice' = Tail(toOffice)
    /\ Batch
    /\ UNCHANGED <<lastPrice, priceRing, toBroker, brokerVars, spoiled, rounds>>

PollNoReport ==
    /\ pc = "fix"
    /\ Batch
    /\ UNCHANGED <<orderVars, priceRing, toBroker, toOffice, brokerVars, spoiled, rounds>>

\* send() ignores errors: the request may be lost.
MutSend(type, price) ==
    \/ /\ toBroker' = Append(toBroker, [type |-> type, price |-> price + 1])
       /\ UNCHANGED spoiled
    \/ /\ spoiled < MaxSpoils
       /\ spoiled' = spoiled + 1
       /\ UNCHANGED toBroker
Send(type, price) ==
    \/ /\ toBroker' = Append(toBroker, [type |-> type, price |-> price])
       /\ UNCHANGED spoiled
    \/ /\ spoiled < MaxSpoils
       /\ spoiled' = spoiled + 1
       /\ UNCHANGED toBroker

Places(event) == ~orderPlaced /\ event.sequence > WarmUp
MutMoves(event) == canUpdate \/ lastPrice # event.bid
Moves(event) == canUpdate /\ lastPrice # event.bid

\* m_priceHandler.  An event that places an order does not move it: canUpdate is
\* false then, or the price is the new one.
MutPlace(event) ==
    /\ Send("New", event.bid)
    /\ lastPrice' = event.bid
    /\ UNCHANGED <<orderPlaced, canUpdate>>
Place(event) ==
    /\ Send("New", event.bid)
    /\ orderPlaced' = TRUE /\ lastPrice' = event.bid
    /\ UNCHANGED canUpdate

MutMove(event) ==
    /\ Send("Replace", event.bid)
    /\ canUpdate' = FALSE
    /\ UNCHANGED <<orderPlaced, lastPrice>>
Move(event) ==
    /\ Send("Replace", event.bid)
    /\ lastPrice' = event.bid /\ canUpdate' = FALSE
    /\ UNCHANGED orderPlaced

HandlePrice ==
    /\ pc = "prices" /\ handled < available
    /\ LET event == priceRing.log[handled + 1]
       IN  \/ Places(event) /\ Place(event)
           \/ ~Places(event) /\ Moves(event) /\ Move(event)
           \/ /\ ~Places(event) /\ ~Moves(event)
              /\ UNCHANGED <<orderVars, toBroker, spoiled>>
    /\ handled' = handled + 1
    /\ UNCHANGED <<pc, available, priceRing, toOffice, brokerVars, rounds>>

EndOfBatch ==
    /\ pc = "prices" /\ handled = available
    /\ pc' = "fix"
    /\ priceRing' = ConsumeTo(priceRing, LIMIT, available)
    /\ UNCHANGED <<batchVars, orderVars, toBroker, toOffice, brokerVars, spoiled, rounds>>

\* poll() throws, and the thread terminates the office.  What is on its way is
\* lost: the next logon resets the numbers of both sides.
Lost == Len(toBroker) + Len(toOffice)
SessionFails ==
    /\ pc = "fix"
    /\ spoiled + Lost <= MaxSpoils
    /\ pc' = "closed"
    /\ priceRing' = RemoveGate(priceRing, LIMIT)
    /\ toBroker' = << >> /\ toOffice' = << >>
    /\ spoiled' = spoiled + Lost
    /\ UNCHANGED <<batchVars, orderVars, brokerVars, rounds>>

-----------------------------------------------------------------------------
(* The market office and the broker.                                       *)

PublishPrice(bid) ==
    /\ Len(priceRing.log) < MaxPrices
    /\ HasRoom(priceRing, PriceRingSize)
    /\ priceRing' = Publish(priceRing, [bid |-> bid, sequence |-> Len(priceRing.log) + 1])
    /\ UNCHANGED <<pc, batchVars, orderVars, toBroker, toOffice, brokerVars, spoiled, rounds>>

Reply(report) == toOffice' = Append(toOffice, report)

\* A request is carried out; one to replace an order that is gone is refused.
BrokerAccepts ==
    /\ toBroker # << >>
    /\ LET request == Head(toBroker)
       IN  CASE request.type = "New" ->
                  resting' = Append(resting, request.price) /\ Reply("0")
             [] request.type = "Replace" /\ resting # << >> ->
                  resting' = [resting EXCEPT ![1] = request.price] /\ Reply("5")
             [] OTHER ->
                  UNCHANGED resting /\ Reply("CancelReject")
    /\ toBroker' = Tail(toBroker)
    /\ UNCHANGED <<pc, batchVars, orderVars, priceRing, filled, spoiled, rounds>>

BrokerRefuses ==
    /\ toBroker # << >> /\ spoiled < MaxSpoils
    /\ Reply(IF Head(toBroker).type = "New" THEN "8" ELSE "CancelReject")
    /\ toBroker' = Tail(toBroker)
    /\ spoiled' = spoiled + 1
    /\ UNCHANGED <<pc, batchVars, orderVars, priceRing, brokerVars, rounds>>

\* The report of a fill or of a cancellation is lost if there is no session.
Tells(report) ==
    IF pc = "closed"
      THEN spoiled < MaxSpoils /\ spoiled' = spoiled + 1 /\ UNCHANGED toOffice
      ELSE Reply(report) /\ UNCHANGED spoiled

BrokerFills(type) ==
    /\ resting # << >> /\ filled < MaxFills
    /\ resting' = Tail(resting)
    /\ filled' = filled + 1
    /\ Tells(type)
    /\ UNCHANGED <<pc, batchVars, orderVars, priceRing, toBroker, rounds>>

\* The end of the day, say.
BrokerCancels ==
    /\ resting # << >> /\ spoiled < MaxSpoils
    /\ resting' = Tail(resting)
    /\ spoiled' = spoiled + 1
    /\ toOffice' = IF pc = "closed" THEN toOffice ELSE Append(toOffice, "4")
    /\ UNCHANGED <<pc, batchVars, orderVars, priceRing, toBroker, filled, rounds>>

\* Everything that is bounded was done; the office waits for prices.
Ended ==
    /\ Len(priceRing.log) = MaxPrices \/ (pc = "closed" /\ rounds = MaxRounds)
    /\ UNCHANGED vars

Next ==
    \/ Initiate \/ PollReport \/ PollNoReport \/ HandlePrice \/ EndOfBatch \/ SessionFails
    \/ \E bid \in Bids : PublishPrice(bid)
    \/ BrokerAccepts \/ BrokerRefuses \/ BrokerCancels
    \/ \E type \in FillTypes : BrokerFills(type)
    \/ Ended

Spec == Init /\ [][Next]_vars

\* The office runs in a loop of its own and comes by the session in every turn;
\* a report arrives in the end, and the broker answers every request.
FairSpec ==
    /\ Spec
    /\ WF_vars(PollNoReport \/ HandlePrice \/ EndOfBatch)
    /\ SF_vars(PollReport)
    /\ WF_vars(BrokerAccepts \/ BrokerRefuses)
-----------------------------------------------------------------------------
(* Properties                                                              *)

\* Where the messages of a kind are.
News == {k \in DOMAIN toBroker : toBroker[k].type = "New"}
Replaces == {k \in DOMAIN toBroker : toBroker[k].type = "Replace"}
Answers == {k \in DOMAIN toOffice : toOffice[k] \in {"5", "CancelReject"}}

AtMostOne(S) == \A j, k \in S : j = k

\* However sessions fail and answers are lost, the broker never holds, and is
\* never sent, a second order while the first may still be filled: all orders
\* have the same id (the flag m_orderPlaced).
OneOrder ==
    /\ AtMostOne(News) /\ Len(resting) <= 1
    /\ News = {} \/ resting = << >>

\* The order is not asked to move again before the answer to the last move was
\* read (m_canUpdate): a stale answer never stands for a later request.
OneMove ==
    /\ AtMostOne(Replaces) /\ AtMostOne(Answers)
    /\ Replaces = {} \/ Answers = {}

\* If nothing was refused, cancelled or lost, and the broker has carried out what
\* it was sent, the order rests where the office believes it does (m_lastPrice).
RestsAtLastPrice ==
    (spoiled = 0 /\ toBroker = << >> /\ resting # << >>) => resting[1] = lastPrice

\* An office that waits for the broker gets to move its order again, or to place
\* the next one, unless something was refused, cancelled or lost.
NeverStuck == (orderPlaced /\ ~canUpdate) ~> (canUpdate \/ ~orderPlaced \/ spoiled > 0)

\* "restart when order is filled" (LimitOffice.cpp:79); a fill is reported with
\* ExecType 2 or F, as the trade office has it (FIXTradeOffice.cpp:178).
FillNoticed ==
    [][ PollReport /\ Head(toOffice) \in {"2", "F"} => ~orderPlaced' ]_vars
=============================================================================
