----------------------------- MODULE Arbitrage -----------------------------
(* The arbitrage engine: the business office, the trade office of each     *)
(* broker and the brokers, running concurrently over the two rings (the    *)
(* business and trade threads of main.cpp).                                *)
EXTENDS BusinessOffice, FIXTradeOffice

CONSTANT DelayCovers   \* environment: ORDER_DELAY_SEC outlasts every answer

ASSUME DelayAssumption == DelayCovers \in BOOLEAN

vars == <<ringVars, businessVars, tradeVars>>

TypeOK == TypeOKRings /\ TypeOKBusiness /\ TypeOKTrade

Init == InitRings /\ InitBusiness /\ InitTrade

\* The orders that are on their way: not yet polled by a running office,
\* at the broker, or answered with the answer not yet handled.
Unpolled == {i \in DOMAIN orders :
               LET b == orders[i].broker
               IN  b \in orderRing.gates /\ i > orderRing.seq[b]}
Unanswered == received \ (filled \cup rejected)
Reported == {executions[n].reports : n \in 1 .. handled}
InFlight == Unpolled \cup ((filled \cup rejected \cup Unanswered) \ Reported)

\* The delay of the last pair is over, or no pair is delayed.
DelayOver == IsDelayed /\ DelayCovers => InFlight = {}

BusinessStep ==
    \/ BusinessInitiate
    \/ \E b \in Brokers, q \in Quotes : PollPrices(b, q)
    \/ PollExecutions
    \/ HandleExecution
    \/ StillDelayed
    \/ NoTrade /\ DelayOver
    \/ \E d \in {"A", "B"} : Trigger(d) /\ DelayOver
    \/ FirstLeg
    \/ SecondLeg
    \/ BusinessTerminate

TradeStep(b) ==
    \/ TradeInitiate(b)
    \/ WaitForRoom(b)
    \/ PublishReport(b)
    \/ PollOrders(b)
    \/ TradeTerminate(b)

BrokerStep ==
    \E i \in received, isFilled \in BOOLEAN : BrokerAnswers(i, isFilled)

Stopped == businessPc = "stopped" /\ \A b \in Brokers : tradePc[b] = "stopped"

\* main() joins the threads and has nothing more to do.
Joined == Stopped /\ UNCHANGED vars

Next ==
    \/ BusinessStep /\ UNCHANGED tradeVars
    \/ \E b \in Brokers :
          (TradeStep(b) \/ SessionFails(b)) /\ UNCHANGED businessVars
    \/ BrokerStep /\ UNCHANGED businessVars
    \/ Joined

Spec == Init /\ [][Next]_vars

\* Each thread runs on a core of its own and never stops polling: it polls the
\* executions in every round, and the session of an office in every round.  A
\* broker need not answer, be it an order or the logon, whose wait nothing limits
\* (fix_common.c:213-215), and a session need not fail.
FairSpec ==
    /\ Spec
    /\ WF_vars(BusinessStep /\ UNCHANGED tradeVars)
    /\ WF_vars(PollExecutions /\ UNCHANGED tradeVars)
    /\ \A b \in Brokers : WF_vars(PublishReport(b) /\ UNCHANGED businessVars)
    /\ \A b \in Brokers : WF_vars(tradePc[b] # "new" /\ TradeStep(b) /\ UNCHANGED businessVars)
-----------------------------------------------------------------------------
(* Properties *)

Handled == 1 .. handled
Corrections == {i \in DOMAIN orders : orders[i].corrects # 0}
Legs == DOMAIN orders \ Corrections

\* Every correction answers one execution that reports a rejected leg, repeats
\* its side at the other broker, and no execution is answered twice.
\* (m_executionEventHandler, BusinessOffice.cpp:79-107)
CorrectionSound ==
    /\ \A i \in Corrections :
          /\ orders[i].corrects \in Handled
          /\ LET e == executions[orders[i].corrects]
             IN  /\ e.reports \in Legs \cap rejected
                 /\ e.reports < i
                 /\ orders[i].side = orders[e.reports].side
                 /\ {orders[i].broker, orders[e.reports].broker} = Brokers
    /\ \A i, j \in Corrections :
          executions[orders[i].corrects].reports
            = executions[orders[j].corrects].reports => i = j

RejectsLeg(e) == ~e.isFilled /\ e.id # CORRECTION_ID

\* Every rejection of a leg that was handled has its correction.
CorrectionComplete ==
    \A n \in Handled :
       RejectsLeg(executions[n])
          => \E i \in Corrections : orders[i].corrects = n

Corrected(i) ==
    \E j \in Corrections : executions[orders[j].corrects].reports = i

Standing == {i \in DOMAIN orders : ~Corrected(i)}
OnSide(S, side) == {i \in S : orders[i].side = side}
Net(S) == Cardinality(OnSide(S, "BUY")) - Cardinality(OnSide(S, "SELL"))

\* The first leg of a pair whose second leg is not published yet.
HalfPair ==
    IF businessPc # "second" THEN 0 ELSE IF FirstSide = "BUY" THEN 1 ELSE -1

\* The orders no correction has replaced always balance, and only an order
\* that was not filled is ever replaced: the position can be open only while
\* an order is unanswered, lost, or a correction was rejected.
ExposureConserved ==
    /\ Net(Standing) = HalfPair
    /\ filled \subseteq Standing

\* The orders as entries of the ledger that the offices promise to keep.
Book ==
    [i \in DOMAIN orders |->
       [broker |-> orders[i].broker, side |-> orders[i].side,
        replaces |-> IF orders[i].corrects = 0 THEN 0
                     ELSE executions[orders[i].corrects].reports]]

Ledger == INSTANCE HedgeLedger WITH ledger <- Book, half <- businessPc = "second"

\* The offices and their rings keep the ledger: legs in pairs, with nothing between
\* the two, and replacements of rejected legs only (BusinessOffice.h:153-241,
\* BusinessOffice.cpp:96-106).
LedgerSpec == Ledger!Spec

\* When every order was answered and handled and none was lost or rejected
\* without a correction, what the brokers filled balances.
HedgedWhenQuiet ==
    (businessPc = "poll" /\ Standing \subseteq filled) => Net(filled) = 0

\* An order goes only to a broker that was quoted since the last pair, so a
\* pair never trades on a quote an earlier pair used (the resets at
\* BusinessOffice.h:243-250, and the prices the office starts with).
FreshQuotes ==
    currentOrder # "NONE" =>
       /\ Brokers \subseteq fresh
       /\ priceA.broker = "LMAX" /\ priceB.broker = "IB"

\* When the delay outlasts every answer, a new pair starts only from a hedged
\* position: the parity test on the count blocks the office for good after a
\* correction that failed or one order that was lost (BusinessOffice.h:85).
HedgedTrigger ==
    [][pairs' # pairs => (DelayCovers => Net(filled) = 0)]_vars

\* When the delay outlasts every answer, no thread ever finds a ring full, so none
\* waits in next() (16 slots each, main.cpp:36 and 42).  At most five orders are
\* unread: the two of the last pair with their corrections, and those of the pair
\* before that the office will pass over; and three executions, with a fourth on its
\* way.
NobodyWaits ==
    (DelayCovers /\ OrderRingSize > 5 /\ ExecRingSize > 3) =>
       /\ HasRoom(orderRing, OrderRingSize)
       /\ \A b \in Brokers :
             (tradePc[b] = "fix" /\ inbox[b] # << >>) => HasRoom(execRing, ExecRingSize)

\* The opening pairs both of whose legs were filled.
OpenPairs ==
    {p \in 1 .. pairs :
       \A side \in Sides : \E i \in filled :
          orders[i].id = p /\ orders[i].side = side /\ orders[i].label = "OPEN"}

BothRejected(p) ==
    Cardinality({i \in rejected \cap Legs : orders[i].id = p}) = 2

\* MAX_ORDERS bounds the pairs that are held, when the delay outlasts every
\* answer and no pair had both its legs rejected (BusinessOffice.h:89): a
\* pair is opened below the limit and adds two to the count, which starts
\* with the orders the office was told are open, never below zero.
OpenCapped ==
    (/\ DelayCovers /\ MaxOrders > 0 /\ InitCount >= 0
     /\ \A p \in 1 .. pairs : ~BothRejected(p))
       => 2 * Cardinality(OpenPairs) <= MaxOrders + 1

\* A rejected leg that reached the execution ring is corrected, unless the
\* system stops.
RejectionAnswered ==
    \A n \in 1 .. 4 * MaxPairs :
       (\E m \in DOMAIN executions : m = n /\ RejectsLeg(executions[m]))
          ~> (~isRunning \/ \E i \in Corrections : orders[i].corrects = n)

\* An order published while the office of its broker gates the ring is polled,
\* unless the system stops: a batch that ends at a foreign order is taken up again.
OrderPolled ==
    \A i \in 1 .. 4 * MaxPairs :
       i \in Unpolled
          ~> (~isRunning \/ \E j \in DOMAIN orders :
                j = i /\ orderRing.seq[orders[j].broker] >= i)

\* One failing session stops the business office and every trade office but one
\* that waits for the answer to its logon, where it does not look at isRunning.
FailureStopsAll ==
    ~isRunning ~> (/\ businessPc = "stopped"
                   /\ \A b \in Brokers : tradePc[b] \in {"new", "stopped"})
=============================================================================
