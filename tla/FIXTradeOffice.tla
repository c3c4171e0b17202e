--------------------------- MODULE FIXTradeOffice ---------------------------
(* The thread that owns the FIX session of one broker: FIXTradeOffice::    *)
(* doWork reads at most one message of the session, then polls the order   *)
(* ring.  The broker at the other end is external: it answers any order it *)
(* received, once, with a fill or a rejection.                             *)
EXTENDS TradingRings

CONSTANTS MaxRejects,      \* bound: orders the brokers reject
          SendMayFail,     \* fix_session_send may lose an order
          SessionMayFail   \* a session may fail

ASSUME TradeAssumption ==
    /\ MaxRejects \in Nat
    /\ {SendMayFail, SessionMayFail} \subseteq BOOLEAN

VARIABLES tradePc,   \* where each office is in its loop
          received,  \* orders that reached their broker (positions in the log)
          filled,    \* of these, the ones the broker filled
          rejected,  \* and the ones it rejected
          inbox      \* reports on their way to each office, [order, isFilled]

tradeVars == <<tradePc, received, filled, rejected, inbox>>

Report == [order : Nat, isFilled : BOOLEAN]

TypeOKTrade ==
    /\ tradePc \in [Brokers -> {"new", "fix", "waiting", "orders", "stopped"}]
    /\ received \subseteq Nat /\ filled \subseteq Nat /\ rejected \subseteq Nat
    /\ inbox \in [Brokers -> Seq(Report)]

InitTrade ==
    /\ tradePc = [b \in Brokers |-> "new"]
    /\ received = {} /\ filled = {} /\ rejected = {}
    /\ inbox = [b \in Brokers |-> << >>]

-----------------------------------------------------------------------------
\* initiate(): the FIX logon first, then the order poller is attached.
TradeInitiate(b) ==
    /\ tradePc[b] = "new"
    /\ tradePc' = [tradePc EXCEPT ![b] = "fix"]
    /\ orderRing' = AddGate(orderRing, b)
    /\ UNCHANGED <<execRing, isRunning, received, filled, rejected, inbox>>

ExecutionOf(b, report) ==
    [broker |-> b, side |-> orders[report.order].side,
     isFilled |-> report.isFilled, id |-> orders[report.order].id,
     reports |-> report.order]

\* FIXSession::poll hands one execution report to m_onMessageHandler, which
\* publishes it, or waits in next() for a free slot: inside doWork, where the
\* office no longer looks at isRunning.
WaitForRoom(b) ==
    /\ tradePc[b] = "fix"
    /\ isRunning
    /\ inbox[b] # << >>
    /\ ~HasRoom(execRing, ExecRingSize)
    /\ tradePc' = [tradePc EXCEPT ![b] = "waiting"]
    /\ UNCHANGED <<ringVars, received, filled, rejected, inbox>>

PublishReport(b) ==
    /\ tradePc[b] = "waiting" \/ (tradePc[b] = "fix" /\ isRunning)
    /\ inbox[b] # << >>
    /\ HasRoom(execRing, ExecRingSize)
    /\ execRing' = Publish(execRing, ExecutionOf(b, Head(inbox[b])))
    /\ inbox' = [inbox EXCEPT ![b] = Tail(@)]
    /\ tradePc' = [tradePc EXCEPT ![b] = "orders"]
    /\ UNCHANGED <<orderRing, isRunning, received, filled, rejected>>

\* terminate() detaches the order poller.
MutDetached(b) == orderRing
Detached(b) == RemoveGate(orderRing, b)

\* The session fails in initiate() or poll(): the exception ends the loop,
\* clears isRunning, and terminate() detaches the poller.
SessionFails(b) ==
    /\ SessionMayFail
    /\ tradePc[b] \in {"new", "fix"}
    /\ isRunning' = FALSE
    /\ tradePc' = [tradePc EXCEPT ![b] = "stopped"]
    /\ orderRing' = Detached(b)
    /\ UNCHANGED <<execRing, received, filled, rejected, inbox>>

\* m_orderEventHandler stops the batch at the first order of another broker,
\* which the poll has then consumed all the same.
MutEndsBatch(b, last) ==
    /\ \A i \in (orderRing.seq[b] + 1) .. last : orders[i].broker = b
    /\ last < Len(orders) => orders[last + 1].broker # b
EndsBatch(b, last) ==
    /\ \A i \in (orderRing.seq[b] + 1) .. (last - 1) : orders[i].broker = b
    /\ \/ last = Len(orders)
       \/ last > orderRing.seq[b] /\ orders[last].broker # b

Own(b, last) ==
    {i \in (orderRing.seq[b] + 1) .. last : orders[i].broker = b}

\* The poll of doWork, after a report or when no report has arrived.  The
\* result of each send is ignored: an order it lost is consumed too.
PollOrders(b) ==
    /\ tradePc[b] = "orders" \/ (tradePc[b] = "fix" /\ isRunning)
    /\ \E last \in orderRing.seq[b] .. Len(orders) :
          /\ EndsBatch(b, last)
          /\ orderRing' = ConsumeTo(orderRing, b, last)
          /\ \E sent \in IF SendMayFail THEN SUBSET Own(b, last)
                                        ELSE {Own(b, last)} :
                received' = received \cup sent
    /\ tradePc' = [tradePc EXCEPT ![b] = "fix"]
    /\ UNCHANGED <<execRing, isRunning, filled, rejected, inbox>>

TradeTerminate(b) ==
    /\ tradePc[b] = "fix"
    /\ ~isRunning
    /\ tradePc' = [tradePc EXCEPT ![b] = "stopped"]
    /\ orderRing' = Detached(b)
    /\ UNCHANGED <<execRing, isRunning, received, filled, rejected, inbox>>

-----------------------------------------------------------------------------
\* The broker answers an order that reached it.
BrokerAnswers(i, isFilled) ==
    /\ i \in received \ (filled \cup rejected)
    /\ IF isFilled
         THEN filled' = filled \cup {i} /\ rejected' = rejected
         ELSE /\ Cardinality(rejected) < MaxRejects
              /\ rejected' = rejected \cup {i} /\ filled' = filled
    /\ LET b == orders[i].broker
       IN  inbox' = [inbox EXCEPT ![b] =
                       Append(@, [order |-> i, isFilled |-> isFilled])]
    /\ UNCHANGED <<ringVars, tradePc, received>>
=============================================================================
