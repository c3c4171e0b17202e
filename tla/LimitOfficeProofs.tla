------------------------- MODULE LimitOfficeProofs -------------------------
(* Theorems about LimitOffice, for every set of bids, every ring and every *)
(* bound.                                                                  *)
EXTENDS LimitOffice, DisruptorProofs, SequenceTheorems

\* A batch ends at an event that was published.
TypeInv == TypeOK /\ available <= Len(priceRing.log)

\* The reports of a fill the office takes for one.
Fills == {k \in DOMAIN toOffice : toOffice[k] = "2"}

\* An order is in one place at a time: on its way to the broker, resting there,
\* or filled and its report on the way back; and while it is, orderPlaced holds.
OneToken ==
    /\ OneOrder
    /\ AtMostOne(Fills)
    /\ Fills = {} \/ (News = {} /\ resting = << >>)
    /\ (News # {} \/ resting # << >> \/ Fills # {}) => orderPlaced

IInv == TypeInv /\ OneToken
-----------------------------------------------------------------------------
(* Types.                                                                  *)

LEMMA InitTypes == Init => TypeInv
  <1> SUFFICES ASSUME Init PROVE TypeInv
    OBVIOUS
  <1>1. priceRing \in Rings(PriceEvent, {LIMIT}) /\ Len(priceRing.log) = 0
    BY DEF Init, NewRing, Rings
  <1>2. << >> \in Seq(Request) /\ << >> \in Seq(Reports) /\ << >> \in Seq(Bids)
    BY EmptySeq
  <1>3. TypeOK
    BY <1>1, <1>2 DEF Init, TypeOK
  <1>4. available <= Len(priceRing.log)
    BY <1>1 DEF Init
  <1> QED  BY <1>3, <1>4 DEF TypeInv

\* What Append and Tail make of a sequence of reports or of requests.
LEMMA SeqTypes ==
    ASSUME NEW S, NEW s \in Seq(S)
    PROVE  /\ \A e \in S : Append(s, e) \in Seq(S)
           /\ s # << >> => Head(s) \in S /\ Tail(s) \in Seq(S)
  BY HeadTailProperties

\* What the office sends is a request, if the bid is one.
LEMMA SendTypes ==
    ASSUME TypeInv, NEW type \in {"New", "Replace"}, NEW bid \in Bids, Send(type, bid)
    PROVE  toBroker' \in Seq(Request) /\ spoiled' \in Nat
  <1>1. [type |-> type, price |-> bid] \in Request
    BY DEF Request
  <1>2. Append(toBroker, [type |-> type, price |-> bid]) \in Seq(Request)
    BY <1>1, SeqTypes DEF TypeInv, TypeOK
  <1>3. spoiled \in Nat /\ spoiled + 1 \in Nat /\ toBroker \in Seq(Request)
    BY DEF TypeInv, TypeOK
  <1> QED  BY <1>2, <1>3 DEF Send

LEMMA StepTypes == TypeInv /\ [Next]_vars => TypeInv'
  <1> SUFFICES ASSUME TypeInv, [Next]_vars PROVE TypeInv'
    OBVIOUS
  <1> USE LimitAssumption
  <1>ring. /\ priceRing \in Rings(PriceEvent, {LIMIT})
           /\ priceRing.log \in Seq(PriceEvent) /\ Len(priceRing.log) \in Nat
           /\ priceRing.seq[LIMIT] \in Nat
    BY DEF TypeInv, TypeOK, Rings
  <1>1. CASE Initiate
    <2>1. priceRing' \in Rings(PriceEvent, {LIMIT}) /\ priceRing'.log = priceRing.log
      BY <1>1, <1>ring, AddGateFacts DEF Initiate
    <2> QED  BY <1>1, <2>1 DEF Initiate, TypeInv, TypeOK, batchVars, orderVars, brokerVars
  <1>2. CASE PollReport
    BY <1>2, <1>ring DEF PollReport, Batch, AfterReport, TypeInv, TypeOK, brokerVars
  <1>3. CASE PollNoReport
    BY <1>3, <1>ring DEF PollNoReport, Batch, TypeInv, TypeOK, brokerVars, orderVars
  <1>4. CASE HandlePrice
    <2> DEFINE event == priceRing.log[handled + 1]
    <2>1. event \in PriceEvent
      BY SMTT(30), <1>4, <1>ring DEF HandlePrice, TypeInv, TypeOK
    <2>2. event.bid \in Bids
      BY <2>1 DEF PriceEvent
    <2>3. /\ toBroker' \in Seq(Request) /\ spoiled' \in Nat
          /\ orderPlaced' \in BOOLEAN /\ canUpdate' \in BOOLEAN /\ lastPrice' \in Bids
      <3>1. CASE Place(event)
        BY <3>1, <2>2, SendTypes DEF Place, TypeInv, TypeOK
      <3>2. CASE Move(event)
        BY <3>2, <2>2, SendTypes DEF Move, TypeInv, TypeOK
      <3>3. CASE UNCHANGED <<orderVars, toBroker, spoiled>>
        BY <3>3 DEF orderVars, TypeInv, TypeOK
      <3> QED  BY <1>4, <3>1, <3>2, <3>3 DEF HandlePrice
    <2> QED  BY <1>4, <2>3 DEF HandlePrice, TypeInv, TypeOK, brokerVars
  <1>5. CASE EndOfBatch
    <2>1. available \in Nat
      BY DEF TypeInv, TypeOK
    <2>2. priceRing' \in Rings(PriceEvent, {LIMIT}) /\ priceRing'.log = priceRing.log
      <3>1. priceRing' = ConsumeTo(priceRing, LIMIT, available)
        BY <1>5 DEF EndOfBatch
      <3>2. /\ ConsumeTo(priceRing, LIMIT, available) \in Rings(PriceEvent, {LIMIT})
            /\ ConsumeTo(priceRing, LIMIT, available).log = priceRing.log
        BY <1>ring, <2>1 DEF Rings, ConsumeTo
      <3> QED  BY <3>1, <3>2
    <2> QED  BY <1>5, <2>2 DEF EndOfBatch, TypeInv, TypeOK, batchVars, orderVars, brokerVars
  <1>6. CASE SessionFails
    <2>1. priceRing' \in Rings(PriceEvent, {LIMIT}) /\ priceRing'.log = priceRing.log
      BY <1>6, <1>ring, RemoveGateFacts DEF SessionFails
    <2>2. Lost \in Nat
      BY DEF Lost, TypeInv, TypeOK
    <2>3. << >> \in Seq(Request) /\ << >> \in Seq(Reports)
      BY EmptySeq
    <2> QED  BY <1>6, <2>1, <2>2, <2>3
             DEF SessionFails, TypeInv, TypeOK, batchVars, orderVars, brokerVars
  <1>7. ASSUME NEW bid \in Bids, PublishPrice(bid) PROVE TypeInv'
    <2> DEFINE event == [bid |-> bid, sequence |-> Len(priceRing.log) + 1]
    <2>1. event \in PriceEvent
      BY <1>ring DEF PriceEvent
    <2>2. /\ priceRing' \in Rings(PriceEvent, {LIMIT})
          /\ priceRing'.log = Append(priceRing.log, event)
      <3>1. priceRing' = Publish(priceRing, event)
        BY <1>7 DEF PublishPrice
      <3>2. /\ Publish(priceRing, event) \in Rings(PriceEvent, {LIMIT})
            /\ Publish(priceRing, event).log = Append(priceRing.log, event)
        <4> HIDE DEF event
        <4> QED  BY <2>1, <1>ring, PublishFacts
      <3> QED  BY <3>1, <3>2
    <2>3. Len(priceRing'.log) = Len(priceRing.log) + 1
      BY <2>1, <2>2, <1>ring, AppendFacts
    <2> QED  BY SMTT(30), <1>7, <1>ring, <2>2, <2>3
             DEF PublishPrice, TypeInv, TypeOK, batchVars, orderVars, brokerVars
  <1>seq. /\ toOffice \in Seq(Reports) /\ toBroker \in Seq(Request) /\ resting \in Seq(Bids)
          /\ \A report \in Reports : Append(toOffice, report) \in Seq(Reports)
    BY SeqTypes DEF TypeInv, TypeOK
  <1>8. CASE BrokerAccepts
    <2> DEFINE request == Head(toBroker)
    <2>1. request \in Request /\ Tail(toBroker) \in Seq(Request) /\ toBroker # << >>
      BY <1>8, <1>seq, SeqTypes DEF BrokerAccepts
    <2>2. request.price \in Bids
      BY <2>1 DEF Request
    <2>3. Append(resting, request.price) \in Seq(Bids)
      BY <2>2, <1>seq, SeqTypes
    <2>4. resting # << >> => [resting EXCEPT ![1] = request.price] \in Seq(Bids)
      <3>1. resting # << >> => 1 \in 1 .. Len(resting)
        BY <1>seq, EmptySeq
      <3> QED  BY <2>2, <3>1, <1>seq, ExceptSeq
    <2>5. resting' \in Seq(Bids) /\ toOffice' \in Seq(Reports)
      <3>1. {"0", "5", "CancelReject"} \subseteq Reports
        BY DEF Reports
      <3>2. CASE request.type = "New"
        BY <1>8, <1>seq, <2>3, <3>1, <3>2 DEF BrokerAccepts, Reply
      <3>3. CASE request.type = "Replace" /\ resting # << >>
        BY <1>8, <1>seq, <2>4, <3>1, <3>3 DEF BrokerAccepts, Reply
      <3>4. CASE request.type = "Replace" /\ resting = << >>
        BY <1>8, <1>seq, <3>1, <3>4 DEF BrokerAccepts, Reply
      <3> QED  BY <2>1, <3>2, <3>3, <3>4 DEF Request
    <2> QED  BY <1>8, <2>1, <2>5
             DEF BrokerAccepts, TypeInv, TypeOK, batchVars, orderVars
  <1>9. CASE BrokerRefuses
    <2>1. Tail(toBroker) \in Seq(Request)
      BY <1>9, <1>seq, SeqTypes DEF BrokerRefuses
    <2>2. toOffice' \in Seq(Reports)
      BY <1>9, <1>seq DEF BrokerRefuses, Reply, Reports
    <2> QED  BY <1>9, <2>1, <2>2
             DEF BrokerRefuses, TypeInv, TypeOK, batchVars, orderVars, brokerVars
  <1>10. CASE BrokerCancels
    <2>1. Tail(resting) \in Seq(Bids)
      BY <1>10, <1>seq, SeqTypes DEF BrokerCancels
    <2>2. toOffice' \in Seq(Reports)
      BY <1>10, <1>seq DEF BrokerCancels, Reports
    <2> QED  BY <1>10, <2>1, <2>2 DEF BrokerCancels, TypeInv, TypeOK, batchVars, orderVars
  <1>11. ASSUME NEW type \in FillTypes, BrokerFills(type) PROVE TypeInv'
    <2>1. Tail(resting) \in Seq(Bids)
      BY <1>11, <1>seq, SeqTypes DEF BrokerFills
    <2>2. type \in Reports
      BY DEF Reports
    <2>3. toOffice' \in Seq(Reports) /\ spoiled' \in Nat
      <3>1. Tells(type) /\ spoiled \in Nat
        BY <1>11 DEF BrokerFills, TypeInv, TypeOK
      <3>2. CASE pc = "closed"
        BY <3>1, <3>2, <1>seq DEF Tells
      <3>3. CASE pc # "closed"
        BY <3>1, <3>3, <1>seq, <2>2 DEF Tells, Reply
      <3> QED  BY <3>2, <3>3
    <2> QED  BY <1>11, <2>1, <2>3
             DEF BrokerFills, TypeInv, TypeOK, batchVars, orderVars
  <1>12. CASE UNCHANGED vars
    BY <1>12 DEF vars, TypeInv, TypeOK, batchVars, orderVars, brokerVars
  <1> QED  BY <1>1, <1>2, <1>3, <1>4, <1>5, <1>6, <1>7, <1>8, <1>9, <1>10, <1>11, <1>12
           DEF Next, Ended

\* Every reachable state has its type (TypeOK).
THEOREM TypeCorrect == Spec => []TypeOK
  <1>1. TypeInv => TypeOK
    BY DEF TypeInv
  <1> QED  BY InitTypes, StepTypes, <1>1, PTL DEF Spec
-----------------------------------------------------------------------------
(* One order.                                                              *)

LEMMA InitToken == Init => OneToken
  BY DEF Init, OneToken, OneOrder, AtMostOne, News, Fills

\* A request that leaves takes its order along; no other comes.
LEMMA TailNews ==
    ASSUME TypeInv, toBroker # << >>, toBroker' = Tail(toBroker), AtMostOne(News)
    PROVE  /\ AtMostOne(News)'
           /\ News = {} => News' = {}
           /\ Head(toBroker).type = "New" => News # {} /\ News' = {}
  <1>1. /\ toBroker \in Seq(Request) /\ Len(toBroker) \in Nat \ {0}
        /\ Head(toBroker) = toBroker[1] /\ DOMAIN toBroker = 1 .. Len(toBroker)
    BY EmptySeq DEF TypeInv, TypeOK
  <1>2. /\ DOMAIN toBroker' = 1 .. (Len(toBroker) - 1)
        /\ \A k \in DOMAIN toBroker' : toBroker'[k] = toBroker[k + 1]
    BY <1>1
  <1>3. \A k \in News' : k + 1 \in News /\ k \in Nat \ {0}
    BY <1>1, <1>2 DEF News
  <1>4. News \subseteq Nat /\ (Head(toBroker).type = "New" => 1 \in News)
    BY <1>1 DEF News
  <1> QED  BY <1>3, <1>4 DEF AtMostOne

\* A request that is sent brings an order if it is a new one.
LEMMA AppendNews ==
    ASSUME TypeInv, NEW r \in Request, toBroker' = Append(toBroker, r), AtMostOne(News)
    PROVE  /\ r.type # "New" => News' = News
           /\ News = {} => AtMostOne(News)'
  <1>1. /\ toBroker \in Seq(Request) /\ Len(toBroker) \in Nat
        /\ DOMAIN toBroker = 1 .. Len(toBroker)
    BY DEF TypeInv, TypeOK
  <1>2. /\ DOMAIN toBroker' = 1 .. (Len(toBroker) + 1)
        /\ \A k \in 1 .. Len(toBroker) : toBroker'[k] = toBroker[k]
        /\ toBroker'[Len(toBroker) + 1] = r
    BY <1>1
  <1>3. \A k \in DOMAIN toBroker' : k \in DOMAIN toBroker \/ k = Len(toBroker) + 1
    BY <1>1, <1>2
  <1>4. DOMAIN toBroker \subseteq DOMAIN toBroker'
    BY <1>1, <1>2
  <1>5. ASSUME r.type # "New" PROVE News' = News
    BY <1>1, <1>2, <1>3, <1>4, <1>5 DEF News
  <1>6. ASSUME News = {} PROVE AtMostOne(News)'
    <2>1. \A k \in News' : k = Len(toBroker) + 1
      BY <1>1, <1>2, <1>3, <1>6 DEF News
    <2> QED  BY <2>1 DEF AtMostOne
  <1> QED  BY <1>5, <1>6

\* The same of the reports of a fill.
LEMMA TailFills ==
    ASSUME TypeInv, toOffice # << >>, toOffice' = Tail(toOffice), AtMostOne(Fills)
    PROVE  /\ AtMostOne(Fills)'
           /\ Fills = {} => Fills' = {}
           /\ Head(toOffice) = "2" => Fills # {} /\ Fills' = {}
  <1>1. /\ toOffice \in Seq(Reports) /\ Len(toOffice) \in Nat \ {0}
        /\ Head(toOffice) = toOffice[1] /\ DOMAIN toOffice = 1 .. Len(toOffice)
    BY EmptySeq DEF TypeInv, TypeOK
  <1>2. /\ DOMAIN toOffice' = 1 .. (Len(toOffice) - 1)
        /\ \A k \in DOMAIN toOffice' : toOffice'[k] = toOffice[k + 1]
    BY <1>1
  <1>3. \A k \in Fills' : k + 1 \in Fills /\ k \in Nat \ {0}
    BY <1>1, <1>2 DEF Fills
  <1>4. Fills \subseteq Nat /\ (Head(toOffice) = "2" => 1 \in Fills)
    BY <1>1 DEF Fills
  <1> QED  BY <1>3, <1>4 DEF AtMostOne

LEMMA AppendFills ==
    ASSUME TypeInv, NEW r \in Reports, toOffice' = Append(toOffice, r), AtMostOne(Fills)
    PROVE  /\ r # "2" => Fills' = Fills
           /\ Fills = {} => AtMostOne(Fills)'
  <1>1. /\ toOffice \in Seq(Reports) /\ Len(toOffice) \in Nat
        /\ DOMAIN toOffice = 1 .. Len(toOffice)
    BY DEF TypeInv, TypeOK
  <1>2. /\ DOMAIN toOffice' = 1 .. (Len(toOffice) + 1)
        /\ \A k \in 1 .. Len(toOffice) : toOffice'[k] = toOffice[k]
        /\ toOffice'[Len(toOffice) + 1] = r
    BY <1>1
  <1>3. \A k \in DOMAIN toOffice' : k \in DOMAIN toOffice \/ k = Len(toOffice) + 1
    BY <1>1, <1>2
  <1>4. DOMAIN toOffice \subseteq DOMAIN toOffice'
    BY <1>1, <1>2
  <1>5. ASSUME r # "2" PROVE Fills' = Fills
    BY <1>1, <1>2, <1>3, <1>4, <1>5 DEF Fills
  <1>6. ASSUME Fills = {} PROVE AtMostOne(Fills)'
    <2>1. \A k \in Fills' : k = Len(toOffice) + 1
      BY <1>1, <1>2, <1>3, <1>6 DEF Fills
    <2> QED  BY <2>1 DEF AtMostOne
  <1> QED  BY <1>5, <1>6

\* Steps that keep the order where it is, or lose it.
LEMMA Fewer ==
    ASSUME TypeInv, OneToken, orderPlaced' = orderPlaced,
           AtMostOne(News)', News = {} => News' = {},
           resting' \in {resting, << >>},
           AtMostOne(Fills)', Fills = {} => Fills' = {}
    PROVE  OneToken'
  <1>1. Len(resting') <= 1
    BY EmptySeq DEF OneToken, OneOrder, TypeInv, TypeOK
  <1> QED  BY <1>1 DEF OneToken, OneOrder

LEMMA StepToken == TypeInv /\ OneToken /\ [Next]_vars => OneToken'
  <1> SUFFICES ASSUME TypeInv, OneToken, [Next]_vars PROVE OneToken'
    OBVIOUS
  <1>parts. AtMostOne(News) /\ AtMostOne(Fills)
    BY DEF OneToken, OneOrder
  <1>news. toBroker' = toBroker => News' = News /\ AtMostOne(News)'
    BY <1>parts DEF News, AtMostOne
  <1>fills. toOffice' = toOffice => Fills' = Fills /\ AtMostOne(Fills)'
    BY <1>parts DEF Fills, AtMostOne
  <1>other. ASSUME NEW r \in Reports \ {"2"}, toOffice' = Append(toOffice, r)
            PROVE  Fills' = Fills /\ AtMostOne(Fills)'
    <2>1. Fills' = Fills
      BY <1>other, <1>parts, AppendFills
    <2> QED  BY <2>1, <1>parts DEF AtMostOne
  \* An order that rests is the only one.
  <1>rests. resting # << >> =>
               /\ News = {} /\ Fills = {} /\ orderPlaced
               /\ resting \in Seq(Bids) /\ Len(resting) = 1 /\ Tail(resting) = << >>
    <2>1. resting \in Seq(Bids) /\ Len(resting) \in Nat
      BY DEF TypeInv, TypeOK
    <2>2. resting # << >> => Len(resting) = 1
      <3>1. Len(resting) <= 1
        BY DEF OneToken, OneOrder
      <3>2. resting # << >> => Len(resting) # 0
        BY <2>1
      <3>3. Len(resting) \in Nat
        BY <2>1
      <3>4. \A n \in Nat : n <= 1 => n \in {0, 1}
        OBVIOUS
      <3>5. Len(resting) \in {0, 1}
        BY <3>1, <3>3, <3>4
      <3> QED  BY <3>2, <3>5
    <2>3. resting # << >> => Tail(resting) \in Seq(Bids) /\ Len(Tail(resting)) = 0
      BY <2>1, <2>2
    <2> QED  BY <2>1, <2>2, <2>3, EmptySeq DEF OneToken, OneOrder
  <1>1. CASE Initiate
    BY <1>1, <1>news, <1>fills, Fewer DEF Initiate, orderVars, brokerVars
  <1>2. CASE PollReport
    <2>1. /\ AtMostOne(Fills)' /\ (Fills = {} => Fills' = {})
          /\ Head(toOffice) = "2" => Fills # {} /\ Fills' = {}
      BY <1>2, <1>parts, TailFills DEF PollReport
    <2>2. CASE Head(toOffice) = "2"
      <3>1. News' = {} /\ AtMostOne(News)' /\ resting' = << >> /\ Fills' = {}
        BY <1>2, <2>1, <2>2, <1>news DEF PollReport, OneToken, brokerVars
      <3> QED  BY <2>1, <3>1, EmptySeq DEF OneToken, OneOrder
    <2>3. CASE Head(toOffice) # "2"
      <3>1. orderPlaced' = orderPlaced
        BY <1>2, <2>3 DEF PollReport, AfterReport, TypeInv, TypeOK
      <3> QED  BY <1>2, <2>1, <3>1, <1>news, Fewer DEF PollReport, brokerVars
    <2> QED  BY <2>2, <2>3
  <1>3. CASE PollNoReport
    BY <1>3, <1>news, <1>fills, Fewer DEF PollNoReport, orderVars, brokerVars
  <1>4. CASE HandlePrice
    <2> DEFINE event == priceRing.log[handled + 1]
    <2>1. event.bid \in Bids
      <3>1. /\ priceRing.log \in Seq(PriceEvent) /\ handled + 1 \in 1 .. Len(priceRing.log)
        BY <1>4 DEF HandlePrice, TypeInv, TypeOK, Rings
      <3>2. event \in PriceEvent
        BY <3>1
      <3> QED  BY <3>2 DEF PriceEvent
    <2>2. resting' = resting /\ Fills' = Fills /\ AtMostOne(Fills)'
      BY <1>4, <1>fills DEF HandlePrice, brokerVars
    <2>3. CASE Places(event) /\ Place(event)
      <3>1. /\ ~orderPlaced /\ orderPlaced' /\ News = {} /\ resting = << >> /\ Fills = {}
        BY <2>3 DEF Places, Place, OneToken
      <3>2. [type |-> "New", price |-> event.bid] \in Request
        BY <2>1 DEF Request
      <3>3. AtMostOne(News)'
        BY <2>3, <3>1, <3>2, <1>news, <1>parts, AppendNews DEF Place, Send
      <3> QED  BY <3>1, <3>3, <2>2, EmptySeq DEF OneToken, OneOrder
    <2>4. CASE Move(event)
      <3>1. [type |-> "Replace", price |-> event.bid] \in Request
        BY <2>1 DEF Request
      <3>2. News' = News
        BY <2>4, <3>1, <1>news, <1>parts, AppendNews DEF Move, Send
      <3>3. AtMostOne(News)'
        BY <3>2, <1>parts DEF AtMostOne
      <3> QED  BY <2>2, <2>4, <3>2, <3>3, Fewer DEF Move
    <2>5. CASE UNCHANGED <<orderVars, toBroker, spoiled>>
      BY <2>2, <2>5, <1>news, Fewer DEF orderVars
    <2> QED  BY <1>4, <2>3, <2>4, <2>5 DEF HandlePrice
  <1>5. CASE EndOfBatch
    BY <1>5, <1>news, <1>fills, Fewer DEF EndOfBatch, orderVars, brokerVars
  <1>6. CASE SessionFails
    <2>1. News' = {} /\ Fills' = {} /\ AtMostOne(News)' /\ AtMostOne(Fills)'
      BY <1>6 DEF SessionFails, News, Fills, AtMostOne
    <2> QED  BY <1>6, <2>1, Fewer DEF SessionFails, orderVars, brokerVars
  <1>7. ASSUME NEW bid \in Bids, PublishPrice(bid) PROVE OneToken'
    BY <1>7, <1>news, <1>fills, Fewer DEF PublishPrice, orderVars, brokerVars
  <1>8. CASE BrokerAccepts
    <2> DEFINE request == Head(toBroker)
    <2>1. /\ AtMostOne(News)' /\ (News = {} => News' = {})
          /\ request.type = "New" => News # {} /\ News' = {}
      BY <1>8, <1>parts, TailNews DEF BrokerAccepts
    <2>2. {"0", "5", "CancelReject"} \subseteq Reports \ {"2"}
      BY DEF Reports
    <2>3. Fills' = Fills /\ AtMostOne(Fills)' /\ orderPlaced' = orderPlaced
      BY <1>8, <2>2, <1>other DEF BrokerAccepts, Reply, orderVars
    <2>4. resting \in Seq(Bids)
      BY DEF TypeInv, TypeOK
    <2>5. CASE request.type = "New"
      <3>1. News # {} /\ News' = {} /\ resting = << >> /\ Fills = {} /\ orderPlaced
        BY <2>1, <2>5 DEF OneToken, OneOrder
      <3>2. resting' = Append(resting, request.price)
        BY <1>8, <2>5 DEF BrokerAccepts
      <3>3. Len(resting') = 1
        BY <3>1, <3>2
      <3> QED  BY <2>1, <2>3, <3>1, <3>3 DEF OneToken, OneOrder
    <2>6. CASE request.type # "New" /\ resting # << >>
      <3>1. Len(resting') = 1
        <4>1. resting' = [resting EXCEPT ![1] = request.price] \/ resting' = resting
          BY <1>8, <2>6 DEF BrokerAccepts
        <4> QED  BY <4>1, <2>6, <1>rests
      <3> QED  BY <2>1, <2>3, <2>6, <3>1, <1>rests DEF OneToken, OneOrder
    <2>7. CASE request.type # "New" /\ resting = << >>
      <3>1. resting' = resting
        BY <1>8, <2>7 DEF BrokerAccepts
      <3> QED  BY <2>1, <2>3, <3>1, Fewer
    <2> QED  BY <2>5, <2>6, <2>7
  <1>9. CASE BrokerRefuses
    <2>1. AtMostOne(News)' /\ (News = {} => News' = {})
      BY <1>9, <1>parts, TailNews DEF BrokerRefuses
    <2>2. {"8", "CancelReject"} \subseteq Reports \ {"2"}
      BY DEF Reports
    <2>3. Fills' = Fills /\ AtMostOne(Fills)'
      BY <1>9, <2>2, <1>other DEF BrokerRefuses, Reply
    <2> QED  BY <1>9, <2>1, <2>3, Fewer DEF BrokerRefuses, orderVars, brokerVars
  <1>10. CASE BrokerCancels
    <2>1. "4" \in Reports \ {"2"}
      BY DEF Reports
    <2>2. Fills' = Fills /\ AtMostOne(Fills)'
      BY <1>10, <2>1, <1>other, <1>fills DEF BrokerCancels
    <2>3. resting' = << >>
      BY <1>10, <1>rests DEF BrokerCancels
    <2> QED  BY <1>10, <2>2, <2>3, <1>news, Fewer DEF BrokerCancels, orderVars
  <1>11. ASSUME NEW type \in FillTypes, BrokerFills(type) PROVE OneToken'
    <2>1. /\ resting' = << >> /\ News = {} /\ Fills = {} /\ orderPlaced
          /\ orderPlaced' = orderPlaced /\ News' = {} /\ AtMostOne(News)'
      BY <1>11, <1>rests, <1>news DEF BrokerFills, orderVars
    <2>2. AtMostOne(Fills)'
      <3>1. type \in Reports
        BY LimitAssumption DEF Reports
      <3>2. toOffice' = toOffice \/ toOffice' = Append(toOffice, type)
        BY <1>11 DEF BrokerFills, Tells, Reply
      <3> QED  BY <2>1, <3>1, <3>2, <1>fills, <1>parts, AppendFills
    <2> QED  BY <2>1, <2>2, EmptySeq DEF OneToken, OneOrder
  <1>12. CASE UNCHANGED vars
    BY <1>12, <1>news, <1>fills, Fewer DEF vars, orderVars, brokerVars
  <1> QED  BY <1>1, <1>2, <1>3, <1>4, <1>5, <1>6, <1>7, <1>8, <1>9, <1>10, <1>11, <1>12
           DEF Next, Ended

\* However sessions fail, requests are refused and reports are lost, the broker
\* never holds, and is never sent, a second order while the first may be filled.
THEOREM OneOrderHolds == Spec => []OneOrder
  <1>1. Init => IInv
    BY InitTypes, InitToken DEF IInv
  <1>2. IInv /\ [Next]_vars => IInv'
    BY StepTypes, StepToken DEF IInv
  <1>3. IInv => OneOrder
    BY DEF IInv, OneToken
  <1> QED  BY <1>1, <1>2, <1>3, PTL DEF Spec
-----------------------------------------------------------------------------
(* Where the order rests.                                                  *)

\* The last request on its way, or else the order that rests, has the price that
\* the office remembers.
LastTold ==
    spoiled = 0 =>
       /\ toBroker # << >> => toBroker[Len(toBroker)].price = lastPrice
       /\ toBroker = << >> /\ resting # << >> => resting[1] = lastPrice

\* Steps that change no request, no price, and no order but to take it away.
LEMMA NothingTold ==
    ASSUME TypeInv, LastTold, UNCHANGED <<toBroker, lastPrice>>,
           resting' = resting \/ resting' = << >>, spoiled' = 0 => spoiled = 0
    PROVE  LastTold'
  BY DEF LastTold

LEMMA LastOfAppend ==
    ASSUME NEW S, NEW s \in Seq(S), NEW e \in S
    PROVE  Append(s, e) # << >> /\ Append(s, e)[Len(Append(s, e))] = e
  BY AppendProperties

LEMMA LastOfTail ==
    ASSUME NEW S, NEW s \in Seq(S), s # << >>
    PROVE  /\ Tail(s) # << >> => Tail(s)[Len(Tail(s))] = s[Len(s)]
           /\ Tail(s) = << >> => Head(s) = s[Len(s)]
  <1>1. Len(s) \in Nat /\ Len(s) # 0 /\ Head(s) = s[1] /\ Len(Tail(s)) = Len(s) - 1
    BY HeadTailProperties, EmptySeq
  <1>2. \A k \in 1 .. Len(s) - 1 : Tail(s)[k] = s[k + 1]
    BY <1>1
  <1>3. Tail(s) \in Seq(S)
    BY HeadTailProperties
  <1>4. CASE Tail(s) = << >>
    BY <1>1, <1>4
  <1>5. CASE Tail(s) # << >>
    <2>1. Len(Tail(s)) # 0
      BY <1>3, <1>5, EmptySeq
    <2> QED  BY <1>1, <1>2, <1>5, <2>1
  <1> QED  BY <1>4, <1>5

LEMMA StepTold == IInv /\ LastTold /\ [Next]_vars => LastTold'
  <1> SUFFICES ASSUME IInv, LastTold, [Next]_vars PROVE LastTold'
    OBVIOUS
  <1> USE LimitAssumption
  <1>types. /\ TypeInv /\ spoiled \in Nat /\ toBroker \in Seq(Request) /\ resting \in Seq(Bids)
    BY DEF IInv, TypeInv, TypeOK
  <1>rests. resting # << >> => Tail(resting) = << >>
    <2>1. ASSUME resting # << >> PROVE Len(Tail(resting)) = 0 /\ Tail(resting) \in Seq(Bids)
      <3>1. Len(resting) <= 1 /\ Len(resting) \in Nat /\ Len(resting) # 0
        BY <2>1, <1>types, EmptySeq DEF IInv, OneToken, OneOrder
      <3>2. Len(Tail(resting)) = Len(resting) - 1 /\ Tail(resting) \in Seq(Bids)
        BY <2>1, <1>types, HeadTailProperties
      <3> QED  BY <3>1, <3>2
    <2> QED  BY <2>1, EmptySeq
  <1>1. CASE Initiate \/ PollReport \/ PollNoReport \/ EndOfBatch
    BY <1>1, <1>types, NothingTold
       DEF Initiate, PollReport, PollNoReport, EndOfBatch, orderVars, brokerVars
  <1>2. CASE HandlePrice
    <2> DEFINE event == priceRing.log[handled + 1]
    <2>1. event.bid \in Bids
      <3>1. /\ priceRing.log \in Seq(PriceEvent) /\ handled + 1 \in 1 .. Len(priceRing.log)
        BY SMTT(30), <1>2, <1>types DEF HandlePrice, TypeInv, TypeOK, Rings
      <3>2. event \in PriceEvent
        BY <3>1
      <3> QED  BY <3>2 DEF PriceEvent
    <2> HIDE DEF event
    <2>2. ASSUME NEW type \in {"New", "Replace"}, Send(type, event.bid), lastPrice' = event.bid
          PROVE  LastTold'
      <3> DEFINE request == [type |-> type, price |-> event.bid]
      <3>1. request \in Request /\ request.price = event.bid
        BY <2>1 DEF Request
      <3>2. CASE toBroker' = Append(toBroker, request)
        <4> HIDE DEF request
        <4>1. toBroker' # << >> /\ toBroker'[Len(toBroker')] = request
          BY <1>types, <3>1, <3>2, LastOfAppend
        <4> QED  BY <2>2, <3>1, <4>1 DEF LastTold
      <3>3. CASE spoiled' = spoiled + 1
        BY <1>types, <3>3 DEF LastTold
      <3> QED  BY <2>2, <3>2, <3>3 DEF Send
    <2>3. CASE UNCHANGED <<orderVars, toBroker, spoiled>>
      BY <1>2, <2>3, <1>types, NothingTold DEF HandlePrice, orderVars, brokerVars
    <2>4. \/ Place(event) \/ Move(event) \/ UNCHANGED <<orderVars, toBroker, spoiled>>
      BY <1>2 DEF HandlePrice, event
    <2> QED  BY <2>2, <2>3, <2>4 DEF Place, Move
  <1>3. CASE SessionFails
    <2>1. toBroker' = << >> /\ spoiled' = spoiled + Lost /\ UNCHANGED <<lastPrice, resting>>
      BY <1>3 DEF SessionFails, orderVars, brokerVars
    <2>2. Lost \in Nat /\ (Lost = 0 => toBroker = << >>)
      BY EmptySeq, <1>types DEF Lost, TypeInv, TypeOK
    <2>3. spoiled' = 0 => spoiled = 0 /\ toBroker = << >>
      BY <1>types, <2>1, <2>2
    <2> QED  BY <2>1, <2>3 DEF LastTold
  <1>4. ASSUME NEW bid \in Bids, PublishPrice(bid) PROVE LastTold'
    BY <1>4, <1>types, NothingTold DEF PublishPrice, orderVars, brokerVars
  <1>5. CASE BrokerAccepts
    <2> DEFINE request == Head(toBroker)
    <2>1. /\ toBroker # << >> /\ toBroker' = Tail(toBroker) /\ UNCHANGED <<lastPrice, spoiled>>
          /\ request \in Request
      BY <1>5, <1>types, HeadTailProperties DEF BrokerAccepts, orderVars
    <2>2. spoiled' = 0 => /\ toBroker' # << >> => toBroker'[Len(toBroker')].price = lastPrice'
                          /\ toBroker' = << >> => request.price = lastPrice'
      BY <1>types, <2>1, LastOfTail DEF LastTold
    <2>3. resting' # << >> => resting'[1] = request.price
      <3>1. CASE request.type = "New"
        <4>1. News # {}
          BY <1>types, <2>1, <3>1, TailNews DEF IInv, OneToken, OneOrder
        <4>2. resting = << >> /\ resting' = Append(resting, request.price)
          BY <1>5, <3>1, <4>1 DEF BrokerAccepts, IInv, OneToken, OneOrder
        <4> QED  BY <4>2
      <3>2. CASE request.type = "Replace" /\ resting # << >>
        <4>1. resting' = [resting EXCEPT ![1] = request.price] /\ 1 \in DOMAIN resting
          BY <1>5, <1>types, <3>2, EmptySeq DEF BrokerAccepts
        <4> QED  BY <4>1
      <3>3. CASE request.type = "Replace" /\ resting = << >>
        BY <1>5, <3>3 DEF BrokerAccepts
      <3> QED  BY <2>1, <3>1, <3>2, <3>3 DEF Request
    <2> QED  BY <2>2, <2>3 DEF LastTold
  <1>6. CASE BrokerRefuses
    BY <1>6, <1>types DEF BrokerRefuses, LastTold
  <1>7. CASE BrokerCancels
    BY <1>7, <1>types, <1>rests, NothingTold DEF BrokerCancels, orderVars
  <1>8. ASSUME NEW type \in FillTypes, BrokerFills(type) PROVE LastTold'
    <2>1. spoiled' = 0 => spoiled = 0
      BY <1>8, <1>types DEF BrokerFills, Tells
    <2> QED  BY <1>8, <2>1, <1>types, <1>rests, NothingTold DEF BrokerFills, orderVars
  <1>9. CASE UNCHANGED vars
    BY <1>9, <1>types, NothingTold DEF vars, orderVars, brokerVars
  <1> QED  BY <1>1, <1>2, <1>3, <1>4, <1>5, <1>6, <1>7, <1>8, <1>9 DEF Next, Ended

\* Unless something was refused, cancelled or lost, the order rests where the office
\* believes it does (m_lastPrice), once the broker has carried out what it was sent.
THEOREM RestsAtLastPriceHolds == Spec => []RestsAtLastPrice
  <1>1. Init => IInv /\ LastTold
    BY InitTypes, InitToken, EmptySeq DEF IInv, Init, LastTold
  <1>2. IInv /\ LastTold /\ [Next]_vars => (IInv /\ LastTold)'
    BY StepTypes, StepToken, StepTold DEF IInv
  <1>3. LastTold => RestsAtLastPrice
    BY DEF LastTold, RestsAtLastPrice
  <1> QED  BY <1>1, <1>2, <1>3, PTL DEF Spec
-----------------------------------------------------------------------------
(* The office asks to move its order once at a time, whatever is filled,    *)
(* refused, cancelled or lost meanwhile.                                    *)

\* Where the requests of a type are, and the reports of some types.
Asked(type) == {k \in DOMAIN toBroker : toBroker[k].type = type}
Told(types) == {k \in DOMAIN toOffice : toOffice[k] \in types}

Zeros == Told({"0"})
Fives == Told({"5"})

\* What makes m_canUpdate the token of the one request under way.  An old move and
\* the refusal of it may still be on their way when the next order is sent, but
\* ahead of that order and of its report.
InOrder ==
    /\ OneMove
    /\ AtMostOne(Zeros) /\ (News = {} \/ Zeros = {})
    /\ canUpdate => News = {} /\ Zeros = {} /\ Replaces = {} /\ Answers = {}
    /\ Fives # {} => News = {} /\ Zeros = {}
    /\ Zeros # {} => Replaces = {}
    /\ \A r \in Replaces, n \in News : r < n
    /\ \A a \in Answers, z \in Zeros : a < z
    /\ \A k \in Zeros \cup Fives, f \in Fills : k < f
    /\ ~orderPlaced => Zeros = {} /\ Fives = {} /\ ~canUpdate

-----------------------------------------------------------------------------
(* The queues.                                                             *)

\* The names of the properties for the same sets.
LEMMA Names ==
    /\ News = Asked("New") /\ Replaces = Asked("Replace")
    /\ Answers = Told({"5", "CancelReject"}) /\ Fills = Told({"2"})
    /\ News' = Asked("New")' /\ Replaces' = Asked("Replace")'
    /\ Answers' = Told({"5", "CancelReject"})' /\ Fills' = Told({"2"})'
  BY DEF News, Replaces, Answers, Fills, Asked, Told

LEMMA SameQueues ==
    /\ toBroker' = toBroker => News' = News /\ Replaces' = Replaces
    /\ toOffice' = toOffice => /\ Answers' = Answers /\ Zeros' = Zeros
                               /\ Fives' = Fives /\ Fills' = Fills
  BY DEF News, Replaces, Answers, Zeros, Fives, Fills, Told

LEMMA TailSeq ==
    ASSUME NEW S, NEW s \in Seq(S), s # << >>
    PROVE  /\ Head(s) = s[1] /\ 1 \in DOMAIN s /\ DOMAIN s \subseteq Nat \ {0}
           /\ DOMAIN Tail(s) \subseteq Nat \ {0}
           /\ \A k \in Nat \ {0} : k \in DOMAIN Tail(s) <=> k + 1 \in DOMAIN s
           /\ \A k \in DOMAIN Tail(s) : Tail(s)[k] = s[k + 1]
  <1>1. /\ Len(s) \in Nat \ {0} /\ Head(s) = s[1] /\ DOMAIN s = 1 .. Len(s)
        /\ Tail(s) \in Seq(S) /\ Len(Tail(s)) = Len(s) - 1
    BY EmptySeq, HeadTailProperties
  <1>2. /\ DOMAIN Tail(s) = 1 .. (Len(s) - 1)
        /\ \A k \in DOMAIN Tail(s) : Tail(s)[k] = s[k + 1]
    BY <1>1
  <1> QED  BY <1>1, <1>2

LEMMA AppendSeq ==
    ASSUME NEW S, NEW s \in Seq(S), NEW e \in S
    PROVE  /\ DOMAIN Append(s, e) = DOMAIN s \cup {Len(s) + 1}
           /\ \A k \in DOMAIN s : Append(s, e)[k] = s[k]
           /\ Append(s, e)[Len(s) + 1] = e
           /\ \A k \in DOMAIN s : k \in Nat /\ k < Len(s) + 1
           /\ Len(s) + 1 \in Nat /\ Len(s) + 1 \notin DOMAIN s
  <1>1. /\ Len(s) \in Nat /\ DOMAIN s = 1 .. Len(s)
        /\ DOMAIN Append(s, e) = 1 .. (Len(s) + 1)
        /\ \A k \in 1 .. Len(s) : Append(s, e)[k] = s[k]
        /\ Append(s, e)[Len(s) + 1] = e
    BY AppendProperties
  <1> QED  BY <1>1

LEMMA RequestLeaves ==
    ASSUME TypeInv, toBroker # << >>, toBroker' = Tail(toBroker)
    PROVE  \A type : /\ Asked(type)' = {k \in Nat \ {0} : k + 1 \in Asked(type)}
                     /\ 1 \in Asked(type) <=> Head(toBroker).type = type
                     /\ Asked(type) \subseteq Nat \ {0}
  <1>1. toBroker \in Seq(Request)
    BY DEF TypeInv, TypeOK
  <1> QED  BY <1>1, TailSeq DEF Asked

LEMMA ReportLeaves ==
    ASSUME TypeInv, toOffice # << >>, toOffice' = Tail(toOffice)
    PROVE  \A types : /\ Told(types)' = {k \in Nat \ {0} : k + 1 \in Told(types)}
                      /\ 1 \in Told(types) <=> Head(toOffice) \in types
                      /\ Told(types) \subseteq Nat \ {0}
  <1>1. toOffice \in Seq(Reports)
    BY DEF TypeInv, TypeOK
  <1> QED  BY <1>1, TailSeq DEF Told

LEMMA RequestJoins ==
    ASSUME TypeInv, NEW r \in Request, toBroker' = Append(toBroker, r)
    PROVE  \A type : /\ r.type = type => Asked(type)' = Asked(type) \cup {Len(toBroker) + 1}
                     /\ r.type # type => Asked(type)' = Asked(type)
                     /\ \A k \in Asked(type) : k \in Nat /\ k < Len(toBroker) + 1
  <1>1. toBroker \in Seq(Request)
    BY DEF TypeInv, TypeOK
  <1> QED  BY <1>1, AppendSeq DEF Asked

LEMMA ReportJoins ==
    ASSUME TypeInv, NEW r \in Reports, toOffice' = Append(toOffice, r)
    PROVE  \A types : /\ r \in types => Told(types)' = Told(types) \cup {Len(toOffice) + 1}
                      /\ r \notin types => Told(types)' = Told(types)
                      /\ \A k \in Told(types) : k \in Nat /\ k < Len(toOffice) + 1
  <1>1. toOffice \in Seq(Reports)
    BY DEF TypeInv, TypeOK
  <1> QED  BY <1>1, AppendSeq DEF Told
-----------------------------------------------------------------------------
(* The invariant is kept.                                                  *)

LEMMA InitOrder == Init => InOrder
  BY DEF Init, InOrder, OneMove, AtMostOne, News, Replaces, Answers, Zeros, Fives, Fills, Told

\* Steps that leave the queues alone.
LEMMA NothingSent ==
    ASSUME InOrder, UNCHANGED <<toBroker, toOffice, orderPlaced, canUpdate>>
    PROVE  InOrder'
  BY SameQueues DEF InOrder, OneMove, AtMostOne

\* A report joins that is neither an answer, nor of a new order, nor of a fill.
LEMMA OtherReport ==
    ASSUME TypeInv, InOrder, NEW r \in Reports \ {"0", "5", "2", "CancelReject"},
           toOffice' = Append(toOffice, r)
    PROVE  Answers' = Answers /\ Zeros' = Zeros /\ Fives' = Fives /\ Fills' = Fills
  BY ReportJoins, Names DEF Zeros, Fives

\* A new order leaves for the broker's book: it was the last request, and no report
\* of an order is on its way.
LEMMA NewLeaves ==
    ASSUME IInv, InOrder, toBroker # << >>, toBroker' = Tail(toBroker),
           Head(toBroker).type = "New"
    PROVE  /\ News' = {} /\ Replaces' = {}
           /\ Zeros = {} /\ Fives = {} /\ Fills = {} /\ ~canUpdate /\ orderPlaced
  <1>1. TypeInv /\ AtMostOne(News)
    BY DEF IInv, OneToken, OneOrder
  <1>2. 1 \in News /\ News \subseteq Nat \ {0} /\ Replaces \subseteq Nat \ {0}
        /\ News' = {k \in Nat \ {0} : k + 1 \in News}
        /\ Replaces' = {k \in Nat \ {0} : k + 1 \in Replaces}
    BY <1>1, RequestLeaves, Names
  <1>3. News' = {}
    BY <1>1, <1>2 DEF AtMostOne
  <1>4. Replaces' = {}
    BY <1>2 DEF InOrder
  <1> QED  BY <1>2, <1>3, <1>4 DEF InOrder, IInv, OneToken

\* A move leaves: it was the only one, and nothing was answered since.
LEMMA MoveLeaves ==
    ASSUME IInv, InOrder, toBroker # << >>, toBroker' = Tail(toBroker),
           Head(toBroker).type = "Replace"
    PROVE  /\ Replaces' = {} /\ Answers = {} /\ Zeros = {} /\ ~canUpdate
           /\ News = {} => News' = {}
  <1>1. TypeInv
    BY DEF IInv
  <1>2. 1 \in Replaces /\ Replaces \subseteq Nat \ {0} /\ News \subseteq Nat \ {0}
        /\ Replaces' = {k \in Nat \ {0} : k + 1 \in Replaces}
        /\ News' = {k \in Nat \ {0} : k + 1 \in News}
    BY <1>1, RequestLeaves, Names
  <1>3. Replaces' = {}
    BY <1>2 DEF InOrder, OneMove, AtMostOne
  <1> QED  BY <1>2, <1>3 DEF InOrder, OneMove

\* The order rests, so nothing else of it is under way.
LEMMA WhileResting ==
    ASSUME IInv, resting # << >>
    PROVE  News = {} /\ Fills = {} /\ orderPlaced
  <1>1. resting \in Seq(Bids) /\ Len(resting) \in Nat
    BY DEF IInv, TypeInv, TypeOK
  <1> QED  BY <1>1 DEF IInv, OneToken, OneOrder

LEMMA PollReportKeeps ==
    ASSUME IInv, InOrder, PollReport
    PROVE  InOrder'
  <1> DEFINE report == Head(toOffice)
  <1>1. TypeInv /\ toOffice # << >> /\ toOffice' = Tail(toOffice) /\ UNCHANGED toBroker
        /\ AfterReport(report)
    BY DEF PollReport, IInv
  <1>2. UNCHANGED <<News, Replaces>>
    BY <1>1, SameQueues
  <1>3. /\ Answers' = {k \in Nat \ {0} : k + 1 \in Answers} /\ Answers \subseteq Nat \ {0}
        /\ Zeros' = {k \in Nat \ {0} : k + 1 \in Zeros} /\ Zeros \subseteq Nat \ {0}
        /\ Fives' = {k \in Nat \ {0} : k + 1 \in Fives} /\ Fives \subseteq Nat \ {0}
        /\ Fills' = {k \in Nat \ {0} : k + 1 \in Fills} /\ Fills \subseteq Nat \ {0}
        /\ 1 \in Answers <=> report \in {"5", "CancelReject"}
        /\ (1 \in Zeros <=> report = "0") /\ (1 \in Fives <=> report = "5")
        /\ 1 \in Fills <=> report = "2"
    BY <1>1, ReportLeaves, Names DEF Zeros, Fives
  <1>4. /\ AtMostOne(Answers)' /\ AtMostOne(Zeros)' /\ AtMostOne(Replaces)'
        /\ Answers = {} => Answers' = {}
        /\ Zeros = {} => Zeros' = {}
        /\ Fives = {} => Fives' = {}
        /\ \A a \in Answers', z \in Zeros' : a < z
        /\ \A k \in (Zeros \cup Fives)', f \in Fills' : k < f
    BY <1>2, <1>3 DEF InOrder, OneMove, AtMostOne
  <1>5. CASE report \in {"0", "5"}
    <2>1. News = {} /\ Replaces = {} /\ Zeros' = {} /\ Answers' = {}
      <3>1. CASE report = "0"
        <4>1. 1 \in Zeros
          BY <1>3, <3>1
        <4>2. Zeros' = {} /\ News = {} /\ Replaces = {}
          BY <1>3, <4>1 DEF InOrder, AtMostOne
        <4>3. Answers = {}
          BY <1>3, <4>1 DEF InOrder
        <4> QED  BY <1>4, <4>2, <4>3
      <3>2. CASE report = "5"
        <4>1. 1 \in Fives /\ 1 \in Answers
          BY <1>3, <3>2
        <4>2. Answers' = {} /\ Replaces = {}
          BY <1>3, <4>1 DEF InOrder, OneMove, AtMostOne
        <4>3. News = {} /\ Zeros = {}
          BY <4>1 DEF InOrder
        <4> QED  BY <1>4, <4>2, <4>3
      <3> QED  BY <1>5, <3>1, <3>2
    <2>2. orderPlaced' /\ orderPlaced
      <3>1. orderPlaced
        BY <1>3, <1>5 DEF InOrder
      <3> QED  BY <1>1, <1>5, <3>1 DEF AfterReport
    <2> QED  BY <1>2, <1>4, <2>1, <2>2 DEF InOrder, OneMove
  <1>6. CASE report = "2"
    <2>1. 1 \in Fills /\ News = {}
      BY <1>3, <1>6 DEF IInv, OneToken
    <2>2. Zeros = {} /\ Fives = {}
      BY <1>3, <2>1 DEF InOrder
    <2>3. ~canUpdate' /\ ~orderPlaced'
      BY <1>1, <1>6 DEF AfterReport
    <2> QED  BY <1>2, <1>4, <2>1, <2>2, <2>3 DEF InOrder, OneMove
  <1>7. CASE report \notin {"0", "5", "2"}
    <2>1. orderPlaced' = orderPlaced /\ canUpdate' = canUpdate
      BY <1>1, <1>7 DEF AfterReport, TypeInv, TypeOK
    <2> QED  BY <1>2, <1>4, <2>1 DEF InOrder, OneMove
  <1> QED  BY <1>5, <1>6, <1>7

LEMMA HandlePriceKeeps ==
    ASSUME IInv, InOrder, HandlePrice
    PROVE  InOrder'
  <1> DEFINE event == priceRing.log[handled + 1]
  <1>1. event.bid \in Bids
    <2>1. /\ priceRing.log \in Seq(PriceEvent) /\ handled + 1 \in 1 .. Len(priceRing.log)
      BY DEF HandlePrice, IInv, TypeInv, TypeOK, Rings
    <2>2. event \in PriceEvent
      BY <2>1
    <2> QED  BY <2>2 DEF PriceEvent
  <1>2. toOffice' = toOffice /\ TypeInv
    BY DEF HandlePrice, IInv
  <1>3. \/ Places(event) /\ Place(event)
        \/ Moves(event) /\ Move(event)
        \/ UNCHANGED <<orderVars, toBroker, spoiled>>
    BY DEF HandlePrice
  <1> HIDE DEF event
  <1>4. /\ Answers' = Answers /\ Zeros' = Zeros /\ Fives' = Fives /\ Fills' = Fills
    BY <1>2, SameQueues
  <1>5. CASE Places(event) /\ Place(event)
    <2> DEFINE request == [type |-> "New", price |-> event.bid]
    <2>1. ~orderPlaced /\ orderPlaced' /\ canUpdate' = canUpdate
          /\ (toBroker' = Append(toBroker, request) \/ toBroker' = toBroker)
      BY <1>5 DEF Places, Place, Send
    <2>2. News = {} /\ Zeros = {} /\ Fives = {} /\ ~canUpdate
      BY <2>1 DEF InOrder, IInv, OneToken
    <2>3. request \in Request /\ request.type = "New"
      BY <1>1 DEF Request
    <2> HIDE DEF request
    <2>4. Replaces' = Replaces /\ \A r \in Replaces', n \in News' : r < n
      <3>1. CASE toBroker' = toBroker
        BY <3>1, <2>2, SameQueues
      <3>2. CASE toBroker' = Append(toBroker, request)
        <4>1. News' = {Len(toBroker) + 1} /\ Replaces' = Replaces
              /\ \A k \in Replaces : k < Len(toBroker) + 1
          BY <1>2, <2>2, <2>3, <3>2, RequestJoins, Names
        <4> QED  BY <4>1
      <3> QED  BY <2>1, <3>1, <3>2
    <2> QED  BY <1>4, <2>1, <2>2, <2>4 DEF InOrder, OneMove, AtMostOne
  <1>6. CASE Moves(event) /\ Move(event)
    <2> DEFINE request == [type |-> "Replace", price |-> event.bid]
    <2>1. canUpdate /\ ~canUpdate' /\ orderPlaced' = orderPlaced
          /\ (toBroker' = Append(toBroker, request) \/ toBroker' = toBroker)
      BY <1>6 DEF Moves, Move, Send
    <2>2. News = {} /\ Zeros = {} /\ Replaces = {} /\ Answers = {} /\ orderPlaced
      BY <2>1 DEF InOrder
    <2>3. request \in Request /\ request.type = "Replace"
      BY <1>1 DEF Request
    <2> HIDE DEF request
    <2>4. News' = {} /\ AtMostOne(Replaces)'
      <3>1. CASE toBroker' = toBroker
        BY <3>1, <2>2, SameQueues DEF AtMostOne
      <3>2. CASE toBroker' = Append(toBroker, request)
        <4>1. News' = {} /\ Replaces' = {Len(toBroker) + 1}
          BY <1>2, <2>2, <2>3, <3>2, RequestJoins, Names
        <4> QED  BY <4>1 DEF AtMostOne
      <3> QED  BY <2>1, <3>1, <3>2
    <2> QED  BY <1>4, <2>1, <2>2, <2>4 DEF InOrder, OneMove, AtMostOne
  <1>7. CASE UNCHANGED <<orderVars, toBroker, spoiled>>
    BY <1>2, <1>7, NothingSent DEF orderVars
  <1> QED  BY <1>3, <1>5, <1>6, <1>7

LEMMA SessionFailsKeeps ==
    ASSUME InOrder, SessionFails
    PROVE  InOrder'
  <1>1. toBroker' = << >> /\ toOffice' = << >> /\ UNCHANGED <<orderPlaced, canUpdate>>
    BY DEF SessionFails, orderVars
  <1>2. /\ News' = {} /\ Replaces' = {} /\ Answers' = {} /\ Zeros' = {} /\ Fives' = {}
        /\ Fills' = {}
    BY <1>1 DEF News, Replaces, Answers, Zeros, Fives, Fills, Told
  <1> QED  BY <1>1, <1>2 DEF InOrder, OneMove, AtMostOne

\* The answer to a move joins, which has left: a refusal, or the report of the order
\* that rests where it was moved.
LEMMA Answered ==
    ASSUME IInv, InOrder, toBroker # << >>, toBroker' = Tail(toBroker),
           Head(toBroker).type = "Replace", UNCHANGED <<orderPlaced, canUpdate>>,
           \/ toOffice' = Append(toOffice, "CancelReject")
           \/ toOffice' = Append(toOffice, "5") /\ resting # << >>
    PROVE  InOrder'
  <1>1. Replaces' = {} /\ Answers = {} /\ Zeros = {} /\ ~canUpdate /\ (News = {} => News' = {})
    BY MoveLeaves
  <1>2. TypeInv /\ {"5", "CancelReject"} \subseteq Reports
    BY DEF IInv, Reports
  <1>3. CASE toOffice' = Append(toOffice, "CancelReject")
    <2>1. /\ Answers' = {Len(toOffice) + 1} /\ Zeros' = {} /\ Fives' = Fives /\ Fills' = Fills
      BY <1>1, <1>2, <1>3, ReportJoins, Names DEF Zeros, Fives
    <2> QED  BY <1>1, <2>1 DEF InOrder, OneMove, AtMostOne
  <1>4. CASE toOffice' = Append(toOffice, "5") /\ resting # << >>
    <2>1. Answers' = {Len(toOffice) + 1} /\ Zeros' = {} /\ Fills' = Fills
      BY <1>1, <1>2, <1>4, ReportJoins, Names DEF Zeros
    <2>2. News = {} /\ Fills = {} /\ orderPlaced
      BY <1>4, WhileResting
    <2> QED  BY <1>1, <2>1, <2>2 DEF InOrder, OneMove, AtMostOne
  <1> QED  BY <1>3, <1>4

LEMMA BrokerAcceptsKeeps ==
    ASSUME IInv, InOrder, BrokerAccepts
    PROVE  InOrder'
  <1> DEFINE request == Head(toBroker)
  <1>1. /\ TypeInv /\ toBroker # << >> /\ toBroker' = Tail(toBroker)
        /\ UNCHANGED <<orderPlaced, canUpdate>> /\ request \in Request
    BY HeadTailProperties DEF BrokerAccepts, orderVars, IInv, TypeInv, TypeOK
  <1>2. CASE request.type = "New"
    <2>1. /\ News' = {} /\ Replaces' = {}
          /\ Zeros = {} /\ Fives = {} /\ Fills = {} /\ ~canUpdate /\ orderPlaced
      BY <1>1, <1>2, NewLeaves
    <2>2. toOffice' = Append(toOffice, "0") /\ "0" \in Reports
      BY <1>2 DEF BrokerAccepts, Reply, Reports
    <2>3. /\ Zeros' = {Len(toOffice) + 1} /\ Answers' = Answers /\ Fives' = {} /\ Fills' = {}
          /\ \A a \in Answers : a < Len(toOffice) + 1
      BY <1>1, <2>1, <2>2, ReportJoins, Names DEF Zeros, Fives
    <2> QED  BY <1>1, <2>1, <2>3 DEF InOrder, OneMove, AtMostOne
  <1>3. CASE request.type = "Replace"
    <2>1. \/ toOffice' = Append(toOffice, "CancelReject")
          \/ toOffice' = Append(toOffice, "5") /\ resting # << >>
      BY <1>3 DEF BrokerAccepts, Reply
    <2> QED  BY <1>1, <1>3, <2>1, Answered
  <1> QED  BY <1>1, <1>2, <1>3 DEF Request

LEMMA BrokerRefusesKeeps ==
    ASSUME IInv, InOrder, BrokerRefuses
    PROVE  InOrder'
  <1> DEFINE request == Head(toBroker)
  <1>1. /\ TypeInv /\ toBroker # << >> /\ toBroker' = Tail(toBroker)
        /\ UNCHANGED <<orderPlaced, canUpdate>> /\ request \in Request
    BY HeadTailProperties DEF BrokerRefuses, orderVars, IInv, TypeInv, TypeOK
  <1>2. CASE request.type = "New"
    <2>1. /\ News' = {} /\ Replaces' = {}
          /\ Zeros = {} /\ Fives = {} /\ Fills = {} /\ ~canUpdate /\ orderPlaced
      BY <1>1, <1>2, NewLeaves
    <2>2. toOffice' = Append(toOffice, "8") /\ "8" \in Reports
      BY <1>2 DEF BrokerRefuses, Reply, Reports
    <2>3. Answers' = Answers /\ Zeros' = Zeros /\ Fives' = Fives /\ Fills' = Fills
      BY <1>1, <2>2, OtherReport
    <2> QED  BY <1>1, <2>1, <2>3 DEF InOrder, OneMove, AtMostOne
  <1>3. CASE request.type = "Replace"
    <2>1. toOffice' = Append(toOffice, "CancelReject")
      BY <1>3 DEF BrokerRefuses, Reply
    <2> QED  BY <1>1, <1>3, <2>1, Answered
  <1> QED  BY <1>1, <1>2, <1>3 DEF Request

LEMMA BrokerFillsKeeps ==
    ASSUME IInv, InOrder, NEW type \in FillTypes, BrokerFills(type)
    PROVE  InOrder'
  <1>1. TypeInv /\ UNCHANGED <<toBroker, orderPlaced, canUpdate>> /\ type \in Reports
    BY LimitAssumption DEF BrokerFills, orderVars, IInv, Reports
  <1>2. CASE toOffice' = toOffice
    BY <1>1, <1>2, NothingSent
  <1>3. CASE toOffice' = Append(toOffice, type)
    <2>1. type \in {"2", "F"}
      BY LimitAssumption
    <2>2. /\ News' = News /\ Replaces' = Replaces
          /\ Answers' = Answers /\ Zeros' = Zeros /\ Fives' = Fives
          /\ Fills' \subseteq Fills \cup {Len(toOffice) + 1}
          /\ \A k \in Zeros \cup Fives : k < Len(toOffice) + 1
      BY <1>1, <1>3, <2>1, ReportJoins, SameQueues, Names DEF Zeros, Fives
    <2> QED  BY <1>1, <2>2 DEF InOrder, OneMove, AtMostOne
  <1> QED  BY <1>2, <1>3 DEF BrokerFills, Tells, Reply

LEMMA StepOrder == IInv /\ InOrder /\ [Next]_vars => InOrder'
  <1> SUFFICES ASSUME IInv, InOrder, [Next]_vars PROVE InOrder'
    OBVIOUS
  <1>1. CASE Initiate \/ PollNoReport \/ EndOfBatch
    BY <1>1, NothingSent DEF Initiate, PollNoReport, EndOfBatch, orderVars
  <1>2. ASSUME NEW bid \in Bids, PublishPrice(bid) PROVE InOrder'
    BY <1>2, NothingSent DEF PublishPrice, orderVars
  <1>3. CASE BrokerCancels
    <2>1. TypeInv /\ "4" \in Reports /\ UNCHANGED <<toBroker, orderPlaced, canUpdate>>
      BY <1>3 DEF BrokerCancels, orderVars, IInv, Reports
    <2>2. CASE toOffice' = toOffice
      BY <2>1, <2>2, NothingSent
    <2>3. CASE toOffice' = Append(toOffice, "4")
      <3>1. Answers' = Answers /\ Zeros' = Zeros /\ Fives' = Fives /\ Fills' = Fills
        BY <2>1, <2>3, OtherReport
      <3> QED  BY <2>1, <3>1, SameQueues DEF InOrder, OneMove, AtMostOne
    <2> QED  BY <1>3, <2>2, <2>3 DEF BrokerCancels
  <1>4. CASE UNCHANGED vars
    BY <1>4, NothingSent DEF vars, orderVars
  <1> QED
    BY <1>1, <1>2, <1>3, <1>4, PollReportKeeps, HandlePriceKeeps, SessionFailsKeeps,
       BrokerAcceptsKeeps, BrokerRefusesKeeps, BrokerFillsKeeps DEF Next, Ended

\* The order is not asked to move again before the answer to the last move was read
\* (m_canUpdate), even if the order it moves is filled and replaced by another.
THEOREM OneMoveHolds == Spec => []OneMove
  <1>1. Init => IInv /\ InOrder
    BY InitTypes, InitToken, InitOrder DEF IInv
  <1>2. IInv /\ InOrder /\ [Next]_vars => (IInv /\ InOrder)'
    BY StepTypes, StepToken, StepOrder DEF IInv
  <1>3. InOrder => OneMove
    BY DEF InOrder
  <1> QED  BY <1>1, <1>2, <1>3, PTL DEF Spec
=============================================================================
