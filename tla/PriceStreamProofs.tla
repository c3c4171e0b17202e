------------------------- MODULE PriceStreamProofs -------------------------
(* For every ring of at least two slots, whatever the brokers send and     *)
(* whatever fails: the thread that publishes the prices and streams them   *)
(* never has to wait for itself, what it streams is what it published, in  *)
(* order, and that is what the brokers told; each round releases what it   *)
(* took and closes nothing else.                                           *)
EXTENDS PriceStream, DisruptorProofs, FiniteSetTheorems, WellFoundedInduction

\* The price ring is a ring, of whatever events.
RingShape == \E S : priceRing \in Rings(S, Readers)

\* At the top of the loop nothing is unread, and each office adds at most one.
UnreadBound ==
    /\ phase = "test" => Unread(priceRing, STREAM) = 0
    /\ phase = "work" => Unread(priceRing, STREAM) <= at - 1

IInv ==
    /\ RingShape
    /\ at \in 1 .. 3
    /\ priceRing.gates \subseteq Readers
    /\ UnreadBound

\* A ring of some events is a ring of more events.
LEMMA RingsGrow ==
    ASSUME NEW S, NEW T, NEW C, NEW ring \in Rings(S, C)
    PROVE  ring \in Rings(S \cup T, C)
  <1>1. ring.log \in Seq(S \cup T)
    BY DEF Rings
  <1> QED  BY <1>1 DEF Rings

\* The numbers a ring is measured by.
LEMMA RingFacts ==
    ASSUME RingShape
    PROVE  /\ Len(priceRing.log) \in Nat
           /\ priceRing.seq[STREAM] \in Nat
           /\ Unread(priceRing, STREAM) = Len(priceRing.log) - priceRing.seq[STREAM]
  BY DEF RingShape, Rings, Readers, Unread

LEMMA InitIInv == Init => IInv
  <1> SUFFICES ASSUME Init PROVE IInv
    OBVIOUS
  <1>1. priceRing = [log |-> << >>, seq |-> [c \in Readers |-> 0], gates |-> {}]
    BY DEF Init, NewRing
  <1>2. priceRing \in Rings({}, Readers)
    BY <1>1 DEF Rings
  <1> QED  BY <1>1, <1>2 DEF Init, IInv, RingShape, UnreadBound

\* Actions that leave the ring alone and do not move the thread into the loop.
LEMMA Apart ==
    ASSUME IInv, UNCHANGED priceRing, at' \in 1 .. 3,
           phase' \notin {"test", "work"} \/ UNCHANGED threadVars
    PROVE  IInv'
  BY DEF IInv, RingShape, UnreadBound, threadVars, Rings, Unread, Readers

LEMMA StepIInv == IInv /\ [Next]_vars => IInv'
  <1> SUFFICES ASSUME IInv, [Next]_vars PROVE IInv'
    OBVIOUS
  <1> USE StreamAssumption
  <1>at. at \in 1 .. 3
    BY DEF IInv
  <1>1. CASE MainStep
    BY <1>1, <1>at, Apart
       DEF MainStep, StartRound, Watch, Join, Rested, threadVars
  <1>2. CASE ThreadStep
    <2>1. ASSUME NEW o \in Offices, InitiateMarket(o) PROVE IInv'
      BY <2>1, <1>at, Apart DEF InitiateMarket, Advance, Throw
    <2>10. ASSUME NEW o \in Offices, LookupFails(o) PROVE IInv'
      BY <2>10, Apart DEF LookupFails, Throw
    <2>11. ASSUME NEW o \in Offices, NEW isLeaked \in BOOLEAN, AddressFails(o, isLeaked)
           PROVE  IInv'
      BY <2>11, <1>at, Apart DEF AddressFails, Throw, threadVars
    <2>2. CASE InitiateStream
      <3>1. PICK S : priceRing \in Rings(S, Readers)
        BY DEF IInv, RingShape
      <3>2. priceRing' = AddGate(priceRing, STREAM)
        BY <2>2 DEF InitiateStream
      <3>3. priceRing' \in Rings(S, Readers)
        BY <3>1, <3>2, AddGateFacts DEF Readers
      <3>4. Unread(priceRing, STREAM)' = 0
        BY <3>1, <3>2, RingFacts DEF Rings, AddGate, Unread, Readers, IInv
      <3>5. at' = 1 /\ phase' \in {"test", "terminate"}
        BY <2>2 DEF InitiateStream, ConnectNats, Advance, Throw, STREAM
      <3>6. priceRing'.gates \subseteq Readers
        BY <3>3 DEF Rings
      <3>. QED  BY <3>3, <3>4, <3>5, <3>6 DEF IInv, RingShape, UnreadBound
    <2>3. CASE TestRunning
      <3>1. UNCHANGED priceRing /\ at' = 1 /\ phase = "test"
            /\ phase' \in {"work", "terminate"}
        BY <2>3 DEF TestRunning
      <3> QED  BY <3>1 DEF IInv, RingShape, UnreadBound, Rings, Unread, Readers
    <2>4. ASSUME NEW o \in Offices, PollNoPrice(o) PROVE IInv'
      <3>1. UNCHANGED priceRing /\ phase = "work" /\ at \in 1 .. 2
            /\ at' = at + 1 /\ phase' = "work"
        BY <2>4 DEF PollNoPrice, Advance
      <3> QED  BY <3>1, RingFacts DEF IInv, RingShape, UnreadBound, Rings, Unread, Readers
    <2>5. ASSUME NEW o \in Offices, NEW kind, NEW entries, PollPrice(o, kind, entries)
          PROVE  IInv'
      <3> DEFINE event == [broker |-> o, bid |-> book'[o].bid, ask |-> book'[o].ask,
                           sequence |-> sequence'[o]]
      <3>1. priceRing' = Publish(priceRing, event)
        BY <2>5 DEF PollPrice
      <3>2. phase = "work" /\ at \in 1 .. 2 /\ at' = at + 1 /\ phase' = "work"
        BY <2>5 DEF PollPrice, Advance
      <3>3. PICK S : priceRing \in Rings(S, Readers)
        BY DEF IInv, RingShape
      <3>4. priceRing \in Rings(S \cup {event}, Readers)
        BY <3>3, RingsGrow
      <3> HIDE DEF event
      <3>5. /\ priceRing' \in Rings(S \cup {event}, Readers)
            /\ priceRing'.log = Append(priceRing.log, event)
            /\ priceRing'.seq = priceRing.seq
        BY <3>1, <3>4, PublishFacts
      <3>6. Len(priceRing'.log) = Len(priceRing.log) + 1
        BY <3>4, <3>5 DEF Rings
      <3>7. Unread(priceRing, STREAM)' = Unread(priceRing, STREAM) + 1
        BY <3>5, <3>6, RingFacts DEF Unread, IInv
      <3>8. priceRing'.gates \subseteq Readers
        BY <3>5 DEF Rings
      <3> QED
        BY <3>2, <3>5, <3>7, <3>8, RingFacts DEF IInv, RingShape, UnreadBound
    <2>6. ASSUME NEW o \in Offices, PollThrows(o) PROVE IInv'
      BY <2>6, Apart DEF PollThrows, Throw
    <2>7. ASSUME NEW n \in 0 .. Len(priceRing.log), PollStream(n) PROVE IInv'
      <3>1. PICK S : priceRing \in Rings(S, Readers)
        BY DEF IInv, RingShape
      <3>2. n \in Nat /\ priceRing' = ConsumeTo(priceRing, STREAM, n)
        BY <2>7, <3>1 DEF PollStream, Rings
      <3>3. /\ priceRing' \in Rings(S, Readers)
            /\ priceRing'.log = priceRing.log
        BY <3>1, <3>2 DEF ConsumeTo, Rings, Readers
      <3>4. Unread(priceRing, STREAM)' = Len(priceRing.log) - n
        BY <3>1, <3>2, <3>3 DEF ConsumeTo, Rings, Unread, Readers
      <3>5. at' = 1 /\ (\/ phase' = "test" /\ n = Len(priceRing.log)
                        \/ phase' = "terminate")
        BY <2>7 DEF PollStream, PassOn, Advance, Throw, STREAM
      <3>6. priceRing'.gates \subseteq Readers
        BY <3>3 DEF Rings
      <3> QED
        BY <3>3, <3>4, <3>5, <3>6, RingFacts DEF IInv, RingShape, UnreadBound
    <2>8. ASSUME NEW o \in Offices, TerminateMarket(o) PROVE IInv'
      BY <2>8, <1>at, Apart DEF TerminateMarket, Advance
    <2>9. CASE TerminateStream
      <3>1. PICK S : priceRing \in Rings(S, Readers)
        BY DEF IInv, RingShape
      <3>2. \/ priceRing' = RemoveGate(priceRing, STREAM)
            \/ priceRing' = priceRing
        BY <2>9 DEF TerminateStream
      <3>3. priceRing' \in Rings(S, Readers)
        BY <3>1, <3>2, RemoveGateFacts
      <3>4. phase' \in {"done", "crashed"} /\ at' \in 1 .. 3
        BY <2>9, <1>at DEF TerminateStream, Advance, STREAM
      <3>5. priceRing'.gates \subseteq Readers
        BY <3>3 DEF Rings
      <3> QED  BY <3>3, <3>4, <3>5 DEF IInv, RingShape, UnreadBound
    <2> QED
      BY <1>2, <2>1, <2>2, <2>3, <2>4, <2>5, <2>6, <2>7, <2>8, <2>9, <2>10, <2>11
         DEF ThreadStep
  <1>3. CASE UNCHANGED vars
    BY <1>3, <1>at, Apart DEF vars, threadVars
  <1>4. CASE NatsReconnects
    BY <1>4, <1>at, Apart DEF NatsReconnects, threadVars
  <1> QED  BY <1>1, <1>2, <1>3, <1>4 DEF Next, Ended

\* mainThread never waits for room in the ring that only it drains
\* (FIXMarketOffice.cpp:113, 142; StreamOffice.h:23), for every ring of at least
\* two slots, every price and every failure.
THEOREM NeverWaitsHolds == Spec => []NeverWaits
  <1>1. IInv => NeverWaits
    <2> SUFFICES ASSUME IInv, phase = "work", at \in Offices
                 PROVE HasRoom(priceRing, PriceRingSize)
      BY DEF NeverWaits
    <2>1. Unread(priceRing, STREAM) <= 1
      BY StreamAssumption, RingFacts DEF IInv, UnreadBound
    <2> QED  BY <2>1, StreamAssumption, RingFacts DEF IInv, HasRoom, Readers
  <1> QED  BY <1>1, InitIInv, StepIInv, PTL DEF Spec
-----------------------------------------------------------------------------
(* What NATS is given.                                                     *)

Told(n) == streamed = SubSeq(priceRing.log, 1, n)

\* While no exception ended a round, NATS was given what the consumer has passed;
\* afterwards isRunning keeps the thread from publishing and from polling.
StreamInv ==
    /\ \E n \in 0 .. Len(priceRing.log) : Told(n)
    /\ mainPc \in {"start", "rest"} => phase \in {"none", "done"}
    /\ phase = "work" => isRunning
    /\ isRunning => phase \notin {"terminate", "done", "crashed"}
    /\ isRunning /\ phase \in {"none", "initiate"} => priceRing.log = << >>
    /\ isRunning /\ phase \in {"test", "work"} =>
          priceRing.seq[STREAM] \in 0 .. Len(priceRing.log) /\ Told(priceRing.seq[STREAM])

LEMMA SubSeqConcat ==
    ASSUME NEW S, NEW s \in Seq(S), NEW m \in 0 .. Len(s), NEW n \in m .. Len(s)
    PROVE  SubSeq(s, 1, m) \o SubSeq(s, m + 1, n) = SubSeq(s, 1, n)
  <1> DEFINE front == SubSeq(s, 1, m)
             back == SubSeq(s, m + 1, n)
             whole == SubSeq(s, 1, n)
  <1>1. /\ front \in Seq(S) /\ Len(front) = m /\ \A k \in 1 .. m : front[k] = s[k]
        /\ whole \in Seq(S) /\ Len(whole) = n /\ \A k \in 1 .. n : whole[k] = s[k]
    OBVIOUS
  <1>2. back \in Seq(S) /\ Len(back) = n - m /\ \A k \in 1 .. n - m : back[k] = s[m + k]
    OBVIOUS
  <1> HIDE DEF front, back, whole
  <1>3. front \o back \in Seq(S) /\ Len(front \o back) = n
    BY <1>1, <1>2
  <1>4. ASSUME NEW k \in 1 .. n PROVE (front \o back)[k] = whole[k]
    <2>1. CASE k <= m
      <3>1. k \in 1 .. m /\ k \in 1 .. Len(front)
        BY <1>1, <2>1
      <3>2. (front \o back)[k] = front[k]
        BY <1>1, <1>2, <3>1
      <3> QED  BY <1>1, <3>1, <3>2
    <2>2. CASE k > m
      <3>1. k - m \in 1 .. n - m /\ m + (k - m) = k /\ k \in 1 .. n
        BY <2>2
      <3>2. (front \o back)[k] = back[k - m]
        BY <1>1, <1>2, <2>2, <3>1
      <3>3. back[k - m] = s[m + (k - m)]
        BY <1>2, <3>1
      <3>4. back[k - m] = s[k]
        BY <3>1, <3>3
      <3>5. whole[k] = s[k]
        BY <1>1
      <3> QED  BY <3>2, <3>4, <3>5
    <2>3. k <= m \/ k > m
      OBVIOUS
    <2> QED  BY <2>1, <2>2, <2>3, Zenon
  <1> QED  BY <1>1, <1>3, <1>4 DEF front, back, whole

LEMMA SubSeqAppend ==
    ASSUME NEW S, NEW s \in Seq(S), NEW e \in S, NEW m \in 0 .. Len(s)
    PROVE  SubSeq(Append(s, e), 1, m) = SubSeq(s, 1, m)
  OBVIOUS

LEMMA InitStream == Init => StreamInv
  <1> SUFFICES ASSUME Init PROVE StreamInv
    OBVIOUS
  <1>1. priceRing.log = << >> /\ streamed = << >> /\ Len(priceRing.log) = 0
    BY DEF Init, NewRing
  <1>2. Told(0)
    BY <1>1 DEF Told
  <1> QED  BY <1>1, <1>2 DEF Init, StreamInv

\* Steps that neither publish nor poll.
LEMMA NothingStreamed ==
    ASSUME IInv, StreamInv, UNCHANGED streamed, priceRing'.log = priceRing.log,
           mainPc' \in {"start", "rest"} => phase' \in {"none", "done"},
           \/ isRunning' = FALSE /\ phase' = "terminate"
           \/ /\ UNCHANGED isRunning
              /\ \/ ~isRunning /\ phase' # "work"
                 \/ UNCHANGED <<phase, priceRing>>
                 \/ isRunning /\ {phase, phase'} \subseteq {"test", "work"} /\ UNCHANGED priceRing
                 \/ {phase, phase'} \subseteq {"none", "initiate"}
                 \/ /\ phase = "initiate" /\ phase' = "test"
                    /\ priceRing'.seq[STREAM] = Len(priceRing.log)
    PROVE  StreamInv'
  <1>1. PICK n \in 0 .. Len(priceRing.log) : Told(n)
    BY DEF StreamInv
  <1>2. Told(n)' /\ n \in 0 .. Len(priceRing'.log)
    BY <1>1 DEF Told
  <1>3. priceRing.log = << >> => n = 0
    BY <1>1
  <1>4. UNCHANGED priceRing => \A k : Told(k)' = Told(k)
    BY DEF Told
  <1>5. CASE phase = "initiate" /\ phase' = "test" /\ isRunning
             /\ priceRing'.seq[STREAM] = Len(priceRing.log)
    <2>1. Told(priceRing.seq[STREAM])' /\ priceRing'.seq[STREAM] \in 0 .. Len(priceRing'.log)
      BY <1>2, <1>3, <1>5, RingFacts DEF StreamInv, Told, IInv
    <2> QED  BY <1>2, <1>5, <2>1 DEF StreamInv
  <1>6. CASE isRunning' = FALSE /\ phase' = "terminate"
    BY <1>2, <1>6 DEF StreamInv
  <1>7. CASE UNCHANGED isRunning /\ ~isRunning /\ phase' # "work"
    BY <1>2, <1>7 DEF StreamInv
  <1>8. CASE UNCHANGED <<isRunning, phase, priceRing>>
    BY <1>2, <1>4, <1>8 DEF StreamInv
  <1>9. CASE {phase, phase'} \subseteq {"test", "work"} /\ UNCHANGED <<isRunning, priceRing>>
             /\ isRunning
    BY <1>2, <1>4, <1>9 DEF StreamInv
  <1>10. CASE {phase, phase'} \subseteq {"none", "initiate"} /\ UNCHANGED isRunning
    BY <1>2, <1>10 DEF StreamInv
  <1> QED  BY <1>5, <1>6, <1>7, <1>8, <1>9, <1>10
LEMMA StepStream == IInv /\ StreamInv /\ [Next]_vars => StreamInv'
  <1> SUFFICES ASSUME IInv, StreamInv, [Next]_vars PROVE StreamInv'
    OBVIOUS
  <1> USE StreamAssumption
  <1>main. mainPc \in {"start", "rest"} => phase \in {"none", "done"}
    BY DEF StreamInv
  <1>at. at \in 1 .. 3 /\ (phase = "terminate" => ~isRunning)
    BY DEF IInv, StreamInv
  <1>1. CASE MainStep
    <2>1. CASE StartRound
      <3>1. ~isRunning \/ phase = "none"
        BY <2>1, <1>main DEF StartRound, StreamInv
      <3> QED  BY <2>1, <3>1, NothingStreamed DEF StartRound
    <2>2. CASE Watch \/ Join \/ Rested
      BY <2>2, <1>main, NothingStreamed DEF Watch, Join, Rested, threadVars
    <2> QED  BY <1>1, <2>1, <2>2 DEF MainStep
  <1>2. CASE ThreadStep
    <2>1. ASSUME NEW o \in Offices, LookupFails(o) \/ PollThrows(o) PROVE StreamInv'
      BY <2>1, <1>main, NothingStreamed DEF LookupFails, PollThrows, Throw
    <2>2. ASSUME NEW o \in Offices, NEW isLeaked \in BOOLEAN, AddressFails(o, isLeaked)
          PROVE  StreamInv'
      BY <2>2, <1>main, NothingStreamed DEF AddressFails, Throw, threadVars
    <2>3. ASSUME NEW o \in Offices, InitiateMarket(o) PROVE StreamInv'
      <3>1. /\ phase = "initiate" /\ at = o /\ o < 3
            /\ UNCHANGED <<mainPc, priceRing, streamed>>
            /\ Throw \/ (Advance("test") /\ UNCHANGED isRunning)
        BY <2>3 DEF InitiateMarket
      <3> QED  BY <3>1, <1>main, NothingStreamed DEF Advance, Throw
    <2>4. ASSUME NEW o \in Offices, PollNoPrice(o) PROVE StreamInv'
      BY <2>4, <1>main, NothingStreamed DEF PollNoPrice, Advance, StreamInv
    <2>5. ASSUME NEW o \in Offices, TerminateMarket(o) PROVE StreamInv'
      BY <2>5, <1>main, <1>at, NothingStreamed DEF TerminateMarket, Advance
    <2>6. CASE InitiateStream
      <3>1. /\ priceRing'.log = priceRing.log
            /\ priceRing'.seq[STREAM] = Len(priceRing.log)
        BY <2>6 DEF InitiateStream, AddGate, IInv, RingShape, Rings, Readers
      <3> QED  BY <2>6, <3>1, <1>main, NothingStreamed
               DEF InitiateStream, ConnectNats, Advance, Throw, STREAM
    <2>7. CASE TestRunning
      BY <2>7, <1>main, NothingStreamed DEF TestRunning
    <2>8. CASE TerminateStream
      <3>1. priceRing'.log = priceRing.log
        BY <2>8 DEF TerminateStream, RemoveGate, IInv, RingShape, Rings
      <3> QED  BY <2>8, <3>1, <1>main, <1>at, NothingStreamed
               DEF TerminateStream, Advance, STREAM
    <2>9. ASSUME NEW o \in Offices, NEW kind, NEW entries, PollPrice(o, kind, entries)
          PROVE  StreamInv'
      <3> DEFINE event == [broker |-> o, bid |-> book'[o].bid, ask |-> book'[o].ask,
                           sequence |-> sequence'[o]]
      <3>1. /\ phase = "work" /\ phase' = "work"
            /\ UNCHANGED <<mainPc, isRunning, streamed>>
            /\ priceRing' = Publish(priceRing, event)
        BY <2>9 DEF PollPrice, Advance
      <3>2. PICK S : priceRing \in Rings(S, Readers)
        BY DEF IInv, RingShape
      <3>3. priceRing \in Rings(S \cup {event}, Readers) /\ event \in S \cup {event}
        BY <3>2, RingsGrow
      <3> HIDE DEF event
      <3>4. /\ priceRing'.log = Append(priceRing.log, event)
            /\ priceRing'.seq = priceRing.seq
            /\ priceRing.log \in Seq(S \cup {event})
        BY <3>1, <3>3, PublishFacts DEF Rings
      <3>5. \A n \in 0 .. Len(priceRing.log) : Told(n) => Told(n)'
        BY <3>1, <3>3, <3>4, SubSeqAppend DEF Told
      <3>6. Len(priceRing'.log) = Len(priceRing.log) + 1 /\ Len(priceRing.log) \in Nat
        BY <3>4
      <3>7. priceRing.seq[STREAM] \in 0 .. Len(priceRing.log)
        BY <3>1 DEF StreamInv
      <3> QED  BY <3>1, <3>4, <3>5, <3>6, <3>7 DEF StreamInv
    <2>10. ASSUME NEW n \in 0 .. Len(priceRing.log), PollStream(n) PROVE StreamInv'
      <3>1. /\ phase = "work" /\ isRunning /\ n >= priceRing.seq[STREAM]
            /\ streamed' = streamed \o SubSeq(priceRing.log, priceRing.seq[STREAM] + 1, n)
            /\ priceRing' = ConsumeTo(priceRing, STREAM, n)
            /\ UNCHANGED mainPc
            /\ \/ phase' = "test" /\ UNCHANGED isRunning
               \/ phase' = "terminate" /\ ~isRunning'
        <4>1. PollStream(n) /\ at = STREAM /\ phase = "work" /\ isRunning
          BY <2>10 DEF PollStream, StreamInv
        <4>2. /\ n >= priceRing.seq[STREAM] /\ PassOn(n) /\ UNCHANGED mainPc
              /\ priceRing' = ConsumeTo(priceRing, STREAM, n)
          BY <4>1 DEF PollStream
        <4>3. (Advance("test") /\ UNCHANGED isRunning) \/ Throw
          BY <4>2 DEF PassOn
        <4>4. \/ phase' = "test" /\ UNCHANGED isRunning
              \/ phase' = "terminate" /\ ~isRunning'
          <5>1. CASE Throw
            BY <5>1, Zenon DEF Throw
          <5>2. CASE Advance("test") /\ UNCHANGED isRunning
            <6>1. phase' = "test"
              BY <4>1, <5>2 DEF Advance, STREAM
            <6> QED  BY <5>2, <6>1, Zenon
          <5> QED  BY <4>3, <5>1, <5>2, Zenon
        <4>5. streamed' = streamed \o SubSeq(priceRing.log, priceRing.seq[STREAM] + 1, n)
          BY <4>2 DEF PassOn
        <4> QED  BY <4>1, <4>2, <4>4, <4>5
      <3>2. PICK S : priceRing \in Rings(S, Readers)
        BY DEF IInv, RingShape
      <3>3. /\ priceRing.log \in Seq(S) /\ priceRing'.log = priceRing.log
            /\ priceRing'.seq[STREAM] = n /\ priceRing.seq[STREAM] \in Nat
        BY <3>1, <3>2 DEF ConsumeTo, Rings, Readers
      <3>4. priceRing.seq[STREAM] \in 0 .. Len(priceRing.log)
            /\ n \in priceRing.seq[STREAM] .. Len(priceRing.log)
        BY <3>1, <3>3
      <3>5. Told(n)'
        <4>1. streamed = SubSeq(priceRing.log, 1, priceRing.seq[STREAM])
          BY <3>1 DEF StreamInv, Told
        <4>2. streamed' = SubSeq(priceRing.log, 1, n)
          BY <4>1, <3>1, <3>3, <3>4, SubSeqConcat
        <4> QED  BY <4>2, <3>3 DEF Told
      <3> QED  BY <3>1, <3>3, <3>4, <3>5 DEF StreamInv
    <2> QED
      BY <1>2, <2>1, <2>2, <2>3, <2>4, <2>5, <2>6, <2>7, <2>8, <2>9, <2>10 DEF ThreadStep
  <1>3. CASE NatsReconnects
    BY <1>3, <1>main, NothingStreamed DEF NatsReconnects, threadVars
  <1>4. CASE UNCHANGED vars
    BY <1>4, <1>main, NothingStreamed DEF vars, threadVars
  <1> QED  BY <1>1, <1>2, <1>3, <1>4 DEF Next, Ended

\* NATS is given every published price once and in order (StreamOffice::doWork), for any
\* number of prices and rounds.
THEOREM StreamedInOrderHolds == Spec => []StreamedInOrder
  <1>1. IInv /\ StreamInv => StreamedInOrder
    <2> SUFFICES ASSUME IInv, StreamInv PROVE StreamedInOrder
      OBVIOUS
    <2>1. PICK S : priceRing \in Rings(S, Readers)
      BY DEF IInv, RingShape
    <2>2. priceRing.log \in Seq(S)
      BY <2>1 DEF Rings
    <2>3. ASSUME NEW n \in 0 .. Len(priceRing.log), Told(n)
          PROVE  Len(streamed) = n /\ streamed = SubSeq(priceRing.log, 1, Len(streamed))
      BY <2>2, <2>3 DEF Told
    <2>4. streamed = SubSeq(priceRing.log, 1, Len(streamed))
      BY <2>3 DEF StreamInv
    <2>5. ASSUME phase = "test", isRunning PROVE Len(streamed) = Len(priceRing.log)
      <3>1. Told(Len(priceRing.log)) /\ Len(priceRing.log) \in Nat
        BY <2>5, RingFacts DEF IInv, UnreadBound, StreamInv
      <3> QED  BY <2>3, <3>1
    <2> QED  BY <2>4, <2>5 DEF StreamedInOrder
  <1> QED  BY <1>1, InitIInv, StepIInv, InitStream, StepStream, PTL DEF Spec
-----------------------------------------------------------------------------
(* However a round of main() fails: terminating it closes no descriptor of  *)
(* a connection that somebody else has, and it leaves nothing open.         *)

Nobody(owner) == \A n \in DOMAIN files : files[n] # owner
Connected(o) == socket[o].fd \in DOMAIN files /\ files[socket[o].fd] = o

FilesShape ==
    /\ files = [n \in DOMAIN files |-> files[n]]
    /\ DOMAIN files \subseteq Nat /\ IsFiniteSet(DOMAIN files)
    /\ \A n \in DOMAIN files : files[n] \in Owners

Shape ==
    /\ phase \in {"none", "initiate", "test", "work", "terminate", "done", "crashed"}
    /\ mainPc \in {"start", "rest"} => phase \in {"none", "done"}
    /\ at \in 1 .. 3
    /\ socket \in [Offices -> [fd : Int, ssl : BOOLEAN]]
    /\ session \in [Offices -> BOOLEAN]
    /\ FilesShape

\* What an office has open it remembers.
Remembered == \A n \in DOMAIN files, o \in Offices : files[n] = o => socket[o].fd = n

\* Offices open in their order, and are terminated in the same order: between
\* rounds nothing is open, and in a round only what has been initiated.
InTurn ==
    /\ phase \in {"none", "done"} => \A o \in 1 .. 3 : Nobody(o)
    /\ phase = "initiate" => \A o \in 1 .. 3 : o >= at => Nobody(o)
    /\ phase = "terminate" => \A o \in 1 .. 3 : o < at => Nobody(o)
    /\ nats = "live" => phase \notin {"none", "initiate", "done"}
    /\ nats # "live" => Nobody(STREAM)

\* While a later office has something open, an earlier one that was not
\* terminated yet is connected: what it remembers is not out of date.
Chain ==
    \A o \in Offices :
       /\ phase = "initiate" /\ o < at => Connected(o)
       /\ /\ phase = "terminate" => at <= o
          /\ nats = "live" \/ \E p \in Offices : p > o /\ ~Nobody(p)
          => Connected(o)

\* The offices that are terminated hold no session and no SSL object.
Freed ==
    \A o \in Offices :
       (phase = "terminate" /\ o < at) \/ phase = "done"
          => ~session[o] /\ ~socket[o].ssl

OwnerInv == Shape /\ Remembered /\ InTurn /\ Chain

-----------------------------------------------------------------------------
(* The lowest free number is free.                                         *)

LEMMA MinIsMember ==
    ASSUME NEW S \in SUBSET Nat, S # {}
    PROVE  Min(S) \in S
  <1>1. PICK x \in S : \A y \in S : ~(<<y, x>> \in OpToRel(<, Nat))
    BY NatLessThanWellFounded, WFMin
  <1>2. ASSUME NEW y \in S PROVE x <= y
    <2>1. y \in Nat /\ x \in Nat /\ <<y, x>> \in Nat \X Nat
      OBVIOUS
    <2>2. ~(y < x)
      BY <1>1, <2>1 DEF OpToRel
    <2> QED  BY <2>1, <2>2
  <1> QED  BY <1>2 DEF Min

LEMMA LowestFreeIsFree ==
    ASSUME DOMAIN files \subseteq Nat, IsFiniteSet(DOMAIN files)
    PROVE  LowestFree \in Nat /\ LowestFree \notin DOMAIN files
  <1> DEFINE D == DOMAIN files
             range == 0 .. Cardinality(D)
  <1>1. Cardinality(D) \in Nat
    BY FS_CardinalityType
  <1>2. IsFiniteSet(range) /\ Cardinality(range) = Cardinality(D) + 1
    BY <1>1, FS_Interval
  <1>3. range \ D # {}
    <2>1. SUFFICES ASSUME range \subseteq D PROVE FALSE
      OBVIOUS
    <2>2. Cardinality(range) <= Cardinality(D)
      BY <2>1, FS_Subset
    <2> QED  BY <1>1, <1>2, <2>2
  <1>4. range \ D \in SUBSET Nat
    BY <1>1
  <1>5. Min(range \ D) \in range \ D
    BY <1>3, <1>4, MinIsMember
  <1> QED  BY <1>4, <1>5 DEF LowestFree
-----------------------------------------------------------------------------
(* What opening and closing do to the descriptors.                         *)

LEMMA Opens ==
    ASSUME FilesShape, NEW owner \in Owners, files' = OpenedBy(owner)
    PROVE  /\ FilesShape'
           /\ LowestFree \in Nat /\ LowestFree \notin DOMAIN files
           /\ DOMAIN files' = DOMAIN files \cup {LowestFree}
           /\ files'[LowestFree] = owner
           /\ \A n \in DOMAIN files : files'[n] = files[n]
  <1>1. LowestFree \in Nat /\ LowestFree \notin DOMAIN files
    BY LowestFreeIsFree DEF FilesShape
  <1> DEFINE new == LowestFree
  <1>2. files' = [n \in DOMAIN files \cup {new} |-> IF n = new THEN owner ELSE files[n]]
    BY DEF OpenedBy
  <1>3. IsFiniteSet(DOMAIN files \cup {new})
    BY FS_AddElement DEF FilesShape
  <1> HIDE DEF new
  <1>4. /\ DOMAIN files' = DOMAIN files \cup {new}
        /\ files'[new] = owner
        /\ \A n \in DOMAIN files : files'[n] = files[n]
    BY <1>1, <1>2 DEF new
  <1>5. FilesShape'
    BY <1>1, <1>2, <1>3, <1>4 DEF FilesShape, new
  <1> QED  BY <1>1, <1>4, <1>5 DEF new

LEMMA Closes ==
    ASSUME FilesShape, NEW numbers, files' = Without(numbers)
    PROVE  /\ FilesShape'
           /\ DOMAIN files' = DOMAIN files \ numbers
           /\ \A n \in DOMAIN files' : files'[n] = files[n]
  <1>1. files' = [n \in DOMAIN files \ numbers |-> files[n]]
    BY DEF Without
  <1>2. IsFiniteSet(DOMAIN files \ numbers)
    BY FS_Difference DEF FilesShape
  <1>3. /\ DOMAIN files' = DOMAIN files \ numbers
        /\ \A n \in DOMAIN files' : files'[n] = files[n]
    BY <1>1
  <1>4. files' = [n \in DOMAIN files' |-> files'[n]]
    BY <1>1, <1>3
  <1> QED  BY <1>2, <1>3, <1>4 DEF FilesShape

-----------------------------------------------------------------------------
(* The invariant is kept.                                                  *)

LEMMA InitOwners == Init => OwnerInv /\ Freed
  <1> SUFFICES ASSUME Init PROVE OwnerInv /\ Freed
    OBVIOUS
  <1> USE StreamAssumption
  <1>1. /\ DOMAIN files = 0 .. 3 /\ files = [n \in 0 .. 3 |-> PROCESS]
        /\ \A n \in DOMAIN files : files[n] = PROCESS
    BY DEF Init
  <1>2. IsFiniteSet(DOMAIN files)
    <2>1. 0 \in Int /\ 3 \in Int
      OBVIOUS
    <2>2. IsFiniteSet(0 .. 3)
      BY <2>1, FS_Interval
    <2> QED  BY <1>1, <2>2
  <1>3. FilesShape
    BY <1>1, <1>2 DEF FilesShape, Owners
  <1>4. Shape
    BY <1>3 DEF Init, Shape
  <1>5. \A o \in 1 .. 3 : Nobody(o)
    BY <1>1 DEF Nobody, PROCESS
  <1>6. Remembered /\ InTurn /\ Chain
    BY <1>1, <1>5 DEF Init, Remembered, InTurn, Chain, STREAM, PROCESS
  <1> QED  BY <1>4, <1>6 DEF OwnerInv, Init, Freed

\* Steps that open and close nothing.
LEMMA NothingOpened ==
    ASSUME OwnerInv, UNCHANGED <<files, socket, session, nats>>,
           phase' \in {"none", "initiate", "test", "work", "terminate", "done", "crashed"},
           mainPc' \in {"start", "rest"} => phase' \in {"none", "done"}, at' \in 1 .. 3,
           \/ phase' = phase /\ at' = at
           \/ phase' = phase /\ phase \in {"test", "work"}
           \/ phase \in {"none", "done"} /\ phase' = "initiate" /\ at' = 1
           \/ phase \in {"initiate", "test", "work"} /\ phase' = "terminate" /\ at' = 1
           \/ phase \in {"test", "work"} /\ phase' \in {"test", "work"}
    PROVE  OwnerInv'
  <1> USE StreamAssumption
  <1>1. Shape'
    BY DEF OwnerInv, Shape, FilesShape
  <1>2. Remembered' /\ \A o \in 1 .. 3 : Nobody(o)' = Nobody(o)
    BY DEF OwnerInv, Remembered, Nobody
  <1>3. InTurn'
    BY <1>2 DEF OwnerInv, InTurn, Shape, STREAM, Nobody
  <1>4. \A o \in Offices : Connected(o)' = Connected(o)
    BY DEF Connected
  <1>5. Chain'
    BY <1>2, <1>4 DEF OwnerInv, Chain, InTurn, Shape
  <1> QED  BY <1>1, <1>2, <1>3, <1>5 DEF OwnerInv

\* An office that is initiated has nothing open, the later ones neither, and the
\* earlier ones are connected.
LEMMA Initiating ==
    ASSUME OwnerInv, phase = "initiate"
    PROVE  /\ \A p \in 1 .. 3 : p >= at => Nobody(p)
           /\ \A p \in Offices : p < at => Connected(p)
           /\ nats # "live" /\ Nobody(STREAM)
  BY DEF OwnerInv, InTurn, Chain

LEMMA AddressFailsKeeps ==
    ASSUME OwnerInv, NEW o \in Offices, NEW isLeaked \in BOOLEAN, AddressFails(o, isLeaked)
    PROVE  OwnerInv'
  <1> USE StreamAssumption
  <1>1. /\ phase = "initiate" /\ at = o /\ at \in 1 .. 3
        /\ socket' = [socket EXCEPT ![o].fd = -1]
        /\ UNCHANGED <<mainPc, nats, session>>
        /\ \/ phase' = "terminate" /\ at' = 1
           \/ phase' = "initiate" /\ at' = at
    BY DEF AddressFails, Throw, threadVars, OwnerInv, Shape
  <1>2. /\ FilesShape'
        /\ DOMAIN files \subseteq DOMAIN files'
        /\ \A n \in DOMAIN files : files'[n] = files[n]
        /\ \A n \in DOMAIN files' \ DOMAIN files : files'[n] = LEAKED
    <2>1. CASE isLeaked
      <3>1. files' = OpenedBy(LEAKED) /\ LEAKED \in Owners /\ FilesShape
        BY <2>1 DEF AddressFails, Owners, OwnerInv, Shape
      <3> QED  BY <3>1, Opens
    <2>2. CASE ~isLeaked
      <3>1. files' = files /\ FilesShape
        BY <2>2 DEF AddressFails, OwnerInv, Shape
      <3> QED  BY <3>1 DEF FilesShape
    <2> QED  BY <2>1, <2>2
  <1>3. /\ socket' \in [Offices -> [fd : Int, ssl : BOOLEAN]]
        /\ \A p \in Offices \ {o} : socket'[p] = socket[p]
    BY <1>1 DEF OwnerInv, Shape
  <1>4. Shape'
    BY <1>1, <1>2, <1>3 DEF OwnerInv, Shape
  <1>5. \A p \in 1 .. 3 : Nobody(p)' <=> Nobody(p)
    BY <1>2 DEF Nobody, LEAKED
  <1>6. \A p \in Offices \ {o} : Connected(p) => Connected(p)'
    BY <1>2, <1>3 DEF Connected
  <1>7. Remembered'
    <2> SUFFICES ASSUME NEW n \in DOMAIN files', NEW p \in Offices, files'[n] = p
                 PROVE  socket'[p].fd = n
      BY DEF Remembered
    <2>1. n \in DOMAIN files /\ files[n] = p
      BY <1>2 DEF LEAKED
    <2>2. p # o
      BY <1>1, <2>1, Initiating DEF Nobody
    <2> QED  BY <1>3, <2>1, <2>2 DEF OwnerInv, Remembered
  <1>8. InTurn'
    BY <1>1, <1>5, Initiating DEF InTurn, STREAM
  <1>9. Chain'
    <2> SUFFICES ASSUME NEW p \in Offices,
                        \/ phase' = "initiate" /\ p < at'
                        \/ nats' = "live" \/ \E q \in Offices : q > p /\ ~Nobody(q)'
                 PROVE  Connected(p)'
      BY DEF Chain
    <2>1. p < at
      BY <1>1, <1>5, Initiating
    <2>2. Connected(p) /\ p # o
      BY <1>1, <2>1, Initiating
    <2> QED  BY <2>2, <1>6
  <1> QED  BY <1>4, <1>7, <1>8, <1>9 DEF OwnerInv

LEMMA InitiateMarketKeeps ==
    ASSUME OwnerInv, NEW o \in Offices, InitiateMarket(o)
    PROVE  OwnerInv'
  <1> USE StreamAssumption
  <1> DEFINE new == LowestFree
  <1>1. PICK isSecured, isAllocated \in BOOLEAN :
           /\ socket' = [socket EXCEPT ![o] = [fd |-> new, ssl |-> isSecured]]
           /\ session' = [session EXCEPT ![o] = isAllocated]
           /\ \/ Advance("test")
              \/ Throw
    BY DEF InitiateMarket
  <1>2. /\ phase = "initiate" /\ at = o /\ UNCHANGED <<mainPc, nats>>
        /\ files' = OpenedBy(o) /\ o \in Owners /\ FilesShape
    BY DEF InitiateMarket, Owners, OwnerInv, Shape
  <1>3. \/ phase' = "terminate" /\ at' = 1
        \/ phase' = "initiate" /\ at' = at + 1
    BY <1>1, <1>2 DEF Advance, Throw
  <1>4. /\ FilesShape'
        /\ new \in Nat /\ new \notin DOMAIN files
        /\ DOMAIN files' = DOMAIN files \cup {new}
        /\ files'[new] = o
        /\ \A n \in DOMAIN files : files'[n] = files[n]
    BY <1>2, Opens
  <1> HIDE DEF new
  <1>5. /\ socket' \in [Offices -> [fd : Int, ssl : BOOLEAN]]
        /\ session' \in [Offices -> BOOLEAN]
        /\ socket'[o].fd = new
        /\ \A p \in Offices \ {o} : socket'[p] = socket[p]
    BY <1>1, <1>4 DEF OwnerInv, Shape
  <1>6. Shape'
    BY <1>2, <1>3, <1>4, <1>5 DEF OwnerInv, Shape
  <1>7. \A p \in (1 .. 3) \ {o} : Nobody(p)' <=> Nobody(p)
    BY <1>4 DEF Nobody
  <1>8. Connected(o)' /\ \A p \in Offices \ {o} : Connected(p) => Connected(p)'
    BY <1>4, <1>5 DEF Connected
  <1>9. Remembered'
    <2> SUFFICES ASSUME NEW n \in DOMAIN files', NEW p \in Offices, files'[n] = p
                 PROVE  socket'[p].fd = n
      BY DEF Remembered
    <2>1. CASE n = new
      BY <1>4, <1>5, <2>1
    <2>2. CASE n # new
      <3>1. n \in DOMAIN files /\ files[n] = p
        BY <1>4, <2>2
      <3>2. p # o
        BY <1>2, <3>1, Initiating DEF Nobody
      <3> QED  BY <1>5, <3>1, <3>2 DEF OwnerInv, Remembered
    <2> QED  BY <2>1, <2>2
  <1>10. InTurn'
    BY <1>2, <1>3, <1>7, Initiating DEF InTurn, STREAM
  <1>11. Chain'
    <2> SUFFICES ASSUME NEW p \in Offices,
                        \/ phase' = "initiate" /\ p < at'
                        \/ nats' = "live" \/ \E q \in Offices : q > p /\ ~Nobody(q)'
                 PROVE  Connected(p)'
      BY DEF Chain
    <2>1. p <= o
      BY <1>2, <1>3, <1>7, Initiating
    <2>2. CASE p = o
      BY <1>8, <2>2
    <2>3. CASE p # o
      BY <1>2, <1>8, <2>1, <2>3, Initiating
    <2> QED  BY <2>2, <2>3
  <1> QED  BY <1>6, <1>9, <1>10, <1>11 DEF OwnerInv

LEMMA InitiateStreamKeeps ==
    ASSUME OwnerInv, InitiateStream
    PROVE  OwnerInv'
  <1> USE StreamAssumption
  <1>1. /\ phase = "initiate" /\ at = STREAM /\ UNCHANGED <<mainPc, socket, session>>
        /\ ConnectNats
    BY DEF InitiateStream
  <1>2. CASE Throw /\ UNCHANGED <<nats, files>>
    <2>1. mainPc' \notin {"start", "rest"}
      BY <1>1 DEF OwnerInv, Shape
    <2> QED  BY <1>1, <1>2, <2>1, NothingOpened DEF Throw
  <1>3. CASE nats' = "live" /\ files' = OpenedBy(STREAM) /\ Advance("test")
    <2>1. phase' = "test" /\ at' = 1
      BY <1>1, <1>3 DEF Advance, STREAM
    <2>2. STREAM \in Owners /\ FilesShape
      BY DEF Owners, OwnerInv, Shape
    <2>3. /\ FilesShape'
          /\ DOMAIN files \subseteq DOMAIN files'
          /\ \A n \in DOMAIN files : files'[n] = files[n]
          /\ \A n \in DOMAIN files' \ DOMAIN files : files'[n] = STREAM
      BY <1>3, <2>2, Opens
    <2>4. Shape'
      BY <1>1, <2>1, <2>3 DEF OwnerInv, Shape
    <2>5. Remembered'
      BY <1>1, <2>3 DEF OwnerInv, Remembered, STREAM
    <2>6. InTurn'
      BY <1>3, <2>1 DEF InTurn
    <2>7. \A p \in Offices : Connected(p)'
      BY <1>1, <2>3, Initiating DEF Connected, STREAM
    <2>8. Chain'
      BY <2>7 DEF Chain
    <2> QED  BY <2>4, <2>5, <2>6, <2>8 DEF OwnerInv
  <1> QED  BY <1>1, <1>2, <1>3 DEF ConnectNats

\* What an office about to be terminated remembers is open for it, or for nobody
\* who could still use it.
LEMMA ClosesOwn ==
    ASSUME OwnerInv, NEW o \in Offices, phase = "terminate", at = o,
           socket[o].fd \in DOMAIN files
    PROVE  files[socket[o].fd] \in {o, PROCESS, LEAKED}
  <1> USE StreamAssumption
  <1> DEFINE owner == files[socket[o].fd]
  <1>1. owner \in Owners
    BY DEF OwnerInv, Shape, FilesShape
  <1>2. CASE owner = STREAM
    <2>1. nats = "live"
      BY <1>2 DEF OwnerInv, InTurn, Nobody
    <2>2. Connected(o)
      BY <2>1 DEF OwnerInv, Chain
    <2> QED  BY <2>2 DEF Connected
  <1>3. CASE owner \in Offices
    <2>1. owner >= o
      BY <1>3 DEF OwnerInv, InTurn, Nobody
    <2>2. CASE owner > o
      <3>1. \E p \in Offices : p > o /\ ~Nobody(p)
        BY <1>3, <2>2 DEF Nobody
      <3>2. Connected(o)
        BY <3>1 DEF OwnerInv, Chain
      <3> QED  BY <3>2 DEF Connected
    <2> QED  BY <1>3, <2>1, <2>2
  <1> QED  BY <1>1, <1>2, <1>3 DEF Owners

LEMMA TerminateMarketKeeps ==
    ASSUME OwnerInv, NEW o \in Offices, TerminateMarket(o)
    PROVE  OwnerInv'
  <1> USE StreamAssumption
  <1>1. /\ phase = "terminate" /\ at = o /\ phase' = "terminate" /\ at' = at + 1
        /\ UNCHANGED <<mainPc, nats>>
        /\ files' = Without({socket[o].fd})
        /\ socket' = [socket EXCEPT ![o].ssl = FALSE]
        /\ session' = [session EXCEPT ![o] = FALSE]
    BY DEF TerminateMarket, Advance
  <1>2. /\ socket' \in [Offices -> [fd : Int, ssl : BOOLEAN]]
        /\ session' \in [Offices -> BOOLEAN]
        /\ \A p \in Offices : socket'[p].fd = socket[p].fd
    BY <1>1 DEF OwnerInv, Shape
  <1>3. /\ FilesShape'
        /\ DOMAIN files' = DOMAIN files \ {socket[o].fd}
        /\ \A n \in DOMAIN files' : files'[n] = files[n]
    BY <1>1, Closes DEF OwnerInv, Shape
  <1>4. Shape'
    BY <1>1, <1>2, <1>3 DEF OwnerInv, Shape
  <1>5. Remembered'
    BY <1>2, <1>3 DEF OwnerInv, Remembered
  <1>6. Nobody(o)' /\ \A p \in 1 .. 3 : Nobody(p) => Nobody(p)'
    BY <1>3 DEF Nobody, OwnerInv, Remembered
  <1>7. InTurn'
    BY <1>1, <1>6 DEF OwnerInv, InTurn, STREAM
  <1>8. Chain'
    <2> SUFFICES ASSUME NEW p \in Offices, at' <= p,
                        nats' = "live" \/ \E q \in Offices : q > p /\ ~Nobody(q)'
                 PROVE  Connected(p)'
      BY <1>1 DEF Chain
    <2>1. p # o /\ at <= p
      BY <1>1
    <2>2. Connected(p)
      BY <1>1, <1>6, <2>1 DEF OwnerInv, Chain
    <2>3. socket[p].fd # socket[o].fd
      BY <1>1, <2>1, <2>2, ClosesOwn DEF Connected, PROCESS, LEAKED
    <2> QED  BY <1>2, <1>3, <2>2, <2>3 DEF Connected
  <1> QED  BY <1>4, <1>5, <1>7, <1>8 DEF OwnerInv

LEMMA TerminateStreamKeeps ==
    ASSUME OwnerInv, TerminateStream
    PROVE  OwnerInv'
  <1> USE StreamAssumption
  <1>1. /\ phase = "terminate" /\ at = STREAM /\ UNCHANGED <<mainPc, socket, session>>
        /\ nats' # "live" /\ files' = Without(OwnedBy(STREAM))
        /\ phase' \in {"done", "crashed"} /\ at' \in 1 .. 3
        /\ mainPc \notin {"start", "rest"}
    BY DEF TerminateStream, DestroyNats, Advance, STREAM, OwnerInv, Shape
  <1>2. /\ FilesShape'
        /\ DOMAIN files' = DOMAIN files \ OwnedBy(STREAM)
        /\ \A n \in DOMAIN files' : files'[n] = files[n]
    BY <1>1, Closes DEF OwnerInv, Shape
  <1>3. \A p \in 1 .. 3 : Nobody(p)'
    BY <1>1, <1>2 DEF Nobody, OwnedBy, OwnerInv, InTurn, STREAM
  <1>4. Shape'
    BY <1>1, <1>2 DEF OwnerInv, Shape
  <1>5. Remembered'
    BY <1>1, <1>2 DEF OwnerInv, Remembered
  <1>6. InTurn' /\ Chain'
    BY <1>1, <1>3 DEF InTurn, Chain, STREAM
  <1> QED  BY <1>4, <1>5, <1>6 DEF OwnerInv

LEMMA NatsReconnectsKeeps ==
    ASSUME OwnerInv, NatsReconnects
    PROVE  OwnerInv'
  <1> USE StreamAssumption
  <1> DEFINE number == Min({LowestFree} \cup OwnedBy(STREAM))
             others == DOMAIN files \ OwnedBy(STREAM)
  <1>1. /\ nats = "live" /\ UNCHANGED <<mainPc, phase, at, socket, session, nats>>
        /\ files' = [n \in others \cup {number} |-> IF n = number THEN STREAM ELSE files[n]]
    BY DEF NatsReconnects, threadVars
  <1>2. FilesShape
    BY DEF OwnerInv, Shape
  <1>3. number \in Nat /\ number \notin others
    <2>1. LowestFree \in Nat /\ LowestFree \notin DOMAIN files
      BY <1>2, LowestFreeIsFree DEF FilesShape
    <2>2. OwnedBy(STREAM) \subseteq DOMAIN files
      BY DEF OwnedBy
    <2>3. {LowestFree} \cup OwnedBy(STREAM) \in SUBSET Nat
      BY <1>2, <2>1, <2>2 DEF FilesShape
    <2>4. number \in {LowestFree} \cup OwnedBy(STREAM)
      BY <2>3, MinIsMember
    <2> QED  BY <2>1, <2>3, <2>4
  <1>4. IsFiniteSet(others \cup {number})
    <2>1. IsFiniteSet(others)
      BY <1>2, FS_Difference DEF FilesShape
    <2> QED  BY <2>1, FS_AddElement
  <1> HIDE DEF number
  <1>5. /\ DOMAIN files' = others \cup {number}
        /\ files'[number] = STREAM
        /\ \A n \in others : files'[n] = files[n]
    BY <1>1, <1>3
  <1>6. FilesShape'
    <2>1. STREAM \in Owners /\ others \subseteq DOMAIN files
      BY DEF Owners
    <2> QED  BY <1>1, <1>2, <1>3, <1>4, <1>5, <2>1 DEF FilesShape
  <1>7. Shape'
    BY <1>1, <1>6 DEF OwnerInv, Shape
  <1>8. \A p \in Offices : Nobody(p)' <=> Nobody(p)
    BY <1>5 DEF Nobody, OwnedBy, STREAM
  <1>9. \A p \in Offices : Connected(p) => Connected(p)'
    BY <1>1, <1>5 DEF Connected, OwnedBy, STREAM
  <1>10. Remembered'
    <2> SUFFICES ASSUME NEW n \in DOMAIN files', NEW p \in Offices, files'[n] = p
                 PROVE  socket'[p].fd = n
      BY DEF Remembered
    <2>1. n \in DOMAIN files /\ files[n] = p
      BY <1>5 DEF STREAM
    <2> QED  BY <1>1, <2>1 DEF OwnerInv, Remembered
  <1>11. InTurn'
    <2>1. at \in 1 .. 3
      BY DEF OwnerInv, Shape
    <2> QED  BY <1>1, <1>8, <2>1 DEF OwnerInv, InTurn, STREAM
  <1>12. Chain'
    BY <1>1, <1>8, <1>9 DEF OwnerInv, Chain
  <1> QED  BY <1>7, <1>10, <1>11, <1>12 DEF OwnerInv

LEMMA StepOwners == OwnerInv /\ [Next]_vars => OwnerInv'
  <1> SUFFICES ASSUME OwnerInv, [Next]_vars PROVE OwnerInv'
    OBVIOUS
  <1> USE StreamAssumption
  <1>shape. Shape
    BY DEF OwnerInv
  <1>1. CASE MainStep
    <2>1. CASE StartRound
      BY <1>1, <2>1, <1>shape, NothingOpened DEF StartRound, Shape, socketVars
    <2>2. CASE Watch \/ Join \/ Rested
      BY <1>1, <2>2, <1>shape, NothingOpened
         DEF Watch, Join, Rested, Shape, threadVars, socketVars
    <2> QED  BY <1>1, <2>1, <2>2 DEF MainStep
  <1>2. CASE ThreadStep
    <2>1. ASSUME NEW o \in Offices, LookupFails(o) \/ PollThrows(o) PROVE OwnerInv'
      BY <2>1, <1>shape, NothingOpened DEF LookupFails, PollThrows, Throw, Shape, socketVars
    <2>2. ASSUME NEW o \in Offices, PollNoPrice(o) PROVE OwnerInv'
      BY <2>2, <1>shape, NothingOpened DEF PollNoPrice, Advance, Shape, socketVars
    <2>3. ASSUME NEW o \in Offices, NEW kind, NEW entries, PollPrice(o, kind, entries)
          PROVE  OwnerInv'
      BY <2>3, <1>shape, NothingOpened DEF PollPrice, Advance, Shape, socketVars
    <2>4. CASE TestRunning
      BY <2>4, <1>shape, NothingOpened DEF TestRunning, Shape, socketVars
    <2>5. ASSUME NEW n \in 0 .. Len(priceRing.log), PollStream(n) PROVE OwnerInv'
      BY <2>5, <1>shape, NothingOpened
         DEF PollStream, PassOn, Advance, Throw, Shape, socketVars, STREAM
    <2> QED
      BY <1>2, <2>1, <2>2, <2>3, <2>4, <2>5, AddressFailsKeeps, InitiateMarketKeeps,
         InitiateStreamKeeps, TerminateMarketKeeps, TerminateStreamKeeps
         DEF ThreadStep
  <1>3. CASE NatsReconnects
    BY <1>3, NatsReconnectsKeeps
  <1>4. CASE UNCHANGED vars
    BY <1>4, <1>shape, NothingOpened DEF vars, threadVars, socketVars, Shape
  <1> QED  BY <1>1, <1>2, <1>3, <1>4 DEF Next, Ended

\* The number that an office remembers is not that of a connection somebody else has
\* (FIXSocket.cpp:79), for any number of rounds, of failed addresses and of times
\* NATS connects again.
THEOREM ClosesNoOtherHolds == Spec => []ClosesNoOther
  <1>1. OwnerInv => ClosesNoOther
    BY ClosesOwn DEF ClosesNoOther
  <1> QED  BY <1>1, InitOwners, StepOwners, PTL DEF Spec
-----------------------------------------------------------------------------
(* What a round leaves behind.                                             *)

\* When the round is over the consumer of the ring is gone.
Ungated == phase = "done" => priceRing.gates = {}

LEMMA StepFreed == OwnerInv /\ Freed /\ [Next]_vars => Freed'
  <1> SUFFICES ASSUME OwnerInv, Freed, [Next]_vars PROVE Freed'
    OBVIOUS
  <1> USE StreamAssumption
  <1>shape. Shape
    BY DEF OwnerInv
  <1>1. CASE MainStep
    BY <1>1, <1>shape
       DEF MainStep, StartRound, Watch, Join, Rested, Freed, Shape, threadVars, socketVars
  <1>2. CASE ThreadStep
    <2>1. ASSUME NEW o \in Offices, LookupFails(o) \/ PollThrows(o) PROVE Freed'
      BY <2>1 DEF LookupFails, PollThrows, Throw, Freed
    <2>2. ASSUME NEW o \in Offices, NEW isLeaked \in BOOLEAN, AddressFails(o, isLeaked)
          PROVE  Freed'
      BY <2>2 DEF AddressFails, Throw, Freed, threadVars
    <2>3. ASSUME NEW o \in Offices, InitiateMarket(o) PROVE Freed'
      BY <2>3 DEF InitiateMarket, Advance, Throw, Freed
    <2>4. ASSUME NEW o \in Offices, PollNoPrice(o) PROVE Freed'
      BY <2>4 DEF PollNoPrice, Advance, Freed
    <2>5. ASSUME NEW o \in Offices, NEW kind, NEW entries, PollPrice(o, kind, entries)
          PROVE  Freed'
      BY <2>5 DEF PollPrice, Advance, Freed
    <2>6. ASSUME NEW o \in Offices, TerminateMarket(o) PROVE Freed'
      <3>1. /\ phase = "terminate" /\ at = o /\ phase' = "terminate" /\ at' = at + 1
            /\ socket' = [socket EXCEPT ![o].ssl = FALSE]
            /\ session' = [session EXCEPT ![o] = FALSE]
        BY <2>6 DEF TerminateMarket, Advance
      <3>2. ~session'[o] /\ ~socket'[o].ssl
        BY <3>1, <1>shape DEF Shape
      <3>3. \A p \in Offices \ {o} : session'[p] = session[p] /\ socket'[p] = socket[p]
        BY <3>1, <1>shape DEF Shape
      <3> QED  BY <3>1, <3>2, <3>3 DEF Freed
    <2>7. CASE InitiateStream
      BY <2>7 DEF InitiateStream, ConnectNats, Advance, Throw, Freed, STREAM
    <2>8. CASE TestRunning
      BY <2>8 DEF TestRunning, Freed
    <2>9. CASE TerminateStream
      BY <2>9 DEF TerminateStream, Advance, Freed, STREAM
    <2>10. ASSUME NEW n \in 0 .. Len(priceRing.log), PollStream(n) PROVE Freed'
      BY <2>10 DEF PollStream, PassOn, Advance, Throw, Freed, STREAM
    <2> QED
      BY <1>2, <2>1, <2>2, <2>3, <2>4, <2>5, <2>6, <2>7, <2>8, <2>9, <2>10 DEF ThreadStep
  <1>3. CASE NatsReconnects
    BY <1>3 DEF NatsReconnects, Freed, threadVars
  <1>4. CASE UNCHANGED vars
    BY <1>4 DEF vars, Freed, threadVars, socketVars
  <1> QED  BY <1>1, <1>2, <1>3, <1>4 DEF Next, Ended

LEMMA StepUngated == IInv /\ Ungated /\ [Next]_vars => Ungated'
  <1> SUFFICES ASSUME IInv, Ungated, [Next]_vars, phase' = "done" PROVE priceRing'.gates = {}
    BY DEF Ungated
  <1> USE StreamAssumption
  <1>1. CASE TerminateStream
    <2>1. priceRing' = RemoveGate(priceRing, STREAM)
      BY <1>1 DEF TerminateStream
    <2>2. PICK S : priceRing \in Rings(S, Readers)
      BY DEF IInv, RingShape
    <2> QED  BY <2>1, <2>2 DEF RemoveGate, Rings, Readers
  <1>2. CASE phase = "done" /\ UNCHANGED priceRing
    BY <1>2 DEF Ungated
  <1>3. CASE MainStep
    BY <1>3, <1>2 DEF MainStep, StartRound, Watch, Join, Rested, threadVars
  <1>4. CASE ThreadStep /\ ~TerminateStream
    BY <1>4, <1>2
       DEF ThreadStep, LookupFails, AddressFails, InitiateMarket, PollNoPrice, PollThrows,
           TerminateMarket, PollPrice, InitiateStream, ConnectNats, TestRunning, PollStream,
           PassOn, Advance, Throw, threadVars, STREAM
  <1>5. CASE NatsReconnects \/ UNCHANGED vars
    BY <1>5, <1>2 DEF NatsReconnects, vars, threadVars
  <1> QED  BY <1>1, <1>3, <1>4, <1>5 DEF Next, Ended

\* A round that is over holds nothing (FIXSession::terminate, StreamOffice::terminate),
\* wherever it failed.
THEOREM ReleasedHolds == Spec => []Released
  <1> DEFINE Inv == IInv /\ OwnerInv /\ Freed /\ Ungated
  <1>1. Init => Inv
    BY InitIInv, InitOwners DEF Init, Ungated
  <1>2. Inv /\ [Next]_vars => Inv'
    BY StepIInv, StepOwners, StepFreed, StepUngated
  <1>3. Inv => Released
    <2> SUFFICES ASSUME Inv, phase = "done"
                 PROVE  /\ nats # "live"
                        /\ \A o \in Offices : ~session[o] /\ ~socket[o].ssl
                        /\ \A n \in DOMAIN files : files[n] \in {PROCESS, LEAKED}
                        /\ priceRing.gates = {}
      BY DEF Released
    <2>1. \A n \in DOMAIN files : files[n] \in Owners /\ files[n] \notin 1 .. 3
      BY DEF OwnerInv, InTurn, Nobody, Shape, FilesShape
    <2>2. \A n \in DOMAIN files : files[n] \in {PROCESS, LEAKED}
      BY <2>1, StreamAssumption DEF Owners, STREAM
    <2> QED  BY <2>2 DEF OwnerInv, InTurn, Freed, Ungated
  <1> HIDE DEF Inv
  <1>4. Spec => []Inv
    BY <1>1, <1>2, PTL DEF Spec
  <1> QED  BY <1>3, <1>4, PTL
-----------------------------------------------------------------------------
(* The handler of a market data message finds in its fields, by position,  *)
(* the last new price of each side.                                        *)

LEMMA MaxIs ==
    ASSUME NEW S \in SUBSET Int, NEW x \in S, \A y \in S : y <= x
    PROVE  Max(S) = x
  <1>1. Max(S) \in S /\ \A y \in S : Max(S) >= y
    BY DEF Max
  <1>2. Max(S) \in Int /\ x \in Int /\ Max(S) >= x /\ Max(S) <= x
    BY <1>1
  <1> QED  BY <1>2

LEMMA MinIs ==
    ASSUME NEW S \in SUBSET Int, NEW x \in S, \A y \in S : x <= y
    PROVE  Min(S) = x
  <1>1. Min(S) \in S /\ \A y \in S : Min(S) <= y
    BY DEF Min
  <1>2. Min(S) \in Int /\ x \in Int /\ Min(S) <= x /\ Min(S) >= x
    BY <1>1
  <1> QED  BY <1>2

LEMMA HasMax ==
    ASSUME NEW n \in Nat, NEW S \in SUBSET (1 .. n), S # {}
    PROVE  Max(S) \in S /\ \A y \in S : y <= Max(S)
  <1> DEFINE T == {n - y : y \in S}
  <1>1. T \in SUBSET Nat /\ T # {}
    <2>1. \A y \in S : n - y \in Nat
      OBVIOUS
    <2>2. PICK y \in S : TRUE
      OBVIOUS
    <2>3. n - y \in T
      OBVIOUS
    <2> QED  BY <2>1, <2>3
  <1>2. PICK z \in T : \A y \in T : ~(<<y, z>> \in OpToRel(<, Nat))
    BY <1>1, NatLessThanWellFounded, WFMin
  <1>3. PICK x \in S : z = n - x
    OBVIOUS
  <1>4. ASSUME NEW y \in S PROVE y <= x
    <2>1. n - y \in T /\ <<n - y, z>> \in Nat \X Nat
      BY <1>1
    <2>2. ~(n - y < z)
      BY <1>2, <2>1 DEF OpToRel
    <2> QED  BY <1>3, <2>2
  <1>5. Max(S) = x
    BY <1>4, MaxIs
  <1> QED  BY <1>4, <1>5

\* What a tuple holds.
LEMMA Pair ==
    ASSUME NEW a, NEW b, NEW t, t = <<a, b>>
    PROVE  t[1] = a /\ t[2] = b
  OBVIOUS

LEMMA Triple ==
    ASSUME NEW a, NEW b, NEW c
    PROVE  <<a, b, c>>[1] = a /\ <<a, b, c>>[2] = b /\ <<a, b, c>>[3] = c
  OBVIOUS

LEMMA Sextuple ==
    ASSUME NEW a, NEW b, NEW c, NEW d, NEW e, NEW f
    PROVE  LET t == <<a, b, c, d, e, f>>
           IN  t[1] = a /\ t[2] = b /\ t[3] = c /\ t[4] = d /\ t[5] = e /\ t[6] = f
  OBVIOUS

\* The fields of a message, entry by entry.
LEMMA SnapshotFields ==
    ASSUME NEW N \in Nat, NEW entries \in [1 .. N -> Entries]
    PROVE  LET fields == Fields(3, [n \in DOMAIN entries |-> SnapshotEntry(entries[n])])
           IN  /\ DOMAIN fields = 1 .. 3 * N
               /\ \A k \in 1 .. N :
                     /\ fields[3 * k - 2] = <<"MDEntryType", entries[k].side>>
                     /\ fields[3 * k - 1] = <<"MDEntryPx", entries[k].px>>
                     /\ fields[3 * k] = <<"MDEntrySize", SIZE>>
               /\ \A i \in 1 .. 3 * N : \E k \in 1 .. N : i \in {3 * k - 2, 3 * k - 1, 3 * k}
  <1> DEFINE parts == [n \in DOMAIN entries |-> SnapshotEntry(entries[n])]
             fields == Fields(3, parts)
  <1>1. Len(parts) = N /\ \A k \in 1 .. N : parts[k] = SnapshotEntry(entries[k])
    OBVIOUS
  <1> HIDE DEF parts
  <1>2. /\ DOMAIN fields = 1 .. 3 * N
        /\ \A i \in 1 .. 3 * N : fields[i] = parts[(i - 1) \div 3 + 1][((i - 1) % 3) + 1]
    BY <1>1 DEF Fields
  <1> HIDE DEF fields
  <1>3. ASSUME NEW k \in 1 .. N
        PROVE  /\ fields[3 * k - 2] = parts[k][1] /\ fields[3 * k - 1] = parts[k][2]
               /\ fields[3 * k] = parts[k][3]
    <2>1. /\ 3 * k - 2 \in 1 .. 3 * N /\ 3 * k - 1 \in 1 .. 3 * N /\ 3 * k \in 1 .. 3 * N
          /\ (3 * k - 2 - 1) \div 3 + 1 = k /\ ((3 * k - 2 - 1) % 3) + 1 = 1
          /\ (3 * k - 1 - 1) \div 3 + 1 = k /\ ((3 * k - 1 - 1) % 3) + 1 = 2
          /\ (3 * k - 1) \div 3 + 1 = k /\ ((3 * k - 1) % 3) + 1 = 3
      OBVIOUS
    <2>2. /\ fields[3 * k - 2] = parts[(3 * k - 2 - 1) \div 3 + 1][((3 * k - 2 - 1) % 3) + 1]
          /\ fields[3 * k - 1] = parts[(3 * k - 1 - 1) \div 3 + 1][((3 * k - 1 - 1) % 3) + 1]
          /\ fields[3 * k] = parts[(3 * k - 1) \div 3 + 1][((3 * k - 1) % 3) + 1]
      BY <1>2, <2>1
    <2> QED  BY <2>1, <2>2
  <1>4. ASSUME NEW k \in 1 .. N
        PROVE  /\ fields[3 * k - 2] = <<"MDEntryType", entries[k].side>>
               /\ fields[3 * k - 1] = <<"MDEntryPx", entries[k].px>>
               /\ fields[3 * k] = <<"MDEntrySize", SIZE>>
    <2> DEFINE a == <<"MDEntryType", entries[k].side>>
               b == <<"MDEntryPx", entries[k].px>>
               c == <<"MDEntrySize", SIZE>>
    <2>1. parts[k] = <<a, b, c>>
      BY <1>1 DEF SnapshotEntry
    <2> HIDE DEF a, b, c
    <2>2. parts[k][1] = a /\ parts[k][2] = b /\ parts[k][3] = c
      BY <2>1, Triple
    <2>3. fields[3 * k - 2] = a /\ fields[3 * k - 1] = b /\ fields[3 * k] = c
      BY <2>2, <1>3
    <2> QED  BY <2>3 DEF a, b, c
  <1>5. ASSUME NEW i \in 1 .. 3 * N
        PROVE  \E k \in 1 .. N : i \in {3 * k - 2, 3 * k - 1, 3 * k}
    <2>1. (i - 1) \div 3 + 1 \in 1 .. N
      OBVIOUS
    <2>2. \E k \in 1 .. N : k = (i - 1) \div 3 + 1
      BY <2>1
    <2> QED  BY SMTT(30), <2>2
  <1> QED  BY <1>2, <1>4, <1>5 DEF fields, parts

LEMMA RefreshFields ==
    ASSUME NEW N \in Nat, NEW entries \in [1 .. N -> Entries]
    PROVE  LET fields == Fields(6, [n \in DOMAIN entries |-> RefreshEntry(entries[n])])
           IN  /\ DOMAIN fields = 1 .. 6 * N
               /\ \A k \in 1 .. N :
                     /\ fields[6 * k - 5] = <<"MDUpdateAction", entries[k].action>>
                     /\ fields[6 * k - 4] = <<"MDEntryID", 1>>
                     /\ fields[6 * k - 3] = <<"MDEntryType", entries[k].side>>
                     /\ fields[6 * k - 2] = <<"Symbol", 1>>
                     /\ fields[6 * k - 1] = <<"MDEntryPx", entries[k].px>>
                     /\ fields[6 * k] = <<"MDEntrySize", SIZE>>
               /\ \A i \in 1 .. 6 * N : \E k \in 1 .. N :
                     i \in {6 * k - 5, 6 * k - 4, 6 * k - 3, 6 * k - 2, 6 * k - 1, 6 * k}
  <1> DEFINE parts == [n \in DOMAIN entries |-> RefreshEntry(entries[n])]
             fields == Fields(6, parts)
  <1>1. Len(parts) = N /\ \A k \in 1 .. N : parts[k] = RefreshEntry(entries[k])
    OBVIOUS
  <1> HIDE DEF parts
  <1>2. /\ DOMAIN fields = 1 .. 6 * N
        /\ \A i \in 1 .. 6 * N : fields[i] = parts[(i - 1) \div 6 + 1][((i - 1) % 6) + 1]
    BY <1>1 DEF Fields
  <1> HIDE DEF fields
  <1>3. ASSUME NEW k \in 1 .. N, NEW j \in 1 .. 6
        PROVE  fields[6 * k - 6 + j] = parts[k][j]
    <2>1. /\ 6 * k - 6 + j \in 1 .. 6 * N
          /\ (6 * k - 6 + j - 1) \div 6 + 1 = k /\ ((6 * k - 6 + j - 1) % 6) + 1 = j
      OBVIOUS
    <2>2. fields[6 * k - 6 + j]
            = parts[(6 * k - 6 + j - 1) \div 6 + 1][((6 * k - 6 + j - 1) % 6) + 1]
      BY <1>2, <2>1
    <2> QED  BY <2>1, <2>2
  <1>4. ASSUME NEW k \in 1 .. N
        PROVE  /\ fields[6 * k - 5] = parts[k][1] /\ fields[6 * k - 4] = parts[k][2]
               /\ fields[6 * k - 3] = parts[k][3] /\ fields[6 * k - 2] = parts[k][4]
               /\ fields[6 * k - 1] = parts[k][5] /\ fields[6 * k] = parts[k][6]
    <2>1. /\ 6 * k - 6 + 1 = 6 * k - 5 /\ 6 * k - 6 + 2 = 6 * k - 4
          /\ 6 * k - 6 + 3 = 6 * k - 3 /\ 6 * k - 6 + 4 = 6 * k - 2
          /\ 6 * k - 6 + 5 = 6 * k - 1 /\ 6 * k - 6 + 6 = 6 * k
      OBVIOUS
    <2>2. \A j \in 1 .. 6 : fields[6 * k - 6 + j] = parts[k][j]
      BY <1>3
    <2>3. /\ fields[6 * k - 6 + 1] = parts[k][1] /\ fields[6 * k - 6 + 2] = parts[k][2]
          /\ fields[6 * k - 6 + 3] = parts[k][3] /\ fields[6 * k - 6 + 4] = parts[k][4]
          /\ fields[6 * k - 6 + 5] = parts[k][5] /\ fields[6 * k - 6 + 6] = parts[k][6]
      BY <2>2
    <2> QED  BY <2>1, <2>3
  <1>5. ASSUME NEW k \in 1 .. N
        PROVE  /\ fields[6 * k - 5] = <<"MDUpdateAction", entries[k].action>>
               /\ fields[6 * k - 4] = <<"MDEntryID", 1>>
               /\ fields[6 * k - 3] = <<"MDEntryType", entries[k].side>>
               /\ fields[6 * k - 2] = <<"Symbol", 1>>
               /\ fields[6 * k - 1] = <<"MDEntryPx", entries[k].px>>
               /\ fields[6 * k] = <<"MDEntrySize", SIZE>>
    <2> DEFINE a == <<"MDUpdateAction", entries[k].action>>
               b == <<"MDEntryID", 1>>
               c == <<"MDEntryType", entries[k].side>>
               d == <<"Symbol", 1>>
               e == <<"MDEntryPx", entries[k].px>>
               f == <<"MDEntrySize", SIZE>>
    <2>1. parts[k] = <<a, b, c, d, e, f>>
      BY <1>1 DEF RefreshEntry
    <2> HIDE DEF a, b, c, d, e, f
    <2>2. /\ parts[k][1] = a /\ parts[k][2] = b /\ parts[k][3] = c
          /\ parts[k][4] = d /\ parts[k][5] = e /\ parts[k][6] = f
      BY <2>1, Sextuple
    <2>3. /\ fields[6 * k - 5] = a /\ fields[6 * k - 4] = b /\ fields[6 * k - 3] = c
          /\ fields[6 * k - 2] = d /\ fields[6 * k - 1] = e /\ fields[6 * k] = f
      BY <2>2, <1>4
    <2> QED  BY <2>3 DEF a, b, c, d, e, f
  <1>6. ASSUME NEW i \in 1 .. 6 * N
        PROVE  \E k \in 1 .. N :
                  i \in {6 * k - 5, 6 * k - 4, 6 * k - 3, 6 * k - 2, 6 * k - 1, 6 * k}
    <2>1. (i - 1) \div 6 + 1 \in 1 .. N
      OBVIOUS
    <2>2. \E k \in 1 .. N : k = (i - 1) \div 6 + 1
      BY <2>1
    <2> QED  BY SMTT(30), <2>2
  <1> QED  BY <1>2, <1>5, <1>6 DEF fields, parts

\* The entries that count for a side, in LastTold.
Counting(kind, entries, side) ==
    {n \in DOMAIN entries :
       entries[n].side = side /\ (kind = "snapshot" \/ entries[n].action = NEW_ENTRY)}

LEMMA SnapshotPriceIs ==
    ASSUME NEW N \in Nat, NEW entries \in [1 .. N -> Entries], NEW side \in {BID, ASK}, NEW old
    PROVE  SnapshotPrice(Fields(3, [n \in DOMAIN entries |-> SnapshotEntry(entries[n])]),
                         side, old)
             = LastTold(old, "snapshot", entries, side)
  <1> DEFINE fields == Fields(3, [n \in DOMAIN entries |-> SnapshotEntry(entries[n])])
             C == Counting("snapshot", entries, side)
             E == {i \in DOMAIN fields : fields[i] = <<"MDEntryType", side>>}
             P(i) == {j \in DOMAIN fields : j >= i /\ fields[j][1] = "MDEntryPx"}
  <1>1. /\ DOMAIN fields = 1 .. 3 * N
        /\ \A k \in 1 .. N : /\ fields[3 * k - 2] = <<"MDEntryType", entries[k].side>>
                             /\ fields[3 * k - 1] = <<"MDEntryPx", entries[k].px>>
                             /\ fields[3 * k] = <<"MDEntrySize", SIZE>>
        /\ \A i \in 1 .. 3 * N : \E k \in 1 .. N : i \in {3 * k - 2, 3 * k - 1, 3 * k}
    BY SnapshotFields
  <1>2. LastTold(old, "snapshot", entries, side)
          = IF C = {} THEN old ELSE entries[Max(C)].px
    BY DEF LastTold, Counting
  <1>3. SnapshotPrice(fields, side, old) = IF E = {} THEN old ELSE fields[Min(P(Max(E)))][2]
    BY DEF SnapshotPrice
  <1>4. C \in SUBSET (1 .. N) /\ \A k \in 1 .. N : k \in C <=> entries[k].side = side
    BY DEF Counting
  <1> HIDE DEF fields, C
  <1>t. ASSUME NEW k \in 1 .. N
        PROVE  /\ fields[3 * k - 2][1] = "MDEntryType"
               /\ fields[3 * k - 2][2] = entries[k].side
               /\ fields[3 * k - 1][1] = "MDEntryPx"
               /\ fields[3 * k - 1][2] = entries[k].px
               /\ fields[3 * k][1] = "MDEntrySize"
    <2>1. fields[3 * k - 2] = <<"MDEntryType", entries[k].side>>
      BY <1>1, Zenon
    <2>2. fields[3 * k - 1] = <<"MDEntryPx", entries[k].px>>
      BY <1>1, Zenon
    <2>3. fields[3 * k] = <<"MDEntrySize", SIZE>>
      BY <1>1, Zenon
    <2>4. fields[3 * k - 2][1] = "MDEntryType" /\ fields[3 * k - 2][2] = entries[k].side
      BY <2>1, Pair
    <2>5. fields[3 * k - 1][1] = "MDEntryPx" /\ fields[3 * k - 1][2] = entries[k].px
      BY <2>2, Pair
    <2>6. fields[3 * k][1] = "MDEntrySize"
      BY <2>3, Pair
    <2> QED  BY <2>4, <2>5, <2>6
  <1>5. ASSUME NEW i \in E PROVE \E k \in C : i = 3 * k - 2
    <2>1. PICK k \in 1 .. N : i \in {3 * k - 2, 3 * k - 1, 3 * k}
      BY <1>1
    <2>e. fields[i] = <<"MDEntryType", side>>
      OBVIOUS
    <2>2. fields[i][1] = "MDEntryType" /\ fields[i][2] = side
      BY <2>e, Pair
    <2>3. i # 3 * k - 1 /\ i # 3 * k
      BY <1>t, <2>2
    <2>4. i = 3 * k - 2
      BY <2>1, <2>3
    <2>5. entries[k].side = side
      BY <1>t, <2>2, <2>4
    <2> QED  BY <1>4, <2>4, <2>5
  <1>6. ASSUME NEW k \in C PROVE 3 * k - 2 \in E
    <2>1. k \in 1 .. N /\ entries[k].side = side
      BY <1>4
    <2>2. 3 * k - 2 \in 1 .. 3 * N
      BY <2>1
    <2>3. fields[3 * k - 2] = <<"MDEntryType", side>>
      BY <1>1, <2>1, Zenon
    <2> QED  BY <1>1, <2>2, <2>3, Zenon
  <1>e. E \in SUBSET Int
    BY <1>1
  <1> HIDE DEF E
  <1>7. ASSUME C = {} PROVE SnapshotPrice(fields, side, old) = old
    <2>1. E = {}
      BY <1>5, <1>7
    <2> QED  BY <1>3, <2>1
  <1>8. ASSUME C # {} PROVE SnapshotPrice(fields, side, old) = entries[Max(C)].px
    <2> DEFINE K == Max(C)
    <2>1. K \in C /\ \A k \in C : k <= K
      BY <1>4, <1>8, HasMax
    <2> HIDE DEF K
    <2>2. K \in 1 .. N
      BY <1>4, <2>1
    <2>3. Max(E) = 3 * K - 2
      <3>2. 3 * K - 2 \in E
        BY <1>6, <2>1
      <3>3. \A i \in E : i <= 3 * K - 2
        BY <1>4, <1>5, <2>1, <2>2
      <3> QED  BY <1>e, <3>2, <3>3, MaxIs
    <2>4. Min(P(3 * K - 2)) = 3 * K - 1
      <3>1. P(3 * K - 2) \in SUBSET Int
        BY <1>1
      <3>2. 3 * K - 1 \in P(3 * K - 2)
        <4>1. 3 * K - 1 \in DOMAIN fields /\ 3 * K - 1 >= 3 * K - 2
          BY <1>1, <2>2
        <4>2. fields[3 * K - 1][1] = "MDEntryPx"
          BY <1>t, <2>2
        <4> QED  BY <4>1, <4>2, Zenon
      <3>3. ASSUME NEW j \in P(3 * K - 2) PROVE 3 * K - 1 <= j
        <4>1. j \in 1 .. 3 * N /\ j >= 3 * K - 2 /\ fields[j][1] = "MDEntryPx"
          BY <1>1, Zenon
        <4>2. fields[3 * K - 2][1] = "MDEntryType"
          BY <1>t, <2>2
        <4>3. j # 3 * K - 2
          BY <4>1, <4>2
        <4> QED  BY <2>2, <4>1, <4>3
      <3> HIDE DEF P
      <3> QED  BY <3>1, <3>2, <3>3, MinIs
    <2>5. fields[3 * K - 1][2] = entries[K].px
      BY <1>t, <2>2
    <2>6. E # {}
      BY <1>6, <2>1
    <2>7. SnapshotPrice(fields, side, old) = fields[Min(P(Max(E)))][2]
      BY <1>3, <2>6
    <2> HIDE DEF P
    <2>8. fields[Min(P(Max(E)))][2] = entries[K].px
      BY <2>3, <2>4, <2>5
    <2> QED  BY <2>7, <2>8 DEF K
  <1>9. SnapshotPrice(fields, side, old) = LastTold(old, "snapshot", entries, side)
    BY <1>2, <1>7, <1>8
  <1> QED  BY <1>9 DEF fields

LEMMA RefreshPriceIs ==
    ASSUME NEW N \in Nat, NEW entries \in [1 .. N -> Entries], NEW side \in {BID, ASK}, NEW old
    PROVE  RefreshPrice(Fields(6, [n \in DOMAIN entries |-> RefreshEntry(entries[n])]),
                        side, old)
             = LastTold(old, "refresh", entries, side)
  <1> DEFINE fields == Fields(6, [n \in DOMAIN entries |-> RefreshEntry(entries[n])])
             C == Counting("refresh", entries, side)
             E == {i \in DOMAIN fields : /\ fields[i] = <<"MDUpdateAction", NEW_ENTRY>>
                                         /\ fields[i + 2][2] = side}
  <1>1. /\ DOMAIN fields = 1 .. 6 * N
        /\ \A k \in 1 .. N : /\ fields[6 * k - 5] = <<"MDUpdateAction", entries[k].action>>
                             /\ fields[6 * k - 4] = <<"MDEntryID", 1>>
                             /\ fields[6 * k - 3] = <<"MDEntryType", entries[k].side>>
                             /\ fields[6 * k - 2] = <<"Symbol", 1>>
                             /\ fields[6 * k - 1] = <<"MDEntryPx", entries[k].px>>
                             /\ fields[6 * k] = <<"MDEntrySize", SIZE>>
        /\ \A i \in 1 .. 6 * N : \E k \in 1 .. N :
              i \in {6 * k - 5, 6 * k - 4, 6 * k - 3, 6 * k - 2, 6 * k - 1, 6 * k}
    BY RefreshFields
  <1>2. LastTold(old, "refresh", entries, side)
          = IF C = {} THEN old ELSE entries[Max(C)].px
    BY DEF LastTold, Counting
  <1>3. RefreshPrice(fields, side, old) = IF E = {} THEN old ELSE fields[Max(E) + 4][2]
    BY DEF RefreshPrice
  <1>4. /\ C \in SUBSET (1 .. N)
        /\ \A k \in 1 .. N :
              k \in C <=> entries[k].side = side /\ entries[k].action = NEW_ENTRY
    BY DEF Counting
  <1> HIDE DEF fields, C
  <1>t. ASSUME NEW k \in 1 .. N
        PROVE  /\ fields[6 * k - 5][1] = "MDUpdateAction"
               /\ fields[6 * k - 5][2] = entries[k].action
               /\ fields[6 * k - 4][1] = "MDEntryID"
               /\ fields[6 * k - 3][1] = "MDEntryType"
               /\ fields[6 * k - 3][2] = entries[k].side
               /\ fields[6 * k - 2][1] = "Symbol"
               /\ fields[6 * k - 1][1] = "MDEntryPx"
               /\ fields[6 * k - 1][2] = entries[k].px
               /\ fields[6 * k][1] = "MDEntrySize"
    <2>1. /\ fields[6 * k - 5] = <<"MDUpdateAction", entries[k].action>>
          /\ fields[6 * k - 4] = <<"MDEntryID", 1>>
          /\ fields[6 * k - 3] = <<"MDEntryType", entries[k].side>>
          /\ fields[6 * k - 2] = <<"Symbol", 1>>
          /\ fields[6 * k - 1] = <<"MDEntryPx", entries[k].px>>
          /\ fields[6 * k] = <<"MDEntrySize", SIZE>>
      BY <1>1, Zenon
    <2>2. fields[6 * k - 5][1] = "MDUpdateAction" /\ fields[6 * k - 5][2] = entries[k].action
      BY <2>1, Pair
    <2>3. fields[6 * k - 4][1] = "MDEntryID"
      BY <2>1, Pair
    <2>4. fields[6 * k - 3][1] = "MDEntryType" /\ fields[6 * k - 3][2] = entries[k].side
      BY <2>1, Pair
    <2>5. fields[6 * k - 2][1] = "Symbol"
      BY <2>1, Pair
    <2>6. fields[6 * k - 1][1] = "MDEntryPx" /\ fields[6 * k - 1][2] = entries[k].px
      BY <2>1, Pair
    <2>7. fields[6 * k][1] = "MDEntrySize"
      BY <2>1, Pair
    <2> QED  BY <2>2, <2>3, <2>4, <2>5, <2>6, <2>7
  <1>5. ASSUME NEW i \in E PROVE \E k \in C : i = 6 * k - 5
    <2>1. PICK k \in 1 .. N :
             i \in {6 * k - 5, 6 * k - 4, 6 * k - 3, 6 * k - 2, 6 * k - 1, 6 * k}
      BY <1>1
    <2>e. fields[i] = <<"MDUpdateAction", NEW_ENTRY>> /\ fields[i + 2][2] = side
      OBVIOUS
    <2>2. /\ fields[i][1] = "MDUpdateAction" /\ fields[i][2] = NEW_ENTRY
          /\ fields[i + 2][2] = side
      BY <2>e, Pair
    <2>3. /\ i # 6 * k - 4 /\ i # 6 * k - 3 /\ i # 6 * k - 2
          /\ i # 6 * k - 1 /\ i # 6 * k
      BY <1>t, <2>2
    <2>4. i = 6 * k - 5
      BY <2>1, <2>3
    <2>5. i + 2 = 6 * k - 3
      BY <2>4
    <2>6. entries[k].side = side /\ entries[k].action = NEW_ENTRY
      BY <1>t, <2>2, <2>4, <2>5, Zenon
    <2> QED  BY <1>4, <2>4, <2>6
  <1>6. ASSUME NEW k \in C PROVE 6 * k - 5 \in E
    <2>1. k \in 1 .. N /\ entries[k].side = side /\ entries[k].action = NEW_ENTRY
      BY <1>4
    <2>2. 6 * k - 5 \in 1 .. 6 * N /\ (6 * k - 5) + 2 = 6 * k - 3
      BY <2>1
    <2>3. fields[6 * k - 5] = <<"MDUpdateAction", NEW_ENTRY>>
      BY <1>1, <2>1, Zenon
    <2>4. fields[(6 * k - 5) + 2][2] = side
      BY <1>t, <2>1, <2>2, Zenon
    <2> QED  BY <1>1, <2>2, <2>3, <2>4, Zenon
  <1>e. E \in SUBSET Int
    BY <1>1
  <1> HIDE DEF E
  <1>7. ASSUME C = {} PROVE RefreshPrice(fields, side, old) = old
    <2>1. E = {}
      BY <1>5, <1>7
    <2> QED  BY <1>3, <2>1
  <1>8. ASSUME C # {} PROVE RefreshPrice(fields, side, old) = entries[Max(C)].px
    <2> DEFINE K == Max(C)
    <2>1. K \in C /\ \A k \in C : k <= K
      BY <1>4, <1>8, HasMax
    <2> HIDE DEF K
    <2>2. K \in 1 .. N
      BY <1>4, <2>1
    <2>3. Max(E) = 6 * K - 5
      <3>2. 6 * K - 5 \in E
        BY <1>6, <2>1
      <3>3. \A i \in E : i <= 6 * K - 5
        BY <1>4, <1>5, <2>1, <2>2
      <3> QED  BY <1>e, <3>2, <3>3, MaxIs
    <2>4. (6 * K - 5) + 4 = 6 * K - 1
      BY <2>2
    <2>5. fields[6 * K - 1][2] = entries[K].px
      BY <1>t, <2>2
    <2>6. E # {}
      BY <1>6, <2>1
    <2>7. RefreshPrice(fields, side, old) = fields[Max(E) + 4][2]
      BY <1>3, <2>6
    <2>8. fields[Max(E) + 4][2] = entries[K].px
      BY <2>3, <2>4, <2>5
    <2> QED  BY <2>7, <2>8 DEF K
  <1>9. RefreshPrice(fields, side, old) = LastTold(old, "refresh", entries, side)
    BY <1>2, <1>7, <1>8
  <1> QED  BY <1>9 DEF fields

\* For every message the array of fields holds, the handler keeps what LastTold says.
LEMMA BookIsTold ==
    ASSUME NEW book0, NEW kind \in {"snapshot", "refresh"}, NEW entries \in EntryLists
    PROVE  BookAfter(book0, kind, entries)
             = [bid |-> LastTold(book0.bid, kind, entries, BID),
                ask |-> LastTold(book0.ask, kind, entries, ASK)]
  <1>1. PICK N \in 1 .. MaxEntries : entries \in [1 .. N -> Entries]
    BY DEF EntryLists
  <1>2. N \in Nat
    BY <1>1, MarketAssumption
  <1>3. CASE kind = "snapshot"
    BY <1>1, <1>2, <1>3, SnapshotPriceIs DEF BookAfter, OnSnapshot
  <1>4. CASE kind = "refresh"
    BY <1>1, <1>2, <1>4, RefreshPriceIs DEF BookAfter, OnRefresh
  <1> QED  BY <1>3, <1>4

LEMMA LastToldType ==
    ASSUME NEW old, NEW kind, NEW entries \in EntryLists, NEW side
    PROVE  LastTold(old, kind, entries, side) \in Prices \cup {old}
  <1> DEFINE C == Counting(kind, entries, side)
  <1>1. PICK N \in 1 .. MaxEntries : entries \in [1 .. N -> Entries]
    BY DEF EntryLists
  <1>2. N \in Nat
    BY <1>1, MarketAssumption
  <1>3. C \in SUBSET (1 .. N)
    BY <1>1 DEF Counting
  <1>4. LastTold(old, kind, entries, side) = IF C = {} THEN old ELSE entries[Max(C)].px
    BY DEF LastTold, Counting
  <1> HIDE DEF C
  <1>5. C # {} => entries[Max(C)].px \in Prices
    BY <1>1, <1>2, <1>3, HasMax DEF Entries
  <1> QED  BY <1>4, <1>5
-----------------------------------------------------------------------------
(* The published prices.                                                   *)

\* What the market offices publish, keep and count.
MarketTyped ==
    /\ priceRing \in Rings(PriceEvent, Readers)
    /\ book \in [Offices -> Books]
    /\ sequence \in [Offices -> Nat]
    /\ streamed \in Seq(PriceEvent)

Own(o) == {n \in DOMAIN priceRing.log : priceRing.log[n].broker = o}

\* An office remembers what its broker told and has counted what it published, also
\* before the first price, of which PublishedAsTold says nothing.
Remembers == told = book /\ \A o \in Offices : sequence[o] = Cardinality(Own(o))

LastIsTold(o) ==
    Own(o) # {} => LET last == priceRing.log[Max(Own(o))]
                   IN  /\ last.bid = told[o].bid /\ last.ask = told[o].ask
                       /\ last.sequence = Cardinality(Own(o))

ToldInv == MarketTyped /\ Remembers /\ \A o \in Offices : LastIsTold(o)

LEMMA OwnIsFinite ==
    ASSUME MarketTyped, NEW o
    PROVE  /\ Own(o) \in SUBSET (1 .. Len(priceRing.log)) /\ IsFiniteSet(Own(o))
           /\ Cardinality(Own(o)) \in Nat
  <1>1. priceRing.log \in Seq(PriceEvent) /\ Len(priceRing.log) \in Nat
    BY DEF MarketTyped, Rings
  <1>2. Own(o) \in SUBSET (1 .. Len(priceRing.log))
    BY <1>1 DEF Own
  <1>3. IsFiniteSet(1 .. Len(priceRing.log))
    BY <1>1, FS_Interval
  <1>4. IsFiniteSet(Own(o))
    BY <1>2, <1>3, FS_Subset
  <1> QED  BY <1>2, <1>4, FS_CardinalityType

LEMMA InitTold == Init => ToldInv
  <1> SUFFICES ASSUME Init PROVE ToldInv
    OBVIOUS
  <1>1. priceRing = [log |-> << >>, seq |-> [c \in Readers |-> 0], gates |-> {}]
    BY DEF Init, NewRing
  <1>2. priceRing \in Rings(PriceEvent, Readers)
    BY <1>1 DEF Rings
  <1>3. NoBook \in Books
    BY DEF NoBook, Books
  <1>4. MarketTyped
    BY <1>2, <1>3 DEF Init, MarketTyped
  <1>5. \A o \in Offices : Own(o) = {}
    BY <1>1 DEF Own
  <1>6. Cardinality({}) = 0
    BY FS_EmptySet
  <1> QED  BY <1>4, <1>5, <1>6 DEF Init, ToldInv, Remembers, LastIsTold

\* Steps that publish nothing.
LEMMA NothingPublished ==
    ASSUME ToldInv, UNCHANGED marketVars, priceRing'.log = priceRing.log,
           priceRing' \in Rings(PriceEvent, Readers), streamed' \in Seq(PriceEvent)
    PROVE  ToldInv'
  <1>1. \A o : Own(o)' = Own(o)
    BY DEF Own
  <1>2. MarketTyped'
    BY DEF ToldInv, MarketTyped, marketVars
  <1>3. Remembers'
    BY <1>1 DEF ToldInv, Remembers, marketVars
  <1>4. \A o \in Offices : LastIsTold(o)'
    BY <1>1 DEF ToldInv, LastIsTold, marketVars
  <1> QED  BY <1>2, <1>3, <1>4 DEF ToldInv

LEMMA PollPriceTold ==
    ASSUME ToldInv, NEW o \in Offices, NEW kind \in {"snapshot", "refresh"},
           NEW entries \in EntryLists, PollPrice(o, kind, entries)
    PROVE  ToldInv'
  <1> DEFINE L == Len(priceRing.log)
             event == [broker |-> o, bid |-> book'[o].bid, ask |-> book'[o].ask,
                       sequence |-> sequence'[o]]
             now == BookAfter(book[o], kind, entries)
  <1>typed. MarketTyped
    BY DEF ToldInv
  <1>1. /\ book' = [book EXCEPT ![o] = now]
        /\ told' = [told EXCEPT ![o] = [bid |-> LastTold(told[o].bid, kind, entries, BID),
                                        ask |-> LastTold(told[o].ask, kind, entries, ASK)]]
        /\ sequence' = [sequence EXCEPT ![o] = sequence[o] + 1]
        /\ priceRing' = Publish(priceRing, event)
        /\ streamed' = streamed
    BY DEF PollPrice
  <1>2. now = [bid |-> LastTold(book[o].bid, kind, entries, BID),
               ask |-> LastTold(book[o].ask, kind, entries, ASK)]
    BY BookIsTold
  <1>3. now \in Books
    <2>1. book[o] \in Books
      BY <1>typed DEF MarketTyped
    <2>2. /\ book[o].bid \in Prices \cup {NoBid} /\ book[o].ask \in Prices \cup {NoAsk}
      BY <2>1 DEF Books
    <2>3. /\ LastTold(book[o].bid, kind, entries, BID) \in Prices \cup {book[o].bid}
          /\ LastTold(book[o].ask, kind, entries, ASK) \in Prices \cup {book[o].ask}
      BY LastToldType
    <2>4. /\ LastTold(book[o].bid, kind, entries, BID) \in Prices \cup {NoBid}
          /\ LastTold(book[o].ask, kind, entries, ASK) \in Prices \cup {NoAsk}
      BY <2>2, <2>3
    <2> QED  BY <1>2, <2>4 DEF Books
  <1> HIDE DEF now
  <1>4. told' = book' /\ book' \in [Offices -> Books] /\ book'[o] = now
    BY <1>1, <1>2, <1>3, <1>typed DEF ToldInv, Remembers, MarketTyped
  <1>5. sequence' \in [Offices -> Nat] /\ sequence'[o] = sequence[o] + 1
        /\ sequence'[o] \in Nat \ {0}
    BY <1>1, <1>typed DEF MarketTyped
  <1>6. event \in PriceEvent
    <2>1. book'[o].bid \in Prices \cup {NoBid} /\ book'[o].ask \in Prices \cup {NoAsk}
      BY <1>3, <1>4 DEF Books
    <2> QED  BY <2>1, <1>5 DEF PriceEvent
  <1>7. /\ event.broker = o /\ event.bid = told'[o].bid /\ event.ask = told'[o].ask
        /\ event.sequence = sequence[o] + 1
    BY <1>4, <1>5
  <1> HIDE DEF event
  <1>8. /\ priceRing' \in Rings(PriceEvent, Readers)
        /\ priceRing'.log = Append(priceRing.log, event)
    <2>1. priceRing \in Rings(PriceEvent, Readers)
      BY <1>typed DEF MarketTyped
    <2>2. /\ Publish(priceRing, event) \in Rings(PriceEvent, Readers)
          /\ Publish(priceRing, event).log = Append(priceRing.log, event)
      BY <1>6, <2>1, PublishFacts
    <2> QED  BY <1>1, <2>2
  <1>9. /\ L \in Nat /\ DOMAIN priceRing.log = 1 .. L
        /\ DOMAIN priceRing'.log = 1 .. L + 1
        /\ \A i \in 1 .. L : priceRing'.log[i] = priceRing.log[i]
        /\ priceRing'.log[L + 1] = event
    <2>1. priceRing.log \in Seq(PriceEvent)
      BY <1>typed DEF MarketTyped, Rings
    <2> QED  BY <1>6, <1>8, <2>1, AppendFacts
  <1> HIDE DEF L
  <1>10. MarketTyped'
    BY <1>1, <1>4, <1>5, <1>8, <1>typed DEF MarketTyped
  <1>11. Own(o)' = Own(o) \cup {L + 1} /\ L + 1 \notin Own(o)
    BY <1>7, <1>9 DEF Own
  <1>12. \A p \in Offices \ {o} : Own(p)' = Own(p)
    BY <1>7, <1>9 DEF Own
  <1>13. Cardinality(Own(o)') = sequence[o] + 1
    <2>1. IsFiniteSet(Own(o)) /\ Cardinality(Own(o)) = sequence[o]
      BY <1>typed, OwnIsFinite DEF ToldInv, Remembers
    <2> QED  BY <1>11, <2>1, FS_AddElement
  <1>14. Remembers'
    <2>1. \A p \in Offices \ {o} : sequence'[p] = sequence[p]
      BY <1>1, <1>typed DEF MarketTyped
    <2>2. \A p \in Offices \ {o} : sequence'[p] = Cardinality(Own(p)')
      BY <1>12, <2>1 DEF ToldInv, Remembers
    <2> QED  BY <1>4, <1>5, <1>13, <2>2 DEF Remembers
  <1>15. LastIsTold(o)'
    <2>1. Own(o)' \in SUBSET Int /\ L + 1 \in Own(o)' /\ \A y \in Own(o)' : y <= L + 1
      BY <1>9, <1>11, <1>typed, OwnIsFinite DEF L
    <2>2. Max(Own(o)') = L + 1
      BY <2>1, MaxIs
    <2> QED  BY <1>7, <1>9, <1>13, <2>2 DEF LastIsTold
  <1>16. ASSUME NEW p \in Offices \ {o}, Own(p)' # {} PROVE LastIsTold(p)'
    <2>1. Own(p)' = Own(p) /\ Own(p) \in SUBSET (1 .. L)
      BY <1>12, <1>typed, OwnIsFinite DEF L
    <2>2. Max(Own(p)) \in 1 .. L
      BY <1>9, <1>16, <2>1, HasMax
    <2>3. priceRing'.log[Max(Own(p))] = priceRing.log[Max(Own(p))] /\ told'[p] = told[p]
      BY <1>1, <1>9, <2>2, <1>typed DEF ToldInv, Remembers, MarketTyped
    <2>4. LastIsTold(p)
      BY DEF ToldInv
    <2> QED  BY <1>16, <2>1, <2>3, <2>4 DEF LastIsTold
  <1>17. \A p \in Offices : LastIsTold(p)'
    BY <1>15, <1>16 DEF LastIsTold
  <1> QED  BY <1>10, <1>14, <1>17 DEF ToldInv

LEMMA StepTold == ToldInv /\ [Next]_vars => ToldInv'
  <1> SUFFICES ASSUME ToldInv, [Next]_vars PROVE ToldInv'
    OBVIOUS
  <1>typed. priceRing \in Rings(PriceEvent, Readers) /\ streamed \in Seq(PriceEvent)
    BY DEF ToldInv, MarketTyped
  <1>0. CASE UNCHANGED <<marketVars, priceRing, streamed>>
    BY <1>0, <1>typed, NothingPublished
  <1>1. CASE MainStep \/ NatsReconnects \/ UNCHANGED vars
    BY <1>1, <1>0 DEF MainStep, StartRound, Watch, Join, Rested, NatsReconnects, vars
  <1>2. CASE ThreadStep
    <2>1. ASSUME NEW o \in Offices,
                 \/ LookupFails(o) \/ \E isLeaked \in BOOLEAN : AddressFails(o, isLeaked)
                 \/ InitiateMarket(o) \/ PollNoPrice(o) \/ PollThrows(o) \/ TerminateMarket(o)
          PROVE  ToldInv'
      BY <2>1, <1>0 DEF LookupFails, AddressFails, InitiateMarket, PollNoPrice, PollThrows,
                        TerminateMarket
    <2>2. CASE InitiateStream
      <3>1. priceRing' = AddGate(priceRing, STREAM) /\ UNCHANGED <<marketVars, streamed>>
        BY <2>2 DEF InitiateStream
      <3>2. priceRing' \in Rings(PriceEvent, Readers) /\ priceRing'.log = priceRing.log
        BY <1>typed, <3>1, AddGateFacts DEF Readers
      <3> QED  BY <1>typed, <3>1, <3>2, NothingPublished
    <2>3. CASE TestRunning
      BY <2>3, <1>0 DEF TestRunning
    <2>4. CASE TerminateStream
      <3>1. CASE priceRing' = RemoveGate(priceRing, STREAM)
        <4>1. priceRing' \in Rings(PriceEvent, Readers) /\ priceRing'.log = priceRing.log
          BY <1>typed, <3>1, RemoveGateFacts
        <4> QED  BY <2>4, <1>typed, <4>1, NothingPublished DEF TerminateStream
      <3>2. CASE UNCHANGED priceRing
        BY <2>4, <3>2, <1>0 DEF TerminateStream
      <3> QED  BY <2>4, <3>1, <3>2 DEF TerminateStream
    <2>5. ASSUME NEW n \in 0 .. Len(priceRing.log), PollStream(n) PROVE ToldInv'
      <3>1. /\ priceRing' = ConsumeTo(priceRing, STREAM, n) /\ UNCHANGED marketVars
            /\ streamed' = streamed \o SubSeq(priceRing.log, priceRing.seq[STREAM] + 1, n)
        BY <2>5 DEF PollStream, PassOn
      <3>2. n \in Nat
        OBVIOUS
      <3>3. priceRing' \in Rings(PriceEvent, Readers) /\ priceRing'.log = priceRing.log
        <4>1. STREAM \in Readers
          BY DEF Readers
        <4>2. /\ ConsumeTo(priceRing, STREAM, n) \in Rings(PriceEvent, Readers)
              /\ ConsumeTo(priceRing, STREAM, n).log = priceRing.log
          BY <1>typed, <3>2, <4>1, ConsumeToFacts
        <4> QED  BY <3>1, <4>2
      <3>4. priceRing.log \in Seq(PriceEvent) /\ priceRing.seq[STREAM] \in Nat
        BY <1>typed DEF Rings, Readers
      <3>5. SubSeq(priceRing.log, priceRing.seq[STREAM] + 1, n) \in Seq(PriceEvent)
        BY <3>4
      <3>6. streamed' \in Seq(PriceEvent)
        BY <1>typed, <3>1, <3>5
      <3> QED  BY <3>1, <3>3, <3>6, NothingPublished
    <2>6. ASSUME NEW o \in Offices, NEW kind \in {"snapshot", "refresh"},
                 NEW entries \in EntryLists, PollPrice(o, kind, entries)
          PROVE  ToldInv'
      BY <2>6, PollPriceTold
    <2> QED  BY <1>2, <2>1, <2>2, <2>3, <2>4, <2>5, <2>6 DEF ThreadStep
  <1> QED  BY <1>1, <1>2 DEF Next, Ended

\* Every price carries the last new bid and ask that its broker told, in messages of
\* as many entries as the array of fields holds (m_onMessageHandler of the market
\* office, fix_message.c:572-582).
THEOREM PublishedAsToldHolds == Spec => []PublishedAsTold
  <1>1. ToldInv => PublishedAsTold
    BY DEF ToldInv, LastIsTold, PublishedAsTold, Own
  <1> QED  BY <1>1, InitTold, StepTold, PTL DEF Spec

\* The states of main() and of the connection to NATS.
ControlTyped ==
    /\ mainPc \in {"start", "watch", "join", "rest"}
    /\ isRunning \in BOOLEAN
    /\ nats \in {"null", "live", "dangling"}
    /\ round \in Nat

LEMMA StepControl == ControlTyped /\ [Next]_vars => ControlTyped'
  <1> SUFFICES ASSUME ControlTyped, [Next]_vars PROVE ControlTyped'
    OBVIOUS
  <1>1. CASE MainStep
    BY <1>1 DEF MainStep, StartRound, Watch, Join, Rested, ControlTyped
  <1>2. CASE ThreadStep
    <2>1. ASSUME NEW o \in Offices,
                 \/ LookupFails(o) \/ \E isLeaked \in BOOLEAN : AddressFails(o, isLeaked)
                 \/ InitiateMarket(o)
          PROVE  ControlTyped'
      BY <2>1 DEF LookupFails, AddressFails, InitiateMarket, Throw, ControlTyped
    <2>2. ASSUME NEW o \in Offices, PollNoPrice(o) \/ PollThrows(o) \/ TerminateMarket(o)
          PROVE  ControlTyped'
      BY <2>2 DEF PollNoPrice, PollThrows, TerminateMarket, Throw, ControlTyped
    <2>3. ASSUME NEW o \in Offices, NEW kind, NEW entries, PollPrice(o, kind, entries)
          PROVE  ControlTyped'
      BY <2>3 DEF PollPrice, ControlTyped
    <2>4. CASE InitiateStream \/ TestRunning
      BY <2>4 DEF InitiateStream, ConnectNats, TestRunning, Throw, ControlTyped
    <2>5. CASE TerminateStream
      BY <2>5 DEF TerminateStream, DestroyNats, ControlTyped
    <2>6. ASSUME NEW n, PollStream(n) PROVE ControlTyped'
      BY <2>6 DEF PollStream, PassOn, Throw, ControlTyped
    <2> QED  BY <1>2, <2>1, <2>2, <2>3, <2>4, <2>5, <2>6 DEF ThreadStep
  <1>3. CASE NatsReconnects \/ UNCHANGED vars
    BY <1>3 DEF NatsReconnects, vars, ControlTyped
  <1> QED  BY <1>1, <1>2, <1>3 DEF Next, Ended

\* Every variable keeps its type: a price that is published or streamed has the number
\* of an office and the prices of its broker.
THEOREM TypeCorrect == Spec => []TypeOK
  <1>1. Init => ControlTyped
    BY DEF Init, ControlTyped
  <1>2. OwnerInv /\ ToldInv /\ ControlTyped => TypeOK
    BY DEF OwnerInv, Shape, FilesShape, ToldInv, MarketTyped, Remembers, ControlTyped, TypeOK
  <1> QED
    BY <1>1, <1>2, InitOwners, StepOwners, InitTold, StepTold, StepControl, PTL DEF Spec
=============================================================================
