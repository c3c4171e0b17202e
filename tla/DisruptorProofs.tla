-------------------------- MODULE DisruptorProofs --------------------------
(* What each ring operation does to the parts of a ring, for every set of  *)
(* events and of consumers.                                                *)
EXTENDS Disruptor, TLAPS

\* Publishing appends one event and moves no consumer.
LEMMA PublishFacts ==
    ASSUME NEW Event, NEW C, NEW ring \in Rings(Event, C), NEW e \in Event
    PROVE  /\ Publish(ring, e) \in Rings(Event, C)
           /\ Publish(ring, e).log = Append(ring.log, e)
           /\ Publish(ring, e).seq = ring.seq
           /\ Publish(ring, e).gates = ring.gates
  <1>1. ring.log \in Seq(Event) /\ Append(ring.log, e) \in Seq(Event)
    BY DEF Rings
  <1> QED  BY <1>1 DEF Rings, Publish

\* Attaching a consumer publishes nothing.
LEMMA AddGateFacts ==
    ASSUME NEW Event, NEW C, NEW ring \in Rings(Event, C), NEW c \in C
    PROVE  /\ AddGate(ring, c) \in Rings(Event, C)
           /\ AddGate(ring, c).log = ring.log
  <1>1. Len(ring.log) \in Nat
    BY DEF Rings
  <1> QED  BY <1>1 DEF Rings, AddGate

\* Detaching a consumer changes neither the log nor any position.
LEMMA RemoveGateFacts ==
    ASSUME NEW Event, NEW C, NEW ring \in Rings(Event, C), NEW c
    PROVE  /\ RemoveGate(ring, c) \in Rings(Event, C)
           /\ RemoveGate(ring, c).log = ring.log
           /\ RemoveGate(ring, c).seq = ring.seq
  BY DEF Rings, RemoveGate

\* Consuming publishes nothing and keeps the consumers attached.
LEMMA ConsumeToFacts ==
    ASSUME NEW Event, NEW C, NEW ring \in Rings(Event, C), NEW c \in C,
           NEW n \in Nat
    PROVE  /\ ConsumeTo(ring, c, n) \in Rings(Event, C)
           /\ ConsumeTo(ring, c, n).log = ring.log
           /\ ConsumeTo(ring, c, n).gates = ring.gates
  BY DEF Rings, ConsumeTo

\* An appended sequence holds the old elements and, last, the new one.
LEMMA AppendFacts ==
    ASSUME NEW S, NEW s \in Seq(S), NEW e \in S
    PROVE  /\ Append(s, e) \in Seq(S)
           /\ Len(s) \in Nat
           /\ Len(Append(s, e)) = Len(s) + 1
           /\ DOMAIN s = 1 .. Len(s)
           /\ DOMAIN Append(s, e) = 1 .. (Len(s) + 1)
           /\ \A i \in 1 .. Len(s) : Append(s, e)[i] = s[i] /\ s[i] \in S
           /\ Append(s, e)[Len(s) + 1] = e
  OBVIOUS
=============================================================================
