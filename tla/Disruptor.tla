----------------------------- MODULE Disruptor -----------------------------
(* The ring buffer library the offices exchange events through, modelled   *)
(* from how the code uses it: createMultiProducer, newPoller,              *)
(* addGatingSequences, removeGatingSequence, next/publish and poll.        *)
(*                                                                         *)
(* A ring keeps the whole log of what was published and, per consumer, the *)
(* sequence of its poller (the number of events it has consumed).  The     *)
(* slots that a real ring reuses are the ones every gating consumer has    *)
(* passed, so the size of the ring appears only in HasRoom: next() spins   *)
(* until the slowest gating sequence is less than size events behind, and  *)
(* never waits while no sequence gates.                                    *)
(*                                                                         *)
(* next() and publish() are one step here.  Two producers may claim slots  *)
(* in one order and publish in the other, but a poller stops at the first  *)
(* unpublished slot, so what it sees is the log in claim order.            *)
EXTENDS Naturals, Sequences

NewRing(consumers) ==
    [log |-> << >>, seq |-> [c \in consumers |-> 0], gates |-> {}]

Rings(Event, consumers) ==
    [log : Seq(Event), seq : [consumers -> Nat], gates : SUBSET consumers]

Unread(ring, c) == Len(ring.log) - ring.seq[c]

HasRoom(ring, size) == \A c \in ring.gates : Unread(ring, c) < size

Publish(ring, event) == [ring EXCEPT !.log = Append(@, event)]

\* addGatingSequences moves the new sequence to the cursor: what was
\* published before is never delivered to this consumer.
AddGate(ring, c) ==
    [ring EXCEPT !.seq[c] = Len(ring.log), !.gates = @ \cup {c}]

RemoveGate(ring, c) == [ring EXCEPT !.gates = @ \ {c}]

\* poll() stores the poller's sequence once, at the end of the batch.
ConsumeTo(ring, c, n) == [ring EXCEPT !.seq[c] = n]
=============================================================================
