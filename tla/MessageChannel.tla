-------------------------- MODULE MessageChannel --------------------------
(* What a FIX session needs of the channel below it: messages come in the  *)
(* order they were sent, each at most once and as it was sent; a message   *)
(* may be missing only from a damaged one on.                              *)
EXTENDS Naturals, Sequences

CONSTANTS Types,       \* the types of messages
          Harms        \* what may have happened to a message, "none" if nothing

VARIABLES sent,        \* the log of messages, each with what happened to it,
          delivered    \* and the ones that were read: their number and type

Read == IF delivered = << >> THEN 0 ELSE delivered[Len(delivered)].seq

Init == sent = << >> /\ delivered = << >>

Send ==
    /\ \E type \in Types, harm \in Harms :
          sent' = Append(sent, [type |-> type, harm |-> harm])
    /\ UNCHANGED delivered

\* The next message, or one that follows a damaged message with none between
\* them that was read.
Deliver ==
    /\ \E k \in Read + 1 .. Len(sent) :
          /\ k > Read + 1 => \E j \in {Read, Read + 1} \ {0} : sent[j].harm # "none"
          /\ delivered' = Append(delivered, [seq |-> k, type |-> sent[k].type])
    /\ UNCHANGED sent

Next == Send \/ Deliver

Spec == Init /\ [][Next]_<<sent, delivered>>
=============================================================================
