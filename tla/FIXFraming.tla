---------------------------- MODULE FIXFraming ----------------------------
(* How messages are cut out of the stream of bytes of a FIX session: the   *)
(* receive buffer and the parser of libtrading.  The peer's encoder and    *)
(* the connection, which hands over the stream in pieces of any size, run  *)
(* beside them; a message may be damaged in one place on its way.          *)
(*                                                                         *)
(* A field "tag=value<SOH>" is two symbols: the tag with its '=', and the  *)
(* value with its delimiter.  Sizes and positions count symbols.           *)
EXTENDS Naturals, Sequences, SequencesExt

CONSTANTS Capacity,     \* RECV_BUFFER_SIZE
          MaxMessage,   \* FIX_MAX_MESSAGE_SIZE
          Kinds,        \* the messages the peer sends: their type, and how
                        \* many fields they have beyond it and the number
          KnownTypes,   \* the types fix_msg_type_parse knows
          Changes,      \* bound on what a number may be changed to on its way,
          MaxSent,      \* on the messages of the peer,
          MaxGarbled    \* and on the damaged ones

FIX_MAX_FIELD_NUMBER == 48   \* the fields of a message there is an array for

ASSUME FramingAssumption ==
    /\ {Capacity, MaxMessage, MaxGarbled} \subseteq Nat
    \* A changed byte changes the sum, so what may change is less than its modulus.
    /\ MaxSent \in 0 .. 255 /\ Changes \subseteq 0 .. 255
    /\ Kinds \subseteq [type : 0 .. 255, extra : Nat] /\ KnownTypes \subseteq Nat
    \* No tag of two digits becomes an 8 by the change of one; that the 9 does is left out.
    /\ 8 \notin Changes
    \* The parser passes over longer bodies.
    /\ \A kind \in Kinds : 4 + 2 * kind.extra <= MaxMessage
    \* It stores the fields without a look at the array's size, and more of them
    \* overflow it (fix_message.c:572-582).
    /\ \A kind \in Kinds : kind.extra <= FIX_MAX_FIELD_NUMBER
    \* The buffer holds two messages, and fields whose ends were lost besides.
    /\ Capacity > 2 * MaxMessage + 17

VARIABLES sent,        \* history: the peer's messages and what happened to them
          wire,        \* the symbols that have not arrived
          rx,          \* rx_buffer: its start, and what is unread from there
          delivered,   \* the messages fix_session_recv returned
          split        \* history: the messages that came in two pieces which
                       \* were cut inside the last field

vars == <<sent, wire, rx, delivered, split>>

Types == {kind.type : kind \in Kinds}

\* The tags.
BeginString == 8
BodyLength == 9
CheckSum == 10
MsgSeqNum == 34
MsgType == 35
Text == 58

\* Junk is a symbol whose '=' or delimiter was lost.
Symbol == [half : {"tag", "value", "junk"}, is : Nat]
\* A message is of a type the parser does not know, or damaged somewhere, in its
\* body length, or in a delimiter of its last field.
Harms == {"none", "unknown", "damaged", "length", "joined"}

TypeOK ==
    /\ sent \in Seq([type : Types, harm : Harms, end : Nat])
    /\ wire \in Seq(Symbol)
    /\ rx.start \in Nat /\ rx.unread \in Seq(Symbol)
    /\ rx.start + Len(rx.unread) <= Capacity
    /\ delivered \in Seq([seq : Nat, type : Nat])
    /\ split \subseteq DOMAIN sent

Init ==
    /\ sent = << >> /\ wire = << >>
    /\ rx = [start |-> 0, unread |-> << >>]
    /\ delivered = << >> /\ split = {}

-----------------------------------------------------------------------------
(* The format, and its parser.                                             *)

\* A symbol that was changed counts differently, as a byte that was does.
Weight(symbol) ==
    3 * symbol.is + CASE symbol.half = "tag" -> 0
                      [] symbol.half = "value" -> 1
                      [] symbol.half = "junk" -> 2
Sum(s) ==
    LET sum[n \in 0 .. Len(s)] == IF n = 0 THEN 0 ELSE sum[n - 1] + Weight(s[n])
    IN  sum[Len(s)] % 256

Field(tag, value) ==
    <<[half |-> "tag", is |-> tag], [half |-> "value", is |-> value]>>

\* fix_message_unparse.
Message(kind, seq) ==
    LET body == Field(MsgType, kind.type) \o Field(MsgSeqNum, seq)
                \o [i \in 1 .. 2 * kind.extra |-> Field(Text, 0)[2 - (i % 2)]]
        head == Field(BeginString, 44) \o Field(BodyLength, Len(body))
    IN  head \o body \o Field(CheckSum, Sum(head \o body))

\* buffer_find: the first such symbol from there, or 0.
Find(s, half, from) ==
    SelectInSubSeq(s, from, Len(s), LAMBDA symbol : symbol.half = half)

Partial == [state |-> "partial", at |-> 0]
Garbled(at) == [state |-> "garbled", at |-> at]
Found(at) == [state |-> "found", at |-> at]

\* The position next_tag goes on from: the one after the field, or the end of
\* the buffer if the delimiter has not come.
MutNextTag(s, from) ==
    LET end == Find(s, "tag", from + 1)
    IN  IF end = 0 THEN Len(s) + 1 ELSE end + 1
NextTag(s, from) ==
    LET end == Find(s, "value", from)
    IN  IF end = 0 THEN Len(s) + 1 ELSE end + 1

ParseValue(s, at) ==
    LET end == Find(s, "value", at) IN IF end = 0 THEN Partial ELSE Found(end + 1)

MatchField(s, from, tag) ==
    LET delim == Find(s, "tag", from)
    IN  CASE delim = 0 -> Partial
          [] delim > from \/ (delim = from /\ s[delim].is # tag) ->
               Garbled(NextTag(s, delim))
          [] OTHER -> ParseValue(s, delim)

\* What fix_uatoi reads of the value of the field at a position.
ValueAt(s, at) == s[at + 1].is

\* What follows a field that was found, at the position after it.
Then(field, Next(_)) == IF field.state = "found" THEN Next(field.at) ELSE field

ParseBodyLength(s, at) ==
    Then(MatchField(s, at, BodyLength), LAMBDA next :
        IF ValueAt(s, at) \in 1 .. MaxMessage THEN Found(next) ELSE Garbled(next))

ParseMsgType(s, at) ==
    Then(MatchField(s, at, MsgType), LAMBDA next :
        IF ValueAt(s, at) \in KnownTypes THEN Found(next) ELSE Garbled(next))

MutSumVerified(s, from, sumAt) == TRUE
SumVerified(s, from, sumAt) == ValueAt(s, sumAt) = Sum(SubSeq(s, from, sumAt - 1))

CheckedSum(s, from, sumAt) ==
    IF Len(s) + 1 < sumAt + 2 THEN Partial
    ELSE Then(MatchField(s, sumAt, CheckSum), LAMBDA next :
             IF SumVerified(s, from, sumAt) THEN Found(next) ELSE Garbled(next))

\* first_three_fields and checksum, from a position on: the position of the type.
Attempt(s, from) ==
    Then(MatchField(s, from, BeginString), LAMBDA lengthAt :
    Then(ParseBodyLength(s, lengthAt), LAMBDA typeAt :
    Then(ParseMsgType(s, typeAt), LAMBDA restAt :
    Then(CheckedSum(s, from, typeAt + ValueAt(s, lengthAt)), LAMBDA end : Found(typeAt)))))

\* rest_of_message, from the type on: the message, and the position after its
\* check sum.  A message whose sum is right has no field that does not parse.
RestOfMessage(s, from) ==
    LET sumAt == SelectInSubSeq(s, from, Len(s), LAMBDA x : x = Field(CheckSum, 0)[1])
        seqAt == SelectInSubSeq(s, from, sumAt - 1, LAMBDA x : x = Field(MsgSeqNum, 0)[1])
    IN  [state |-> "found", at |-> NextTag(s, sumAt),
         msg |-> [seq |-> ValueAt(s, seqAt), type |-> ValueAt(s, from)]]

\* fix_message_parse: what is garbled is passed over, what is partial stays.
Parse(s) ==
    LET parse[from \in 1 .. Len(s) + 1] ==
            IF from > Len(s) THEN [state |-> "partial", at |-> from]
            ELSE LET attempt == Attempt(s, from)
                 IN  CASE attempt.state = "garbled" -> parse[attempt.at]
                       [] attempt.state = "partial" -> [state |-> "partial", at |-> from]
                       [] attempt.state = "found" -> RestOfMessage(s, attempt.at)
    IN  parse[1]

-----------------------------------------------------------------------------
(* The receive buffer, and fix_session_recv.                               *)

Advance(buffer, n) ==
    [start |-> buffer.start + n, unread |-> SubSeq(buffer.unread, n + 1, Len(buffer.unread))]
Remaining(buffer) == Capacity - (buffer.start + Len(buffer.unread))

MutFull(buffer) == Remaining(buffer) < MaxMessage
Full(buffer) == Remaining(buffer) <= MaxMessage
Compact(buffer) == IF Full(buffer) THEN [buffer EXCEPT !.start = 0] ELSE buffer

\* How much may be received.
MutRoom(buffer) == Capacity - MaxMessage
Room(buffer) ==
    IF Remaining(buffer) > MaxMessage THEN Remaining(buffer) - MaxMessage ELSE 0

\* The buffer after the parser has been over it.
Parsed(buffer, parse) == Advance(buffer, parse.at - 1)
Deliver(parse) == delivered' = Append(delivered, parse.msg)

\* Where message k ends in the stream, and how many symbols come after it.
EndOf(k) == IF k = 0 THEN 0 ELSE sent[k].end
LeftAfter(k) == EndOf(Len(sent)) - EndOf(k)

RecvBuffered ==
    /\ LET parse == Parse(rx.unread)
       IN  /\ parse.state = "found"
           /\ Deliver(parse) /\ rx' = Parsed(rx, parse)
    /\ UNCHANGED <<sent, wire, split>>

\* Nothing was in the buffer: some of what has come is received and parsed.
RecvInto(buffer) ==
    \E n \in 1 .. Room(buffer) :
        /\ n <= Len(wire)
        /\ wire' = SubSeq(wire, n + 1, Len(wire))
        /\ LET received == [buffer EXCEPT !.unread = @ \o SubSeq(wire, 1, n)]
               parse == Parse(received.unread)
           IN  /\ rx' = Parsed(received, parse)
               /\ \/ parse.state = "found" /\ Deliver(parse)
                  \/ parse.state = "partial" /\ UNCHANGED delivered

\* Nothing was in the buffer: some of what has come is received and parsed.
RecvArrived ==
    /\ LET parse == Parse(rx.unread)
       IN  parse.state = "partial" /\ RecvInto(Compact(Parsed(rx, parse)))
    /\ split' = split \cup {k \in DOMAIN sent : Len(wire') = LeftAfter(k) + 1}
    /\ UNCHANGED sent

-----------------------------------------------------------------------------
(* The peer and the connection.                                            *)

Damaged == {k \in DOMAIN sent : sent[k].harm \notin {"none", "unknown"}}

Puts(message, type, harm) ==
    /\ wire' = wire \o message
    /\ sent' = Append(sent, [type |-> type, harm |-> harm,
                             end |-> EndOf(Len(sent)) + Len(message)])
    /\ UNCHANGED <<rx, delivered, split>>

PeerSends(kind) ==
    /\ Len(sent) < MaxSent
    /\ Puts(Message(kind, Len(sent) + 1), kind.type,
            IF kind.type \in KnownTypes THEN "none" ELSE "unknown")

\* One symbol is changed: it has another number, or has lost its end.
Garble(kind) ==
    /\ Len(sent) < MaxSent /\ Cardinality(Damaged) < MaxGarbled
    /\ LET message == Message(kind, Len(sent) + 1)
       IN  \E i \in DOMAIN message :
             \/ Puts([message EXCEPT ![i].half = "junk"], kind.type,
                     IF i >= Len(message) - 1 THEN "joined" ELSE "damaged")
             \/ \E n \in Changes \ {message[i].is} :
                   Puts([message EXCEPT ![i].is = n], kind.type,
                        IF i = 4 THEN "length" ELSE "damaged")

\* The parser has found nothing (more), and the session waits.
Waiting == Parse(rx.unread).state = "partial"

\* Everything was sent and read.
Ended ==
    /\ Len(sent) = MaxSent /\ wire = << >> /\ Waiting
    /\ UNCHANGED vars

Next ==
    \/ RecvBuffered \/ RecvArrived
    \/ \E kind \in Kinds : PeerSends(kind) \/ Garble(kind)
    \/ Ended

Spec == Init /\ [][Next]_vars

-----------------------------------------------------------------------------
(* Properties                                                              *)

\* However the stream is cut, messages are delivered in the order they were sent,
\* at most once and as they were sent, and what is missing is missing from a
\* damaged message on (fix_message_parse): the channel FIXSession counts on.
Channel ==
    INSTANCE MessageChannel WITH
        sent <- [k \in DOMAIN sent |-> [type |-> sent[k].type, harm |-> sent[k].harm]]
ChannelSpec == Channel!Spec

\* With nothing to parse, the buffer has room for more, however the pieces fell
\* (fix_session_recv, buffer_compact): a session never stops reading.
CanReceive ==
    LET parse == Parse(rx.unread)
    IN  parse.state = "partial" => Room(Compact(Parsed(rx, parse))) > 0

Delivered(k) == \E i \in DOMAIN delivered : delivered[i].seq = k

\* The parser does not see the BeginString of message k: the last field of the one
\* before it has lost a delimiter, or that one was passed over and cut inside its
\* last field, so that the rest of that field and the BeginString look like one.
Hidden(k) ==
    k > 1 /\ \/ sent[k - 1].harm = "joined"
             \/ k - 1 \in split /\ ~Delivered(k - 1)

\* A sound message is read as soon as it has arrived, without waiting for another,
\* unless its start is hidden or a length before it was changed: when the parser
\* asks for more, nothing is held back.
NothingHeldBack ==
    (wire = << >> /\ Waiting) =>
        \A k \in DOMAIN sent :
            \/ Delivered(k) \/ Hidden(k)
            \/ sent[k].harm # "none" \/ \E j \in 1 .. k : sent[j].harm = "length"
=============================================================================
