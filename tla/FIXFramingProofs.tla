-------------------------- MODULE FIXFramingProofs --------------------------
(* What holds of the receive buffer and the parser for every size of the   *)
(* buffer and of the messages, however the stream is cut and whatever is   *)
(* damaged: the buffer holds what was received and never fills up, the     *)
(* whole is the channel that a session needs, and no sound message waits   *)
(* for another to be read.                                                 *)
EXTENDS FIXFraming, SequenceTheorems, WellFoundedInduction, TLAPS

-----------------------------------------------------------------------------
(* Searching.                                                              *)

\* The types are numbers of one byte.
LEMMA TypesNumbers == Types \subseteq Nat
  <1>1. Kinds \subseteq [type : 0 .. 255, extra : Nat]
    BY FramingAssumption, Zenon
  <1>2. \A kind \in Kinds : kind.type \in 0 .. 255
    BY <1>1
  <1>3. 0 .. 255 \subseteq Nat
    OBVIOUS
  <1> QED  BY <1>2, <1>3, Zenon DEF Types

LEMMA LeastNumber ==
    ASSUME NEW I \in SUBSET Nat, I # {}
    PROVE  Min(I) \in I /\ \A n \in I : Min(I) <= n
  <1>1. PICK k \in I : \A n \in I : <<n, k>> \notin OpToRel(<, Nat)
    BY NatLessThanWellFounded, WFMin
  <1>2. ASSUME NEW n \in I PROVE k <= n
    <2>1. n \in Nat /\ k \in Nat /\ <<n, k>> \in Nat \X Nat
      OBVIOUS
    <2>2. ~(n < k)
      BY <1>1, <2>1 DEF OpToRel
    <2> QED  BY <2>1, <2>2
  <1> QED  BY <1>2 DEF Min

\* Position k of s is the first from a position on of that half, and 0 says that there is none.
First(s, half, from, k) ==
    \/ k = 0 /\ \A i \in from .. Len(s) : s[i].half # half
    \/ /\ k \in from .. Len(s) /\ s[k].half = half
       /\ \A i \in from .. k - 1 : s[i].half # half

LEMMA FindFacts ==
    ASSUME NEW s \in Seq(Symbol), NEW half, NEW from \in Nat \ {0}
    PROVE  First(s, half, from, Find(s, half, from))
  <1> DEFINE I == {i \in from .. Len(s) : s[i].half = half}
  <1>1. I \in SUBSET Nat
    OBVIOUS
  <1>2. Find(s, half, from) = IF I # {} THEN Min(I) ELSE 0
    BY DEF Find, SelectInSubSeq
  <1>3. CASE I = {}
    BY <1>2, <1>3 DEF First
  <1>4. CASE I # {}
    <2>1. Min(I) \in I /\ \A n \in I : Min(I) <= n
      BY <1>1, <1>4, LeastNumber
    <2> DEFINE k == Find(s, half, from)
    <2>2. k \in I /\ \A n \in I : k <= n
      BY <1>2, <1>4, <2>1
    <2> HIDE DEF k
    <2>3. k \in from .. Len(s) /\ s[k].half = half
      BY <2>2
    <2>4. ASSUME NEW i \in from .. k - 1 PROVE s[i].half # half
      BY <2>2, <2>3
    <2>5. First(s, half, from, k)
      BY <2>3, <2>4 DEF First
    <2> QED  BY <2>5 DEF k
  <1> QED  BY <1>3, <1>4

LEMMA NextTagFacts ==
    ASSUME NEW s \in Seq(Symbol), NEW from \in Nat \ {0}, from <= Len(s)
    PROVE  NextTag(s, from) \in from + 1 .. Len(s) + 1
  <1>1. First(s, "value", from, Find(s, "value", from))
    BY FindFacts
  <1> QED  BY <1>1 DEF NextTag, First

LEMMA ParseValueFacts ==
    ASSUME NEW s \in Seq(Symbol), NEW at \in Nat \ {0}
    PROVE  \/ ParseValue(s, at) = Partial /\ \A i \in at .. Len(s) : s[i].half # "value"
           \/ \E end \in at .. Len(s) :
                /\ ParseValue(s, at) = Found(end + 1) /\ s[end].half = "value"
                /\ \A i \in at .. end - 1 : s[i].half # "value"
                /\ NextTag(s, at) = end + 1
  <1>1. First(s, "value", at, Find(s, "value", at))
    BY FindFacts
  <1> QED  BY <1>1 DEF ParseValue, NextTag, First

-----------------------------------------------------------------------------
(* Fields.                                                                 *)

\* None of that half from a position on.
Lacks(s, half, from) == \A i \in from .. Len(s) : s[i].half # half

\* The field at a position has this tag, and ends before the position at.
FieldAt(s, from, tag, at) ==
    /\ from + 1 <= Len(s) /\ s[from] = [half |-> "tag", is |-> tag]
    /\ at \in from + 2 .. Len(s) + 1 /\ s[at - 1].half = "value"
    /\ \A i \in from .. at - 2 : s[i].half # "value"

\* The parser asks for more where s has no field from a position on, as it lacks a tag or
\* the end of a value.
Starved(s, from) == Lacks(s, "tag", from) \/ Lacks(s, "value", from)

\* The first field from a position on ends before the position at, or has not come whole.
Passes(s, from, at) ==
    \E d \in from .. Len(s) :
       /\ s[d].half = "tag" /\ \A i \in from .. d - 1 : s[i].half # "tag"
       /\ at = NextTag(s, d)

LEMMA MatchFieldFacts ==
    ASSUME NEW s \in Seq(Symbol), NEW from \in Nat \ {0}, NEW tag
    PROVE  \/ MatchField(s, from, tag) = Partial /\ Starved(s, from)
           \/ \E at \in from + 1 .. Len(s) + 1 :
                 MatchField(s, from, tag) = Garbled(at) /\ Passes(s, from, at)
           \/ \E at \in from + 2 .. Len(s) + 1 :
                 /\ MatchField(s, from, tag) = Found(at) /\ FieldAt(s, from, tag, at)
                 /\ Passes(s, from, at)
  <1> DEFINE delim == Find(s, "tag", from)
  <1>1. First(s, "tag", from, delim)
    BY FindFacts
  <1> HIDE DEF delim
  <1>2. CASE delim = 0
    BY <1>1, <1>2 DEF MatchField, delim, First, Starved, Lacks
  <1>3. CASE delim # 0 /\ (delim > from \/ (delim = from /\ s[delim].is # tag))
    <2>1. delim \in from .. Len(s)
      BY <1>1, <1>3 DEF First
    <2>2. NextTag(s, delim) \in from + 1 .. Len(s) + 1
      BY <2>1, NextTagFacts
    <2>3. MatchField(s, from, tag) = Garbled(NextTag(s, delim))
      BY <1>3 DEF MatchField, delim
    <2>4. Passes(s, from, NextTag(s, delim))
      BY <1>1, <1>3, <2>1 DEF First, Passes
    <2> QED  BY <2>2, <2>3, <2>4
  <1>4. CASE delim # 0 /\ ~(delim > from \/ (delim = from /\ s[delim].is # tag))
    <2>1. delim = from /\ from \in 1 .. Len(s) /\ s[from].half = "tag" /\ s[from].is = tag
      BY <1>1, <1>4 DEF First
    <2>2. MatchField(s, from, tag) = ParseValue(s, from)
      BY <1>4, <2>1 DEF MatchField, delim
    <2>3. s[from] = [half |-> "tag", is |-> tag]
      <3>1. s[from] \in Symbol
        BY <2>1
      <3> QED  BY <2>1, <3>1 DEF Symbol
    <2>4. CASE ParseValue(s, from) = Partial /\ \A i \in from .. Len(s) : s[i].half # "value"
      BY <2>2, <2>4 DEF Starved, Lacks
    <2>5. ASSUME NEW end \in from .. Len(s), ParseValue(s, from) = Found(end + 1),
                 s[end].half = "value", \A i \in from .. end - 1 : s[i].half # "value",
                 NextTag(s, from) = end + 1
          PROVE  \E at \in from + 2 .. Len(s) + 1 :
                    /\ MatchField(s, from, tag) = Found(at) /\ FieldAt(s, from, tag, at)
                    /\ Passes(s, from, at)
      <3>1. end # from
        BY <2>1, <2>5
      <3>2. end + 1 \in from + 2 .. Len(s) + 1 /\ (end + 1) - 1 = end /\ (end + 1) - 2 = end - 1
        BY <3>1
      <3>3. FieldAt(s, from, tag, end + 1)
        BY <2>3, <2>5, <3>2 DEF FieldAt
      <3>4. Passes(s, from, end + 1)
        BY <2>1, <2>5 DEF Passes
      <3> QED  BY <2>2, <2>5, <3>2, <3>3, <3>4
    <2> QED  BY <2>1, <2>4, <2>5, ParseValueFacts
  <1> QED  BY <1>2, <1>3, <1>4

-----------------------------------------------------------------------------
(* Attempts.                                                               *)

LEMMA StateFacts ==
    /\ Partial.state = "partial" /\ Partial.at = 0
    /\ \A at : Garbled(at).state = "garbled" /\ Garbled(at).at = at
    /\ \A at : Found(at).state = "found" /\ Found(at).at = at
  BY DEF Partial, Garbled, Found

LEMMA ParseBodyLengthFacts ==
    ASSUME NEW s \in Seq(Symbol), NEW at \in Nat \ {0}
    PROVE  \/ ParseBodyLength(s, at) = Partial /\ Starved(s, at)
           \/ \E next \in at + 1 .. Len(s) + 1 : ParseBodyLength(s, at) = Garbled(next) /\ Passes(s, at, next)
           \/ \E next \in at + 2 .. Len(s) + 1 :
                /\ ParseBodyLength(s, at) = Found(next) /\ FieldAt(s, at, BodyLength, next)
                /\ ValueAt(s, at) \in 1 .. MaxMessage
  <1> DEFINE field == MatchField(s, at, BodyLength)
  <1>0. ParseBodyLength(s, at) =
           IF field.state = "found"
           THEN IF ValueAt(s, at) \in 1 .. MaxMessage THEN Found(field.at) ELSE Garbled(field.at)
           ELSE field
    BY DEF ParseBodyLength, Then
  <1> HIDE DEF field
  <1>1. CASE field = Partial /\ Starved(s, at)
    BY <1>0, <1>1, StateFacts
  <1>2. ASSUME NEW next \in at + 1 .. Len(s) + 1, field = Garbled(next), Passes(s, at, next)
        PROVE  ParseBodyLength(s, at) = Garbled(next)
    BY <1>0, <1>2, StateFacts
  <1>3. ASSUME NEW next \in at + 2 .. Len(s) + 1, field = Found(next),
               FieldAt(s, at, BodyLength, next), Passes(s, at, next)
        PROVE  \/ ParseBodyLength(s, at) = Garbled(next) /\ next \in at + 1 .. Len(s) + 1
               \/ ParseBodyLength(s, at) = Found(next) /\ ValueAt(s, at) \in 1 .. MaxMessage
    BY <1>0, <1>3, StateFacts
  <1> QED  BY <1>1, <1>2, <1>3, MatchFieldFacts DEF field

LEMMA ParseMsgTypeFacts ==
    ASSUME NEW s \in Seq(Symbol), NEW at \in Nat \ {0}
    PROVE  \/ ParseMsgType(s, at) = Partial /\ Starved(s, at)
           \/ \E next \in at + 1 .. Len(s) + 1 : ParseMsgType(s, at) = Garbled(next) /\ Passes(s, at, next)
           \/ \E next \in at + 2 .. Len(s) + 1 :
                /\ ParseMsgType(s, at) = Found(next) /\ FieldAt(s, at, MsgType, next)
                /\ ValueAt(s, at) \in KnownTypes
  <1> DEFINE field == MatchField(s, at, MsgType)
  <1>0. ParseMsgType(s, at) =
           IF field.state = "found"
           THEN IF ValueAt(s, at) \in KnownTypes THEN Found(field.at) ELSE Garbled(field.at)
           ELSE field
    BY DEF ParseMsgType, Then
  <1> HIDE DEF field
  <1>1. CASE field = Partial /\ Starved(s, at)
    BY <1>0, <1>1, StateFacts
  <1>2. ASSUME NEW next \in at + 1 .. Len(s) + 1, field = Garbled(next), Passes(s, at, next)
        PROVE  ParseMsgType(s, at) = Garbled(next)
    BY <1>0, <1>2, StateFacts
  <1>3. ASSUME NEW next \in at + 2 .. Len(s) + 1, field = Found(next),
               FieldAt(s, at, MsgType, next), Passes(s, at, next)
        PROVE  \/ ParseMsgType(s, at) = Garbled(next) /\ next \in at + 1 .. Len(s) + 1
               \/ ParseMsgType(s, at) = Found(next) /\ ValueAt(s, at) \in KnownTypes
    BY <1>0, <1>3, StateFacts
  <1> QED  BY <1>1, <1>2, <1>3, MatchFieldFacts DEF field

LEMMA CheckedSumFacts ==
    ASSUME NEW s \in Seq(Symbol), NEW from, NEW at \in Nat \ {0}
    PROVE  \/ CheckedSum(s, from, at) = Partial /\ Starved(s, at)
           \/ \E next \in at + 1 .. Len(s) + 1 :
                CheckedSum(s, from, at) = Garbled(next) /\ Passes(s, at, next)
           \/ \E next \in at + 2 .. Len(s) + 1 :
                /\ CheckedSum(s, from, at) = Found(next) /\ FieldAt(s, at, CheckSum, next)
                /\ SumVerified(s, from, at)
  <1> DEFINE field == MatchField(s, at, CheckSum)
  <1>0. CheckedSum(s, from, at) =
           IF Len(s) + 1 < at + 2 THEN Partial
           ELSE IF field.state = "found"
                THEN IF SumVerified(s, from, at) THEN Found(field.at) ELSE Garbled(field.at)
                ELSE field
    BY DEF CheckedSum, Then
  <1> HIDE DEF field
  <1>1. CASE Len(s) + 1 < at + 2
    <2>1. \A i \in at .. Len(s) : i = at
      BY <1>1
    <2>2. Starved(s, at)
      BY <2>1 DEF Starved, Lacks
    <2> QED  BY <1>0, <1>1, <2>2
  <1>2. CASE ~(Len(s) + 1 < at + 2) /\ field = Partial /\ Starved(s, at)
    BY <1>0, <1>2, StateFacts
  <1>3. ASSUME NEW next \in at + 1 .. Len(s) + 1, field = Garbled(next), ~(Len(s) + 1 < at + 2)
        PROVE  CheckedSum(s, from, at) = Garbled(next)
    BY <1>0, <1>3, StateFacts
  <1>4. ASSUME NEW next \in at + 2 .. Len(s) + 1, field = Found(next),
               FieldAt(s, at, CheckSum, next), ~(Len(s) + 1 < at + 2)
        PROVE  \/ CheckedSum(s, from, at) = Garbled(next) /\ next \in at + 1 .. Len(s) + 1
               \/ CheckedSum(s, from, at) = Found(next) /\ SumVerified(s, from, at)
    BY <1>0, <1>4, StateFacts
  <1> QED  BY <1>1, <1>2, <1>3, <1>4, MatchFieldFacts DEF field

\* The head of a message: its length is at lengthAt, its type at typeAt.
HeadAt(s, from, lengthAt, typeAt) ==
    /\ FieldAt(s, from, BeginString, lengthAt)
    /\ FieldAt(s, lengthAt, BodyLength, typeAt)
    /\ ValueAt(s, lengthAt) \in 1 .. MaxMessage

\* In its attempt at a position, the parser comes to look for a field at x.
Looks(s, from, x) ==
    \/ x = from
    \/ FieldAt(s, from, BeginString, x)
    \/ \E l : HeadAt(s, from, l, x)
    \/ \E l, t, next : /\ HeadAt(s, from, l, t) /\ FieldAt(s, t, MsgType, next)
                        /\ x = t + ValueAt(s, l)

\* It asks for more of the message there.
Wanting(s, from) == \E x \in Nat \ {0} : Looks(s, from, x) /\ Starved(s, x)

\* It gives that message up, and goes on at the position at.
Skips(s, from, at) ==
    /\ at \in from + 1 .. Len(s) + 1
    /\ \E x \in Nat \ {0} : Looks(s, from, x) /\ Passes(s, x, at)

\* It has found a message there, of the type at typeAt, with its check sum.
Whole(s, from, typeAt) ==
    \E l, next \in from + 2 .. Len(s) + 1 :
       LET sumAt == typeAt + ValueAt(s, l)
       IN  /\ HeadAt(s, from, l, typeAt)
           /\ FieldAt(s, typeAt, MsgType, next) /\ ValueAt(s, typeAt) \in KnownTypes
           /\ sumAt \in Nat /\ SumVerified(s, from, sumAt)
           /\ \E end \in sumAt + 2 .. Len(s) + 1 : FieldAt(s, sumAt, CheckSum, end)

LEMMA AttemptFacts ==
    ASSUME NEW s \in Seq(Symbol), NEW from \in Nat \ {0}
    PROVE  \/ Attempt(s, from) = Partial /\ Wanting(s, from)
           \/ \E at : Attempt(s, from) = Garbled(at) /\ Skips(s, from, at)
           \/ \E at \in from + 2 .. Len(s) : Attempt(s, from) = Found(at) /\ Whole(s, from, at)
  <1> DEFINE begin == MatchField(s, from, BeginString)
             length == ParseBodyLength(s, begin.at)
             type == ParseMsgType(s, length.at)
             sumAt == length.at + ValueAt(s, begin.at)
             sum == CheckedSum(s, from, sumAt)
             Goal == \/ Attempt(s, from) = Partial /\ Wanting(s, from)
                     \/ \E at : Attempt(s, from) = Garbled(at) /\ Skips(s, from, at)
                     \/ \E at \in from + 2 .. Len(s) : Attempt(s, from) = Found(at) /\ Whole(s, from, at)
  <1>0. Attempt(s, from) =
           IF begin.state # "found" THEN begin
           ELSE IF length.state # "found" THEN length
                ELSE IF type.state # "found" THEN type
                     ELSE IF sum.state # "found" THEN sum ELSE Found(length.at)
    BY DEF Attempt, Then
  <1> HIDE DEF begin, length, type, sum, sumAt
  \* Where a field is looked for decides what the attempt is, if it does not go on.
  <1>a. ASSUME NEW x \in Nat \ {0}, Looks(s, from, x), Starved(s, x), Attempt(s, from) = Partial
        PROVE  Goal
    BY <1>a DEF Wanting
  <1>b. ASSUME NEW x \in Nat \ {0}, x >= from, Looks(s, from, x), NEW at \in x + 1 .. Len(s) + 1,
               Passes(s, x, at), Attempt(s, from) = Garbled(at)
        PROVE  Goal
    <2>1. at \in from + 1 .. Len(s) + 1
      BY <1>b
    <2> QED  BY <1>b, <2>1 DEF Skips
  <1>1. ASSUME begin = Partial, Starved(s, from) PROVE Goal
    <2>1. Attempt(s, from) = Partial /\ Looks(s, from, from)
      BY <1>0, <1>1, StateFacts DEF Looks
    <2> QED  BY <1>1, <1>a, <2>1
  <1>2. ASSUME NEW at \in from + 1 .. Len(s) + 1, begin = Garbled(at), Passes(s, from, at) PROVE Goal
    <2>1. Attempt(s, from) = Garbled(at) /\ Looks(s, from, from) /\ from >= from
      BY <1>0, <1>2, StateFacts DEF Looks
    <2> HIDE DEF Goal
    <2> QED  BY <1>2, <1>b, <2>1
  <1>3. ASSUME NEW l \in from + 2 .. Len(s) + 1, begin = Found(l), FieldAt(s, from, BeginString, l)
        PROVE  Goal
    <2>1. /\ begin.state = "found" /\ begin.at = l /\ length = ParseBodyLength(s, l)
          /\ l \in Nat \ {0} /\ l >= from /\ Looks(s, from, l)
      BY <1>3, StateFacts DEF length, Looks
    <2>2. Attempt(s, from) = IF length.state # "found" THEN length
                             ELSE IF type.state # "found" THEN type
                                  ELSE IF sum.state # "found" THEN sum ELSE Found(length.at)
      BY <1>0, <2>1
    <2>3. CASE length = Partial /\ Starved(s, l)
      <3>1. Attempt(s, from) = Partial
        BY <2>2, <2>3, StateFacts
      <3> HIDE DEF Goal
      <3> QED  BY <1>a, <2>1, <2>3, <3>1
    <2>4. ASSUME NEW at \in l + 1 .. Len(s) + 1, length = Garbled(at), Passes(s, l, at) PROVE Goal
      <3>1. Attempt(s, from) = Garbled(at)
        BY <2>2, <2>4, StateFacts
      <3> HIDE DEF Goal
      <3> QED  BY <1>b, <2>1, <2>4, <3>1
    <2>5. ASSUME NEW t \in l + 2 .. Len(s) + 1, length = Found(t), FieldAt(s, l, BodyLength, t),
                 ValueAt(s, l) \in 1 .. MaxMessage
          PROVE  Goal
      <3> DEFINE n == t + ValueAt(s, l)
      <3>1. /\ length.state = "found" /\ length.at = t /\ type = ParseMsgType(s, t)
            /\ sumAt = n /\ sum = CheckedSum(s, from, n)
        BY <2>1, <2>5, StateFacts DEF type, sum, sumAt
      <3>2. t \in Nat \ {0} /\ t \in from + 2 .. Len(s) + 1 /\ t >= from
        BY <1>3, <2>1, <2>5
      <3>3. n \in Nat \ {0} /\ n > t /\ n >= from
        <4>1. MaxMessage \in Nat
          BY FramingAssumption
        <4> QED  BY <2>5, <3>2, <4>1
      <3>4. HeadAt(s, from, l, t) /\ Looks(s, from, t)
        BY <1>3, <2>5 DEF HeadAt, Looks
      <3>5. Attempt(s, from) = IF type.state # "found" THEN type
                               ELSE IF sum.state # "found" THEN sum ELSE Found(t)
        BY <2>2, <3>1
      <3>6. CASE type = Partial /\ Starved(s, t)
        <4>1. Attempt(s, from) = Partial
          BY <3>5, <3>6, StateFacts
        <4> HIDE DEF Goal, n
        <4> QED  BY <1>a, <3>2, <3>4, <3>6, <4>1
      <3>7. ASSUME NEW at \in t + 1 .. Len(s) + 1, type = Garbled(at), Passes(s, t, at) PROVE Goal
        <4>1. Attempt(s, from) = Garbled(at)
          BY <3>5, <3>7, StateFacts
        <4> HIDE DEF Goal, n
        <4> QED  BY <1>b, <3>2, <3>4, <3>7, <4>1
      <3>8. ASSUME NEW next \in t + 2 .. Len(s) + 1, type = Found(next), FieldAt(s, t, MsgType, next),
                   ValueAt(s, t) \in KnownTypes
            PROVE  Goal
        <4>0. Attempt(s, from) = IF sum.state # "found" THEN sum ELSE Found(t)
          BY <3>5, <3>8, StateFacts
        <4>1. Looks(s, from, n)
          BY <3>4, <3>8 DEF Looks
        <4>2. CASE sum = Partial /\ Starved(s, n)
          <5>1. Attempt(s, from) = Partial
            BY <4>0, <4>2, StateFacts
          <5> HIDE DEF Goal, n
          <5> QED  BY <1>a, <3>3, <4>1, <4>2, <5>1
        <4>3. ASSUME NEW at \in n + 1 .. Len(s) + 1, sum = Garbled(at), Passes(s, n, at) PROVE Goal
          <5>1. Attempt(s, from) = Garbled(at)
            BY <4>0, <4>3, StateFacts
          <5> HIDE DEF Goal, n
          <5> QED  BY <1>b, <3>3, <4>1, <4>3, <5>1
        <4>4. ASSUME NEW end \in n + 2 .. Len(s) + 1, sum = Found(end), FieldAt(s, n, CheckSum, end),
                     SumVerified(s, from, n)
              PROVE  Goal
          <5>1. next \in from + 2 .. Len(s) + 1 /\ t \in from + 2 .. Len(s)
            BY <3>2, <3>8
          <5>2. Whole(s, from, t)
            BY <1>3, <3>3, <3>4, <3>8, <4>4, <5>1 DEF Whole
          <5>3. Attempt(s, from) = Found(t)
            BY <4>0, <4>4, StateFacts
          <5> QED  BY <5>1, <5>2, <5>3
        <4> HIDE DEF n, Goal
        <4> QED  BY <3>1, <3>3, <4>2, <4>3, <4>4, CheckedSumFacts
      <3> HIDE DEF n, Goal
      <3> QED  BY <3>1, <3>2, <3>6, <3>7, <3>8, ParseMsgTypeFacts
    <2> HIDE DEF Goal
    <2> QED  BY <2>1, <2>3, <2>4, <2>5, ParseBodyLengthFacts
  <1>4. \/ begin = Partial /\ Starved(s, from)
        \/ \E at \in from + 1 .. Len(s) + 1 : begin = Garbled(at) /\ Passes(s, from, at)
        \/ \E at \in from + 2 .. Len(s) + 1 : begin = Found(at) /\ FieldAt(s, from, BeginString, at)
    BY MatchFieldFacts DEF begin
  <1>5. Goal
    <2> HIDE DEF Goal
    <2> QED  BY <1>1, <1>2, <1>3, <1>4
  <1> QED  BY <1>5

-----------------------------------------------------------------------------
(* The parser.  It is a recursion, which goes up to the end of s.          *)

\* What the parser makes of s from position n on, if from later ones it makes what f says.
ParseFrom(s, f, n) ==
    IF n > Len(s) THEN [state |-> "partial", at |-> n]
    ELSE CASE Attempt(s, n).state = "garbled" -> f[Attempt(s, n).at]
           [] Attempt(s, n).state = "partial" -> [state |-> "partial", at |-> n]
           [] Attempt(s, n).state = "found" -> RestOfMessage(s, Attempt(s, n).at)

LEMMA ParseFromFacts ==
    ASSUME NEW s \in Seq(Symbol), NEW f, NEW n \in 1 .. Len(s) + 1
    PROVE  \/ /\ n <= Len(s) => Attempt(s, n) = Partial /\ Wanting(s, n)
              /\ ParseFrom(s, f, n) = [state |-> "partial", at |-> n]
           \/ \E at \in n + 1 .. Len(s) + 1 :
                /\ Attempt(s, n) = Garbled(at) /\ Skips(s, n, at)
                /\ n <= Len(s) /\ ParseFrom(s, f, n) = f[at]
           \/ \E at \in n + 2 .. Len(s) :
                Whole(s, n, at) /\ n <= Len(s) /\ ParseFrom(s, f, n) = RestOfMessage(s, at)
  <1>1. CASE n = Len(s) + 1
    BY <1>1 DEF ParseFrom
  <1>2. CASE n <= Len(s)
    <2>1. CASE Attempt(s, n) = Partial /\ Wanting(s, n)
      BY <1>2, <2>1, StateFacts DEF ParseFrom
    <2>2. ASSUME NEW at, Attempt(s, n) = Garbled(at), Skips(s, n, at)
          PROVE  ParseFrom(s, f, n) = f[at] /\ at \in n + 1 .. Len(s) + 1
      BY <1>2, <2>2, StateFacts DEF ParseFrom, Skips
    <2>3. ASSUME NEW at \in n + 2 .. Len(s), Attempt(s, n) = Found(at)
          PROVE  ParseFrom(s, f, n) = RestOfMessage(s, at)
      BY <1>2, <2>3, StateFacts DEF ParseFrom
    <2> QED  BY <1>2, <2>1, <2>2, <2>3, AttemptFacts
  <1> QED  BY <1>1, <1>2

\* It depends only on what f says of later positions.
LEMMA ParseFromLater ==
    ASSUME NEW s \in Seq(Symbol), NEW f, NEW g, NEW n \in 1 .. Len(s) + 1,
           \A m \in n + 1 .. Len(s) + 1 : f[m] = g[m]
    PROVE  ParseFrom(s, f, n) = ParseFrom(s, g, n)
  <1>1. CASE n > Len(s)
    BY <1>1 DEF ParseFrom
  <1>2. CASE ~(n > Len(s))
    <2>1. CASE Attempt(s, n) = Partial
      BY <1>2, <2>1, StateFacts DEF ParseFrom
    <2>2. ASSUME NEW at, Attempt(s, n) = Garbled(at), Skips(s, n, at)
          PROVE  ParseFrom(s, f, n) = ParseFrom(s, g, n)
      <3>1. at \in n + 1 .. Len(s) + 1
        BY <2>2 DEF Skips
      <3> QED  BY <1>2, <2>2, <3>1, StateFacts DEF ParseFrom
    <2>3. ASSUME NEW at \in n + 2 .. Len(s), Attempt(s, n) = Found(at)
          PROVE  ParseFrom(s, f, n) = ParseFrom(s, g, n)
      BY <1>2, <2>3, StateFacts DEF ParseFrom
    <2> QED  BY <1>2, <2>1, <2>2, <2>3, AttemptFacts
  <1> QED  BY <1>1, <1>2

LEMMA ParseSolved ==
    ASSUME NEW s \in Seq(Symbol)
    PROVE  \E f : Parse(s) = f[1] /\ \A n \in 1 .. Len(s) + 1 : f[n] = ParseFrom(s, f, n)
  <1> DEFINE D == 1 .. Len(s) + 1
             Solved(j, g) == /\ g = [n \in D |-> g[n]]
                             /\ \A n \in Len(s) + 2 - j .. Len(s) + 1 : g[n] = ParseFrom(s, g, n)
             Bad == {j \in 0 .. Len(s) + 1 : \A g : ~Solved(j, g)}
  <1>1. Len(s) \in Nat
    OBVIOUS
  <1>2. ASSUME NEW j \in Bad, \A i \in Bad : j <= i PROVE FALSE
    <2> DEFINE n0 == Len(s) + 2 - j
    <2>1. \E g : g = [n \in D |-> g[n]] /\ \A n \in n0 + 1 .. Len(s) + 1 : g[n] = ParseFrom(s, g, n)
      <3>1. CASE j = 0
        <4> DEFINE g == [n \in D |-> 0]
        <4>1. g = [n \in D |-> g[n]]
          OBVIOUS
        <4>2. n0 + 1 .. Len(s) + 1 = {}
          BY <1>1, <3>1
        <4> QED  BY <4>1, <4>2
      <3>2. CASE j # 0
        <4>1. j - 1 \in 0 .. Len(s) + 1 /\ ~(j <= j - 1) /\ Len(s) + 2 - (j - 1) = n0 + 1
          BY <1>1, <3>2
        <4>2. PICK g : Solved(j - 1, g)
          BY <1>2, <4>1
        <4> QED  BY <4>1, <4>2
      <3> QED  BY <3>1, <3>2
    <2>2. PICK g : g = [n \in D |-> g[n]] /\ \A n \in n0 + 1 .. Len(s) + 1 : g[n] = ParseFrom(s, g, n)
      BY <2>1
    <2> DEFINE h == [n \in D |-> IF n = n0 THEN ParseFrom(s, g, n0) ELSE g[n]]
    <2>3. h = [n \in D |-> h[n]]
      OBVIOUS
    <2>4. /\ \A n \in n0 + 1 .. Len(s) + 1 : n \in D => h[n] = g[n]
          /\ n0 \in D => h[n0] = ParseFrom(s, g, n0)
      BY <1>1
    <2> HIDE DEF h
    <2>5. ASSUME NEW n \in n0 .. Len(s) + 1, n \in D PROVE h[n] = ParseFrom(s, h, n)
      <3>1. \A m \in n + 1 .. Len(s) + 1 : m \in D /\ m \in n0 + 1 .. Len(s) + 1
        BY <1>1, <2>5
      <3>2. ParseFrom(s, h, n) = ParseFrom(s, g, n)
        BY <2>4, <3>1, ParseFromLater
      <3>3. n = n0 \/ n \in n0 + 1 .. Len(s) + 1
        BY <1>1
      <3> QED  BY <2>2, <2>4, <2>5, <3>2, <3>3
    <2>6. j = 0 \/ n0 \in D
      BY <1>1
    <2>7. Solved(j, h)
      <3>1. ASSUME NEW n \in n0 .. Len(s) + 1 PROVE n \in D
        BY <1>1, <2>6
      <3> QED  BY <2>3, <2>5, <3>1
    <2> QED  BY <2>7
  <1>3. Bad = {}
    <2>1. Bad \in SUBSET Nat
      BY <1>1
    <2> HIDE DEF Bad
    <2>2. Bad # {} => Min(Bad) \in Bad /\ \A i \in Bad : Min(Bad) <= i
      BY <2>1, LeastNumber
    <2> QED  BY <1>2, <2>2
  <1>4. PICK g : Solved(Len(s) + 1, g)
    <2>1. Len(s) + 1 \in 0 .. Len(s) + 1
      BY <1>1
    <2> QED  BY <1>3, <2>1
  <1>5. g = [n \in D |-> ParseFrom(s, g, n)]
    <2>1. Len(s) + 2 - (Len(s) + 1) = 1
      BY <1>1
    <2> QED  BY <1>4, <2>1
  <1> DEFINE f == CHOOSE q : q = [n \in D |-> ParseFrom(s, q, n)]
  <1>6. f = [n \in D |-> ParseFrom(s, f, n)]
    BY <1>5
  <1>7. Parse(s) = f[1]
    BY DEF Parse, ParseFrom
  <1> HIDE DEF f
  <1> QED  BY <1>6, <1>7

\* The parser comes only to positions of G, if what is garbled leads from them to them.
Closed(s, G) ==
    /\ G \subseteq 1 .. Len(s) + 1 /\ 1 \in G
    /\ \A n, at : n \in G /\ n <= Len(s) /\ Attempt(s, n) = Garbled(at) /\ Skips(s, n, at) => at \in G

\* There it stops at the end or where it wants more, or it finds a message.
StopsIn(s, G, p) ==
    \/ /\ p.at \in G /\ p.state = "partial"
       /\ p.at <= Len(s) => Attempt(s, p.at) = Partial /\ Wanting(s, p.at)
    \/ \E begin \in G : \E at \in begin + 2 .. Len(s) :
          begin <= Len(s) /\ Whole(s, begin, at) /\ p = RestOfMessage(s, at)

LEMMA ParseStopsIn ==
    ASSUME NEW s \in Seq(Symbol), NEW G, Closed(s, G)
    PROVE  StopsIn(s, G, Parse(s))
  <1>1. Len(s) \in Nat /\ G \subseteq 1 .. Len(s) + 1 /\ 1 \in G
    BY DEF Closed
  <1>2. PICK f : Parse(s) = f[1] /\ \A n \in 1 .. Len(s) + 1 : f[n] = ParseFrom(s, f, n)
    BY ParseSolved
  <1> DEFINE Bad == {j \in 0 .. Len(s) : /\ Len(s) + 1 - j \in G
                                        /\ ~StopsIn(s, G, f[Len(s) + 1 - j])}
  <1>3. ASSUME NEW j \in Bad, \A i \in Bad : j <= i PROVE FALSE
    <2> DEFINE n == Len(s) + 1 - j
    <2>1. n \in 1 .. Len(s) + 1 /\ n \in G /\ f[n] = ParseFrom(s, f, n)
      BY <1>1, <1>2
    <2>2. ASSUME n <= Len(s) => Attempt(s, n) = Partial /\ Wanting(s, n),
                 ParseFrom(s, f, n) = [state |-> "partial", at |-> n]
          PROVE  StopsIn(s, G, f[n])
      BY <2>1, <2>2 DEF StopsIn
    <2>3. ASSUME NEW at \in n + 1 .. Len(s) + 1, Attempt(s, n) = Garbled(at), Skips(s, n, at),
                 n <= Len(s), ParseFrom(s, f, n) = f[at]
          PROVE  StopsIn(s, G, f[n])
      <3>1. at \in G
        BY <2>1, <2>3 DEF Closed
      <3>2. Len(s) + 1 - at \in 0 .. Len(s) /\ ~(j <= Len(s) + 1 - at) /\ Len(s) + 1 - (Len(s) + 1 - at) = at
        BY <1>1, <2>1
      <3>3. StopsIn(s, G, f[at])
        BY <1>3, <3>1, <3>2
      <3> QED  BY <2>1, <2>3, <3>3
    <2>4. ASSUME NEW at \in n + 2 .. Len(s), Whole(s, n, at), n <= Len(s),
                 ParseFrom(s, f, n) = RestOfMessage(s, at)
          PROVE  StopsIn(s, G, f[n])
      BY <2>1, <2>4 DEF StopsIn
    <2>5. StopsIn(s, G, f[n])
      <3> HIDE DEF n
      <3> QED  BY <2>1, <2>2, <2>3, <2>4, ParseFromFacts
    <2> QED  BY <2>5
  <1>4. Bad = {}
    <2>1. Bad \in SUBSET Nat
      BY <1>1
    <2> HIDE DEF Bad
    <2> QED  BY <1>3, <2>1, LeastNumber
  <1>5. Len(s) \in 0 .. Len(s) /\ Len(s) + 1 - Len(s) = 1
    BY <1>1
  <1>6. StopsIn(s, G, f[1])
    BY <1>1, <1>4, <1>5
  <1> QED  BY <1>2, <1>6

\* All of the positions.
Stops(s, p) == StopsIn(s, 1 .. Len(s) + 1, p)

LEMMA ParseStops ==
    ASSUME NEW s \in Seq(Symbol)
    PROVE  Stops(s, Parse(s))
  <1>1. Closed(s, 1 .. Len(s) + 1)
    <2>1. ASSUME NEW n \in 1 .. Len(s) + 1, NEW at, Skips(s, n, at) PROVE at \in 1 .. Len(s) + 1
      BY <2>1 DEF Skips
    <2> QED  BY <2>1 DEF Closed
  <1> QED  BY <1>1, ParseStopsIn DEF Stops

\* The message that is found has a number and a type.
LEMMA RestFacts ==
    ASSUME NEW s \in Seq(Symbol), NEW from \in Nat \ {0}, NEW typeAt \in from + 2 .. Len(s),
           Whole(s, from, typeAt)
    PROVE  LET p == RestOfMessage(s, typeAt)
           IN  /\ p.state = "found" /\ p.at \in typeAt + 1 .. Len(s) + 1
               /\ p.msg \in [seq : Nat, type : Nat]
  <1> DEFINE I == {i \in typeAt .. Len(s) : s[i] = Field(CheckSum, 0)[1]}
             sumAt == IF I # {} THEN Min(I) ELSE 0
             J == {i \in typeAt .. sumAt - 1 : s[i] = Field(MsgSeqNum, 0)[1]}
             seqAt == IF J # {} THEN Min(J) ELSE 0
  <1>1. /\ typeAt \in Nat \ {0} /\ Len(s) \in Nat
        /\ \A i \in 1 .. Len(s) : s[i].is \in Nat
    <2>1. \A i \in 1 .. Len(s) : s[i] \in Symbol
      OBVIOUS
    <2> QED  BY <2>1 DEF Symbol
  <1>2. I # {}
    <2>1. PICK l \in from + 2 .. Len(s) + 1 :
             LET k == typeAt + ValueAt(s, l)
             IN  /\ ValueAt(s, l) \in 1 .. MaxMessage /\ k \in Nat
                 /\ \E end \in k + 2 .. Len(s) + 1 : FieldAt(s, k, CheckSum, end)
      BY DEF Whole, HeadAt
    <2> DEFINE k == typeAt + ValueAt(s, l)
    <2>2. k \in typeAt .. Len(s) /\ s[k] = [half |-> "tag", is |-> CheckSum]
      <3>1. PICK end \in k + 2 .. Len(s) + 1 : FieldAt(s, k, CheckSum, end)
        BY <2>1
      <3>2. k \in Nat /\ k >= typeAt
        BY <1>1, <2>1, FramingAssumption
      <3> HIDE DEF k
      <3> QED  BY <1>1, <3>1, <3>2 DEF FieldAt
    <2> HIDE DEF k
    <2> QED  BY <2>2 DEF Field
  <1>3. I \in SUBSET (typeAt .. Len(s)) /\ I \in SUBSET Nat
    BY <1>1
  <1> HIDE DEF I
  <1>4. sumAt \in typeAt .. Len(s)
    BY <1>2, <1>3, LeastNumber
  <1> HIDE DEF sumAt
  <1>5. seqAt \in 0 .. sumAt - 1
    <2>1. J \in SUBSET Nat
      BY <1>1, <1>4
    <2>2. J # {} => Min(J) \in J
      BY <2>1, LeastNumber
    <2> QED  BY <1>1, <1>4, <2>2
  <1> HIDE DEF J, seqAt
  <1>6. /\ RestOfMessage(s, typeAt).state = "found"
        /\ RestOfMessage(s, typeAt).at = NextTag(s, sumAt)
        /\ RestOfMessage(s, typeAt).msg = [seq |-> ValueAt(s, seqAt), type |-> ValueAt(s, typeAt)]
    BY DEF RestOfMessage, SelectInSubSeq, sumAt, seqAt, I, J
  <1>7. NextTag(s, sumAt) \in typeAt + 1 .. Len(s) + 1
    BY <1>1, <1>4, NextTagFacts
  <1>8. typeAt + 1 <= Len(s)
    BY DEF Whole, FieldAt
  <1>9. ValueAt(s, seqAt) \in Nat /\ ValueAt(s, typeAt) \in Nat
    BY <1>1, <1>4, <1>5, <1>8 DEF ValueAt
  <1> QED  BY <1>6, <1>7, <1>9

-----------------------------------------------------------------------------
(* What the stream is made of.  One symbol of a message may be damaged, so *)
(* tags and ends of values are never far apart.                            *)

Dense(s) ==
    \A half \in {"tag", "value"}, i \in 1 .. Len(s) - 5 : \E j \in i .. i + 5 : s[j].half = half

\* What is appended to s does not make a longer gap.
Closing(s) ==
    /\ Len(s) >= 4 => \E j \in Len(s) - 3 .. Len(s) : s[j].half = "tag"
    /\ Len(s) >= 3 => \E j \in Len(s) - 2 .. Len(s) : s[j].half = "value"

\* Tags and values take turns.
Turn(i) == IF i % 2 = 1 THEN "tag" ELSE "value"
Alternates(s) ==
    s \in Seq(Symbol) /\ Len(s) % 2 = 0 /\ \A i \in 1 .. Len(s) : s[i].half = Turn(i)

\* A message, with at most one symbol that is not of its half.
Shaped(s) ==
    /\ s \in Seq(Symbol) /\ Len(s) % 2 = 0 /\ Len(s) >= 10
    /\ \E d \in Nat : \A i \in 1 .. Len(s) : i = d \/ s[i].half = Turn(i)

LEMMA StarvedShort ==
    ASSUME NEW s \in Seq(Symbol), Dense(s), NEW from \in Nat \ {0}, Starved(s, from)
    PROVE  Len(s) <= from + 4
  <1> SUFFICES ASSUME Len(s) > from + 4 PROVE FALSE
    OBVIOUS
  <1>1. from \in 1 .. Len(s) - 5 /\ \A j \in from .. from + 5 : j \in from .. Len(s)
    OBVIOUS
  <1> QED  BY <1>1 DEF Dense, Starved, Lacks

LEMMA FieldShort ==
    ASSUME NEW s \in Seq(Symbol), Dense(s), NEW from \in Nat \ {0}, NEW tag, NEW at,
           FieldAt(s, from, tag, at)
    PROVE  at <= from + 6
  <1>1. at \in Nat /\ at <= Len(s) + 1
    BY DEF FieldAt
  <1> SUFFICES ASSUME at > from + 6 PROVE FALSE
    BY <1>1
  <1>2. from \in 1 .. Len(s) - 5 /\ \A j \in from .. from + 5 : j \in from .. at - 2
    BY <1>1
  <1> QED  BY <1>2 DEF Dense, FieldAt

LEMMA LooksShort ==
    ASSUME NEW s \in Seq(Symbol), Dense(s), NEW from \in Nat \ {0}, NEW x, Looks(s, from, x)
    PROVE  x \in Nat \ {0} /\ x <= from + MaxMessage + 12
  <1>0. MaxMessage \in Nat /\ Len(s) \in Nat
    BY FramingAssumption
  <1>1. CASE x = from
    BY <1>0, <1>1
  <1>2. ASSUME NEW l, FieldAt(s, from, BeginString, l) PROVE l \in Nat \ {0} /\ l <= from + 6
    <2>1. l \in Nat \ {0}
      BY <1>2 DEF FieldAt
    <2> QED  BY <1>2, <2>1, FieldShort
  <1>3. ASSUME NEW l, NEW t, HeadAt(s, from, l, t) PROVE t \in Nat \ {0} /\ t <= from + 12
    <2>1. l \in Nat \ {0} /\ l <= from + 6 /\ FieldAt(s, l, BodyLength, t)
      BY <1>2, <1>3 DEF HeadAt
    <2>2. t \in Nat \ {0}
      BY <2>1 DEF FieldAt
    <2>3. t <= l + 6
      BY <2>1, <2>2, FieldShort
    <2> QED  BY <2>1, <2>2, <2>3
  <1>4. ASSUME NEW l, NEW t, HeadAt(s, from, l, t), x = t + ValueAt(s, l)
        PROVE  x \in Nat \ {0} /\ x <= from + MaxMessage + 12
    <2> DEFINE n == ValueAt(s, l)
    <2>1. n \in 1 .. MaxMessage
      BY <1>4 DEF HeadAt
    <2> HIDE DEF n
    <2>2. t \in Nat \ {0} /\ t <= from + 12
      BY <1>3, <1>4
    <2>3. x = t + n
      BY <1>4 DEF n
    <2> QED  BY <1>0, <2>1, <2>2, <2>3
  <1>5. ASSUME FieldAt(s, from, BeginString, x) PROVE x \in Nat \ {0} /\ x <= from + MaxMessage + 12
    BY <1>0, <1>2, <1>5
  <1>6. ASSUME NEW l, HeadAt(s, from, l, x) PROVE x \in Nat \ {0} /\ x <= from + MaxMessage + 12
    BY <1>0, <1>3, <1>6
  <1> QED  BY <1>1, <1>4, <1>5, <1>6, Zenon DEF Looks

LEMMA WantingShort ==
    ASSUME NEW s \in Seq(Symbol), Dense(s), NEW from \in 1 .. Len(s), Wanting(s, from)
    PROVE  Len(s) <= from + MaxMessage + 16
  <1>1. PICK x \in Nat \ {0} : Looks(s, from, x) /\ Starved(s, x)
    BY DEF Wanting
  <1>2. from \in Nat \ {0} /\ Len(s) \in Nat /\ MaxMessage \in Nat
    BY FramingAssumption
  <1>3. x <= from + MaxMessage + 12
    BY <1>1, <1>2, LooksShort
  <1>4. Len(s) <= x + 4
    BY <1>1, StarvedShort
  <1> QED  BY <1>2, <1>3, <1>4

LEMMA DenseAppend ==
    ASSUME NEW s \in Seq(Symbol), Dense(s), Closing(s), NEW v, Shaped(v)
    PROVE  Dense(s \o v) /\ Closing(s \o v)
  <1> DEFINE w == s \o v
  <1>1. /\ v \in Seq(Symbol) /\ Len(s) \in Nat /\ Len(v) \in Nat /\ Len(v) >= 10
        /\ Len(w) = Len(s) + Len(v)
        /\ \A i \in 1 .. Len(s) : w[i] = s[i]
        /\ \A i \in 1 .. Len(v) : w[Len(s) + i] = v[i]
    BY DEF Shaped
  <1> HIDE DEF w
  <1>2. PICK d \in Nat : \A i \in 1 .. Len(v) : i = d \/ v[i].half = Turn(i)
    BY DEF Shaped
  \* Of two tags that follow on in v, one is there, and so of two values.
  <1>3. ASSUME NEW k \in Nat, 1 <= k, k + 2 <= Len(v)
        PROVE  \E j \in k .. k + 2 : v[j].half = Turn(k)
    <2>1. Turn(k + 2) = Turn(k)
      BY DEF Turn
    <2> QED  BY <1>2, <1>3, <2>1
  <1>4. ASSUME NEW k \in Nat, 1 <= k, k + 3 <= Len(v), NEW half \in {"tag", "value"}
        PROVE  \E j \in k .. k + 3 : v[j].half = half
    <2>1. Turn(k) = half \/ Turn(k + 1) = half
      BY DEF Turn
    <2>2. CASE Turn(k) = half
      BY <1>3, <1>4, <2>2
    <2>3. CASE Turn(k + 1) = half
      <3>1. \E j \in k + 1 .. k + 1 + 2 : v[j].half = half
        BY <1>3, <1>4, <2>3
      <3> QED  BY <3>1
    <2> QED  BY <2>1, <2>2, <2>3
  <1>5. Turn(1) = "tag" /\ Turn(Len(v) - 2) = "value"
    BY <1>1 DEF Turn, Shaped
  <1>6. ASSUME NEW half \in {"tag", "value"}, NEW i \in 1 .. Len(w) - 5
        PROVE  \E j \in i .. i + 5 : w[j].half = half
    <2> DEFINE Goal == \E j \in i .. i + 5 : w[j].half = half
    <2>1. CASE i + 5 <= Len(s)
      <3>0. i \in 1 .. Len(s) - 5
        BY <1>1, <2>1
      <3>1. PICK j \in i .. i + 5 : s[j].half = half
        BY <3>0 DEF Dense
      <3>2. j \in 1 .. Len(s)
        BY <1>1, <2>1
      <3> QED  BY <1>1, <3>1, <3>2
    <2>2. CASE i + 5 > Len(s) /\ i + 2 > Len(s)
      <3>1. PICK k \in Nat : (i > Len(s) => Len(s) + k = i) /\ (i <= Len(s) => k = 1)
        <4>1. CASE i > Len(s)
          <5> DEFINE k == i - Len(s)
          <5>1. k \in Nat /\ Len(s) + k = i /\ ~(i <= Len(s))
            BY <1>1, <4>1
          <5> HIDE DEF k
          <5> USE <5>1
          <5> WITNESS k \in Nat
          <5> QED  OBVIOUS
        <4>2. CASE ~(i > Len(s))
          BY <1>1, <4>2
        <4> QED  BY <4>1, <4>2
      <3>2. 1 <= k /\ k + 3 <= Len(v) /\ Len(s) + k >= i /\ Len(s) + k + 3 <= i + 5
        BY <1>1, <2>2, <3>1
      <3>3. PICK j \in k .. k + 3 : v[j].half = half
        BY <1>4, <3>2
      <3>4. j \in 1 .. Len(v)
        <4>1. j \in Int /\ k <= j /\ j <= k + 3
          BY <3>2
        <4> QED  BY <1>1, <3>2, <4>1
      <3>5. Len(s) + j \in i .. i + 5 /\ w[Len(s) + j].half = half
        BY <1>1, <3>2, <3>3, <3>4
      <3> QED  BY <3>5
    <2>3. ASSUME i + 5 > Len(s) /\ i + 2 <= Len(s) PROVE Goal
      <3>1. CASE half = "value"
        <4>1. PICK j \in Len(s) - 2 .. Len(s) : s[j].half = "value"
          BY <1>1, <2>3 DEF Closing
        <4>2. j \in i .. i + 5 /\ j \in 1 .. Len(s)
          BY <1>1, <2>3
        <4> QED  BY <1>1, <3>1, <4>1, <4>2
      <3>2. CASE half = "tag" /\ i + 3 <= Len(s)
        <4>1. PICK j \in Len(s) - 3 .. Len(s) : s[j].half = "tag"
          BY <1>1, <3>2 DEF Closing
        <4>2. j \in i .. i + 5 /\ j \in 1 .. Len(s)
          BY <1>1, <2>3, <3>2
        <4> QED  BY <1>1, <3>2, <4>1, <4>2
      <3>3. CASE half = "tag" /\ i + 2 = Len(s)
        <4>1. PICK j \in 1 .. 1 + 2 : v[j].half = "tag"
          <5>1. 1 \in Nat /\ 1 <= 1 /\ 1 + 2 <= Len(v)
            BY <1>1
          <5> QED  BY <1>3, <1>5, <5>1
        <4>2. Len(s) + j \in i .. i + 5 /\ w[Len(s) + j].half = "tag"
          BY <1>1, <3>3, <4>1
        <4> QED  BY <3>3, <4>2
      <3>4. i + 3 <= Len(s) \/ i + 2 = Len(s)
        BY <1>1, <2>3
      <3>5. (half = "value" => Goal) /\ (half = "tag" /\ i + 3 <= Len(s) => Goal)
            /\ (half = "tag" /\ i + 2 = Len(s) => Goal)
        BY <3>1, <3>2, <3>3
      <3> HIDE DEF Goal
      <3> QED  BY <3>4, <3>5
    <2>4. i + 5 <= Len(s) \/ (i + 5 > Len(s) /\ i + 2 > Len(s)) \/ (i + 5 > Len(s) /\ i + 2 <= Len(s))
      BY <1>1
    <2> QED  BY <2>1, <2>2, <2>3, <2>4, Zenon
  <1>7. Closing(w)
    <2> DEFINE m == Len(v) - 3
               n == Len(v) - 2
    <2>0. /\ m \in Nat /\ 1 <= m /\ m + 3 = Len(v) /\ m + 3 <= Len(v)
          /\ n \in Nat /\ 1 <= n /\ n + 2 = Len(v) /\ n + 2 <= Len(v) /\ Turn(n) = "value"
      BY <1>1, <1>5
    <2> HIDE DEF m, n
    <2>1. PICK j \in m .. m + 3 : v[j].half = "tag"
      BY <1>4, <2>0
    <2>2. PICK k \in n .. n + 2 : v[k].half = "value"
      BY <1>3, <2>0
    <2>3. /\ Len(s) + j \in Len(w) - 3 .. Len(w) /\ w[Len(s) + j].half = "tag"
          /\ Len(s) + k \in Len(w) - 2 .. Len(w) /\ w[Len(s) + k].half = "value"
      BY <1>1, <2>0, <2>1, <2>2
    <2> QED  BY <2>3 DEF Closing
  <1> QED  BY <1>6, <1>7 DEF Dense, w

-----------------------------------------------------------------------------
(* Messages.                                                               *)

LEMMA WeightFacts ==
    ASSUME NEW x \in Symbol
    PROVE  Weight(x) \in Nat
  BY DEF Weight, Symbol

\* The sum is found by a recursion too.
LEMMA SumSolved ==
    ASSUME NEW s \in Seq(Symbol)
    PROVE  \E f \in [0 .. Len(s) -> Nat] :
              /\ Sum(s) = f[Len(s)] % 256 /\ f[0] = 0
              /\ \A n \in 1 .. Len(s) : f[n] = f[n - 1] + Weight(s[n])
  <1> DEFINE D == 0 .. Len(s)
             Adds(g, n) == g[n] = IF n = 0 THEN 0 ELSE g[n - 1] + Weight(s[n])
             Solved(j) == \E g \in [D -> Nat] : \A n \in 0 .. j : Adds(g, n)
             Bad == {j \in D : ~Solved(j)}
  <1>1. Len(s) \in Nat /\ \A n \in 1 .. Len(s) : Weight(s[n]) \in Nat
    BY WeightFacts
  <1>2. ASSUME NEW j \in Bad, \A i \in Bad : j <= i PROVE FALSE
    <2>1. PICK g \in [D -> Nat] : \A n \in 0 .. j - 1 : Adds(g, n)
      <3>1. CASE j = 0
        <4>1. [n \in D |-> 0] \in [D -> Nat] /\ 0 .. j - 1 = {}
          BY <3>1
        <4> QED  BY <4>1
      <3>2. CASE j # 0
        <4>1. j - 1 \in D /\ ~(j <= j - 1)
          BY <1>1, <3>2
        <4>2. Solved(j - 1)
          BY <1>2, <4>1
        <4> QED  BY <4>2
      <3> QED  BY <3>1, <3>2
    <2> DEFINE v == IF j = 0 THEN 0 ELSE g[j - 1] + Weight(s[j])
               h == [n \in D |-> IF n = j THEN v ELSE g[n]]
    <2>2. v \in Nat
      BY <1>1, SMTT(30)
    <2>3. h \in [D -> Nat] /\ h[j] = v /\ \A n \in D : n # j => h[n] = g[n]
      BY <2>2
    <2> HIDE DEF h
    <2>4. ASSUME NEW n \in 0 .. j PROVE Adds(h, n)
      <3>1. CASE n = j
        <4>1. j # 0 => j - 1 \in D /\ j - 1 # j
          BY <1>1
        <4> QED  BY <2>3, <3>1, <4>1
      <3>2. CASE n # j
        <4>1. n \in 0 .. j - 1 /\ n \in D /\ (n # 0 => n - 1 \in D /\ n - 1 # j)
          BY <1>1, <3>2
        <4> QED  BY <2>1, <2>3, <3>2, <4>1
      <3> QED  BY <3>1, <3>2
    <2>5. Solved(j)
      BY <2>3, <2>4
    <2> QED  BY <2>5
  <1>3. Bad = {}
    <2>1. Bad \in SUBSET Nat
      BY <1>1
    <2> HIDE DEF Bad
    <2> QED  BY <1>2, <2>1, LeastNumber
  <1>4. PICK g \in [D -> Nat] : \A n \in D : Adds(g, n)
    BY <1>1, <1>3
  <1> DEFINE F(q) == [n \in D |-> IF n = 0 THEN 0 ELSE q[n - 1] + Weight(s[n])]
             f == CHOOSE q : q = F(q)
  <1>5. g = F(g)
    BY <1>4
  <1>6. f = F(f)
    BY <1>5
  <1>7. Sum(s) = f[Len(s)] % 256
    BY DEF Sum
  <1> HIDE DEF f
  <1>8. f[0] = 0 /\ \A n \in 1 .. Len(s) : f[n] = f[n - 1] + Weight(s[n])
    BY <1>1, <1>6
  <1> DEFINE Wrong == {n \in D : f[n] \notin Nat}
  <1>9. ASSUME NEW n \in Wrong, \A i \in Wrong : n <= i PROVE FALSE
    <2>1. CASE n = 0
      BY <1>8, <2>1
    <2>2. CASE n # 0
      <3>1. n - 1 \in D /\ ~(n <= n - 1) /\ n \in 1 .. Len(s)
        BY <1>1, <2>2
      <3>2. f[n - 1] \in Nat
        BY <1>9, <3>1
      <3> QED  BY <1>1, <1>8, <3>1, <3>2
    <2> QED  BY <2>1, <2>2
  <1>10. Wrong = {}
    <2>1. Wrong \in SUBSET Nat
      BY <1>1
    <2> HIDE DEF Wrong
    <2> QED  BY <1>9, <2>1, LeastNumber
  <1>11. f \in [D -> Nat]
    BY <1>6, <1>10
  <1> QED  BY <1>7, <1>8, <1>11

LEMMA SumFacts ==
    ASSUME NEW s \in Seq(Symbol)
    PROVE  Sum(s) \in 0 .. 255
  <1>1. PICK f \in [0 .. Len(s) -> Nat] : Sum(s) = f[Len(s)] % 256
    BY SumSolved
  <1>2. f[Len(s)] \in Nat
    OBVIOUS
  <1>3. \A n \in Nat : n % 256 \in 0 .. 255
    OBVIOUS
  <1> QED  BY <1>1, <1>2, <1>3

LEMMA EvenFacts ==
    ASSUME NEW n \in Nat, NEW m \in Nat, n % 2 = 0
    PROVE  (n + m) % 2 = m % 2 /\ Turn(n + m) = Turn(m)
  BY DEF Turn

LEMMA FieldFacts ==
    ASSUME NEW tag \in Nat, NEW value \in Nat
    PROVE  Alternates(Field(tag, value)) /\ Len(Field(tag, value)) = 2
  BY DEF Field, Alternates, Turn, Symbol

LEMMA AlternatesConcat ==
    ASSUME NEW s, Alternates(s), NEW t, Alternates(t)
    PROVE  Alternates(s \o t) /\ Len(s \o t) = Len(s) + Len(t)
  <1> DEFINE w == s \o t
  <1>1. /\ w \in Seq(Symbol) /\ Len(s) \in Nat /\ Len(t) \in Nat /\ Len(w) = Len(s) + Len(t)
        /\ \A i \in 1 .. Len(s) : w[i] = s[i]
        /\ \A i \in Len(s) + 1 .. Len(w) : w[i] = t[i - Len(s)]
    BY DEF Alternates
  <1> HIDE DEF w
  <1>2. ASSUME NEW i \in 1 .. Len(w) PROVE w[i].half = Turn(i)
    <2>1. CASE i <= Len(s)
      BY <1>1, <2>1 DEF Alternates
    <2>2. CASE i > Len(s)
      <3> DEFINE k == i - Len(s)
      <3>1. k \in 1 .. Len(t) /\ i \in Len(s) + 1 .. Len(w) /\ i = Len(s) + k
        BY <1>1, <2>2
      <3>2. w[i] = t[k]
        BY <1>1, <3>1
      <3> HIDE DEF k
      <3>3. Turn(k) = Turn(i)
        <4>1. k \in Nat /\ Len(s) % 2 = 0
          BY <3>1 DEF Alternates
        <4>2. Turn(Len(s) + k) = Turn(k)
          BY <1>1, <4>1, EvenFacts
        <4> QED  BY <3>1, <4>2
      <3> QED  BY <3>1, <3>2, <3>3 DEF Alternates
    <2> QED  BY <1>1, <2>1, <2>2
  <1>3. Len(w) % 2 = 0
    BY <1>1, EvenFacts DEF Alternates
  <1>4. Alternates(w)
    BY <1>1, <1>2, <1>3 DEF Alternates
  <1> QED  BY <1>1, <1>4 DEF w

LEMMA MessageFacts ==
    ASSUME NEW kind \in Kinds, NEW seq \in Nat
    PROVE  Alternates(Message(kind, seq)) /\ Len(Message(kind, seq)) = 10 + 2 * kind.extra
  <1> DEFINE texts == [i \in 1 .. 2 * kind.extra |-> Field(Text, 0)[2 - (i % 2)]]
             first == Field(MsgType, kind.type) \o Field(MsgSeqNum, seq)
             body == first \o texts
             begin == Field(BeginString, 44) \o Field(BodyLength, Len(body))
             whole == begin \o body
             last == Field(CheckSum, Sum(whole))
  <1>1. kind.type \in Nat /\ kind.extra \in Nat
    BY FramingAssumption
  <1>2. Alternates(first) /\ Len(first) = 4
    <2> DEFINE a == Field(MsgType, kind.type)
               b == Field(MsgSeqNum, seq)
    <2>1. Alternates(a) /\ Len(a) = 2 /\ Alternates(b) /\ Len(b) = 2
      BY <1>1, FieldFacts DEF MsgType, MsgSeqNum
    <2> HIDE DEF a, b
    <2>2. Alternates(a \o b) /\ Len(a \o b) = Len(a) + Len(b)
      BY <2>1, AlternatesConcat
    <2> QED  BY <2>1, <2>2 DEF a, b
  <1>3. Alternates(texts) /\ Len(texts) = 2 * kind.extra
    <2> DEFINE n == 2 * kind.extra
    <2>1. n \in Nat /\ n % 2 = 0
      BY <1>1
    <2> HIDE DEF n
    <2>2. ASSUME NEW i \in 1 .. n
          PROVE  LET x == Field(Text, 0)[2 - (i % 2)] IN x \in Symbol /\ x.half = Turn(i)
      BY <2>1 DEF Field, Text, Turn, Symbol
    <2>3. texts \in Seq(Symbol) /\ Len(texts) = n /\ \A i \in 1 .. n : texts[i].half = Turn(i)
      BY <2>1, <2>2 DEF n
    <2> QED  BY <2>1, <2>3 DEF Alternates, n
  <1> HIDE DEF first, texts
  <1>4. Alternates(body) /\ Len(body) = 4 + 2 * kind.extra /\ Len(body) \in Nat
    <2>1. Alternates(body) /\ Len(body) = 4 + 2 * kind.extra
      BY <1>2, <1>3, AlternatesConcat
    <2> QED  BY <1>1, <2>1
  <1> HIDE DEF body
  <1>5. Alternates(begin) /\ Len(begin) = 4
    <2> DEFINE a == Field(BeginString, 44)
               b == Field(BodyLength, Len(body))
    <2>1. Alternates(a) /\ Len(a) = 2 /\ Alternates(b) /\ Len(b) = 2
      BY <1>4, FieldFacts DEF BeginString, BodyLength
    <2> HIDE DEF a, b
    <2>2. Alternates(a \o b) /\ Len(a \o b) = Len(a) + Len(b)
      BY <2>1, AlternatesConcat
    <2> QED  BY <2>1, <2>2 DEF a, b
  <1> HIDE DEF begin
  <1>6. Alternates(whole) /\ Len(whole) = 8 + 2 * kind.extra
    <2>1. Alternates(whole) /\ Len(whole) = 4 + (4 + 2 * kind.extra)
      BY <1>4, <1>5, AlternatesConcat
    <2> QED  BY <1>1, <2>1
  <1> HIDE DEF whole
  <1>7. Sum(whole) \in Nat
    <2>1. Sum(whole) \in 0 .. 255
      BY <1>6, SumFacts DEF Alternates
    <2> QED  BY <2>1
  <1>8. Alternates(last) /\ Len(last) = 2
    BY <1>7, FieldFacts DEF CheckSum
  <1> HIDE DEF last
  <1>9. Message(kind, seq) = whole \o last
    BY DEF Message, whole, begin, body, first, texts, last
  <1>10. Alternates(whole \o last) /\ Len(whole \o last) = (8 + 2 * kind.extra) + 2
    BY <1>6, <1>8, AlternatesConcat
  <1> QED  BY <1>1, <1>9, <1>10

LEMMA SoundIsShaped ==
    ASSUME NEW kind \in Kinds, NEW seq \in Nat
    PROVE  Shaped(Message(kind, seq))
  <1> DEFINE m == Message(kind, seq)
  <1>1. Alternates(m) /\ Len(m) = 10 + 2 * kind.extra /\ kind.extra \in Nat
    BY MessageFacts, FramingAssumption
  <1> HIDE DEF m
  <1>2. Len(m) >= 10 /\ 0 \in Nat
    BY <1>1
  <1>3. Shaped(m)
    BY <1>1, <1>2 DEF Shaped, Alternates
  <1> QED  BY <1>3 DEF m

LEMMA DamagedIsShaped ==
    ASSUME NEW kind \in Kinds, NEW seq \in Nat, NEW d \in DOMAIN Message(kind, seq)
    PROVE  /\ Shaped([Message(kind, seq) EXCEPT ![d].half = "junk"])
           /\ \A n \in Nat : Shaped([Message(kind, seq) EXCEPT ![d].is = n])
  <1> DEFINE m == Message(kind, seq)
  <1>1. /\ m \in Seq(Symbol) /\ d \in Nat /\ d \in 1 .. Len(m) /\ Len(m) >= 10 /\ Len(m) % 2 = 0
        /\ \A i \in 1 .. Len(m) : m[i].half = Turn(i)
    <2>1. Alternates(m) /\ Len(m) = 10 + 2 * kind.extra /\ kind.extra \in Nat
      BY MessageFacts, FramingAssumption
    <2> QED  BY <2>1 DEF Alternates
  <1> HIDE DEF m
  <1>2. ASSUME NEW x \in Symbol PROVE Shaped([m EXCEPT ![d] = x])
    <2> DEFINE v == [m EXCEPT ![d] = x]
    <2>1. /\ v \in Seq(Symbol) /\ Len(v) = Len(m)
          /\ \A i \in 1 .. Len(m) : i # d => v[i] = m[i]
      BY <1>1, <1>2
    <2> HIDE DEF v
    <2>2. Shaped(v)
      BY <1>1, <2>1 DEF Shaped
    <2> QED  BY <2>2 DEF v
  <1>3. m[d] \in Symbol
    BY <1>1
  <1>4. [m[d] EXCEPT !.half = "junk"] \in Symbol /\ \A n \in Nat : [m[d] EXCEPT !.is = n] \in Symbol
    BY <1>3 DEF Symbol
  <1> QED  BY <1>2, <1>4 DEF m

-----------------------------------------------------------------------------
(* The buffer.                                                             *)

Buffers ==
    {b \in [start : Nat, unread : Seq(Symbol)] : b.start + Len(b.unread) <= Capacity}

\* t is s without some symbols at its start.
Suffix(t, s) ==
    /\ t \in Seq(Symbol) /\ Len(t) <= Len(s)
    /\ \A i \in 1 .. Len(t) : t[i] = s[Len(s) - Len(t) + i]

LEMMA DenseSuffix ==
    ASSUME NEW s \in Seq(Symbol), Dense(s), Closing(s), NEW t, Suffix(t, s)
    PROVE  Dense(t) /\ Closing(t)
  <1> DEFINE n == Len(s) - Len(t)
  <1>1. /\ t \in Seq(Symbol) /\ Len(t) \in Nat /\ Len(s) \in Nat /\ n \in Nat /\ Len(s) = n + Len(t)
        /\ \A i \in 1 .. Len(t) : t[i] = s[n + i]
    BY DEF Suffix
  <1> HIDE DEF n
  <1>2. ASSUME NEW k \in Nat \ {0}, NEW l \in Nat, l <= Len(t), NEW half \in {"tag", "value"},
               NEW a, NEW z, a = n + k, z = n + l, \E j \in a .. z : s[j].half = half
        PROVE  \E j \in k .. l : t[j].half = half
    <2>1. PICK j \in n + k .. n + l : s[j].half = half
      BY <1>2
    <2> DEFINE m == j - n
    <2>2. m \in k .. l /\ m \in 1 .. Len(t) /\ n + m = j
      BY <1>1, <1>2
    <2> HIDE DEF m
    <2> QED  BY <1>1, <2>1, <2>2
  <1>3. ASSUME NEW half \in {"tag", "value"}, NEW i \in 1 .. Len(t) - 5
        PROVE  \E j \in i .. i + 5 : t[j].half = half
    <2> DEFINE a == n + i
    <2>1. a \in 1 .. Len(s) - 5 /\ a = n + i
      BY <1>1
    <2> HIDE DEF a
    <2>2. PICK j \in a .. a + 5 : s[j].half = half
      BY <2>1 DEF Dense
    <2> DEFINE m == j - n
    <2>3. m \in i .. i + 5 /\ m \in 1 .. Len(t) /\ n + m = j
      BY <1>1, <2>1
    <2> HIDE DEF m
    <2> QED  BY <1>1, <2>2, <2>3
  <1>4. ASSUME Len(t) >= 4 PROVE \E j \in Len(t) - 3 .. Len(t) : t[j].half = "tag"
    <2> DEFINE k == Len(t) - 3
    <2>1. k \in Nat \ {0} /\ Len(s) >= 4 /\ Len(s) - 3 = n + k /\ Len(s) = n + Len(t)
      BY <1>1, <1>4
    <2>2. \E j \in Len(s) - 3 .. Len(s) : s[j].half = "tag"
      BY <2>1 DEF Closing
    <2> HIDE DEF k
    <2>3. \E j \in k .. Len(t) : t[j].half = "tag"
      BY <1>1, <1>2, <2>1, <2>2
    <2> QED  BY <2>3 DEF k
  <1>5. ASSUME Len(t) >= 3 PROVE \E j \in Len(t) - 2 .. Len(t) : t[j].half = "value"
    <2> DEFINE k == Len(t) - 2
    <2>1. k \in Nat \ {0} /\ Len(s) >= 3 /\ Len(s) - 2 = n + k /\ Len(s) = n + Len(t)
      BY <1>1, <1>5, SMTT(30)
    <2>2. \E j \in Len(s) - 2 .. Len(s) : s[j].half = "value"
      BY <2>1 DEF Closing
    <2> HIDE DEF k
    <2>3. \E j \in k .. Len(t) : t[j].half = "value"
      BY <1>1, <1>2, <2>1, <2>2
    <2> QED  BY <2>3 DEF k
  <1> QED  BY <1>3, <1>4, <1>5 DEF Dense, Closing

LEMMA DensePrefix ==
    ASSUME NEW s \in Seq(Symbol), NEW t \in Seq(Symbol), Dense(s \o t)
    PROVE  Dense(s)
  <1> DEFINE w == s \o t
  <1>1. Len(s) \in Nat /\ Len(s) <= Len(w) /\ Len(w) \in Nat /\ \A i \in 1 .. Len(s) : w[i] = s[i]
    OBVIOUS
  <1> HIDE DEF w
  <1>2. Dense(w)
    BY DEF w
  <1>3. ASSUME NEW half \in {"tag", "value"}, NEW i \in 1 .. Len(s) - 5
        PROVE  \E j \in i .. i + 5 : s[j].half = half
    <2>1. i \in 1 .. Len(w) - 5 /\ i .. i + 5 \subseteq 1 .. Len(s)
      BY <1>1
    <2>2. PICK j \in i .. i + 5 : w[j].half = half
      BY <1>2, <2>1 DEF Dense
    <2> QED  BY <1>1, <2>1, <2>2
  <1> QED  BY <1>3 DEF Dense

LEMMA AdvanceFacts ==
    ASSUME NEW b, b.start \in Nat, b.unread \in Seq(Symbol), b.start + Len(b.unread) <= Capacity,
           NEW n \in 0 .. Len(b.unread)
    PROVE  /\ Advance(b, n) \in Buffers
           /\ Suffix(Advance(b, n).unread, b.unread)
           /\ Len(Advance(b, n).unread) = Len(b.unread) - n
  <1> DEFINE u == b.unread
             v == SubSeq(u, n + 1, Len(u))
  <1>1. u \in Seq(Symbol) /\ Len(u) \in Nat /\ n \in 0 .. Len(u)
    OBVIOUS
  <1> HIDE DEF u
  <1>2. v \in Seq(Symbol) /\ Len(v) = Len(u) - n /\ \A i \in 1 .. Len(v) : v[i] = u[n + i]
    BY <1>1
  <1> HIDE DEF v
  <1>3. Suffix(v, u)
    <2>1. Len(u) - Len(v) = n
      BY <1>1, <1>2
    <2> QED  BY <1>1, <1>2, <2>1 DEF Suffix
  <1>4. Advance(b, n) = [start |-> b.start + n, unread |-> v]
    BY DEF Advance, v, u
  <1>5. b.start + n \in Nat /\ (b.start + n) + Len(v) <= Capacity
    BY <1>1, <1>2, SMTT(30) DEF u
  <1>6. [start |-> b.start + n, unread |-> v] \in Buffers
    BY <1>2, <1>5 DEF Buffers
  <1> QED  BY <1>2, <1>3, <1>4, <1>6 DEF u

LEMMA CompactFacts ==
    ASSUME NEW b \in Buffers
    PROVE  Compact(b) \in Buffers /\ Compact(b).unread = b.unread
  <1>1. 0 \in Nat /\ 0 + Len(b.unread) <= Capacity
    BY FramingAssumption DEF Buffers
  <1> QED  BY <1>1 DEF Compact, Buffers

LEMMA RoomFacts ==
    ASSUME NEW b \in Buffers, NEW n \in 1 .. Room(b)
    PROVE  b.start + Len(b.unread) + n <= Capacity
  <1>1. /\ Capacity \in Nat /\ MaxMessage \in Nat /\ b.start \in Nat /\ Len(b.unread) \in Nat
    BY FramingAssumption DEF Buffers
  <1>2. CASE Remaining(b) > MaxMessage
    BY <1>1, <1>2 DEF Room, Remaining
  <1>3. CASE ~(Remaining(b) > MaxMessage)
    BY <1>3 DEF Room
  <1> QED  BY <1>2, <1>3

-----------------------------------------------------------------------------
(* The invariant.                                                          *)

\* What has been read into the buffer and what is still to come.
Stream == rx.unread \o wire

Framed == TypeOK /\ Dense(Stream) /\ Closing(Stream)

\* What the parser leaves of a buffer b, and what it has found.
LEMMA ParsedFacts ==
    ASSUME NEW b, b.start \in Nat, b.unread \in Seq(Symbol), b.start + Len(b.unread) <= Capacity
    PROVE  LET p == Parse(b.unread)
           IN  /\ Parsed(b, p) \in Buffers /\ Suffix(Parsed(b, p).unread, b.unread)
               /\ p.at \in 1 .. Len(b.unread) + 1
               /\ Len(Parsed(b, p).unread) = Len(b.unread) + 1 - p.at
               /\ p.state \in {"found", "partial"}
               /\ p.state = "found" => p.msg \in [seq : Nat, type : Nat]
               /\ p.state = "partial" /\ p.at <= Len(b.unread) => Wanting(b.unread, p.at)
  <1> DEFINE u == b.unread
             p == Parse(u)
  <1>1. Stops(u, p) /\ Len(u) \in Nat
    BY ParseStops
  <1> HIDE DEF p
  <1>2. /\ p.at \in 1 .. Len(u) + 1 /\ p.state \in {"found", "partial"}
        /\ p.state = "found" => p.msg \in [seq : Nat, type : Nat]
        /\ p.state = "partial" /\ p.at <= Len(u) => Wanting(u, p.at)
    <2>1. ASSUME NEW begin \in 1 .. Len(u), NEW at \in begin + 2 .. Len(u),
                 Whole(u, begin, at), p = RestOfMessage(u, at)
          PROVE  p.state = "found" /\ p.at \in 1 .. Len(u) + 1 /\ p.msg \in [seq : Nat, type : Nat]
      <3>1. /\ p.state = "found" /\ p.at \in at + 1 .. Len(u) + 1 /\ p.msg \in [seq : Nat, type : Nat]
        BY <2>1, RestFacts
      <3> QED  BY <1>1, <3>1
    <2>2. ASSUME NEW begin \in 1 .. Len(u) + 1, begin <= Len(u) PROVE begin \in 1 .. Len(u)
      BY <1>1, <2>2
    <2> QED  BY <1>1, <2>1, <2>2 DEF Stops, StopsIn
  <1>3. p.at - 1 \in 0 .. Len(u) /\ Len(u) - (p.at - 1) = Len(u) + 1 - p.at
    BY <1>1, <1>2
  <1>4. /\ Parsed(b, p) \in Buffers /\ Suffix(Parsed(b, p).unread, u)
        /\ Len(Parsed(b, p).unread) = Len(u) + 1 - p.at
    BY <1>3, AdvanceFacts DEF Parsed
  <1> QED  BY <1>2, <1>4 DEF p

LEMMA SuffixAppend ==
    ASSUME NEW s \in Seq(Symbol), NEW t, Suffix(t, s), NEW w \in Seq(Symbol)
    PROVE  Suffix(t \o w, s \o w)
  <1> DEFINE a == s \o w
             c == t \o w
  <1>1. /\ t \in Seq(Symbol) /\ Len(s) \in Nat /\ Len(t) \in Nat /\ Len(w) \in Nat /\ Len(t) <= Len(s)
        /\ a \in Seq(Symbol) /\ Len(a) = Len(s) + Len(w) /\ \A i \in 1 .. Len(s) : a[i] = s[i]
        /\ \A i \in Len(s) + 1 .. Len(a) : a[i] = w[i - Len(s)]
        /\ c \in Seq(Symbol) /\ Len(c) = Len(t) + Len(w) /\ \A i \in 1 .. Len(t) : c[i] = t[i]
        /\ \A i \in Len(t) + 1 .. Len(c) : c[i] = w[i - Len(t)]
    BY DEF Suffix
  <1> HIDE DEF a, c
  <1>2. ASSUME NEW i \in 1 .. Len(c) PROVE c[i] = a[Len(a) - Len(c) + i]
    <2> DEFINE k == Len(s) - Len(t) + i
    <2>1. Len(a) - Len(c) + i = k
      BY <1>1
    <2>2. CASE i <= Len(t)
      <3>1. k \in 1 .. Len(s) /\ i \in 1 .. Len(t)
        BY <1>1, <2>2
      <3>2. t[i] = s[k]
        BY <3>1 DEF Suffix
      <3> QED  BY <1>1, <2>1, <3>1, <3>2
    <2>3. CASE i > Len(t)
      <3>1. k \in Len(s) + 1 .. Len(a) /\ i \in Len(t) + 1 .. Len(c) /\ k - Len(s) = i - Len(t)
        BY <1>1, <2>3
      <3> QED  BY <1>1, <2>1, <3>1
    <2> QED  BY <1>1, <2>2, <2>3
  <1>3. Suffix(c, a)
    BY <1>1, <1>2 DEF Suffix
  <1> QED  BY <1>3 DEF a, c

LEMMA FramedInit == Init => Framed
  <1> SUFFICES ASSUME Init PROVE Framed
    OBVIOUS
  <1>1. Stream = << >>
    BY DEF Init, Stream
  <1>2. Dense(<< >>) /\ Closing(<< >>)
    BY DEF Dense, Closing
  <1>3. TypeOK
    BY FramingAssumption DEF Init, TypeOK
  <1> QED  BY <1>1, <1>2, <1>3 DEF Framed

LEMMA DeliverFacts ==
    ASSUME TypeOK, NEW p, p.msg \in [seq : Nat, type : Nat], Deliver(p)
    PROVE  delivered' \in Seq([seq : Nat, type : Nat])
  BY DEF TypeOK, Deliver

LEMMA FramedRecvBuffered ==
    ASSUME Framed, RecvBuffered
    PROVE  Framed'
  <1> DEFINE p == Parse(rx.unread)
  <1>1. /\ rx.start \in Nat /\ rx.unread \in Seq(Symbol) /\ rx.start + Len(rx.unread) <= Capacity
        /\ wire \in Seq(Symbol)
    BY DEF Framed, TypeOK
  <1>2. p.state = "found" /\ Deliver(p) /\ rx' = Parsed(rx, p)
    BY DEF RecvBuffered
  <1>3. rx' \in Buffers /\ Suffix(rx'.unread, rx.unread) /\ p.msg \in [seq : Nat, type : Nat]
    BY <1>1, <1>2, ParsedFacts
  <1> HIDE DEF p
  <1>4. delivered' \in Seq([seq : Nat, type : Nat])
    BY <1>2, <1>3, DeliverFacts DEF Framed
  <1>5. TypeOK'
    BY <1>3, <1>4 DEF Framed, TypeOK, RecvBuffered, Buffers
  <1>6. Suffix(Stream', Stream)
    BY <1>1, <1>3, SuffixAppend DEF Stream, RecvBuffered
  <1>7. Dense(Stream') /\ Closing(Stream')
    <2>1. Stream \in Seq(Symbol)
      BY <1>1 DEF Stream
    <2> QED  BY <1>6, <2>1, DenseSuffix DEF Framed
  <1> QED  BY <1>5, <1>7 DEF Framed, Dense, Closing

\* u is what has come of s.
Prefix(u, s) ==
    u \in Seq(Symbol) /\ Len(u) <= Len(s) /\ \A i \in 1 .. Len(u) : u[i] = s[i]

\* When more arrives, s is what is left after the parser has been over what there was, u what
\* has come of it, and the parser is over that too.
LEMMA ArrivedSteps ==
    ASSUME Framed, RecvArrived
    PROVE  \E s \in Seq(Symbol), u \in Seq(Symbol) :
              /\ Suffix(s, Stream) /\ Len(s) = Len(Stream) - (Parse(rx.unread).at - 1)
              /\ Prefix(u, s)
              /\ Suffix(Stream', s) /\ Len(Stream') = Len(s) - (Parse(u).at - 1)
              /\ \/ Parse(u).state = "found" /\ Deliver(Parse(u))
                 \/ Parse(u).state = "partial" /\ UNCHANGED delivered
              /\ Parse(u).state = "found" => Parse(u).msg \in [seq : Nat, type : Nat]
              /\ rx' \in Buffers /\ wire' \in Seq(Symbol) /\ Len(s) - Len(u) = Len(wire')
  <1> DEFINE p == Parse(rx.unread)
             b == Compact(Parsed(rx, p))
  <1>1. /\ rx.start \in Nat /\ rx.unread \in Seq(Symbol) /\ rx.start + Len(rx.unread) <= Capacity
        /\ wire \in Seq(Symbol) /\ Len(wire) \in Nat /\ Len(rx.unread) \in Nat
    BY DEF Framed, TypeOK
  <1>2. RecvInto(b)
    BY DEF RecvArrived
  <1>3. /\ b \in Buffers /\ Suffix(b.unread, rx.unread)
        /\ p.at \in 1 .. Len(rx.unread) + 1 /\ Len(b.unread) = Len(rx.unread) + 1 - p.at
    BY <1>1, ParsedFacts, CompactFacts
  <1> HIDE DEF p, b
  <1>4. PICK n \in 1 .. Room(b) :
           /\ n <= Len(wire) /\ wire' = SubSeq(wire, n + 1, Len(wire))
           /\ LET r == [b EXCEPT !.unread = @ \o SubSeq(wire, 1, n)]
                  q == Parse(r.unread)
              IN  rx' = Parsed(r, q) /\ (\/ q.state = "found" /\ Deliver(q)
                                         \/ q.state = "partial" /\ UNCHANGED delivered)
    BY <1>2 DEF RecvInto
  <1> DEFINE new == SubSeq(wire, 1, n)
             r == [b EXCEPT !.unread = @ \o new]
             u == r.unread
             q == Parse(u)
             s == b.unread \o wire
  <1>5. n \in Nat /\ n <= Len(wire) /\ n >= 1
    <2>1. Capacity \in Nat /\ MaxMessage \in Nat
      BY FramingAssumption, Zenon
    <2>2. Room(b) \in Nat
      BY <1>3, <2>1, SMTT(30) DEF Room, Remaining, Buffers
    <2> QED  BY <1>4, <2>2
  <1>6. /\ new \in Seq(Symbol) /\ Len(new) = n /\ wire' \in Seq(Symbol) /\ new \o wire' = wire
        /\ Len(wire') = Len(wire) - n
    <2>1. wire' = SubSeq(wire, n + 1, Len(wire))
      BY <1>4
    <2>2. new \in Seq(Symbol) /\ Len(new) = n /\ wire' \in Seq(Symbol) /\ Len(wire') = Len(wire) - n
      BY <1>1, <1>5, <2>1
    <2>3. 1 \in 1 .. Len(wire) + 1 /\ n \in 1 - 1 .. Len(wire) /\ Len(wire) \in n .. Len(wire)
      BY <1>1, <1>5
    <2>4. new \o wire' = SubSeq(wire, 1, Len(wire))
      BY <1>1, <2>1, <2>3, ConcatAdjacentSubSeq
    <2>5. SubSeq(wire, 1, Len(wire)) = wire
      BY <1>1
    <2> QED  BY <2>2, <2>4, <2>5
  <1>7. rx' = Parsed(r, q) /\ (\/ q.state = "found" /\ Deliver(q)
                               \/ q.state = "partial" /\ UNCHANGED delivered)
    BY <1>4
  <1> HIDE DEF new
  <1>8. /\ r.start = b.start /\ u = b.unread \o new /\ b.unread \in Seq(Symbol)
        /\ r.start \in Nat /\ u \in Seq(Symbol) /\ Len(b.unread) \in Nat
        /\ Len(u) = Len(b.unread) + n
    <2>1. b.unread \in Seq(Symbol) /\ b.start \in Nat /\ Len(b.unread) \in Nat
      BY <1>3 DEF Buffers
    <2>2. r.start = b.start /\ u = b.unread \o new
      BY <1>3 DEF Buffers
    <2> HIDE DEF r, u
    <2>3. b.unread \o new \in Seq(Symbol) /\ Len(b.unread \o new) = Len(b.unread) + n
      <3>1. \A x, y \in Seq(Symbol) : x \o y \in Seq(Symbol) /\ Len(x \o y) = Len(x) + Len(y)
        OBVIOUS
      <3> QED  BY <1>6, <2>1, <3>1, Zenon
    <2> QED  BY <2>1, <2>2, <2>3
  <1>9. r.start + Len(u) <= Capacity
    <2>1. b.start + Len(b.unread) + n <= Capacity
      BY <1>3, <1>4, RoomFacts
    <2>2. b.start \in Nat /\ Len(b.unread) \in Nat
      BY <1>3 DEF Buffers
    <2> QED  BY <1>5, <1>8, <2>1, <2>2
  <1> HIDE DEF r
  <1>10. /\ rx' \in Buffers /\ Suffix(rx'.unread, u) /\ Len(rx'.unread) = Len(u) + 1 - q.at
         /\ q.at \in 1 .. Len(u) + 1
         /\ q.state = "found" => q.msg \in [seq : Nat, type : Nat]
    BY <1>7, <1>8, <1>9, ParsedFacts
  <1> HIDE DEF u, q
  <1>11. s = u \o wire'
    <2>1. (b.unread \o new) \o wire' = b.unread \o (new \o wire')
      <3>1. new \in Seq(Symbol) /\ wire' \in Seq(Symbol) /\ b.unread \in Seq(Symbol)
        BY <1>6, <1>8
      <3>2. \A x, y, z \in Seq(Symbol) : (x \o y) \o z = x \o (y \o z)
        BY ConcatAssociative
      <3> QED  BY <3>1, <3>2, Zenon
    <2> QED  BY <1>6, <1>8, <2>1
  <1>12. Suffix(s, Stream)
    BY <1>1, <1>3, SuffixAppend DEF Stream
  <1>13. Suffix(Stream', s)
    <2>1. Suffix(rx'.unread \o wire', u \o wire')
      BY <1>6, <1>8, <1>10, SuffixAppend
    <2> HIDE DEF s
    <2> QED  BY <1>11, <2>1 DEF Stream
  <1>14. s \in Seq(Symbol) /\ Len(s) = Len(b.unread) + Len(wire) /\ Len(Stream) = Len(rx.unread) + Len(wire)
    BY <1>1, <1>8 DEF Stream
  <1>15. Len(Stream') = Len(rx'.unread) + Len(wire')
    <2>1. rx'.unread \in Seq(Symbol) /\ Stream' = rx'.unread \o wire'
      BY <1>10 DEF Suffix, Stream
    <2>2. \A x, y \in Seq(Symbol) : Len(x \o y) = Len(x) + Len(y)
      OBVIOUS
    <2> QED  BY <1>6, <2>1, <2>2, Zenon
  <1>16. Len(s) = Len(u) + Len(wire') /\ \A i \in 1 .. Len(u) : s[i] = u[i]
    <2>1. u \in Seq(Symbol) /\ wire' \in Seq(Symbol)
      BY <1>6, <1>8
    <2>2. Len(u \o wire') = Len(u) + Len(wire') /\ \A i \in 1 .. Len(u) : (u \o wire')[i] = u[i]
      BY <2>1
    <2> HIDE DEF s
    <2> QED  BY <1>11, <2>2
  <1> HIDE DEF s
  <1>17. Prefix(u, s)
    <2>1. u \in Seq(Symbol) /\ Len(u) \in Nat /\ Len(wire') \in Nat
      BY <1>6, <1>8
    <2> QED  BY <1>16, <2>1 DEF Prefix
  <1>18. Len(s) = Len(Stream) - (p.at - 1)
    <2>1. /\ Len(s) = Len(b.unread) + Len(wire) /\ Len(Stream) = Len(rx.unread) + Len(wire)
          /\ Len(b.unread) = Len(rx.unread) + 1 - p.at /\ p.at \in Nat
          /\ Len(b.unread) \in Nat /\ Len(wire) \in Nat /\ Len(rx.unread) \in Nat
      BY <1>1, <1>3, <1>8, <1>14, SMTT(30)
    <2>2. p.at - 1 = Len(rx.unread) - Len(b.unread)
      BY <2>1, Z3
    <2>3. Len(Stream) - (Len(rx.unread) - Len(b.unread)) = Len(s)
      BY <2>1, Z3
    <2> QED  BY <2>2, <2>3, Zenon
  <1>19. Len(Stream') = Len(s) - (q.at - 1)
    <2>1. /\ Len(Stream') = Len(rx'.unread) + Len(wire') /\ Len(rx'.unread) = Len(u) + 1 - q.at
          /\ q.at \in Nat /\ Len(u) \in Nat /\ Len(wire') \in Nat
      <3>1. u \in Seq(Symbol) /\ Len(u) \in Nat /\ wire' \in Seq(Symbol) /\ Len(wire') \in Nat
        BY <1>6, <1>8
      <3>2. q.at \in Nat
        BY <1>10, <3>1
      <3> QED  BY <1>10, <1>15, <3>1, <3>2, Zenon
    <2>2. Len(s) = Len(u) + Len(wire')
      BY <1>16
    <2> HIDE DEF q
    <2> QED  BY <2>1, <2>2, Z3
  <1>20. Len(s) - Len(u) = Len(wire')
    <2>1. Len(u) \in Nat /\ Len(wire') \in Nat /\ Len(s) = Len(u) + Len(wire')
      BY <1>6, <1>8, <1>16
    <2> QED  BY <2>1, Z3
  <1> QED  BY <1>6, <1>7, <1>8, <1>10, <1>12, <1>13, <1>14, <1>17, <1>18, <1>19, <1>20 DEF p, q

LEMMA FramedRecvArrived ==
    ASSUME Framed, RecvArrived
    PROVE  Framed'
  <1>1. PICK s \in Seq(Symbol), u \in Seq(Symbol) :
           /\ Suffix(s, Stream) /\ Suffix(Stream', s)
           /\ \/ Parse(u).state = "found" /\ Deliver(Parse(u))
              \/ Parse(u).state = "partial" /\ UNCHANGED delivered
           /\ Parse(u).state = "found" => Parse(u).msg \in [seq : Nat, type : Nat]
           /\ rx' \in Buffers /\ wire' \in Seq(Symbol)
    BY ArrivedSteps
  <1>2. delivered' \in Seq([seq : Nat, type : Nat])
    BY <1>1, DeliverFacts DEF Framed, TypeOK
  <1>3. TypeOK'
    <2>1. split' \subseteq DOMAIN sent /\ sent' = sent
      BY DEF RecvArrived, Framed, TypeOK
    <2> QED  BY <1>1, <1>2, <2>1 DEF Framed, TypeOK, Buffers
  <1>4. Dense(s) /\ Closing(s)
    <2>1. Stream \in Seq(Symbol)
      BY DEF Framed, TypeOK, Stream
    <2> QED  BY <1>1, <2>1, DenseSuffix DEF Framed
  <1>5. Dense(Stream') /\ Closing(Stream')
    BY <1>1, <1>4, DenseSuffix
  <1> QED  BY <1>3, <1>5 DEF Framed, Dense, Closing

LEMMA FramedPuts ==
    ASSUME Framed, NEW v, Shaped(v), NEW type \in Types, NEW harm \in Harms, Puts(v, type, harm)
    PROVE  Framed'
  <1>1. /\ rx.unread \in Seq(Symbol) /\ wire \in Seq(Symbol) /\ v \in Seq(Symbol) /\ Len(v) \in Nat
    BY DEF Framed, TypeOK, Shaped
  <1>2. wire' = wire \o v /\ rx' = rx /\ UNCHANGED <<delivered, split>>
    BY DEF Puts
  <1>3. sent' = Append(sent, [type |-> type, harm |-> harm, end |-> EndOf(Len(sent)) + Len(v)])
    BY DEF Puts
  <1>4. TypeOK'
    <2>1. sent \in Seq([type : Types, harm : Harms, end : Nat])
      BY DEF Framed, TypeOK
    <2>2. [type |-> type, harm |-> harm, end |-> EndOf(Len(sent)) + Len(v)] \in [type : Types, harm : Harms, end : Nat]
      <3>0. Len(sent) \in Nat /\ (Len(sent) # 0 => sent[Len(sent)] \in [type : Types, harm : Harms, end : Nat])
        <4>1. Len(sent) \in Nat /\ (Len(sent) # 0 => Len(sent) \in 1 .. Len(sent))
          BY <2>1, LenProperties
        <4> QED  BY <2>1, <4>1, ElementOfSeq
      <3>1. EndOf(Len(sent)) \in Nat
        BY <3>0 DEF EndOf
      <3> QED  BY <1>1, <3>1
    <2>3. sent' \in Seq([type : Types, harm : Harms, end : Nat]) /\ DOMAIN sent \subseteq DOMAIN sent'
      BY <1>3, <2>1, <2>2
    <2>4. wire' \in Seq(Symbol)
      BY <1>1, <1>2
    <2> QED  BY <1>2, <2>3, <2>4 DEF Framed, TypeOK
  <1>5. Stream' = Stream \o v /\ Stream \in Seq(Symbol)
    <2>1. \A x, y, z \in Seq(Symbol) : (x \o y) \o z = x \o (y \o z)
      BY ConcatAssociative
    <2>2. Stream' = rx.unread \o (wire \o v)
      BY <1>2 DEF Stream
    <2>3. rx.unread \o (wire \o v) = (rx.unread \o wire) \o v
      BY <1>1, <2>1, Zenon
    <2> QED  BY <1>1, <2>2, <2>3 DEF Stream
  <1>6. Dense(Stream') /\ Closing(Stream')
    BY <1>5, DenseAppend DEF Framed
  <1> QED  BY <1>4, <1>6 DEF Framed, Dense, Closing

LEMMA FramedPeer ==
    ASSUME Framed, NEW kind \in Kinds, PeerSends(kind) \/ Garble(kind)
    PROVE  Framed'
  <1> DEFINE seq == Len(sent) + 1
             m == Message(kind, seq)
  <1>1. seq \in Nat /\ kind.type \in Types
    BY DEF Framed, TypeOK, Types
  <1>2. CASE PeerSends(kind)
    <2>1. PICK harm \in {"none", "unknown"} : Puts(m, kind.type, harm)
      BY <1>2 DEF PeerSends
    <2>2. Shaped(m)
      BY <1>1, SoundIsShaped
    <2> QED  BY <1>1, <2>1, <2>2, FramedPuts DEF Harms
  <1>3. CASE Garble(kind)
    <2>1. PICK i \in DOMAIN m :
             \/ \E harm \in {"joined", "damaged"} :
                   Puts([m EXCEPT ![i].half = "junk"], kind.type, harm)
             \/ \E n \in Changes : \E harm \in {"length", "damaged"} :
                   Puts([m EXCEPT ![i].is = n], kind.type, harm)
      BY <1>3 DEF Garble
    <2>2. /\ Shaped([m EXCEPT ![i].half = "junk"])
          /\ \A n \in Changes : Shaped([m EXCEPT ![i].is = n])
      <3>1. \A n \in Changes : n \in Nat
        BY FramingAssumption
      <3> QED  BY <1>1, <3>1, DamagedIsShaped
    <2> HIDE DEF m
    <2> QED  BY <1>1, <2>1, <2>2, FramedPuts DEF Harms
  <1> QED  BY <1>2, <1>3

\* The buffer holds what was received, and tags and ends of values are never far apart.
LEMMA FramedInvariant == Spec => []Framed
  <1>1. Framed /\ [Next]_vars => Framed'
    <2> SUFFICES ASSUME Framed, [Next]_vars PROVE Framed'
      OBVIOUS
    <2>1. CASE RecvBuffered
      BY <2>1, FramedRecvBuffered
    <2>2. CASE RecvArrived
      BY <2>2, FramedRecvArrived
    <2>3. ASSUME NEW kind \in Kinds, PeerSends(kind) \/ Garble(kind) PROVE Framed'
      BY <2>3, FramedPeer
    <2>4. CASE UNCHANGED vars
      BY <2>4 DEF vars, Framed, TypeOK, Stream, Dense, Closing
    <2> QED  BY <2>1, <2>2, <2>3, <2>4 DEF Next, Ended
  <1> QED  BY <1>1, FramedInit, PTL DEF Spec

\* Every reachable state of the stream and the receive buffer has its type: what is received
\* fits the buffer, and what is delivered is a message with a number and a type.
THEOREM TypeCorrect == Spec => []TypeOK
  BY FramedInvariant, PTL DEF Framed

\* With nothing to parse there is room to receive more.
THEOREM NeverFull == Spec => []CanReceive
  <1>1. Framed => CanReceive
    <2> SUFFICES ASSUME Framed, Parse(rx.unread).state = "partial"
                 PROVE  Room(Compact(Parsed(rx, Parse(rx.unread)))) > 0
      BY DEF CanReceive
    <2> DEFINE u == rx.unread
               p == Parse(u)
               c == Parsed(rx, p)
               b == Compact(c)
    <2>1. /\ u \in Seq(Symbol) /\ wire \in Seq(Symbol) /\ Len(u) \in Nat
          /\ rx.start \in Nat /\ rx.start + Len(u) <= Capacity
      BY DEF Framed, TypeOK
    <2>2. /\ c \in Buffers /\ p.at \in 1 .. Len(u) + 1
          /\ p.at <= Len(u) => Wanting(u, p.at)
          /\ Len(c.unread) = Len(u) + 1 - p.at
      BY <2>1, ParsedFacts
    <2>3. Dense(u)
      BY <2>1, DensePrefix DEF Framed, Stream
    <2>4. p.at <= Len(u) => Len(u) <= p.at + MaxMessage + 16
      BY <2>1, <2>2, <2>3, WantingShort
    <2> HIDE DEF u, p, c
    <2>5. MaxMessage \in Nat /\ Capacity \in Nat /\ Capacity > 2 * MaxMessage + 17
      BY FramingAssumption
    <2>6. Len(c.unread) <= MaxMessage + 17
      BY <2>1, <2>2, <2>4, <2>5
    <2>7. c.start \in Nat /\ Len(c.unread) \in Nat
      BY <2>2 DEF Buffers
    <2>8. Remaining(b) > MaxMessage /\ Remaining(b) \in Int
      <3>1. CASE Full(c)
        <4>1. b.start = 0 /\ b.unread = c.unread
          BY <2>2, <3>1 DEF Compact, Buffers
        <4> QED  BY <2>5, <2>6, <2>7, <4>1 DEF Remaining
      <3>2. CASE ~Full(c)
        <4>1. b = c
          BY <3>2 DEF Compact
        <4> QED  BY <2>5, <2>7, <3>2, <4>1 DEF Full, Remaining
      <3> QED  BY <3>1, <3>2
    <2> HIDE DEF b
    <2>9. Room(b) > 0
      BY <2>5, <2>8 DEF Room
    <2> QED  BY <2>9 DEF b, c, p, u
  <1> QED  BY <1>1, FramedInvariant, PTL

-----------------------------------------------------------------------------
(* What a message is made of, symbol by symbol.                            *)

TagOf(tag) == [half |-> "tag", is |-> tag]
ValueOf(n) == [half |-> "value", is |-> n]

\* w is s followed by t.
Chained(w, s, t) ==
    /\ w \in Seq(Symbol) /\ Len(s) \in Nat /\ Len(t) \in Nat /\ Len(w) = Len(s) + Len(t)
    /\ \A i \in 1 .. Len(s) : w[i] = s[i]
    /\ \A i \in Len(s) + 1 .. Len(s) + Len(t) : w[i] = t[i - Len(s)]

LEMMA ConcatFacts ==
    \A s, t \in Seq(Symbol) : Chained(s \o t, s, t)
  <1> SUFFICES ASSUME NEW s \in Seq(Symbol), NEW t \in Seq(Symbol)
               PROVE  Chained(s \o t, s, t)
    OBVIOUS
  <1> DEFINE w == s \o t
  <1>1. /\ w \in Seq(Symbol) /\ Len(s) \in Nat /\ Len(t) \in Nat /\ Len(w) = Len(s) + Len(t)
        /\ \A i \in 1 .. Len(s) : w[i] = s[i]
        /\ \A i \in Len(s) + 1 .. Len(s) + Len(t) : w[i] = t[i - Len(s)]
    OBVIOUS
  <1> QED  BY <1>1 DEF Chained

LEMMA FieldParts ==
    ASSUME NEW tag \in Nat, NEW value \in Nat
    PROVE  /\ Field(tag, value) \in Seq(Symbol) /\ Len(Field(tag, value)) = 2
           /\ Field(tag, value)[1] = TagOf(tag) /\ Field(tag, value)[2] = ValueOf(value)
  BY DEF Field, Symbol, TagOf, ValueOf

\* f is these two fields.
Pair(f, a, x, b, y) ==
    /\ f \in Seq(Symbol) /\ Len(f) = 4
    /\ f[1] = TagOf(a) /\ f[2] = ValueOf(x) /\ f[3] = TagOf(b) /\ f[4] = ValueOf(y)

LEMMA PairFacts ==
    \A a, x, b, y \in Nat : Pair(Field(a, x) \o Field(b, y), a, x, b, y)
  <1> SUFFICES ASSUME NEW a \in Nat, NEW x \in Nat, NEW b \in Nat, NEW y \in Nat
               PROVE  Pair(Field(a, x) \o Field(b, y), a, x, b, y)
    OBVIOUS
  <1> DEFINE p == Field(a, x)
             q == Field(b, y)
             f == p \o q
  <1>1. /\ p \in Seq(Symbol) /\ Len(p) = 2 /\ p[1] = TagOf(a) /\ p[2] = ValueOf(x)
        /\ q \in Seq(Symbol) /\ Len(q) = 2 /\ q[1] = TagOf(b) /\ q[2] = ValueOf(y)
    BY FieldParts
  <1> HIDE DEF p, q
  <1>2. Chained(f, p, q)
    BY <1>1, ConcatFacts
  <1> HIDE DEF f
  <1>3. /\ f \in Seq(Symbol) /\ Len(f) = 4
        /\ f[1] = p[1] /\ f[2] = p[2] /\ f[3] = q[3 - Len(p)] /\ f[4] = q[4 - Len(p)]
    BY <1>1, <1>2 DEF Chained
  <1>4. 3 - Len(p) = 1 /\ 4 - Len(p) = 2
    BY <1>1
  <1>5. Pair(f, a, x, b, y)
    BY <1>1, <1>3, <1>4 DEF Pair
  <1> QED  BY <1>5 DEF f, p, q

\* What the peer writes.
Written(m, type, seq) ==
    /\ m[1] = TagOf(BeginString) /\ m[2] = ValueOf(44)
    /\ m[3] = TagOf(BodyLength) /\ m[4] = ValueOf(Len(m) - 6)
    /\ m[5] = TagOf(MsgType) /\ m[6] = ValueOf(type)
    /\ m[7] = TagOf(MsgSeqNum) /\ m[8] = ValueOf(seq)
    /\ \A i \in 9 .. Len(m) - 2 : m[i] \in {TagOf(Text), ValueOf(0)}
    /\ m[Len(m) - 1] = TagOf(CheckSum)
    /\ m[Len(m)] = ValueOf(Sum(SubSeq(m, 1, Len(m) - 2)))

LEMMA MessageWritten ==
    ASSUME NEW kind \in Kinds, NEW seq \in Nat
    PROVE  Written(Message(kind, seq), kind.type, seq)
  <1> DEFINE texts == [i \in 1 .. 2 * kind.extra |-> Field(Text, 0)[2 - (i % 2)]]
             first == Field(MsgType, kind.type) \o Field(MsgSeqNum, seq)
             body == first \o texts
             begin == Field(BeginString, 44) \o Field(BodyLength, Len(body))
             whole == begin \o body
             last == Field(CheckSum, Sum(whole))
             m == whole \o last
             n == 2 * kind.extra
  <1>1. kind.type \in Nat /\ n \in Nat
    BY FramingAssumption
  <1>2. /\ first \in Seq(Symbol) /\ Len(first) = 4
        /\ first[1] = TagOf(MsgType) /\ first[2] = ValueOf(kind.type)
        /\ first[3] = TagOf(MsgSeqNum) /\ first[4] = ValueOf(seq)
    <2>1. MsgType \in Nat /\ MsgSeqNum \in Nat
      BY DEF MsgType, MsgSeqNum
    <2>2. Pair(first, MsgType, kind.type, MsgSeqNum, seq)
      BY <1>1, <2>1, PairFacts
    <2> HIDE DEF first
    <2> QED  BY <2>2 DEF Pair
  <1>3. texts \in Seq(Symbol) /\ Len(texts) = n /\ \A i \in 1 .. n : texts[i] \in {TagOf(Text), ValueOf(0)}
    <2>1. ASSUME NEW i \in 1 .. n
          PROVE  Field(Text, 0)[2 - (i % 2)] \in {TagOf(Text), ValueOf(0)}
      <3>1. 2 - (i % 2) = 1 \/ 2 - (i % 2) = 2
        BY <1>1
      <3>2. Field(Text, 0)[1] = TagOf(Text) /\ Field(Text, 0)[2] = ValueOf(0)
        BY FieldParts DEF Text
      <3> QED  BY <3>1, <3>2
    <2>2. TagOf(Text) \in Symbol /\ ValueOf(0) \in Symbol
      BY DEF TagOf, ValueOf, Symbol, Text
    <2> HIDE DEF n
    <2>3. \A i \in 1 .. n : Field(Text, 0)[2 - (i % 2)] \in Symbol
      BY <2>1, <2>2
    <2>4. texts = [i \in 1 .. n |-> Field(Text, 0)[2 - (i % 2)]]
      BY DEF n
    <2> HIDE DEF texts
    <2>5. Len(texts) = n /\ texts \in Seq(Symbol)
      BY <1>1, <2>3, <2>4
    <2> QED  BY <2>1, <2>4, <2>5
  <1> HIDE DEF first, texts, n
  <1>4. /\ body \in Seq(Symbol) /\ Len(body) = 4 + n /\ Len(body) \in Nat
        /\ \A i \in 1 .. 4 : body[i] = first[i]
        /\ \A i \in 5 .. 4 + n : body[i] = texts[i - 4]
    <2>1. Chained(body, first, texts)
      BY <1>2, <1>3, ConcatFacts
    <2> QED  BY <1>1, <1>2, <1>3, <2>1 DEF Chained
  <1> HIDE DEF body
  <1>5. /\ begin \in Seq(Symbol) /\ Len(begin) = 4
        /\ begin[1] = TagOf(BeginString) /\ begin[2] = ValueOf(44)
        /\ begin[3] = TagOf(BodyLength) /\ begin[4] = ValueOf(Len(body))
    <2>1. BeginString \in Nat /\ BodyLength \in Nat /\ 44 \in Nat
      BY DEF BeginString, BodyLength
    <2>2. Pair(begin, BeginString, 44, BodyLength, Len(body))
      BY <1>4, <2>1, PairFacts
    <2> HIDE DEF begin
    <2> QED  BY <2>2 DEF Pair
  <1> HIDE DEF begin
  <1>6. /\ whole \in Seq(Symbol) /\ Len(whole) = 8 + n
        /\ \A i \in 1 .. 4 : whole[i] = begin[i]
        /\ \A i \in 5 .. 8 + n : whole[i] = body[i - 4]
    <2>1. Chained(whole, begin, body)
      BY <1>4, <1>5, ConcatFacts
    <2>2. 4 + (4 + n) = 8 + n
      BY <1>1
    <2> QED  BY <1>4, <1>5, <2>1, <2>2 DEF Chained
  <1> HIDE DEF whole
  <1>7. Sum(whole) \in Nat
    <2>1. Sum(whole) \in 0 .. 255
      BY <1>6, SumFacts
    <2> QED  BY <2>1
  <1>8. /\ last \in Seq(Symbol) /\ Len(last) = 2
        /\ last[1] = TagOf(CheckSum) /\ last[2] = ValueOf(Sum(whole))
    BY <1>7, FieldParts DEF CheckSum
  <1> HIDE DEF last
  <1>9. /\ m \in Seq(Symbol) /\ Len(m) = 10 + n
        /\ \A i \in 1 .. 8 + n : m[i] = whole[i]
        /\ m[9 + n] = last[1] /\ m[10 + n] = last[2]
    <2>1. Chained(m, whole, last)
      BY <1>6, <1>8, ConcatFacts
    <2>2. /\ m \in Seq(Symbol) /\ Len(m) = (8 + n) + 2 /\ \A i \in 1 .. 8 + n : m[i] = whole[i]
          /\ \A i \in 8 + n + 1 .. 8 + n + 2 : m[i] = last[i - (8 + n)]
      BY <1>6, <1>8, <2>1 DEF Chained
    <2>3. /\ 9 + n \in 8 + n + 1 .. 8 + n + 2 /\ 10 + n \in 8 + n + 1 .. 8 + n + 2
          /\ (9 + n) - (8 + n) = 1 /\ (10 + n) - (8 + n) = 2 /\ (8 + n) + 2 = 10 + n
      BY <1>1
    <2>4. m[9 + n] = last[(9 + n) - (8 + n)] /\ m[10 + n] = last[(10 + n) - (8 + n)]
      BY <2>2, <2>3
    <2> QED  BY <2>2, <2>3, <2>4
  <1>10. Message(kind, seq) = m
    BY DEF Message, m, whole, begin, body, first, texts, last
  <1> HIDE DEF m
  <1>11. SubSeq(m, 1, Len(m) - 2) = whole
    BY <1>1, <1>6, <1>9
  <1>12. /\ m[1] = begin[1] /\ m[2] = begin[2] /\ m[3] = begin[3] /\ m[4] = begin[4]
         /\ m[5] = first[1] /\ m[6] = first[2] /\ m[7] = first[3] /\ m[8] = first[4]
    <2>1. \A i \in 1 .. 4 : m[i] = begin[i]
      BY <1>1, <1>6, <1>9
    <2>2. ASSUME NEW i \in 5 .. 8 PROVE m[i] = first[i - 4]
      <3>1. i \in 1 .. 8 + n /\ i \in 5 .. 8 + n /\ i - 4 \in 1 .. 4
        BY <1>1
      <3> QED  BY <1>4, <1>6, <1>9, <3>1
    <2>3. m[5] = first[5 - 4] /\ m[6] = first[6 - 4] /\ m[7] = first[7 - 4] /\ m[8] = first[8 - 4]
      BY <2>2
    <2> QED  BY <2>1, <2>3
  <1>13. ASSUME NEW i \in 9 .. Len(m) - 2 PROVE m[i] \in {TagOf(Text), ValueOf(0)}
    <2> DEFINE j == i - 4
               k == j - 4
    <2>1. i \in 1 .. 8 + n /\ i \in 5 .. 8 + n /\ j \in 5 .. 4 + n /\ k \in 1 .. n
      BY <1>1, <1>9
    <2>2. m[i] = whole[i] /\ whole[i] = body[j] /\ body[j] = texts[k]
      BY <1>4, <1>6, <1>9, <2>1
    <2> QED  BY <1>3, <2>1, <2>2
  <1>14. m[Len(m) - 1] = last[1] /\ m[Len(m)] = last[2]
    <2>1. Len(m) - 1 = 9 + n /\ Len(m) = 10 + n
      BY <1>1, <1>9
    <2> QED  BY <1>9, <2>1
  <1>15. Len(m) - 6 = Len(body)
    BY <1>1, <1>4, <1>9
  <1>16. Written(m, kind.type, seq)
    BY <1>2, <1>5, <1>8, <1>11, <1>12, <1>13, <1>14, <1>15 DEF Written
  <1> QED  BY <1>10, <1>16

-----------------------------------------------------------------------------
(* What damage does to the sum.                                            *)

\* y is what arrives of a symbol x that is damaged.
Changed(x, y) ==
    \/ x.half # "junk" /\ y = [x EXCEPT !.half = "junk"]
    \/ \E n \in Changes \ {x.is} : y = [x EXCEPT !.is = n]

\* What does not show in a sum modulo 256 is left out.
Shifts == (-765 .. 765) \ {-512, -256, 0, 256, 512}

LEMMA ShiftFacts ==
    ASSUME NEW a \in Nat, NEW b \in Nat, NEW k \in Shifts, b = a + k
    PROVE  b % 256 # a % 256
  <1>1. k \in -765 .. 765 /\ k # 0 /\ k # 256 /\ k # -256 /\ k # 512 /\ k # -512
    BY DEF Shifts
  <1> QED  BY <1>1, Z3

LEMMA ChangedWeight ==
    ASSUME NEW x \in Symbol, x.is <= 255, NEW y, Changed(x, y)
    PROVE  /\ y \in Symbol
           /\ \E k \in Shifts : Weight(y) = Weight(x) + k
  <1>1. x \in [half : {"tag", "value", "junk"}, is : Nat] /\ x.is \in 0 .. 255
    BY DEF Symbol
  <1>2. CASE x.half # "junk" /\ y = [x EXCEPT !.half = "junk"]
    <2>1. y \in Symbol /\ y.half = "junk" /\ y.is = x.is
      BY <1>1, <1>2 DEF Symbol
    <2>2. Weight(y) = Weight(x) + 2 \/ Weight(y) = Weight(x) + 1
      BY <1>1, <1>2, <2>1 DEF Weight
    <2>3. 1 \in Shifts /\ 2 \in Shifts
      BY DEF Shifts
    <2> QED  BY <2>1, <2>2, <2>3
  <1>3. ASSUME NEW n \in Changes \ {x.is}, y = [x EXCEPT !.is = n]
        PROVE  /\ y \in Symbol
               /\ \E k \in Shifts : Weight(y) = Weight(x) + k
    <2>1. n \in 0 .. 255 /\ n # x.is
      BY <1>3, FramingAssumption
    <2>2. y \in Symbol /\ y.half = x.half /\ y.is = n
      BY <1>1, <1>3, <2>1 DEF Symbol
    <2> DEFINE k == 3 * (n - x.is)
    <2>3. Weight(y) = Weight(x) + k
      BY <1>1, <2>1, <2>2 DEF Weight
    <2>4. k \in Shifts
      <3> DEFINE j == n - x.is
      <3>1. k = 3 * j
        BY ZenonT(30)
      <3>2. j \in -255 .. 255 /\ j # 0
        <4> HIDE DEF k
        <4>1. \A b \in 0 .. 255 : n # b => n - b \in -255 .. 255 /\ n - b # 0
          BY <2>1
        <4> QED  BY <1>1, <2>1, <4>1
      <3> HIDE DEF j, k
      <3> QED  BY <3>1, <3>2 DEF Shifts
    <2> HIDE DEF k
    <2> QED  BY <2>2, <2>3, <2>4
  <1> QED  BY <1>2, <1>3 DEF Changed

\* f adds up the weights of s.
Totals(s, f) ==
    /\ f \in [0 .. Len(s) -> Nat] /\ Sum(s) = f[Len(s)] % 256 /\ f[0] = 0
    /\ \A n \in 1 .. Len(s) : f[n] = f[n - 1] + Weight(s[n])

LEMMA SumTotals == \A s \in Seq(Symbol) : \E f : Totals(s, f)
  <1> SUFFICES ASSUME NEW s \in Seq(Symbol) PROVE \E f : Totals(s, f)
    OBVIOUS
  <1>1. PICK f \in [0 .. Len(s) -> Nat] :
           /\ Sum(s) = f[Len(s)] % 256 /\ f[0] = 0
           /\ \A n \in 1 .. Len(s) : f[n] = f[n - 1] + Weight(s[n])
    BY SumSolved
  <1> QED  BY <1>1 DEF Totals

\* One damaged symbol shows in the sum.
LEMMA SumChanges ==
    ASSUME NEW s \in Seq(Symbol), NEW t \in Seq(Symbol), Len(s) = Len(t), NEW d \in 1 .. Len(s),
           \A i \in 1 .. Len(s) : i # d => t[i] = s[i],
           s[d].is <= 255, Changed(s[d], t[d])
    PROVE  Sum(t) # Sum(s)
  <1>1. Len(s) \in Nat /\ \A i \in 1 .. Len(s) : s[i] \in Symbol /\ Weight(s[i]) \in Nat /\ Weight(t[i]) \in Nat
    BY WeightFacts
  <1>2. PICK k \in Shifts : Weight(t[d]) = Weight(s[d]) + k
    <2>1. s[d] \in Symbol
      BY <1>1
    <2> QED  BY <2>1, ChangedWeight
  <1>3. PICK f : Totals(s, f)
    BY SumTotals
  <1>4. PICK g : Totals(t, g)
    BY SumTotals
  <1>5. /\ k \in Int /\ f[0] = 0 /\ g[0] = 0
        /\ \A n \in 0 .. Len(s) : f[n] \in Nat /\ g[n] \in Nat
        /\ \A n \in 1 .. Len(s) : f[n] = f[n - 1] + Weight(s[n]) /\ g[n] = g[n - 1] + Weight(t[n])
    <2>1. k \in Int
      BY DEF Shifts
    <2>2. f[0] = 0 /\ g[0] = 0 /\ f \in [0 .. Len(s) -> Nat] /\ g \in [0 .. Len(s) -> Nat]
      BY <1>3, <1>4 DEF Totals
    <2>3. \A n \in 1 .. Len(s) : f[n] = f[n - 1] + Weight(s[n]) /\ g[n] = g[n - 1] + Weight(t[n])
      BY <1>3, <1>4 DEF Totals
    <2> QED  BY <2>1, <2>2, <2>3
  <1> DEFINE Bad == {n \in 0 .. Len(s) : ~(g[n] = f[n] + (IF n < d THEN 0 ELSE k))}
  <1>6. ASSUME NEW n \in Bad, \A i \in Bad : n <= i PROVE FALSE
    <2>1. n # 0
      BY <1>5, <1>6
    <2>2. n \in 1 .. Len(s) /\ n - 1 \in 0 .. Len(s) /\ ~(n <= n - 1)
      BY <1>1, <2>1
    <2>3. g[n - 1] = f[n - 1] + (IF n - 1 < d THEN 0 ELSE k)
      BY <1>6, <2>2
    <2>4. f[n] = f[n - 1] + Weight(s[n]) /\ g[n] = g[n - 1] + Weight(t[n])
      BY <1>5, <2>2
    <2>5. n # d => Weight(t[n]) = Weight(s[n])
      BY <2>2
    <2>6. f[n - 1] \in Nat /\ Weight(s[n]) \in Nat /\ Weight(t[n]) \in Nat
      BY <1>1, <1>5, <2>2
    <2>7. CASE n < d
      BY <1>6, <2>2, <2>3, <2>4, <2>5, <2>6, <2>7
    <2>8. CASE n = d
      <3>1. g[n] = f[n] + k
        BY <1>2, <1>5, <2>2, <2>3, <2>4, <2>6, <2>8
      <3> QED  BY <1>6, <2>8, <3>1
    <2>9. CASE n > d
      <3>1. g[n] = f[n] + k
        BY <1>5, <2>2, <2>3, <2>4, <2>5, <2>6, <2>9
      <3> QED  BY <1>6, <2>9, <3>1
    <2> QED  BY <2>2, <2>7, <2>8, <2>9
  <1>7. Bad = {}
    <2>1. Bad \in SUBSET Nat
      BY <1>1
    <2> HIDE DEF Bad
    <2>2. Bad # {} => Min(Bad) \in Bad /\ \A n \in Bad : Min(Bad) <= n
      BY <2>1, LeastNumber
    <2> QED  BY <1>6, <2>2
  <1>8. g[Len(s)] = f[Len(s)] + k
    BY <1>1, <1>7
  <1>9. g[Len(s)] % 256 # f[Len(s)] % 256
    <2>1. f[Len(s)] \in Nat /\ g[Len(s)] \in Nat
      BY <1>1, <1>5
    <2> QED  BY <1>8, <2>1, ShiftFacts
  <1> QED  BY <1>3, <1>4, <1>9 DEF Totals

-----------------------------------------------------------------------------
(* What arrives of a message.                                              *)

\* v is m, with no symbol damaged but the one at d, if there is one.
Altered(m, v, d) ==
    /\ v \in Seq(Symbol) /\ Len(v) = Len(m)
    /\ \A i \in 1 .. Len(m) : i # d => v[i] = m[i]
    /\ d \in 1 .. Len(m) => Changed(m[d], v[d])

\* v is what arrives of message k of the peer, of which r tells what happened to it.
Copy(v, k, r) ==
    \E kind \in Kinds, d \in Nat :
       LET m == Message(kind, k)
       IN  /\ kind.type = r.type /\ Altered(m, v, d)
           /\ r.harm = "none" => v = m /\ r.type \in KnownTypes
           /\ r.harm # "joined" => v[Len(v) - 1].half = "tag" /\ v[Len(v)].half = "value"
           /\ r.harm # "length" /\ v[4].half = "value" => v[4] = m[4]

\* The fields at its head, one of which may have lost its end.
Headed(v) ==
    /\ v \in Seq(Symbol) /\ Len(v) \in Nat /\ Len(v) >= 10
    /\ \A i \in 2 .. Len(v) : v[i] # TagOf(BeginString)
    /\ v[1].half # "value" /\ v[3].half # "value" /\ v[5].half # "value" /\ v[Len(v) - 1].half # "value"
    /\ v[2].half # "value" => v[4].half = "value" /\ v[5] # TagOf(BodyLength)
    /\ v[4].half # "value" => v[6].half = "value" /\ v[7] # TagOf(MsgType)

LEMMA MessageLength ==
    ASSUME NEW kind \in Kinds, NEW k \in Nat
    PROVE  /\ Message(kind, k) \in Seq(Symbol) /\ Len(Message(kind, k)) \in Nat
           /\ Len(Message(kind, k)) >= 10 /\ Len(Message(kind, k)) - 6 \in 1 .. MaxMessage
  <1>1. kind.extra \in Nat /\ 4 + 2 * kind.extra <= MaxMessage /\ MaxMessage \in Nat
    BY FramingAssumption
  <1>2. Alternates(Message(kind, k)) /\ Len(Message(kind, k)) = 10 + 2 * kind.extra
    BY MessageFacts
  <1> QED  BY <1>1, <1>2 DEF Alternates

LEMMA AlteredHeaded ==
    ASSUME NEW m \in Seq(Symbol), Len(m) >= 10, NEW type, NEW k, Written(m, type, k),
           NEW v, NEW d \in Nat, Altered(m, v, d)
    PROVE  Headed(v)
  <1> DEFINE n == Len(m)
  <1>1. n \in Nat /\ n >= 10 /\ v \in Seq(Symbol) /\ Len(v) = n
    BY DEF Altered
  <1>2. ASSUME NEW i \in 1 .. n
        PROVE  \/ v[i] = m[i]
               \/ i = d /\ v[i].half = "junk"
               \/ i = d /\ v[i].half = m[i].half /\ v[i].is \in Changes
    <2>1. m[i] \in Symbol
      BY <1>1
    <2>2. i # d => v[i] = m[i]
      BY DEF Altered
    <2>3. i = d => Changed(m[i], v[i])
      BY DEF Altered
    <2> QED  BY <2>1, <2>2, <2>3 DEF Changed, Symbol
  <1>3. /\ m[1] = TagOf(8) /\ m[2] = ValueOf(44) /\ m[3] = TagOf(9) /\ m[4] = ValueOf(n - 6)
        /\ m[5] = TagOf(35) /\ m[6] = ValueOf(type) /\ m[7] = TagOf(34) /\ m[8] = ValueOf(k)
        /\ \A i \in 9 .. n - 2 : m[i] \in {TagOf(58), ValueOf(0)}
        /\ m[n - 1] = TagOf(10) /\ m[n] = ValueOf(Sum(SubSeq(m, 1, n - 2)))
    BY DEF Written, BeginString, BodyLength, MsgType, MsgSeqNum, Text, CheckSum
  <1> HIDE DEF n
  <1>4. /\ m[1].half = "tag" /\ m[2].half = "value" /\ m[3].half = "tag" /\ m[4].half = "value"
        /\ m[5].half = "tag" /\ m[6].half = "value" /\ m[7].half = "tag" /\ m[8].half = "value"
        /\ m[n - 1].half = "tag" /\ m[n].half = "value"
        /\ m[3].is # 8 /\ m[5].is # 8 /\ m[7].is # 8 /\ m[n - 1].is # 8
        /\ m[5] # TagOf(9) /\ m[7] # TagOf(35)
    <2>1. /\ m[1] = TagOf(8) /\ m[3] = TagOf(9) /\ m[5] = TagOf(35) /\ m[7] = TagOf(34)
          /\ m[n - 1] = TagOf(10)
      BY <1>3
    <2>2. m[2].half = "value" /\ m[4].half = "value" /\ m[6].half = "value" /\ m[8].half = "value"
      BY <1>3 DEF ValueOf
    <2>3. m[n].half = "value"
      BY <1>3 DEF ValueOf
    <2>4. /\ m[1].half = "tag" /\ m[3].half = "tag" /\ m[5].half = "tag" /\ m[7].half = "tag"
          /\ m[n - 1].half = "tag"
      BY <2>1 DEF TagOf
    <2>5. m[3].is # 8 /\ m[5].is # 8 /\ m[7].is # 8 /\ m[n - 1].is # 8
      BY <2>1 DEF TagOf
    <2>6. m[5] # TagOf(9) /\ m[7] # TagOf(35)
      BY <2>1 DEF TagOf
    <2> QED  BY <2>2, <2>3, <2>4, <2>5, <2>6
  <1>5. ASSUME NEW i \in 2 .. n PROVE m[i].half = "value" \/ m[i].is # 8
    <2>1. CASE i \in 9 .. n - 2
      <3>1. m[i] = TagOf(58) \/ m[i] = ValueOf(0)
        BY <1>3, <2>1
      <3> QED  BY <3>1 DEF TagOf, ValueOf
    <2>2. CASE i \notin 9 .. n - 2
      <3>1. i = 2 \/ i = 3 \/ i = 4 \/ i = 5 \/ i = 6 \/ i = 7 \/ i = 8 \/ i = n - 1 \/ i = n
        BY <1>1, <2>2
      <3> QED  BY <1>4, <3>1
    <2> QED  BY <2>1, <2>2
  <1>6. ASSUME NEW i \in 2 .. Len(v) PROVE v[i] # TagOf(8)
    <2>1. i \in 1 .. n /\ i \in 2 .. n
      BY <1>1
    <2>2. 8 \notin Changes
      BY FramingAssumption
    <2>3. TagOf(8).half = "tag" /\ TagOf(8).is = 8
      BY DEF TagOf
    <2> QED  BY <1>2, <1>5, <2>1, <2>2, <2>3
  <1>7. /\ v[1].half # "value" /\ v[3].half # "value" /\ v[5].half # "value" /\ v[n - 1].half # "value"
    <2>1. \A i \in 1 .. n : m[i].half = "tag" => v[i].half # "value"
      BY <1>2
    <2>2. 1 \in 1 .. n /\ 3 \in 1 .. n /\ 5 \in 1 .. n /\ n - 1 \in 1 .. n
      BY <1>1
    <2> QED  BY <1>4, <2>1, <2>2
  <1>8. ASSUME NEW i \in 1 .. n, m[i].half = "value", v[i].half # "value"
        PROVE  \A j \in 1 .. n : j # i => v[j] = m[j]
    BY <1>2, <1>8
  <1>9. v[2].half # "value" => v[4].half = "value" /\ v[5] # TagOf(9)
    <2>1. 2 \in 1 .. n /\ 4 \in 1 .. n /\ 5 \in 1 .. n
      BY <1>1
    <2>2. v[2].half # "value" => v[4] = m[4] /\ v[5] = m[5]
      BY <1>4, <1>8, <2>1, SMTT(30)
    <2> QED  BY <1>4, <2>2
  <1>10. v[4].half # "value" => v[6].half = "value" /\ v[7] # TagOf(35)
    <2>1. 4 \in 1 .. n /\ 6 \in 1 .. n /\ 7 \in 1 .. n
      BY <1>1
    <2>2. v[4].half # "value" => v[6] = m[6] /\ v[7] = m[7]
      BY <1>4, <1>8, <2>1
    <2> QED  BY <1>4, <2>2
  <1> QED  BY <1>1, <1>6, <1>7, <1>9, <1>10 DEF Headed, BeginString, BodyLength, MsgType

\* The symbols of v follow position o of u, as far as u has them.
Fits(u, o, v) == \A i \in 1 .. Len(v) : o + i \in 1 .. Len(u) => u[o + i] = v[i]

\* Where the parser looks for the fields of a message that begins after position o.
LEMMA HeadOf ==
    ASSUME NEW u \in Seq(Symbol), NEW o \in Nat, NEW v, Headed(v), Fits(u, o, v)
    PROVE  /\ \A l : FieldAt(u, o + 1, BeginString, l) => l \in {o + 3, o + 5}
           /\ \A l, t : HeadAt(u, o + 1, l, t) => l = o + 3 /\ t \in {o + 5, o + 7}
           /\ \A l, t, next : HeadAt(u, o + 1, l, t) /\ FieldAt(u, t, MsgType, next) =>
                 l = o + 3 /\ t = o + 5 /\ v[4].half = "value" /\ ValueAt(u, l) = v[4].is
  <1>1. /\ Len(u) \in Nat /\ Len(v) \in Nat /\ Len(v) >= 10
        /\ v[1].half # "value" /\ v[3].half # "value" /\ v[5].half # "value"
        /\ v[2].half # "value" => v[4].half = "value" /\ v[5] # TagOf(BodyLength)
        /\ v[4].half # "value" => v[6].half = "value" /\ v[7] # TagOf(MsgType)
    BY DEF Headed
  <1>2. ASSUME NEW i \in 1 .. 7, o + i <= Len(u) PROVE u[o + i] = v[i]
    <2>1. i \in 1 .. Len(v) /\ o + i \in 1 .. Len(u)
      BY <1>1, <1>2
    <2> QED  BY <2>1 DEF Fits
  <1>3. /\ o + 2 <= Len(u) => u[o + 2] = v[2]
        /\ o + 3 <= Len(u) => u[o + 3] = v[3]
        /\ o + 4 <= Len(u) => u[o + 4] = v[4]
        /\ o + 5 <= Len(u) => u[o + 5] = v[5]
        /\ o + 6 <= Len(u) => u[o + 6] = v[6]
        /\ o + 7 <= Len(u) => u[o + 7] = v[7]
    BY <1>2
  <1>4. ASSUME NEW l, FieldAt(u, o + 1, BeginString, l) PROVE l = o + 3 \/ (l = o + 5 /\ v[2].half # "value")
    <2>1. /\ l \in o + 3 .. Len(u) + 1 /\ u[l - 1].half = "value" /\ o + 2 <= Len(u)
          /\ \A i \in o + 1 .. l - 2 : u[i].half # "value"
      BY <1>4 DEF FieldAt
    <2>2. CASE v[2].half = "value"
      <3>1. l >= o + 4 => o + 2 \in o + 1 .. l - 2
        BY <2>1
      <3> QED  BY <1>3, <2>1, <2>2, <3>1
    <2>3. CASE v[2].half # "value"
      <3>1. l - 1 # o + 2 /\ l - 1 # o + 3
        <4>1. l - 1 = o + 2 => o + 2 <= Len(u) /\ u[o + 2].half = "value"
          BY <2>1
        <4>2. l - 1 = o + 3 => o + 3 <= Len(u) /\ u[o + 3].half = "value"
          BY <2>1
        <4>3. v[3].half # "value"
          BY <1>1
        <4> QED  BY <1>3, <2>3, <4>1, <4>2, <4>3
      <3>2. l >= o + 5
        BY <2>1, <3>1
      <3>3. u[o + 4].half = "value"
        <4>1. o + 4 <= Len(u)
          BY <1>1, <2>1, <3>2
        <4>2. u[o + 4] = v[4]
          BY <1>3, <4>1
        <4> QED  BY <1>1, <2>3, <4>2
      <3>4. ~(l >= o + 6)
        <4>1. l >= o + 6 => o + 4 \in o + 1 .. l - 2
          BY <2>1
        <4> QED  BY <2>1, <3>3, <4>1
      <3> QED  BY <2>1, <2>3, <3>2, <3>4
    <2> QED  BY <2>2, <2>3
  <1>5. ASSUME NEW l, NEW t, HeadAt(u, o + 1, l, t)
        PROVE  l = o + 3 /\ ((t = o + 5 /\ v[4].half = "value") \/ (t = o + 7 /\ v[4].half # "value"))
    <2>1. FieldAt(u, o + 1, BeginString, l) /\ FieldAt(u, l, BodyLength, t)
      BY <1>5 DEF HeadAt
    <2>2. l = o + 3
      <3>1. l + 1 <= Len(u) /\ u[l] = TagOf(BodyLength)
        BY <2>1 DEF FieldAt, TagOf
      <3> QED  BY <1>1, <1>3, <1>4, <2>1, <3>1, SMTT(30)
    <2>3. /\ t \in o + 5 .. Len(u) + 1 /\ u[t - 1].half = "value" /\ o + 4 <= Len(u)
          /\ \A i \in o + 3 .. t - 2 : u[i].half # "value"
      BY <2>1, <2>2 DEF FieldAt
    <2>4. CASE v[4].half = "value"
      <3>1. t >= o + 6 => o + 4 \in o + 3 .. t - 2
        BY <2>3
      <3> QED  BY <1>3, <2>2, <2>3, <2>4, <3>1
    <2>5. CASE v[4].half # "value"
      <3>1. t - 1 # o + 4
        BY <1>1, <1>3, <2>3, <2>5
      <3>2. t - 1 # o + 5
        BY <1>1, <1>3, <2>3, <2>5
      <3>3. t >= o + 7
        BY <2>3, <3>1, <3>2
      <3>4. u[o + 6].half = "value"
        <4>1. o + 6 <= Len(u)
          BY <1>1, <2>3, <3>3
        <4>2. u[o + 6] = v[6]
          BY <1>3, <4>1
        <4> QED  BY <1>1, <2>5, <4>2
      <3>5. ~(t >= o + 8)
        <4>1. t >= o + 8 => o + 6 \in o + 3 .. t - 2
          BY <2>3
        <4> QED  BY <2>3, <3>4, <4>1
      <3> QED  BY <2>2, <2>3, <2>5, <3>3, <3>5
    <2> QED  BY <2>4, <2>5
  <1>6. ASSUME NEW l, NEW t, NEW next, HeadAt(u, o + 1, l, t), FieldAt(u, t, MsgType, next)
        PROVE  l = o + 3 /\ t = o + 5 /\ v[4].half = "value" /\ ValueAt(u, l) = v[4].is
    <2>1. l = o + 3 /\ ((t = o + 5 /\ v[4].half = "value") \/ (t = o + 7 /\ v[4].half # "value"))
      BY <1>5, <1>6
    <2>2. t + 1 <= Len(u) /\ u[t] = TagOf(MsgType)
      BY <1>6 DEF FieldAt, TagOf
    <2>3. t # o + 7
      BY <1>1, <1>3, <2>1, <2>2
    <2>4. o + 4 <= Len(u) /\ l + 1 = o + 4
      BY <2>1, <2>2, <2>3
    <2> QED  BY <1>3, <2>1, <2>3, <2>4 DEF ValueAt
  <1> QED  BY <1>4, <1>5, <1>6

LEMMA ChangedDiffers ==
    ASSUME NEW x \in Symbol, NEW y, Changed(x, y)
    PROVE  y \in Symbol /\ y # x
  BY FramingAssumption DEF Changed, Symbol

\* From its type on, v is what was written of message k, up to the value of its sum.
Readable(v, k, type) ==
    /\ v[5] = TagOf(MsgType) /\ v[6] = ValueOf(type)
    /\ v[7] = TagOf(MsgSeqNum) /\ v[8] = ValueOf(k)
    /\ \A i \in 9 .. Len(v) - 2 : v[i] \in {TagOf(Text), ValueOf(0)}
    /\ v[Len(v) - 1] = TagOf(CheckSum)

LEMMA WrittenReadable ==
    ASSUME NEW m, NEW type, NEW k, Written(m, type, k), NEW v, Len(v) = Len(m),
           Len(m) \in Nat, Len(m) >= 10, \A i \in 5 .. Len(m) - 1 : v[i] = m[i]
    PROVE  Readable(v, k, type)
  <1> DEFINE n == Len(m)
  <1>1. n \in Nat /\ n >= 10 /\ Len(v) = n
    OBVIOUS
  <1>2. /\ m[5] = TagOf(MsgType) /\ m[6] = ValueOf(type)
        /\ m[7] = TagOf(MsgSeqNum) /\ m[8] = ValueOf(k)
        /\ \A i \in 9 .. n - 2 : m[i] \in {TagOf(Text), ValueOf(0)}
        /\ m[n - 1] = TagOf(CheckSum)
    BY DEF Written
  <1> HIDE DEF n
  <1>3. \A i \in 5 .. n - 1 : v[i] = m[i]
    BY DEF n
  <1>4. /\ 5 \in 5 .. n - 1 /\ 6 \in 5 .. n - 1 /\ 7 \in 5 .. n - 1 /\ 8 \in 5 .. n - 1
        /\ n - 1 \in 5 .. n - 1
    BY <1>1
  <1>5. v[5] = m[5] /\ v[6] = m[6] /\ v[7] = m[7] /\ v[8] = m[8] /\ v[n - 1] = m[n - 1]
    BY <1>3, <1>4
  <1>6. \A i \in 9 .. n - 2 : v[i] \in {TagOf(Text), ValueOf(0)}
    <2>1. \A i \in 9 .. n - 2 : i \in 5 .. n - 1
      BY <1>1
    <2> QED  BY <1>2, <1>3, <2>1
  <1> QED  BY <1>1, <1>2, <1>5, <1>6 DEF Readable

\* A changed byte shows in the sum, if it is one that the sum is taken of.
LEMMA SumNotVerified ==
    ASSUME NEW u \in Seq(Symbol), NEW o \in Nat, NEW m \in Seq(Symbol), Len(m) >= 10,
           o + Len(m) <= Len(u), NEW d \in 1 .. Len(m) - 2,
           \A i \in 1 .. Len(m) - 2 : i # d => u[o + i] = m[i],
           Changed(m[d], u[o + d]), m[d].is <= 255
    PROVE  Sum(SubSeq(u, o + 1, o + Len(m) - 2)) # Sum(SubSeq(m, 1, Len(m) - 2))
  <1> DEFINE n == Len(m) - 2
             a == SubSeq(m, 1, n)
             b == SubSeq(u, o + 1, o + n)
  <1>1. n \in Nat /\ Len(m) \in Nat /\ Len(u) \in Nat /\ d \in 1 .. n /\ n <= Len(m) /\ o + n <= Len(u)
    OBVIOUS
  <1>2. a \in Seq(Symbol) /\ Len(a) = n /\ \A i \in 1 .. n : a[i] = m[i]
    BY <1>1
  <1>3. b \in Seq(Symbol) /\ Len(b) = n /\ \A i \in 1 .. n : b[i] = u[o + i]
    BY <1>1
  <1>4. \A i \in 1 .. n : i # d => u[o + i] = m[i]
    OBVIOUS
  <1>5. o + Len(m) - 2 = o + n
    BY <1>1
  <1> HIDE DEF n, a, b
  <1>6. \A i \in 1 .. Len(a) : i # d => b[i] = a[i]
    BY <1>2, <1>3, <1>4
  <1>7. d \in 1 .. Len(a) /\ Len(a) = Len(b) /\ a[d].is <= 255 /\ Changed(a[d], b[d])
    BY <1>1, <1>2, <1>3
  <1>8. Sum(b) # Sum(a)
    BY <1>2, <1>3, <1>6, <1>7, SumChanges
  <1> QED  BY <1>5, <1>8 DEF a, b, n

\* A message the parser has found is one that was sent, all of it has come, and it is
\* readable: if it was damaged, then in its length or its last value.
LEMMA WholeCopy ==
    ASSUME NEW u \in Seq(Symbol), NEW o \in Nat, NEW k \in 0 .. 255, NEW r, NEW v, Copy(v, k, r),
           Fits(u, o, v), NEW t, Whole(u, o + 1, t)
    PROVE  t = o + 5 /\ o + Len(v) <= Len(u) /\ Readable(v, k, r.type)
  <1>1. PICK kind \in Kinds, d \in Nat : kind.type = r.type /\ Altered(Message(kind, k), v, d)
    BY DEF Copy
  <1> DEFINE m == Message(kind, k)
             n == Len(m)
             x == v[4].is
  <1>2. m \in Seq(Symbol) /\ n \in Nat /\ n >= 10 /\ n - 6 \in 1 .. MaxMessage /\ Written(m, r.type, k)
    BY <1>1, MessageLength, MessageWritten, SMTT(30)
  <1> HIDE DEF m
  <1>3. /\ v \in Seq(Symbol) /\ Len(v) = n /\ \A i \in 1 .. n : i # d => v[i] = m[i]
        /\ d \in 1 .. n => Changed(m[d], v[d])
    BY <1>1 DEF Altered, m
  <1>4. Headed(v)
    BY <1>1, <1>2, AlteredHeaded DEF m
  <1>5. PICK l, next :
           /\ HeadAt(u, o + 1, l, t) /\ FieldAt(u, t, MsgType, next)
           /\ SumVerified(u, o + 1, t + ValueAt(u, l))
           /\ \E end : FieldAt(u, t + ValueAt(u, l), CheckSum, end)
    BY DEF Whole
  <1>6. l = o + 3 /\ t = o + 5 /\ v[4].half = "value" /\ ValueAt(u, l) = x
    BY <1>4, <1>5, HeadOf
  <1>7. x \in 1 .. MaxMessage /\ MaxMessage \in Nat
    BY <1>5, <1>6, FramingAssumption DEF HeadAt
  <1> DEFINE sumAt == o + 5 + x
  <1>8. /\ t + ValueAt(u, l) = sumAt /\ sumAt + 1 <= Len(u) /\ u[sumAt] = TagOf(CheckSum)
        /\ SumVerified(u, o + 1, sumAt)
    <2>1. t + ValueAt(u, l) = sumAt
      BY <1>6
    <2> HIDE DEF sumAt
    <2> QED  BY <1>5, <2>1 DEF FieldAt, TagOf
  <1>9. \A i \in 1 .. n : o + i <= Len(u) => u[o + i] = v[i]
    BY <1>2, <1>3 DEF Fits
  <1>10. /\ m[3].is <= 255 /\ \A i \in 1 .. n - 2 : i # 4 => m[i].is <= 255
         /\ \A i \in 5 .. n - 2 : m[i] # TagOf(CheckSum)
         /\ m[4] = ValueOf(n - 6) /\ m[n - 1] = TagOf(CheckSum) /\ m[n].is = Sum(SubSeq(m, 1, n - 2))
    <2>0. r.type \in 0 .. 255
      BY <1>1, FramingAssumption
    <2>1. /\ m[1].is = 8 /\ m[2].is = 44 /\ m[3].is = 9 /\ m[5].is = 35 /\ m[6].is = r.type
          /\ m[7].is = 34 /\ m[8].is = k
          /\ m[5].is # 10 /\ m[6].half # "tag" /\ m[7].is # 10 /\ m[8].half # "tag"
      BY <1>2 DEF Written, TagOf, ValueOf, BeginString, BodyLength, MsgType, MsgSeqNum
    <2>2. ASSUME NEW i \in 9 .. n - 2 PROVE m[i].is <= 255 /\ m[i] # TagOf(CheckSum)
      <3>1. m[i] = TagOf(Text) \/ m[i] = ValueOf(0)
        BY <1>2 DEF Written
      <3> QED  BY <3>1 DEF TagOf, ValueOf, Text, CheckSum
    <2>3. ASSUME NEW i \in 1 .. n - 2, i # 4 PROVE m[i].is <= 255
      <3>1. i \in 9 .. n - 2 \/ i = 1 \/ i = 2 \/ i = 3 \/ i = 5 \/ i = 6 \/ i = 7 \/ i = 8
        BY <1>2, <2>3
      <3>2. i \in 9 .. n - 2 => m[i].is <= 255
        BY <2>2
      <3>3. r.type <= 255 /\ k <= 255
        <4>1. \A a \in 0 .. 255 : a <= 255
          OBVIOUS
        <4>2. k \in 0 .. 255
          OBVIOUS
        <4> QED  BY <2>0, <4>1, <4>2, Zenon
      <3> HIDE DEF n
      <3> QED  BY <2>1, <3>1, <3>2, <3>3
    <2>4. ASSUME NEW i \in 5 .. n - 2 PROVE m[i] # TagOf(CheckSum)
      <3>1. i \in 9 .. n - 2 \/ i = 5 \/ i = 6 \/ i = 7 \/ i = 8
        BY <1>2, <2>4
      <3>2. TagOf(CheckSum).half = "tag" /\ TagOf(CheckSum).is = 10
        BY DEF TagOf, CheckSum
      <3> QED  BY <2>1, <2>2, <3>1, <3>2, SMTT(30)
    <2>5. m[4] = ValueOf(n - 6) /\ m[n - 1] = TagOf(CheckSum) /\ m[n].is = Sum(SubSeq(m, 1, n - 2))
      BY <1>2 DEF Written, ValueOf
    <2>6. 3 \in 1 .. n - 2
      BY <1>2
    <2> QED  BY <2>3, <2>4, <2>5, <2>6
  <1> HIDE DEF n, x
  <1>11. CASE d = 4
    <2>1. ASSUME 5 + x <= n - 2 PROVE FALSE
      <3>1. 5 + x \in 5 .. n - 2 /\ 5 + x \in 1 .. n /\ 5 + x # d
        BY <1>2, <1>7, <1>11, <2>1
      <3>2. u[o + (5 + x)] = m[5 + x]
        <4>1. o + (5 + x) <= Len(u)
          BY <1>7, <1>8
        <4> QED  BY <1>3, <1>9, <3>1, <4>1
      <3>3. o + (5 + x) = sumAt
        BY <1>7
      <3> QED  BY <1>8, <1>10, <3>1, <3>2, <3>3
    <2>2. o + n <= Len(u)
      BY <1>2, <1>7, <1>8, <2>1
    <2>3. \A i \in 5 .. n - 1 : v[i] = m[i]
      BY <1>2, <1>3, <1>11
    <2>4. Readable(v, k, r.type)
      BY <1>2, <1>3, <2>3, WrittenReadable DEF n
    <2> QED  BY <1>3, <1>6, <2>2, <2>4
  <1>12. CASE d # 4
    <2>1. v[4] = m[4] /\ x = n - 6
      <3>1. 4 \in 1 .. n
        BY <1>2
      <3>2. v[4] = m[4]
        BY <1>3, <1>12, <3>1
      <3> QED  BY <1>10, <3>2 DEF x, ValueOf
    <2>2. sumAt = o + (n - 1) /\ o + n <= Len(u) /\ sumAt + 1 = o + n /\ sumAt - 1 = o + n - 2
      BY <1>2, <1>8, <2>1
    <2>3. v[n - 1] = TagOf(CheckSum) /\ v[n].is = Sum(SubSeq(u, o + 1, o + n - 2))
      <3>1. n - 1 \in 1 .. n /\ n \in 1 .. n /\ o + (n - 1) <= Len(u)
        BY <1>2, <2>2
      <3>2. u[o + (n - 1)] = v[n - 1] /\ u[o + n] = v[n]
        BY <1>9, <2>2, <3>1
      <3> HIDE DEF sumAt
      <3>3. u[sumAt + 1].is = Sum(SubSeq(u, o + 1, sumAt - 1))
        BY <1>8 DEF SumVerified, ValueAt
      <3> QED  BY <1>8, <2>2, <3>2, <3>3
    <2>4. d # n - 1
      <3>1. n - 1 \in 1 .. n /\ m[n - 1] \in Symbol
        BY <1>2 DEF n
      <3> QED  BY <1>3, <1>10, <2>3, <3>1, ChangedDiffers
    <2>5. d \notin 1 .. n - 2
      <3> SUFFICES ASSUME d \in 1 .. n - 2 PROVE FALSE
        OBVIOUS
      <3>1. d \in 1 .. n /\ n \in 1 .. n /\ n # d /\ \A i \in 1 .. n - 2 : i \in 1 .. n /\ o + i <= Len(u)
        BY <1>2, <2>2
      <3>2. v[n] = m[n]
        BY <1>3, <3>1
      <3>3. \A i \in 1 .. n - 2 : i # d => u[o + i] = m[i]
        BY <1>3, <1>9, <3>1
      <3>4. Changed(m[d], u[o + d]) /\ m[d].is <= 255
        BY <1>3, <1>9, <1>10, <1>12, <3>1
      <3>5. Sum(SubSeq(u, o + 1, o + n - 2)) # Sum(SubSeq(m, 1, n - 2))
        BY <1>2, <2>2, <3>3, <3>4, SumNotVerified DEF n
      <3> QED  BY <1>10, <2>3, <3>2, <3>5
    <2>6. \A i \in 5 .. n - 1 : v[i] = m[i]
      BY <1>2, <1>3, <2>4, <2>5, SMTT(30)
    <2>7. Readable(v, k, r.type)
      BY <1>2, <1>3, <2>6, WrittenReadable DEF n
    <2> QED  BY <1>3, <1>6, <2>2, <2>7
  <1> QED  BY <1>11, <1>12

-----------------------------------------------------------------------------
(* What the parser makes of a message it has found, and of a sound one.    *)

LEMMA LeastIs ==
    ASSUME NEW I \in SUBSET Nat, NEW k \in I, \A i \in I : ~(i <= k - 1)
    PROVE  I # {} /\ Min(I) = k
  <1> DEFINE m == Min(I)
  <1>1. m \in I /\ m <= k
    BY LeastNumber
  <1> HIDE DEF m
  <1>2. m \in Nat /\ k \in Nat /\ ~(m <= k - 1)
    BY <1>1
  <1>3. m = k
    BY <1>1, <1>2
  <1> QED  BY <1>3 DEF m

LEMMA RestOfCopy ==
    ASSUME NEW u \in Seq(Symbol), NEW o \in Nat, NEW v \in Seq(Symbol), Len(v) >= 10,
           NEW k, NEW type, Readable(v, k, type), Fits(u, o, v), o + Len(v) <= Len(u)
    PROVE  /\ RestOfMessage(u, o + 5).state = "found"
           /\ RestOfMessage(u, o + 5).msg = [seq |-> k, type |-> type]
           /\ RestOfMessage(u, o + 5).at \in o + Len(v) + 1 .. Len(u) + 1
           /\ RestOfMessage(u, o + 5).at = NextTag(u, o + (Len(v) - 1))
           /\ v[Len(v)].half = "value" => RestOfMessage(u, o + 5).at = o + Len(v) + 1
  <1> DEFINE n == Len(v)
             sumAt == o + (n - 1)
             I == {i \in o + 5 .. Len(u) : u[i] = Field(CheckSum, 0)[1]}
             J == {i \in o + 5 .. sumAt - 1 : u[i] = Field(MsgSeqNum, 0)[1]}
  <1>1. n \in Nat /\ n >= 10 /\ Len(u) \in Nat /\ o + n <= Len(u)
    OBVIOUS
  <1>2. \A i \in 1 .. n : u[o + i] = v[i]
    <2>1. \A i \in 1 .. n : o + i \in 1 .. Len(u)
      BY <1>1
    <2> QED  BY <2>1 DEF Fits
  <1>3. /\ v[5] = TagOf(MsgType) /\ v[6] = ValueOf(type)
        /\ v[7] = TagOf(MsgSeqNum) /\ v[8] = ValueOf(k)
        /\ \A i \in 9 .. n - 2 : v[i] \in {TagOf(Text), ValueOf(0)}
        /\ v[n - 1] = TagOf(CheckSum)
    BY DEF Readable
  <1> HIDE DEF n
  <1>4. /\ u[o + 5] = TagOf(MsgType) /\ u[o + 6] = ValueOf(type)
        /\ u[o + 7] = TagOf(MsgSeqNum) /\ u[o + 8] = ValueOf(k)
        /\ u[sumAt] = TagOf(CheckSum) /\ u[o + n] = v[n]
    <2>1. 5 \in 1 .. n /\ 6 \in 1 .. n /\ 7 \in 1 .. n /\ 8 \in 1 .. n /\ n - 1 \in 1 .. n /\ n \in 1 .. n
      BY <1>1
    <2>2. u[o + 5] = v[5] /\ u[o + 6] = v[6] /\ u[o + 7] = v[7] /\ u[o + 8] = v[8]
      BY <1>2, <2>1
    <2>3. u[o + (n - 1)] = v[n - 1] /\ u[o + n] = v[n]
      BY <1>2, <2>1
    <2> QED  BY <1>3, <2>2, <2>3
  <1>5. /\ TagOf(CheckSum) # TagOf(MsgType) /\ TagOf(CheckSum) # TagOf(MsgSeqNum)
        /\ TagOf(CheckSum) # TagOf(Text) /\ TagOf(MsgSeqNum) # TagOf(MsgType)
        /\ \A a, b : ValueOf(a) # TagOf(b)
    BY DEF TagOf, ValueOf, CheckSum, MsgType, MsgSeqNum, Text
  <1>6. ASSUME NEW j \in o + 5 .. sumAt - 1 PROVE u[j] # TagOf(CheckSum)
    <2> DEFINE i == j - o
    <2>1. i \in 5 .. n - 2 /\ i \in 1 .. n /\ j = o + i
      BY <1>1
    <2> HIDE DEF i
    <2>2. u[j] = v[i]
      BY <1>2, <2>1
    <2>3. i \in 9 .. n - 2 \/ i = 5 \/ i = 6 \/ i = 7 \/ i = 8
      BY <1>1, <2>1
    <2>4. i \in 9 .. n - 2 => v[i] = TagOf(Text) \/ v[i] = ValueOf(0)
      BY <1>3
    <2> QED  BY <1>3, <1>5, <2>2, <2>3, <2>4, Zenon
  <1>7. /\ o + 5 \in Nat \ {0} /\ Len(u) \in Nat /\ sumAt \in o + 5 .. Len(u)
        /\ sumAt - 1 \in Nat /\ o + 7 \in o + 5 .. sumAt - 1 /\ sumAt \in Nat \ {0} /\ sumAt + 1 = o + n
    BY <1>1
  <1>8. I # {} /\ Min(I) = sumAt
    <2>0. Field(CheckSum, 0)[1] = TagOf(CheckSum)
      BY DEF Field, TagOf
    <2> HIDE DEF sumAt
    <2>1. I \in SUBSET Nat /\ sumAt \in I
      BY <1>4, <1>7, <2>0
    <2>2. \A i \in I : ~(i <= sumAt - 1)
      <3>1. \A i \in I : i <= sumAt - 1 => i \in o + 5 .. sumAt - 1
        BY <1>7
      <3> QED  BY <1>6, <2>0, <3>1
    <2> HIDE DEF I
    <2> QED  BY <2>1, <2>2, LeastIs
  <1>9. J # {} /\ Min(J) = o + 7
    <2>0. Field(MsgSeqNum, 0)[1] = TagOf(MsgSeqNum)
      BY DEF Field, TagOf
    <2> HIDE DEF sumAt
    <2>1. J \in SUBSET Nat /\ o + 7 \in J
      BY <1>4, <1>7, <2>0
    <2>2. \A i \in J : ~(i <= (o + 7) - 1)
      <3>1. \A i \in J : i <= (o + 7) - 1 => i = o + 5 \/ i = o + 6
        BY <1>7
      <3> QED  BY <1>4, <1>5, <2>0, <3>1, Zenon
    <2> HIDE DEF J
    <2> QED  BY <2>1, <2>2, LeastIs
  <1>10. /\ RestOfMessage(u, o + 5).state = "found"
         /\ RestOfMessage(u, o + 5).at = NextTag(u, sumAt)
         /\ RestOfMessage(u, o + 5).msg = [seq |-> ValueAt(u, o + 7), type |-> ValueAt(u, o + 5)]
    <2> HIDE DEF sumAt
    <2> QED  BY <1>8, <1>9 DEF RestOfMessage, SelectInSubSeq, I, J
  <1>11. ValueAt(u, o + 7) = k /\ ValueAt(u, o + 5) = type
    <2>1. (o + 7) + 1 = o + 8 /\ (o + 5) + 1 = o + 6
      OBVIOUS
    <2>2. ValueAt(u, o + 7) = u[o + 8].is /\ ValueAt(u, o + 5) = u[o + 6].is
      BY <2>1 DEF ValueAt
    <2>3. \A a : ValueOf(a).is = a
      BY DEF ValueOf
    <2> QED  BY <1>4, <2>2, <2>3, Zenon
  <1>12. /\ NextTag(u, sumAt) \in o + n + 1 .. Len(u) + 1
         /\ v[n].half = "value" => NextTag(u, sumAt) = o + n + 1
    <2> DEFINE end == Find(u, "value", sumAt)
    <2>1. First(u, "value", sumAt, end)
      BY <1>7, FindFacts
    <2>2. u[sumAt].half # "value"
      BY <1>4 DEF TagOf
    <2> HIDE DEF end, sumAt
    <2>3. end = 0 \/ end \in sumAt + 1 .. Len(u)
      BY <1>7, <2>1, <2>2 DEF First
    <2>4. NextTag(u, sumAt) = IF end = 0 THEN Len(u) + 1 ELSE end + 1
      BY DEF NextTag, end
    <2>5. ASSUME v[n].half = "value" PROVE end = o + n
      <3>1. u[o + n].half = "value" /\ o + n \in sumAt .. Len(u)
        BY <1>1, <1>4, <1>7, <2>5
      <3>2. end # 0 /\ ~(end - 1 >= o + n)
        BY <1>7, <2>1, <3>1 DEF First
      <3> QED  BY <1>1, <1>7, <2>3, <3>2
    <2>6. end = 0 \/ (end >= o + n /\ end <= Len(u) /\ end \in Nat)
      BY <1>7, <2>3
    <2>7. Len(u) + 1 \in o + n + 1 .. Len(u) + 1 /\ o + n # 0
      BY <1>1
    <2>8. NextTag(u, sumAt) \in o + n + 1 .. Len(u) + 1
      <3>1. end # 0 => end + 1 \in o + n + 1 .. Len(u) + 1
        BY <1>1, <2>6
      <3> QED  BY <2>4, <2>7, <3>1
    <2>9. v[n].half = "value" => NextTag(u, sumAt) = o + n + 1
      BY <2>4, <2>5, <2>7
    <2> QED  BY <2>8, <2>9
  <1> QED  BY <1>10, <1>11, <1>12 DEF n

\* The field the parser looks for is there, as far as it has come.
LEMMA FieldThere ==
    ASSUME NEW u \in Seq(Symbol), NEW p \in Nat \ {0}, NEW tag,
           p <= Len(u) => u[p] = TagOf(tag), p + 1 <= Len(u) => u[p + 1].half = "value"
    PROVE  MatchField(u, p, tag) = IF p + 1 <= Len(u) THEN Found(p + 2) ELSE Partial
  <1> DEFINE delim == Find(u, "tag", p)
             end == Find(u, "value", p)
  <1>1. First(u, "tag", p, delim) /\ First(u, "value", p, end) /\ Len(u) \in Nat
    BY FindFacts
  <1>2. MatchField(u, p, tag) =
           CASE delim = 0 -> Partial
             [] delim > p \/ (delim = p /\ u[delim].is # tag) -> Garbled(NextTag(u, delim))
             [] OTHER -> ParseValue(u, delim)
    BY DEF MatchField
  <1> HIDE DEF delim, end
  <1>3. CASE p > Len(u)
    <2>1. delim = 0
      BY <1>1, <1>3 DEF First
    <2> QED  BY <1>1, <1>2, <1>3, <2>1
  <1>4. CASE p <= Len(u)
    <2>1. u[p].half = "tag" /\ u[p].is = tag
      BY <1>4 DEF TagOf
    <2>2. delim = p
      BY <1>1, <1>4, <2>1 DEF First
    <2>3. MatchField(u, p, tag) = ParseValue(u, p)
      BY <1>2, <2>1, <2>2
    <2>4. ParseValue(u, p) = IF end = 0 THEN Partial ELSE Found(end + 1)
      BY DEF ParseValue, end
    <2>5. CASE p + 1 <= Len(u)
      <3>1. end = p + 1
        BY <1>1, <2>1, <2>5 DEF First
      <3> QED  BY <2>3, <2>4, <2>5, <3>1
    <2>6. CASE p + 1 > Len(u)
      <3>1. end = 0
        BY <1>1, <1>4, <2>1, <2>6 DEF First
      <3> QED  BY <1>1, <2>3, <2>4, <2>6, <3>1
    <2> QED  BY <1>1, <2>5, <2>6
  <1> QED  BY <1>1, <1>3, <1>4

\* A sound message is found, or what has come of it is not enough.
LEMMA SoundAttempt ==
    ASSUME NEW u \in Seq(Symbol), NEW o \in Nat, NEW kind \in Kinds, NEW k \in Nat,
           kind.type \in KnownTypes, Fits(u, o, Message(kind, k))
    PROVE  Attempt(u, o + 1) = IF o + Len(Message(kind, k)) <= Len(u) THEN Found(o + 5) ELSE Partial
  <1> DEFINE m == Message(kind, k)
             n == Len(m)
             begin == MatchField(u, o + 1, BeginString)
             length == ParseBodyLength(u, begin.at)
             type == ParseMsgType(u, length.at)
             sumAt == length.at + ValueAt(u, begin.at)
             sum == CheckedSum(u, o + 1, sumAt)
  <1>0. Attempt(u, o + 1) =
           IF begin.state # "found" THEN begin
           ELSE IF length.state # "found" THEN length
                ELSE IF type.state # "found" THEN type
                     ELSE IF sum.state # "found" THEN sum ELSE Found(length.at)
    BY DEF Attempt, Then
  <1>1. m \in Seq(Symbol) /\ n \in Nat /\ n >= 10 /\ n - 6 \in 1 .. MaxMessage /\ Written(m, kind.type, k)
    BY MessageLength, MessageWritten
  <1>2. \A i \in 1 .. n : o + i <= Len(u) => u[o + i] = m[i]
    <2>1. \A i \in 1 .. n : o + i <= Len(u) => o + i \in 1 .. Len(u)
      BY <1>1
    <2> QED  BY <2>1 DEF Fits
  <1> HIDE DEF begin, length, type, sum, sumAt, m
  <1>3. /\ m[1] = TagOf(BeginString) /\ m[2] = ValueOf(44)
        /\ m[3] = TagOf(BodyLength) /\ m[4] = ValueOf(n - 6)
        /\ m[5] = TagOf(MsgType) /\ m[6] = ValueOf(kind.type)
        /\ m[n - 1] = TagOf(CheckSum) /\ m[n] = ValueOf(Sum(SubSeq(m, 1, n - 2)))
    BY <1>1 DEF Written
  <1> HIDE DEF n
  <1>4. /\ Len(u) \in Nat /\ o + n - 1 = o + (n - 1) /\ o + n - 2 = o + (n - 2)
        /\ 1 \in 1 .. n /\ 2 \in 1 .. n /\ 3 \in 1 .. n /\ 4 \in 1 .. n /\ 5 \in 1 .. n /\ 6 \in 1 .. n
        /\ n - 1 \in 1 .. n /\ n \in 1 .. n
    BY <1>1
  <1>5. /\ o + 1 <= Len(u) => u[o + 1] = TagOf(BeginString)
        /\ o + 2 <= Len(u) => u[o + 2] = ValueOf(44)
        /\ o + 3 <= Len(u) => u[o + 3] = TagOf(BodyLength)
        /\ o + 4 <= Len(u) => u[o + 4] = ValueOf(n - 6)
        /\ o + 5 <= Len(u) => u[o + 5] = TagOf(MsgType)
        /\ o + 6 <= Len(u) => u[o + 6] = ValueOf(kind.type)
        /\ o + (n - 1) <= Len(u) => u[o + (n - 1)] = TagOf(CheckSum)
        /\ o + n <= Len(u) => u[o + n] = ValueOf(Sum(SubSeq(m, 1, n - 2)))
    BY <1>2, <1>3, <1>4
  <1>6. \A x : ValueOf(x).half = "value" /\ ValueOf(x).is = x
    BY DEF ValueOf
  <1>7. begin = IF o + 2 <= Len(u) THEN Found(o + 3) ELSE Partial
    <2>1. /\ o + 1 \in Nat \ {0} /\ (o + 1) + 1 = o + 2 /\ (o + 1) + 2 = o + 3
          /\ o + 2 <= Len(u) => u[o + 2].half = "value"
      BY <1>5, <1>6
    <2> QED  BY <1>5, <2>1, FieldThere DEF begin
  <1>8. CASE ~(o + 2 <= Len(u))
    <2>1. Attempt(u, o + 1) = Partial
      BY <1>0, <1>7, <1>8, StateFacts
    <2> QED  BY <1>1, <1>4, <1>8, <2>1 DEF m, n
  <1>9. CASE o + 2 <= Len(u)
    <2>1. begin = Found(o + 3) /\ length = ParseBodyLength(u, o + 3)
      BY <1>7, <1>9, StateFacts DEF length
    <2>2. length = IF o + 4 <= Len(u) THEN Found(o + 5) ELSE Partial
      <3> DEFINE field == MatchField(u, o + 3, BodyLength)
      <3>1. ParseBodyLength(u, o + 3) =
               IF field.state = "found"
               THEN IF ValueAt(u, o + 3) \in 1 .. MaxMessage THEN Found(field.at) ELSE Garbled(field.at)
               ELSE field
        BY DEF ParseBodyLength, Then
      <3>2. /\ o + 3 \in Nat \ {0} /\ (o + 3) + 1 = o + 4 /\ (o + 3) + 2 = o + 5
            /\ o + 4 <= Len(u) => u[o + 4].half = "value"
        <4>1. o + 3 \in Nat \ {0} /\ (o + 3) + 1 = o + 4 /\ (o + 3) + 2 = o + 5
          OBVIOUS
        <4>2. o + 4 <= Len(u) => u[o + 4] = ValueOf(n - 6)
          BY <1>5
        <4> QED  BY <1>6, <4>1, <4>2
      <3>3. field = IF o + 4 <= Len(u) THEN Found(o + 5) ELSE Partial
        BY <1>5, <3>2, FieldThere
      <3> HIDE DEF field
      <3>4. o + 4 <= Len(u) => ValueAt(u, o + 3) \in 1 .. MaxMessage
        BY <1>1, <1>5, <1>6, <3>2, SMTT(30) DEF ValueAt
      <3> QED  BY <2>1, <3>1, <3>3, <3>4, StateFacts
    <2>3. CASE ~(o + 4 <= Len(u))
      <3>1. Attempt(u, o + 1) = Partial
        BY <1>0, <2>1, <2>2, <2>3, StateFacts
      <3> QED  BY <1>1, <1>4, <2>3, <3>1 DEF m, n
    <2>4. CASE o + 4 <= Len(u)
      <3>1. length = Found(o + 5) /\ type = ParseMsgType(u, o + 5)
        BY <2>2, <2>4, StateFacts DEF type
      <3>2. type = IF o + 6 <= Len(u) THEN Found(o + 7) ELSE Partial
        <4> DEFINE field == MatchField(u, o + 5, MsgType)
        <4>1. ParseMsgType(u, o + 5) =
                 IF field.state = "found"
                 THEN IF ValueAt(u, o + 5) \in KnownTypes THEN Found(field.at) ELSE Garbled(field.at)
                 ELSE field
          BY DEF ParseMsgType, Then
        <4>2. /\ o + 5 \in Nat \ {0} /\ (o + 5) + 1 = o + 6 /\ (o + 5) + 2 = o + 7
              /\ o + 6 <= Len(u) => u[o + 6].half = "value"
          BY <1>5, <1>6
        <4>3. field = IF o + 6 <= Len(u) THEN Found(o + 7) ELSE Partial
          BY <1>5, <4>2, FieldThere
        <4> HIDE DEF field
        <4>4. o + 6 <= Len(u) => ValueAt(u, o + 5) \in KnownTypes
          BY <1>5, <1>6, <4>2 DEF ValueAt
        <4> QED  BY <3>1, <4>1, <4>3, <4>4, StateFacts
      <3>3. CASE ~(o + 6 <= Len(u))
        <4>1. Attempt(u, o + 1) = Partial
          BY <1>0, <2>1, <3>1, <3>2, <3>3, StateFacts
        <4> QED  BY <1>1, <1>4, <3>3, <4>1 DEF m, n
      <3>4. CASE o + 6 <= Len(u)
        <4>1. sumAt = o + (n - 1) /\ sum = CheckedSum(u, o + 1, o + (n - 1))
          <5>1. length.at = o + 5 /\ begin.at = o + 3
            BY <2>1, <3>1, StateFacts
          <5>2. ValueAt(u, o + 3) = n - 6
            <6>1. (o + 3) + 1 = o + 4
              OBVIOUS
            <6> QED  BY <1>5, <1>6, <2>4, <6>1 DEF ValueAt
          <5>3. sumAt = o + (n - 1)
            <6>1. (o + 5) + (n - 6) = o + (n - 1)
              BY <1>1
            <6> QED  BY <5>1, <5>2, <6>1 DEF sumAt
          <5> QED  BY <5>3 DEF sum
        <4>2. sum = IF o + n <= Len(u) THEN Found(o + (n + 1)) ELSE Partial
          <5> DEFINE at == o + (n - 1)
                     field == MatchField(u, at, CheckSum)
          <5>1. CheckedSum(u, o + 1, at) =
                   IF Len(u) + 1 < at + 2 THEN Partial
                   ELSE IF field.state = "found"
                        THEN IF SumVerified(u, o + 1, at) THEN Found(field.at) ELSE Garbled(field.at)
                        ELSE field
            BY DEF CheckedSum, Then
          <5>2. /\ at \in Nat \ {0} /\ at + 1 = o + n /\ at + 2 = o + (n + 1) /\ at - 1 = o + (n - 2)
                /\ Len(u) + 1 < at + 2 <=> ~(o + n <= Len(u))
            BY <1>1, <1>4
          <5>3. at <= Len(u) => u[at] = TagOf(CheckSum)
            BY <1>5
          <5> HIDE DEF at
          <5>4. o + n <= Len(u) => u[o + n].half = "value"
            BY <1>5, <1>6
          <5>5. field = IF o + n <= Len(u) THEN Found(o + (n + 1)) ELSE Partial
            BY <5>2, <5>3, <5>4, FieldThere
          <5> HIDE DEF field
          <5>6. ASSUME o + n <= Len(u) PROVE SumVerified(u, o + 1, at)
            <6> DEFINE a == SubSeq(m, 1, n - 2)
                       b == SubSeq(u, o + 1, o + (n - 2))
            <6>1. a \in Seq(Symbol) /\ Len(a) = n - 2 /\ \A i \in 1 .. n - 2 : a[i] = m[i]
              BY <1>1 DEF n
            <6>2. b \in Seq(Symbol) /\ Len(b) = n - 2 /\ \A i \in 1 .. n - 2 : b[i] = u[o + i]
              <7> DEFINE w == n - 2
              <7>1. w \in Nat /\ o + w <= Len(u)
                BY <1>1, <1>4, <5>6
              <7> HIDE DEF w
              <7>2. /\ SubSeq(u, o + 1, o + w) \in Seq(Symbol) /\ Len(SubSeq(u, o + 1, o + w)) = w
                    /\ \A i \in 1 .. w : SubSeq(u, o + 1, o + w)[i] = u[o + i]
                <8>1. o + 1 \in Nat \ {0} /\ o + w \in Nat /\ o + w <= Len(u) /\ (o + w) - (o + 1) + 1 = w
                  BY <1>4, <7>1, Z3
                <8>2. \A i \in 1 .. w : (o + 1) + i - 1 = o + i
                  BY <7>1
                <8> QED  BY <7>1, <8>1, <8>2
              <7> QED  BY <7>2 DEF w
            <6>3. \A i \in 1 .. n - 2 : i \in 1 .. n /\ o + i <= Len(u)
              BY <1>1, <1>4, <5>6
            <6> HIDE DEF a, b
            <6>4. \A i \in 1 .. n - 2 : a[i] = b[i]
              BY <1>2, <6>1, <6>2, <6>3
            <6>5. a = b
              BY <6>1, <6>2, <6>4, SeqEqual
            <6>6. ValueAt(u, at) = Sum(a)
              BY <1>5, <1>6, <5>2, <5>6 DEF ValueAt, a
            <6> QED  BY <5>2, <6>5, <6>6 DEF SumVerified, b
          <5>7. CheckedSum(u, o + 1, at) = IF o + n <= Len(u) THEN Found(o + (n + 1)) ELSE Partial
            BY <5>1, <5>2, <5>5, <5>6, StateFacts
          <5> QED  BY <4>1, <5>7 DEF at
        <4>3. Attempt(u, o + 1) = IF o + n <= Len(u) THEN Found(o + 5) ELSE Partial
          BY <1>0, <2>1, <3>1, <3>2, <3>4, <4>2, StateFacts
        <4> QED  BY <4>3 DEF m, n
      <3> QED  BY <3>3, <3>4
    <2> QED  BY <2>3, <2>4
  <1> QED  BY <1>8, <1>9

\* What the parser makes of s when the attempt at its first position is not garbled.
LEMMA FirstAttempt ==
    ASSUME NEW s \in Seq(Symbol)
    PROVE  /\ Len(s) = 0 => Parse(s) = [state |-> "partial", at |-> 1]
           /\ Attempt(s, 1) = Partial => Parse(s) = [state |-> "partial", at |-> 1]
           /\ \A at : Len(s) > 0 /\ Attempt(s, 1) = Found(at) => Parse(s) = RestOfMessage(s, at)
  <1>1. PICK f : Parse(s) = f[1] /\ \A n \in 1 .. Len(s) + 1 : f[n] = ParseFrom(s, f, n)
    BY ParseSolved
  <1>2. Len(s) \in Nat /\ 1 \in 1 .. Len(s) + 1 /\ Parse(s) = ParseFrom(s, f, 1)
    BY <1>1
  <1>3. Len(s) = 0 \/ ~(1 > Len(s))
    BY <1>2
  <1> QED  BY <1>2, <1>3, StateFacts DEF ParseFrom

-----------------------------------------------------------------------------
(* Where the messages of the peer are in the stream.                       *)

Logs == Seq([type : Types, harm : Harms, end : Nat])

\* Where message k of a log ends, and which position that is of s, what is left of the stream.
End(log, k) == IF k = 0 THEN 0 ELSE log[k].end
EndIn(log, s, k) == Len(s) + End(log, k) - End(log, Len(log))

\* Message k came as v, and s has what was not read of it.
Holds(log, s, k, v) ==
    /\ Copy(v, k, log[k]) /\ End(log, k) = End(log, k - 1) + Len(v)
    /\ \A i \in 1 .. Len(v) : EndIn(log, s, k - 1) + i >= 1 => s[EndIn(log, s, k - 1) + i] = v[i]

Tracks(log, s) ==
    /\ Len(s) <= End(log, Len(log))
    /\ \A j, k \in 0 .. Len(log) : j < k => End(log, j) + 10 <= End(log, k)
    /\ \A k \in 1 .. Len(log) : \E v : Holds(log, s, k, v)

LEMMA CopyFacts ==
    ASSUME NEW v, NEW k \in Nat, NEW r, Copy(v, k, r)
    PROVE  v \in Seq(Symbol) /\ Len(v) \in Nat /\ Len(v) >= 10 /\ Headed(v)
  <1>1. PICK kind \in Kinds, d \in Nat : Altered(Message(kind, k), v, d)
    BY DEF Copy
  <1> DEFINE m == Message(kind, k)
  <1>2. m \in Seq(Symbol) /\ Len(m) \in Nat /\ Len(m) >= 10 /\ Written(m, kind.type, k)
    BY MessageLength, MessageWritten
  <1>3. Altered(m, v, d)
    BY <1>1
  <1> HIDE DEF m
  <1>4. v \in Seq(Symbol) /\ Len(v) = Len(m)
    BY <1>3 DEF Altered
  <1>5. Headed(v)
    BY <1>2, <1>3, AlteredHeaded
  <1> QED  BY <1>2, <1>4, <1>5

LEMMA EndFacts ==
    ASSUME NEW log \in Logs, NEW s \in Seq(Symbol)
    PROVE  /\ Len(log) \in Nat /\ Len(s) \in Nat /\ End(log, 0) = 0
           /\ \A k \in 0 .. Len(log) : End(log, k) \in Nat /\ EndIn(log, s, k) \in Int
           /\ EndIn(log, s, Len(log)) = Len(s)
           /\ Tracks(log, s) => EndIn(log, s, 0) <= 0
  <1>1. Len(log) \in Nat /\ Len(s) \in Nat /\ End(log, 0) = 0
    BY DEF Logs, End
  <1>2. ASSUME NEW k \in 0 .. Len(log) PROVE End(log, k) \in Nat
    <2>1. k # 0 => log[k] \in [type : Types, harm : Harms, end : Nat]
      <3> DEFINE R == [type : Types, harm : Harms, end : Nat]
      <3>1. log \in Seq(R)
        BY DEF Logs
      <3>2. k # 0 => k \in 1 .. Len(log)
        BY <1>1
      <3> HIDE DEF R
      <3>3. k # 0 => log[k] \in R
        BY <3>1, <3>2
      <3> QED  BY <3>3 DEF R
    <2> QED  BY <2>1 DEF End
  <1>3. End(log, Len(log)) \in Nat
    BY <1>1, <1>2
  <1> QED  BY <1>1, <1>2, <1>3 DEF EndIn, Tracks

LEMMA TracksSuffix ==
    ASSUME NEW log \in Logs, NEW s \in Seq(Symbol), Tracks(log, s), NEW t, Suffix(t, s)
    PROVE  /\ Tracks(log, t)
           /\ \A k \in 0 .. Len(log) : EndIn(log, t, k) = EndIn(log, s, k) - (Len(s) - Len(t))
  <1> DEFINE n == Len(s) - Len(t)
  <1>1. /\ t \in Seq(Symbol) /\ Len(t) \in Nat /\ Len(s) \in Nat /\ n \in Nat /\ Len(s) = n + Len(t)
        /\ \A i \in 1 .. Len(t) : t[i] = s[n + i]
    BY DEF Suffix
  <1>2. /\ Len(log) \in Nat /\ End(log, Len(log)) \in Nat /\ EndIn(log, s, Len(log)) = Len(s)
        /\ \A k \in 0 .. Len(log) : End(log, k) \in Nat /\ EndIn(log, s, k) \in Int
    BY EndFacts
  <1> HIDE DEF n
  <1>3. ASSUME NEW k \in 0 .. Len(log)
        PROVE  EndIn(log, t, k) = EndIn(log, s, k) - n /\ EndIn(log, t, k) \in Int
    BY <1>1, <1>2 DEF EndIn
  <1>4. ASSUME NEW k \in 1 .. Len(log) PROVE \E v : Holds(log, t, k, v)
    <2>1. PICK v : Holds(log, s, k, v)
      BY DEF Tracks
    <2>2. Copy(v, k, log[k]) /\ End(log, k) = End(log, k - 1) + Len(v)
      BY <2>1 DEF Holds
    <2> DEFINE a == EndIn(log, s, k - 1)
               b == EndIn(log, t, k - 1)
    <2>3. k - 1 \in 0 .. Len(log) /\ k \in 0 .. Len(log) /\ k \in Nat
      BY <1>2
    <2>4. a \in Int /\ b = a - n
      BY <1>2, <1>3, <2>3
    <2>5. Len(v) \in Nat
      BY <2>2, <2>3, CopyFacts
    <2>6. b + Len(v) <= Len(t)
      <3>1. b + Len(v) = Len(t) + End(log, k) - End(log, Len(log))
        <4>1. End(log, k - 1) \in Nat /\ End(log, k) \in Nat
          BY <1>2, <2>3
        <4>2. b = Len(t) + End(log, k - 1) - End(log, Len(log))
          BY DEF EndIn
        <4> HIDE DEF b
        <4> QED  BY <1>1, <1>2, <2>2, <2>5, <4>1, <4>2
      <3>2. End(log, k) <= End(log, Len(log))
        <4>1. k = Len(log) \/ k < Len(log)
          BY <1>2
        <4>2. k < Len(log) => End(log, k) + 10 <= End(log, Len(log))
          BY <1>2, <2>3 DEF Tracks
        <4> QED  BY <1>2, <2>3, <4>1, <4>2
      <3> QED  BY <1>1, <1>2, <2>3, <3>1, <3>2
    <2>7. \A i \in 1 .. Len(v) : a + i >= 1 => s[a + i] = v[i]
      BY <2>1 DEF Holds
    <2> HIDE DEF a, b
    <2>8. ASSUME NEW i \in 1 .. Len(v), b + i >= 1 PROVE t[b + i] = v[i]
      <3>1. b + i \in 1 .. Len(t) /\ a + i >= 1 /\ n + (b + i) = a + i
        BY <1>1, <2>4, <2>5, <2>6, <2>8
      <3> QED  BY <1>1, <2>7, <3>1
    <2> QED  BY <2>2, <2>8 DEF Holds, b
  <1>5. Len(t) <= End(log, Len(log))
    BY <1>1, <1>2 DEF Tracks
  <1>6. \A j, k \in 0 .. Len(log) : j < k => End(log, j) + 10 <= End(log, k)
    BY DEF Tracks
  <1> QED  BY <1>3, <1>4, <1>5, <1>6 DEF Tracks, n

\* r tells of one more message, which comes as v.
LEMMA TracksAppend ==
    ASSUME NEW log \in Logs, NEW s \in Seq(Symbol), Tracks(log, s),
           NEW r \in [type : Types, harm : Harms, end : Nat], NEW v \in Seq(Symbol), Len(v) >= 10,
           Copy(v, Len(log) + 1, r), r.end = End(log, Len(log)) + Len(v)
    PROVE  /\ Append(log, r) \in Logs /\ Tracks(Append(log, r), s \o v)
           /\ \A k \in 0 .. Len(log) : EndIn(Append(log, r), s \o v, k) = EndIn(log, s, k)
  <1> DEFINE new == Append(log, r)
             w == s \o v
             n == Len(log)
  <1>1. /\ new \in Logs /\ Len(new) = n + 1 /\ n \in Nat /\ new[n + 1] = r
        /\ \A k \in 1 .. n : new[k] = log[k]
    BY DEF Logs
  <1>2. Chained(w, s, v)
    BY ConcatFacts
  <1>3. /\ w \in Seq(Symbol) /\ Len(s) \in Nat /\ Len(v) \in Nat /\ Len(w) = Len(s) + Len(v)
        /\ \A i \in 1 .. Len(s) : w[i] = s[i]
        /\ \A i \in Len(s) + 1 .. Len(s) + Len(v) : w[i] = v[i - Len(s)]
    BY <1>2 DEF Chained
  <1>4. /\ End(log, n) \in Nat /\ EndIn(log, s, n) = Len(s) /\ End(log, 0) = 0
        /\ \A k \in 0 .. n : End(log, k) \in Nat /\ EndIn(log, s, k) \in Int
    BY EndFacts, <1>1
  <1>5. Copy(v, n + 1, r) /\ r.end = End(log, n) + Len(v) /\ Len(s) <= End(log, n)
    BY DEF Tracks
  <1>6. /\ \A j, k \in 0 .. n : j < k => End(log, j) + 10 <= End(log, k)
        /\ \A k \in 1 .. n : \E x : Holds(log, s, k, x)
    BY DEF Tracks
  <1> HIDE DEF new, w, n
  <1>7. End(new, n + 1) = End(log, n) + Len(v) /\ \A k \in 0 .. n : End(new, k) = End(log, k)
    <2>1. n + 1 # 0
      BY <1>1
    <2>2. ASSUME NEW k \in 0 .. n PROVE End(new, k) = End(log, k)
      <3>1. k = 0 \/ k \in 1 .. n
        BY <1>1
      <3> QED  BY <1>1, <3>1 DEF End
    <2> QED  BY <1>1, <1>5, <2>1, <2>2 DEF End
  <1>8. ASSUME NEW k \in 0 .. n PROVE EndIn(new, w, k) = EndIn(log, s, k)
    <2>1. EndIn(new, w, k) = (Len(s) + Len(v)) + End(log, k) - (End(log, n) + Len(v))
      BY <1>1, <1>3, <1>7 DEF EndIn
    <2>2. EndIn(log, s, k) = Len(s) + End(log, k) - End(log, n)
      BY DEF EndIn, n
    <2> QED  BY <1>3, <1>4, <2>1, <2>2, SMTT(30)
  <1>9. ASSUME NEW k \in 1 .. n + 1 PROVE \E x : Holds(new, w, k, x)
    <2>1. CASE k = n + 1
      <3>1. k - 1 = n /\ n \in 0 .. n
        BY <1>1, <2>1
      <3>2. Copy(v, k, new[k]) /\ End(new, k) = End(new, k - 1) + Len(v)
        BY <1>1, <1>5, <1>7, <2>1, <3>1
      <3>3. EndIn(new, w, k - 1) = Len(s)
        BY <1>4, <1>8, <3>1
      <3>4. ASSUME NEW i \in 1 .. Len(v) PROVE w[Len(s) + i] = v[i]
        <4>1. Len(s) + i \in Len(s) + 1 .. Len(s) + Len(v) /\ (Len(s) + i) - Len(s) = i
          BY <1>3
        <4> QED  BY <1>3, <4>1
      <3> QED  BY <3>2, <3>3, <3>4 DEF Holds
    <2>2. CASE k \in 1 .. n
      <3>1. PICK x : Holds(log, s, k, x)
        BY <1>6, <2>2
      <3>2. k \in 0 .. n /\ k - 1 \in 0 .. n /\ k \in Nat /\ n \in 0 .. n
        BY <1>1, <2>2
      <3> DEFINE a == EndIn(log, s, k - 1)
      <3>3. /\ Copy(x, k, log[k]) /\ End(log, k) = End(log, k - 1) + Len(x)
            /\ \A i \in 1 .. Len(x) : a + i >= 1 => s[a + i] = x[i]
        BY <3>1 DEF Holds
      <3>4. Len(x) \in Nat
        BY <3>2, <3>3, CopyFacts
      <3>5. a \in Int /\ a + Len(x) <= Len(s)
        <4>1. a = Len(s) + End(log, k - 1) - End(log, n)
          BY DEF EndIn, n
        <4>2. End(log, k) <= End(log, n)
          <5>1. k = n \/ k < n
            BY <1>1, <2>2
          <5>2. k < n => End(log, k) + 10 <= End(log, n)
            BY <1>6, <3>2
          <5> QED  BY <1>4, <3>2, <5>1, <5>2, SMTT(30)
        <4>3. End(log, k - 1) \in Nat /\ End(log, k) \in Nat
          BY <1>4, <3>2
        <4> HIDE DEF a
        <4>4. End(log, n) \in Nat /\ End(log, k) = End(log, k - 1) + Len(x)
          BY <1>4, <3>3
        <4>5. Len(s) \in Nat
          BY <1>3
        <4> QED  BY <3>4, <4>1, <4>2, <4>3, <4>4, <4>5, SMTT(30)
      <3>6. EndIn(new, w, k - 1) = a
        BY <1>8, <3>2
      <3> HIDE DEF a
      <3>7. ASSUME NEW i \in 1 .. Len(x), a + i >= 1 PROVE w[a + i] = x[i]
        <4>1. a + i \in 1 .. Len(s)
          BY <1>3, <3>4, <3>5, <3>7
        <4> QED  BY <1>3, <3>3, <3>7, <4>1
      <3>8. Copy(x, k, new[k]) /\ End(new, k) = End(new, k - 1) + Len(x)
        BY <1>1, <1>7, <2>2, <3>2, <3>3
      <3> QED  BY <3>6, <3>7, <3>8 DEF Holds
    <2> QED  BY <1>1, <2>1, <2>2
  <1>10. ASSUME NEW j \in 0 .. n + 1, NEW k \in 0 .. n + 1, j < k PROVE End(new, j) + 10 <= End(new, k)
    <2>1. CASE k \in 0 .. n
      <3>1. j \in 0 .. n
        BY <1>1, <1>10, <2>1
      <3> QED  BY <1>6, <1>7, <1>10, <2>1, <3>1
    <2>2. CASE k = n + 1
      <3>1. j \in 0 .. n /\ n \in 0 .. n /\ (j = n \/ j < n)
        BY <1>1, <1>10, <2>2
      <3>2. End(new, j) = End(log, j) /\ End(new, k) = End(log, n) + Len(v) /\ End(log, j) <= End(log, n)
        <4>1. j < n => End(log, j) + 10 <= End(log, n)
          BY <1>6, <3>1
        <4> QED  BY <1>4, <1>7, <2>2, <3>1, <4>1
      <3>3. Len(v) >= 10
        OBVIOUS
      <3> QED  BY <1>3, <1>4, <3>1, <3>2, <3>3, SMTT(30)
    <2> QED  BY <1>1, <2>1, <2>2
  <1>11. Len(w) <= End(new, Len(new))
    BY <1>1, <1>3, <1>4, <1>5, <1>7
  <1>12. Tracks(new, w)
    BY <1>1, <1>9, <1>10, <1>11 DEF Tracks
  <1> QED  BY <1>1, <1>8, <1>12 DEF new, w, n

LEMMA FitsCopy ==
    ASSUME NEW log, NEW s \in Seq(Symbol), NEW k, NEW v, Holds(log, s, k, v),
           NEW u, Prefix(u, s), NEW o \in Nat, EndIn(log, s, k - 1) = o
    PROVE  Fits(u, o, v)
  <1>1. \A i \in 1 .. Len(v) : o + i >= 1 => s[o + i] = v[i]
    BY DEF Holds
  <1>2. ASSUME NEW i \in 1 .. Len(v), o + i \in 1 .. Len(u) PROVE u[o + i] = v[i]
    <2>1. s[o + i] = v[i]
      BY <1>1, <1>2
    <2> QED  BY <1>2, <2>1 DEF Prefix
  <1> QED  BY <1>2 DEF Fits

\* A tag BeginString is the first symbol of a message.
LEMMA BeginWhere ==
    ASSUME NEW log \in Logs, NEW s \in Seq(Symbol), Tracks(log, s),
           NEW p \in 1 .. Len(s), s[p] = TagOf(BeginString)
    PROVE  \E k \in 1 .. Len(log) : EndIn(log, s, k - 1) = p - 1
  <1>1. /\ Len(log) \in Nat /\ Len(s) \in Nat /\ EndIn(log, s, Len(log)) = Len(s) /\ EndIn(log, s, 0) <= 0
        /\ \A k \in 0 .. Len(log) : End(log, k) \in Nat /\ EndIn(log, s, k) \in Int
    BY EndFacts
  <1> DEFINE I == {k \in 0 .. Len(log) : EndIn(log, s, k) >= p}
             k == Min(I)
  <1>2. k \in I /\ \A j \in I : k <= j
    <2>1. I \in SUBSET Nat /\ Len(log) \in I
      BY <1>1
    <2> HIDE DEF I
    <2> QED  BY <2>1, LeastNumber
  <1>3. k \in 0 .. Len(log) /\ EndIn(log, s, k) >= p /\ k - 1 \notin I
    BY <1>2
  <1> HIDE DEF k
  <1>4. k # 0 /\ k \in 1 .. Len(log) /\ k - 1 \in 0 .. Len(log) /\ k \in Nat
    <2>1. k # 0
      BY <1>1, <1>3
    <2> QED  BY <1>1, <1>3, <2>1
  <1>5. EndIn(log, s, k - 1) < p /\ EndIn(log, s, k - 1) \in Int
    BY <1>1, <1>3, <1>4
  <1> HIDE DEF I
  <1>6. PICK v : Holds(log, s, k, v)
    BY <1>4 DEF Tracks
  <1> DEFINE a == EndIn(log, s, k - 1)
             i == p - a
  <1>7. Copy(v, k, log[k]) /\ End(log, k) = End(log, k - 1) + Len(v)
    BY <1>6 DEF Holds
  <1>8. Len(v) \in Nat /\ Headed(v)
    BY <1>4, <1>7, CopyFacts
  <1>9. EndIn(log, s, k) = a + Len(v)
    <2>1. End(log, Len(log)) \in Nat /\ End(log, k - 1) \in Nat /\ Len(log) \in 0 .. Len(log)
      BY <1>1, <1>4
    <2> QED  BY <1>1, <1>7, <1>8, <2>1 DEF EndIn
  <1>10. \A j \in 1 .. Len(v) : a + j >= 1 => s[a + j] = v[j]
    BY <1>6 DEF Holds
  <1> HIDE DEF a
  <1>11. a \in Int /\ a < p
    BY <1>5 DEF a
  <1>12. i \in 1 .. Len(v) /\ a + i = p
    BY <1>3, <1>8, <1>9, <1>11
  <1> HIDE DEF i
  <1>13. v[i] = TagOf(BeginString)
    BY <1>10, <1>12
  <1>14. i = 1
    <2>1. i \notin 2 .. Len(v)
      BY <1>8, <1>13 DEF Headed
    <2> QED  BY <1>8, <1>12, <2>1
  <1>15. a = p - 1
    BY <1>11, <1>12, <1>14
  <1> QED  BY <1>4, <1>15 DEF a

\* What the parser has found at position begin, p, is message k, and the parser goes on from
\* the end of its last field.
IsMessage(log, s, u, begin, p, k) ==
    /\ EndIn(log, s, k - 1) = begin - 1 /\ EndIn(log, s, k) > begin - 1
    /\ p.state = "found" /\ p.msg = [seq |-> k, type |-> log[k].type]
    /\ p.at - 1 >= EndIn(log, s, k) /\ p.at \in 1 .. Len(u) + 1
    /\ log[k].harm # "joined" => p.at - 1 = EndIn(log, s, k)
    /\ EndIn(log, s, k) - 1 \in 1 .. Len(u) /\ p.at = NextTag(u, EndIn(log, s, k) - 1)

\* What the parser has found is a message of the peer, and it goes on after its end.
LEMMA WholeIsSent ==
    ASSUME NEW log \in Logs, NEW s \in Seq(Symbol), Tracks(log, s), Len(log) <= 255,
           NEW u, Prefix(u, s), NEW begin \in 1 .. Len(u), NEW at, Whole(u, begin, at)
    PROVE  \E k \in 1 .. Len(log) : IsMessage(log, s, u, begin, RestOfMessage(u, at), k)
  <1>1. u \in Seq(Symbol) /\ Len(u) \in Nat /\ Len(s) \in Nat /\ begin \in 1 .. Len(s) /\ u[begin] = s[begin]
    BY DEF Prefix
  <1>2. s[begin] = TagOf(BeginString)
    BY <1>1 DEF Whole, HeadAt, FieldAt, TagOf
  <1>3. PICK k \in 1 .. Len(log) : EndIn(log, s, k - 1) = begin - 1
    BY <1>1, <1>2, BeginWhere
  <1> DEFINE o == begin - 1
             r == log[k]
  <1>4. o \in Nat /\ begin = o + 1 /\ k \in 0 .. 255 /\ k \in Nat /\ k - 1 \in 0 .. Len(log)
    <2>1. Len(log) \in Nat
      BY EndFacts
    <2> QED  BY <1>1, <2>1
  <1>5. PICK v : Holds(log, s, k, v)
    BY DEF Tracks
  <1>6. Copy(v, k, r) /\ End(log, k) = End(log, k - 1) + Len(v)
    BY <1>5 DEF Holds
  <1>7. v \in Seq(Symbol) /\ Len(v) \in Nat /\ Len(v) >= 10
    BY <1>4, <1>6, CopyFacts
  <1>8. EndIn(log, s, k) = o + Len(v)
    <2>1. Len(log) \in Nat /\ \A j \in 0 .. Len(log) : End(log, j) \in Nat
      BY EndFacts
    <2>2. End(log, Len(log)) \in Nat /\ End(log, k - 1) \in Nat
      BY <1>4, <2>1
    <2>3. o = Len(s) + End(log, k - 1) - End(log, Len(log))
      BY <1>3 DEF EndIn
    <2>4. EndIn(log, s, k) = Len(s) + End(log, k) - End(log, Len(log))
      BY DEF EndIn
    <2> HIDE DEF o
    <2>5. End(log, k) = End(log, k - 1) + Len(v) /\ Len(v) \in Nat /\ Len(s) \in Nat
      BY <1>1, <1>6, <1>7
    <2> QED  BY <2>2, <2>3, <2>4, <2>5
  <1>9. EndIn(log, s, k - 1) = o
    BY <1>3
  <1> HIDE DEF o, r
  <1>10. Fits(u, o, v)
    BY <1>4, <1>5, <1>9, FitsCopy
  <1>11. Whole(u, o + 1, at)
    BY <1>4
  <1>12. at = o + 5 /\ o + Len(v) <= Len(u) /\ Readable(v, k, r.type)
    BY <1>1, <1>4, <1>6, <1>10, <1>11, WholeCopy
  <1>13. /\ RestOfMessage(u, at).state = "found" /\ RestOfMessage(u, at).msg = [seq |-> k, type |-> r.type]
         /\ RestOfMessage(u, at).at \in o + Len(v) + 1 .. Len(u) + 1
         /\ v[Len(v)].half = "value" => RestOfMessage(u, at).at = o + Len(v) + 1
         /\ RestOfMessage(u, at).at = NextTag(u, o + (Len(v) - 1))
    <2>1. /\ u \in Seq(Symbol) /\ o \in Nat /\ v \in Seq(Symbol) /\ Len(v) >= 10
          /\ Readable(v, k, r.type) /\ Fits(u, o, v) /\ o + Len(v) <= Len(u)
      BY <1>1, <1>4, <1>7, <1>10, <1>12
    <2>2. /\ RestOfMessage(u, o + 5).state = "found" /\ RestOfMessage(u, o + 5).msg = [seq |-> k, type |-> r.type]
          /\ RestOfMessage(u, o + 5).at \in o + Len(v) + 1 .. Len(u) + 1
          /\ v[Len(v)].half = "value" => RestOfMessage(u, o + 5).at = o + Len(v) + 1
          /\ RestOfMessage(u, o + 5).at = NextTag(u, o + (Len(v) - 1))
      <3> DEFINE type == r.type
      <3>1. Readable(v, k, type)
        BY <2>1
      <3> HIDE DEF type
      <3>2. /\ RestOfMessage(u, o + 5).state = "found" /\ RestOfMessage(u, o + 5).msg = [seq |-> k, type |-> type]
            /\ RestOfMessage(u, o + 5).at \in o + Len(v) + 1 .. Len(u) + 1
            /\ v[Len(v)].half = "value" => RestOfMessage(u, o + 5).at = o + Len(v) + 1
            /\ RestOfMessage(u, o + 5).at = NextTag(u, o + (Len(v) - 1))
        BY <2>1, <3>1, RestOfCopy, SMTT(30)
      <3> QED  BY <3>2 DEF type
    <2> QED  BY <1>12, <2>2
  <1>14. r.harm # "joined" => v[Len(v)].half = "value"
    BY <1>6 DEF Copy
  <1> DEFINE q == RestOfMessage(u, at).at
  <1>15. q - 1 >= o + Len(v) /\ q \in 1 .. Len(u) + 1 /\ (r.harm # "joined" => q - 1 = o + Len(v))
    <2>1. q \in o + Len(v) + 1 .. Len(u) + 1 /\ (r.harm # "joined" => q = o + Len(v) + 1)
      BY <1>13, <1>14
    <2> HIDE DEF q
    <2> QED  BY <1>1, <1>4, <1>7, <2>1
  <1>16. o + Len(v) > o /\ o + Len(v) - 1 = o + (Len(v) - 1) /\ o + (Len(v) - 1) \in 1 .. Len(u)
    BY <1>1, <1>4, <1>7, <1>12
  <1>17. EndIn(log, s, k) - 1 \in 1 .. Len(u) /\ RestOfMessage(u, at).at = NextTag(u, EndIn(log, s, k) - 1)
    <2>1. EndIn(log, s, k) - 1 = o + (Len(v) - 1)
      BY <1>4, <1>7, <1>8
    <2> QED  BY <1>13, <1>16, <2>1, Zenon
  <1>18. RestOfMessage(u, at).msg = [seq |-> k, type |-> log[k].type] /\ RestOfMessage(u, at).state = "found"
    BY <1>13 DEF r
  <1>19. /\ EndIn(log, s, k - 1) = begin - 1 /\ EndIn(log, s, k) > begin - 1
         /\ RestOfMessage(u, at).at - 1 >= EndIn(log, s, k) /\ RestOfMessage(u, at).at \in 1 .. Len(u) + 1
         /\ log[k].harm # "joined" => RestOfMessage(u, at).at - 1 = EndIn(log, s, k)
    <2>1. EndIn(log, s, k - 1) = begin - 1
      BY <1>3
    <2>2. EndIn(log, s, k) > begin - 1
      BY <1>8, <1>16 DEF o
    <2>3. /\ RestOfMessage(u, at).at - 1 >= EndIn(log, s, k) /\ RestOfMessage(u, at).at \in 1 .. Len(u) + 1
          /\ log[k].harm # "joined" => RestOfMessage(u, at).at - 1 = EndIn(log, s, k)
      <3> DEFINE b == EndIn(log, s, k)
                 h == log[k].harm
      <3>1. b = o + Len(v) /\ h = r.harm
        BY <1>8 DEF r
      <3> HIDE DEF b, h, q
      <3>2. q - 1 >= b /\ q \in 1 .. Len(u) + 1 /\ (h # "joined" => q - 1 = b)
        BY <1>15, <3>1
      <3> QED  BY <3>2 DEF b, h, q
    <2> QED  BY <2>1, <2>2, <2>3
  <1> QED  BY <1>17, <1>18, <1>19 DEF IsMessage

\* A sound message that begins at the first symbol is found, or waited for.
LEMMA SoundFirst ==
    ASSUME NEW log \in Logs, NEW s \in Seq(Symbol), Tracks(log, s),
           NEW u, Prefix(u, s), NEW k \in 1 .. Len(log),
           log[k].harm = "none", EndIn(log, s, k - 1) = 0
    PROVE  \/ Parse(u) = [state |-> "partial", at |-> 1]
           \/ Parse(u).state = "found" /\ Parse(u).msg = [seq |-> k, type |-> log[k].type]
  <1>1. u \in Seq(Symbol) /\ Len(u) \in Nat /\ k \in Nat
    BY DEF Prefix
  <1>2. PICK v : Holds(log, s, k, v)
    BY DEF Tracks
  <1>3. Copy(v, k, log[k])
    BY <1>2 DEF Holds
  <1>4. PICK kind \in Kinds : /\ v = Message(kind, k) /\ kind.type = log[k].type
                              /\ kind.type \in KnownTypes
    BY <1>3 DEF Copy
  <1>5. /\ v \in Seq(Symbol) /\ Len(v) \in Nat /\ Len(v) >= 10 /\ Readable(v, k, log[k].type)
    <2>1. Written(v, log[k].type, k) /\ v \in Seq(Symbol) /\ Len(v) \in Nat /\ Len(v) >= 10
      BY <1>1, <1>4, MessageWritten, MessageLength
    <2> QED  BY <2>1, WrittenReadable
  <1>6. Fits(u, 0, v)
    BY <1>2, FitsCopy
  <1>7. Attempt(u, 0 + 1) = IF 0 + Len(v) <= Len(u) THEN Found(0 + 5) ELSE Partial
    BY <1>1, <1>4, <1>6, SoundAttempt
  <1>8. 0 + 1 = 1 /\ 0 + Len(v) = Len(v)
    BY <1>5
  <1>9. CASE Len(v) <= Len(u)
    <2>1. Attempt(u, 1) = Found(0 + 5) /\ Len(u) > 0
      BY <1>1, <1>5, <1>7, <1>8, <1>9
    <2>2. Parse(u) = RestOfMessage(u, 0 + 5)
      BY <1>1, <2>1, FirstAttempt
    <2>3. /\ RestOfMessage(u, 0 + 5).state = "found"
          /\ RestOfMessage(u, 0 + 5).msg = [seq |-> k, type |-> log[k].type]
      BY <1>1, <1>5, <1>6, <1>8, <1>9, RestOfCopy
    <2> QED  BY <2>2, <2>3
  <1>10. CASE ~(Len(v) <= Len(u))
    <2>1. Attempt(u, 1) = Partial
      BY <1>7, <1>8, <1>10
    <2> QED  BY <1>1, <2>1, FirstAttempt
  <1> QED  BY <1>9, <1>10

-----------------------------------------------------------------------------
(* The channel.                                                            *)

\* Nothing has happened to the message that was read last, and to the next one.
Sound(log, read) == \A j \in {read, read + 1} : j \in 1 .. Len(log) => log[j].harm = "none"

\* All of the messages up to that one has been read, and no more of a sound one.
Aligned(log, s, read) ==
    /\ read \in 0 .. Len(log) /\ EndIn(log, s, read) <= 0
    /\ Sound(log, read) => EndIn(log, s, read) = 0

\* Message k may be the next to be read.
Follows(log, read, k) ==
    /\ k \in read + 1 .. Len(log)
    /\ k > read + 1 => \E j \in {read, read + 1} \ {0} : log[j].harm # "none"

\* t is what is left of s after the parser has been over what has come of it.
LEMMA AlignedParse ==
    ASSUME NEW log \in Logs, NEW s \in Seq(Symbol), Tracks(log, s), Len(log) <= 255,
           NEW u, Prefix(u, s), NEW read, Aligned(log, s, read),
           NEW t, Suffix(t, s), Len(t) = Len(s) - (Parse(u).at - 1)
    PROVE  /\ Tracks(log, t)
           /\ Parse(u).state = "partial" => Aligned(log, t, read)
           /\ Parse(u).state = "found" =>
                 \E k \in 1 .. Len(log) : /\ Follows(log, read, k) /\ Aligned(log, t, k)
                                          /\ Parse(u).msg = [seq |-> k, type |-> log[k].type]
  <1> DEFINE p == Parse(u)
  <1>1. /\ u \in Seq(Symbol) /\ Len(u) \in Nat /\ Len(s) \in Nat /\ Len(u) <= Len(s) /\ Len(log) \in Nat
        /\ \A k \in 0 .. Len(log) : EndIn(log, s, k) \in Int
        /\ EndIn(log, s, Len(log)) = Len(s)
    BY EndFacts DEF Prefix
  <1>2. /\ Tracks(log, t)
        /\ \A k \in 0 .. Len(log) : EndIn(log, t, k) = EndIn(log, s, k) - (Len(s) - Len(t))
    BY TracksSuffix
  <1>3. read \in 0 .. Len(log) /\ read \in Nat /\ EndIn(log, s, read) <= 0
    BY <1>1 DEF Aligned
  <1>4. ASSUME Sound(log, read)
        PROVE  \/ p = [state |-> "partial", at |-> 1]
               \/ p.state = "found" /\ read + 1 <= Len(log) /\ p.msg = [seq |-> read + 1, type |-> log[read + 1].type]
    <2>1. EndIn(log, s, read) = 0
      BY <1>4 DEF Aligned
    <2>2. CASE read + 1 <= Len(log)
      <3> DEFINE k == read + 1
      <3>1. k \in 1 .. Len(log) /\ k - 1 = read /\ log[k].harm = "none"
        BY <1>3, <1>4, <2>2 DEF Sound
      <3> HIDE DEF k
      <3>2. EndIn(log, s, k - 1) = 0
        BY <2>1, <3>1
      <3>3. \/ p = [state |-> "partial", at |-> 1]
            \/ p.state = "found" /\ p.msg = [seq |-> k, type |-> log[k].type]
        BY <3>1, <3>2, SoundFirst
      <3> QED  BY <2>2, <3>3 DEF k
    <2>3. CASE ~(read + 1 <= Len(log))
      <3>1. read = Len(log)
        BY <1>1, <1>3, <2>3
      <3>2. Len(u) = 0
        BY <1>1, <2>1, <3>1
      <3> QED  BY <1>1, <3>2, FirstAttempt
    <2> QED  BY <2>2, <2>3
  <1>5. ASSUME p.state = "partial" PROVE Aligned(log, t, read)
    <2>1. Stops(u, p)
      BY <1>1, ParseStops
    <2>2. p.at \in 1 .. Len(u) + 1
      <3>1. ASSUME NEW begin \in 1 .. Len(u), NEW at \in begin + 2 .. Len(u), Whole(u, begin, at)
            PROVE  RestOfMessage(u, at).state = "found"
        BY <1>1, <3>1, RestFacts
      <3>2. ASSUME NEW begin \in 1 .. Len(u) + 1, begin <= Len(u) PROVE begin \in 1 .. Len(u)
        BY <1>1, <3>2
      <3> QED  BY <1>5, <2>1, <3>1, <3>2 DEF Stops, StopsIn
    <2>3. EndIn(log, t, read) = EndIn(log, s, read) - (Len(s) - Len(t)) /\ EndIn(log, s, read) \in Int
      BY <1>1, <1>2, <1>3
    <2>4. Len(t) = Len(s) - (p.at - 1)
      OBVIOUS
    <2>5. Sound(log, read) => p.at = 1 /\ EndIn(log, s, read) = 0
      BY <1>4, <1>5 DEF Aligned
    <2> HIDE DEF p
    <2>6. Len(s) - Len(t) = p.at - 1 /\ p.at - 1 \in Nat
      BY <1>1, <2>2, <2>4, SMTT(30)
    <2> QED  BY <1>3, <2>3, <2>5, <2>6 DEF Aligned
  <1>6. ASSUME p.state = "found"
        PROVE  \E k \in 1 .. Len(log) : /\ Follows(log, read, k) /\ Aligned(log, t, k)
                                        /\ p.msg = [seq |-> k, type |-> log[k].type]
    <2>1. Stops(u, p)
      BY <1>1, ParseStops
    <2>2. PICK begin \in 1 .. Len(u) : \E at : Whole(u, begin, at) /\ p = RestOfMessage(u, at)
      <3>1. ASSUME NEW begin \in 1 .. Len(u) + 1, begin <= Len(u) PROVE begin \in 1 .. Len(u)
        BY <1>1, <3>1
      <3> HIDE DEF p
      <3> QED  BY <1>6, <2>1, <3>1 DEF Stops, StopsIn
    <2>3. PICK k \in 1 .. Len(log) : IsMessage(log, s, u, begin, p, k)
      <3>1. PICK at : Whole(u, begin, at) /\ p = RestOfMessage(u, at)
        BY <2>2
      <3> HIDE DEF p
      <3>2. \E k \in 1 .. Len(log) : IsMessage(log, s, u, begin, RestOfMessage(u, at), k)
        <4>1. Whole(u, begin, at)
          BY <3>1
        <4> QED  BY <4>1, WholeIsSent
      <3> QED  BY <3>1, <3>2
    <2>4. /\ k \in 0 .. Len(log) /\ k \in Nat /\ p.msg = [seq |-> k, type |-> log[k].type]
          /\ EndIn(log, s, k) > 0 /\ EndIn(log, s, k) \in Int /\ p.at \in Nat /\ p.at - 1 >= EndIn(log, s, k)
          /\ log[k].harm # "joined" => p.at - 1 = EndIn(log, s, k)
      <3>0. /\ EndIn(log, s, k) > begin - 1 /\ p.msg = [seq |-> k, type |-> log[k].type]
            /\ p.at \in 1 .. Len(u) + 1 /\ p.at - 1 >= EndIn(log, s, k)
            /\ log[k].harm # "joined" => p.at - 1 = EndIn(log, s, k)
        BY <2>3 DEF IsMessage
      <3> HIDE DEF p
      <3>1. k \in 0 .. Len(log) /\ k \in Nat /\ EndIn(log, s, k) > 0
        BY <1>1, <3>0
      <3> QED  BY <1>1, <3>0, <3>1
    <2>5. k >= read + 1
      <3> SUFFICES ASSUME k <= read PROVE FALSE
        BY <1>3, <2>4
      <3>1. End(log, k) <= End(log, read)
        <4>1. k = read \/ k < read
          BY <1>3, <2>4
        <4>2. k < read => End(log, k) + 10 <= End(log, read)
          BY <1>3, <2>4 DEF Tracks
        <4>3. End(log, k) \in Nat /\ End(log, read) \in Nat
          BY <1>3, <2>4, EndFacts
        <4> QED  BY <4>1, <4>2, <4>3
      <3>2. End(log, k) \in Nat /\ End(log, read) \in Nat /\ End(log, Len(log)) \in Nat
        <4>1. Len(log) \in 0 .. Len(log)
          BY <1>1
        <4> QED  BY <1>3, <2>4, <4>1, EndFacts
      <3>3. EndIn(log, s, k) <= EndIn(log, s, read)
        BY <1>1, <3>1, <3>2 DEF EndIn
      <3> QED  BY <1>1, <1>3, <2>4, <3>3
    <2>6. Follows(log, read, k)
      <3>1. ASSUME k > read + 1, ~ \E j \in {read, read + 1} \ {0} : log[j].harm # "none" PROVE FALSE
        <4>1. Sound(log, read)
          BY <1>1, <3>1 DEF Sound
        <4>2. p = [state |-> "partial", at |-> 1] \/ p.msg = [seq |-> read + 1, type |-> log[read + 1].type]
          BY <1>4, <4>1
        <4>3. p.msg.seq = read + 1
          BY <1>6, <4>2
        <4> QED  BY <1>3, <2>4, <3>1, <4>3
      <3>2. k \in read + 1 .. Len(log)
        BY <1>1, <1>3, <2>4, <2>5
      <3> QED  BY <3>1, <3>2 DEF Follows
    <2>7. Aligned(log, t, k)
      <3>1. EndIn(log, t, k) = EndIn(log, s, k) - (Len(s) - Len(t)) /\ Len(t) = Len(s) - (p.at - 1)
        BY <1>2, <2>4
      <3>2. Sound(log, k) => log[k].harm = "none"
        BY <2>4 DEF Sound
      <3> HIDE DEF p
      <3>3. Len(s) - Len(t) = p.at - 1
        <4>1. Len(s) \in Nat /\ p.at \in Nat /\ Len(t) = Len(s) - (p.at - 1)
          BY <1>1, <2>4, <3>1
        <4> QED  BY <4>1, Z3
      <3>4. EndIn(log, t, k) = EndIn(log, s, k) - (p.at - 1)
        BY <3>1, <3>3
      <3>5. EndIn(log, t, k) <= 0 /\ (Sound(log, k) => EndIn(log, t, k) = 0)
        BY <2>4, <3>2, <3>4
      <3> QED  BY <2>4, <3>5 DEF Aligned
    <2> QED  BY <2>4, <2>6, <2>7
  <1> QED  BY <1>2, <1>5, <1>6

\* What is in the stream, and what was read, agree with what the peer has sent.
Linked ==
    /\ Framed /\ Len(sent) <= MaxSent
    /\ Tracks(sent, Stream) /\ Aligned(sent, Stream, Channel!Read)

LEMMA LinkedTypes ==
    ASSUME Linked
    PROVE  /\ sent \in Logs /\ Len(sent) \in Nat /\ Len(sent) <= 255 /\ Stream \in Seq(Symbol)
           /\ delivered \in Seq([seq : Nat, type : Nat]) /\ Channel!Read \in 0 .. Len(sent)
  <1>1. sent \in Logs /\ Stream \in Seq(Symbol) /\ delivered \in Seq([seq : Nat, type : Nat])
    BY DEF Linked, Framed, TypeOK, Logs, Stream
  <1>2. Len(sent) \in Nat
    BY <1>1, EndFacts
  <1>3. Len(sent) <= 255
    BY <1>2, FramingAssumption DEF Linked
  <1> QED  BY <1>1, <1>2, <1>3 DEF Linked, Aligned

LEMMA LinkedInit == Init => Linked /\ Channel!Init
  <1> SUFFICES ASSUME Init PROVE Linked /\ Channel!Init
    OBVIOUS
  <1>1. Framed /\ sent = << >> /\ delivered = << >> /\ Stream = << >>
    BY FramedInit DEF Init, Stream
  <1>2. MaxSent \in Nat
    BY FramingAssumption
  <1>3. Channel!Read = 0
    BY <1>1 DEF Channel!Read
  <1>4. Len(sent) = 0 /\ Len(Stream) = 0 /\ End(sent, 0) = 0
    BY <1>1 DEF End
  <1>5. Tracks(sent, Stream)
    BY <1>4 DEF Tracks
  <1>6. Aligned(sent, Stream, 0)
    BY <1>4 DEF Aligned, EndIn
  <1>7. Channel!Init
    BY <1>1 DEF Channel!Init
  <1> QED  BY <1>1, <1>2, <1>3, <1>4, <1>5, <1>6, <1>7 DEF Linked

\* A message that follows the one that was read last is delivered as the channel delivers.
LEMMA DeliverFollows ==
    ASSUME Linked, UNCHANGED sent, NEW p, Deliver(p), NEW k \in 1 .. Len(sent),
           Follows(sent, Channel!Read, k), p.msg = [seq |-> k, type |-> sent[k].type]
    PROVE  Channel!Deliver /\ Channel!Read' = k
  <1> DEFINE log == [j \in DOMAIN sent |-> [type |-> sent[j].type, harm |-> sent[j].harm]]
  <1>1. /\ sent \in Logs /\ Len(sent) \in Nat /\ delivered \in Seq([seq : Nat, type : Nat])
        /\ Channel!Read \in 0 .. Len(sent)
    BY LinkedTypes
  <1>2. Len(log) = Len(sent) /\ DOMAIN sent = 1 .. Len(sent)
        /\ \A j \in 1 .. Len(sent) : log[j].type = sent[j].type /\ log[j].harm = sent[j].harm
    BY <1>1 DEF Logs
  <1>3. /\ delivered' = Append(delivered, p.msg) /\ p.msg \in [seq : Nat, type : Nat]
    <2>1. sent[k].type \in Types
      <3> DEFINE R == [type : Types, harm : Harms, end : Nat]
      <3>1. sent \in Seq(R)
        BY <1>1 DEF Logs
      <3> HIDE DEF R
      <3>2. sent[k] \in R
        BY <3>1
      <3> QED  BY <3>2 DEF R
    <2>2. sent[k].type \in Nat
      BY <2>1, TypesNumbers, Zenon
    <2>3. k \in Nat
      OBVIOUS
    <2>4. k \in Nat /\ sent[k].type \in Nat
      BY <2>2, <2>3, Zenon
    <2> QED  BY <2>4 DEF Deliver
  <1>4. Channel!Read' = k
    <2>1. delivered' # << >> /\ delivered'[Len(delivered')] = p.msg
      BY <1>1, <1>3
    <2> QED  BY <2>1 DEF Channel!Read
  <1>5. /\ k \in Channel!Read + 1 .. Len(log)
        /\ k > Channel!Read + 1 => \E j \in {Channel!Read, Channel!Read + 1} \ {0} : log[j].harm # "none"
        /\ delivered' = Append(delivered, [seq |-> k, type |-> log[k].type])
    <2> HIDE DEF log
    <2>1. k \in Channel!Read + 1 .. Len(log)
      BY <1>2 DEF Follows
    <2>2. delivered' = Append(delivered, [seq |-> k, type |-> log[k].type])
      BY <1>2, <1>3
    <2>3. ASSUME k > Channel!Read + 1
          PROVE  \E j \in {Channel!Read, Channel!Read + 1} \ {0} : log[j].harm # "none"
      <3> DEFINE r == Channel!Read
      <3>1. PICK j \in {r, r + 1} \ {0} : sent[j].harm # "none"
        BY <2>3 DEF Follows
      <3>2. r \in Nat /\ k > r + 1 /\ k <= Len(sent)
        BY <1>1, <2>3
      <3> HIDE DEF r
      <3>3. j \in 1 .. Len(sent)
        BY <1>1, <3>1, <3>2
      <3>4. log[j].harm # "none"
        BY <1>2, <3>1, <3>3
      <3> QED  BY <3>1, <3>4 DEF r
    <2> QED  BY <2>1, <2>2, <2>3
  <1>6. UNCHANGED log
    OBVIOUS
  <1>7. Channel!Deliver
    BY <1>5, <1>6 DEF Channel!Deliver
  <1> QED  BY <1>4, <1>7

\* What is in the buffer is what has come of the stream.
LEMMA ReadFacts ==
    ASSUME TypeOK
    PROVE  /\ Prefix(rx.unread, Stream) /\ Stream \in Seq(Symbol)
           /\ Len(Stream) - Len(rx.unread) = Len(wire)
  <1>1. rx.unread \in Seq(Symbol) /\ wire \in Seq(Symbol)
    BY DEF TypeOK
  <1>2. /\ Len(rx.unread \o wire) = Len(rx.unread) + Len(wire) /\ Len(rx.unread) \in Nat /\ Len(wire) \in Nat
        /\ \A i \in 1 .. Len(rx.unread) : (rx.unread \o wire)[i] = rx.unread[i]
    BY <1>1
  <1>3. Stream = rx.unread \o wire /\ Stream \in Seq(Symbol)
    BY <1>1 DEF Stream
  <1>4. Len(rx.unread) <= Len(Stream) /\ \A i \in 1 .. Len(rx.unread) : rx.unread[i] = Stream[i]
    BY <1>2, <1>3
  <1>5. Len(Stream) = Len(rx.unread) + Len(wire)
    BY <1>2, <1>3
  <1>6. Len(Stream) - Len(rx.unread) = Len(wire)
    BY <1>2, <1>5, Z3
  <1> QED  BY <1>1, <1>3, <1>4, <1>6 DEF Prefix

LEMMA BufferedSteps ==
    ASSUME TypeOK, RecvBuffered
    PROVE  /\ Suffix(Stream', Stream) /\ Len(Stream') = Len(Stream) - (Parse(rx.unread).at - 1)
           /\ Parse(rx.unread).state = "found" /\ Deliver(Parse(rx.unread))
           /\ UNCHANGED <<sent, wire, split>>
  <1> DEFINE u == rx.unread
             p == Parse(u)
  <1>1. /\ rx.start \in Nat /\ u \in Seq(Symbol) /\ rx.start + Len(u) <= Capacity /\ wire \in Seq(Symbol)
    BY DEF TypeOK
  <1>2. p.state = "found" /\ Deliver(p) /\ rx' = Parsed(rx, p) /\ UNCHANGED <<sent, wire, split>>
    BY DEF RecvBuffered
  <1>3. Suffix(rx'.unread, u) /\ Len(rx'.unread) = Len(u) + 1 - p.at /\ p.at \in 1 .. Len(u) + 1
    BY <1>1, <1>2, ParsedFacts
  <1> HIDE DEF p
  <1>4. Suffix(Stream', Stream)
    BY <1>1, <1>2, <1>3, SuffixAppend DEF Stream
  <1>5. Len(Stream') = Len(Stream) - (p.at - 1)
    <2>1. \A x, y \in Seq(Symbol) : Len(x \o y) = Len(x) + Len(y)
      OBVIOUS
    <2>2. rx'.unread \in Seq(Symbol) /\ Stream' = rx'.unread \o wire /\ Stream = u \o wire
      BY <1>2, <1>3 DEF Suffix, Stream
    <2>3. Len(Stream') = Len(rx'.unread) + Len(wire) /\ Len(Stream) = Len(u) + Len(wire)
      BY <1>1, <2>1, <2>2, Zenon
    <2>4. Len(u) \in Nat /\ Len(wire) \in Nat /\ p.at \in Nat
      BY <1>1, <1>3
    <2> HIDE DEF u
    <2> QED  BY <1>3, <2>3, <2>4, Z3
  <1> QED  BY <1>2, <1>4, <1>5 DEF p

LEMMA LinkedRecvBuffered ==
    ASSUME Linked, RecvBuffered
    PROVE  Linked' /\ Channel!Deliver
  <1> DEFINE u == rx.unread
             p == Parse(u)
  <1>1. /\ Suffix(Stream', Stream) /\ Len(Stream') = Len(Stream) - (p.at - 1)
        /\ p.state = "found" /\ Deliver(p) /\ UNCHANGED <<sent, wire>>
    BY BufferedSteps DEF Linked, Framed
  <1>2. Prefix(u, Stream)
    BY ReadFacts DEF Linked, Framed
  <1>3. sent \in Logs /\ Len(sent) <= 255 /\ Stream \in Seq(Symbol)
    BY LinkedTypes
  <1>4. /\ Tracks(sent, Stream')
        /\ \E k \in 1 .. Len(sent) : /\ Follows(sent, Channel!Read, k) /\ Aligned(sent, Stream', k)
                                     /\ p.msg = [seq |-> k, type |-> sent[k].type]
    BY <1>1, <1>2, <1>3, AlignedParse DEF Linked
  <1> HIDE DEF p
  <1>5. PICK k \in 1 .. Len(sent) : /\ Follows(sent, Channel!Read, k) /\ Aligned(sent, Stream', k)
                                    /\ p.msg = [seq |-> k, type |-> sent[k].type]
    BY <1>4
  <1>6. Channel!Deliver /\ Channel!Read' = k
    BY <1>1, <1>5, DeliverFollows
  <1>7. Framed'
    BY FramedRecvBuffered DEF Linked
  <1> QED  BY <1>1, <1>4, <1>5, <1>6, <1>7 DEF Linked

LEMMA LinkedRecvArrived ==
    ASSUME Linked, RecvArrived
    PROVE  Linked' /\ (Channel!Deliver \/ UNCHANGED <<sent, delivered>>)
  <1>1. PICK s \in Seq(Symbol), u \in Seq(Symbol) :
           /\ Suffix(s, Stream) /\ Len(s) = Len(Stream) - (Parse(rx.unread).at - 1)
           /\ Prefix(u, s)
           /\ Suffix(Stream', s) /\ Len(Stream') = Len(s) - (Parse(u).at - 1)
           /\ \/ Parse(u).state = "found" /\ Deliver(Parse(u))
              \/ Parse(u).state = "partial" /\ UNCHANGED delivered
    BY ArrivedSteps DEF Linked
  <1>2. sent \in Logs /\ Len(sent) <= 255 /\ Stream \in Seq(Symbol) /\ Parse(rx.unread).state = "partial" /\ UNCHANGED sent
    BY LinkedTypes DEF RecvArrived
  <1>3. Prefix(rx.unread, Stream)
    BY ReadFacts DEF Linked, Framed
  <1>4. Tracks(sent, s) /\ Aligned(sent, s, Channel!Read)
    BY <1>1, <1>2, <1>3, AlignedParse DEF Linked
  <1>5. /\ Tracks(sent, Stream')
        /\ Parse(u).state = "partial" => Aligned(sent, Stream', Channel!Read)
        /\ Parse(u).state = "found" =>
              \E k \in 1 .. Len(sent) : /\ Follows(sent, Channel!Read, k) /\ Aligned(sent, Stream', k)
                                        /\ Parse(u).msg = [seq |-> k, type |-> sent[k].type]
    BY <1>1, <1>2, <1>4, AlignedParse
  <1>6. Framed'
    BY FramedRecvArrived DEF Linked
  <1>7. CASE Parse(u).state = "found" /\ Deliver(Parse(u))
    <2>1. PICK k \in 1 .. Len(sent) : /\ Follows(sent, Channel!Read, k) /\ Aligned(sent, Stream', k)
                                      /\ Parse(u).msg = [seq |-> k, type |-> sent[k].type]
      BY <1>5, <1>7
    <2>2. Channel!Deliver /\ Channel!Read' = k
      BY <1>2, <1>7, <2>1, DeliverFollows
    <2> QED  BY <1>2, <1>5, <1>6, <2>1, <2>2 DEF Linked
  <1>8. CASE Parse(u).state = "partial" /\ UNCHANGED delivered
    <2>1. Channel!Read' = Channel!Read
      BY <1>8 DEF Channel!Read
    <2> QED  BY <1>2, <1>5, <1>6, <1>8, <2>1 DEF Linked
  <1> QED  BY <1>1, <1>7, <1>8

LEMMA ConcatSymbols == \A x, y, z \in Seq(Symbol) : (x \o y) \o z = x \o (y \o z)
  BY ConcatAssociative

\* One more message, of 10 symbols or more, follows what is in the stream.
Extended ==
    /\ Len(sent') = Len(sent) + 1 /\ \A j \in 1 .. Len(sent) : sent'[j] = sent[j]
    /\ Len(Stream') >= Len(Stream) + 10
    /\ \A k \in 0 .. Len(sent) : EndIn(sent', Stream', k) = EndIn(sent, Stream, k)
    /\ UNCHANGED <<rx, delivered, split>>

\* The peer puts v on the stream: what arrives of the message it sends.
LEMMA LinkedPuts ==
    ASSUME Linked, Framed', Len(sent) < MaxSent, NEW type \in Types, NEW harm \in Harms,
           NEW v \in Seq(Symbol), Len(v) >= 10, Puts(v, type, harm),
           Copy(v, Len(sent) + 1, [type |-> type, harm |-> harm, end |-> End(sent, Len(sent)) + Len(v)])
    PROVE  Linked' /\ Channel!Send /\ Extended
  <1> DEFINE r == [type |-> type, harm |-> harm, end |-> End(sent, Len(sent)) + Len(v)]
             n == Len(sent)
             read == Channel!Read
  <1>1. /\ sent \in Logs /\ n \in Nat /\ Stream \in Seq(Symbol) /\ read \in 0 .. n
    BY LinkedTypes
  <1>2. End(sent, n) \in Nat /\ Len(v) \in Nat /\ n \in 0 .. n
    BY <1>1, EndFacts
  <1>3. /\ wire' = wire \o v /\ UNCHANGED <<rx, delivered>> /\ sent' = Append(sent, r)
    BY DEF Puts, EndOf, End
  <1>4. Stream' = Stream \o v
    <2>1. \A x, y, z \in Seq(Symbol) : (x \o y) \o z = x \o (y \o z)
      BY ConcatSymbols, Zenon
    <2>2. Stream' = rx.unread \o (wire \o v)
      BY <1>3 DEF Stream
    <2>3. rx.unread \in Seq(Symbol) /\ wire \in Seq(Symbol)
      BY DEF Linked, Framed, TypeOK
    <2> QED  BY <2>1, <2>2, <2>3, Zenon DEF Stream
  <1>5. r \in [type : Types, harm : Harms, end : Nat] /\ r.end = End(sent, n) + Len(v)
    BY <1>2
  <1>6. Copy(v, n + 1, r)
    OBVIOUS
  <1>7. /\ sent' \in Logs /\ Len(sent') = n + 1 /\ \A j \in 1 .. n : sent'[j] = sent[j]
    BY <1>1, <1>3, <1>5 DEF Logs
  <1> HIDE DEF r
  <1>8. /\ Tracks(Append(sent, r), Stream \o v)
        /\ \A k \in 0 .. n : EndIn(Append(sent, r), Stream \o v, k) = EndIn(sent, Stream, k)
    BY <1>1, <1>5, <1>6, TracksAppend DEF Linked
  <1>9. /\ Tracks(sent', Stream')
        /\ \A k \in 0 .. n : EndIn(sent', Stream', k) = EndIn(sent, Stream, k)
    BY <1>3, <1>4, <1>8, Zenon
  <1>10. Channel!Read' = read
    BY <1>3 DEF Channel!Read
  <1>11. Aligned(sent', Stream', read)
    <2>1. Aligned(sent, Stream, read)
      BY DEF Linked
    <2>2. EndIn(sent', Stream', read) = EndIn(sent, Stream, read)
      BY <1>1, <1>9
    <2> HIDE DEF read, n
    <2>3. Sound(sent', read) => Sound(sent, read)
      <3>1. \A j \in 1 .. n : j \in 1 .. Len(sent') /\ sent'[j] = sent[j]
        BY <1>1, <1>7
      <3> QED  BY <3>1 DEF Sound, n
    <2> QED  BY <1>1, <1>7, <2>1, <2>2, <2>3 DEF Aligned, n
  <1>12. Len(sent') <= MaxSent
    <2>1. Len(sent') = Len(sent) + 1 /\ Len(sent) \in Nat /\ MaxSent \in Nat
      BY <1>1, <1>7, FramingAssumption
    <2> QED  BY <2>1, Z3
  <1>13. Channel!Send
    <2> DEFINE old == [j \in DOMAIN sent |-> [type |-> sent[j].type, harm |-> sent[j].harm]]
               new == [j \in DOMAIN sent' |-> [type |-> sent'[j].type, harm |-> sent'[j].harm]]
               w == [type |-> type, harm |-> harm]
               R == [type : Types, harm : Harms]
    <2>1. DOMAIN sent = 1 .. n /\ DOMAIN sent' = 1 .. n + 1 /\ sent'[n + 1] = r
      BY <1>1, <1>3, <1>7 DEF Logs
    <2>2. ASSUME NEW j \in 1 .. n + 1 PROVE sent'[j].type \in Types /\ sent'[j].harm \in Harms
      <3> DEFINE Q == [type : Types, harm : Harms, end : Nat]
      <3>1. sent' \in Seq(Q)
        BY <1>7 DEF Logs
      <3> HIDE DEF Q
      <3>2. sent'[j] \in Q
        BY <1>7, <3>1
      <3> QED  BY <3>2 DEF Q
    <2>3. ASSUME NEW j \in 1 .. n PROVE old[j] = new[j] /\ old[j] \in R
      <3>1. j \in 1 .. n + 1 /\ sent'[j] = sent[j]
        BY <1>1, <1>7
      <3>2. new[j] = [type |-> sent'[j].type, harm |-> sent'[j].harm]
        BY <2>1, <3>1
      <3>3. old[j] = [type |-> sent[j].type, harm |-> sent[j].harm]
        BY <2>1
      <3> QED  BY <2>2, <3>1, <3>2, <3>3
    <2>4. new[n + 1] = w /\ w \in R
      <3>1. n + 1 \in DOMAIN sent' /\ r.type = type /\ r.harm = harm
        BY <1>1, <2>1 DEF r
      <3> QED  BY <2>1, <3>1
    <2>5. DOMAIN old = 1 .. n /\ DOMAIN new = 1 .. n + 1 /\ old = [j \in 1 .. n |-> old[j]] /\ new = [j \in 1 .. n + 1 |-> new[j]]
      BY <2>1
    <2> HIDE DEF old, new, w, R, n
    <2>6. old \in Seq(R) /\ Len(old) = n
      <3>1. old \in [1 .. n -> R]
        BY <2>3, <2>5
      <3> QED  BY <1>1, <3>1
    <2>7. Append(old, w) \in Seq(R) /\ Len(Append(old, w)) = n + 1
          /\ (\A j \in 1 .. n : Append(old, w)[j] = old[j]) /\ Append(old, w)[n + 1] = w
      BY <2>4, <2>6, <1>1
    <2>8. new \in Seq(R) /\ Len(new) = n + 1
      <3>1. \A j \in 1 .. n + 1 : new[j] \in R
        <4>1. \A j \in 1 .. n + 1 : j \in 1 .. n \/ j = n + 1
          BY <1>1
        <4> QED  BY <2>3, <2>4, <4>1
      <3>2. new \in [1 .. n + 1 -> R] /\ n + 1 \in Nat
        BY <1>1, <2>5, <3>1
      <3> QED  BY <3>2
    <2>9. new = Append(old, w)
      <3>1. \A j \in 1 .. n + 1 : new[j] = Append(old, w)[j]
        <4>1. \A j \in 1 .. n + 1 : j \in 1 .. n \/ j = n + 1
          BY <1>1
        <4> QED  BY <2>3, <2>4, <2>7, <4>1
      <3> QED  BY <2>7, <2>8, <3>1, SeqEqual
    <2> QED  BY <1>3, <2>9 DEF Channel!Send, old, new, w
  <1>14. Len(Stream') >= Len(Stream) + 10
    <2>1. \A x, y \in Seq(Symbol) : Len(x \o y) = Len(x) + Len(y)
      OBVIOUS
    <2>2. Len(Stream') = Len(Stream) + Len(v)
      BY <1>1, <1>4, <2>1, Zenon
    <2>3. Len(Stream) \in Nat
      BY <1>1
    <2> QED  BY <1>2, <2>2, <2>3, Z3
  <1>15. Extended
    BY <1>7, <1>9, <1>14 DEF Extended, Puts
  <1> QED  BY <1>9, <1>10, <1>11, <1>12, <1>13, <1>15 DEF Linked

LEMMA LinkedPeer ==
    ASSUME Linked, NEW kind \in Kinds, PeerSends(kind) \/ Garble(kind)
    PROVE  Linked' /\ Channel!Send /\ Extended
  <1> DEFINE k == Len(sent) + 1
             m == Message(kind, k)
             n == Len(m)
             type == kind.type
             R(v, harm) == [type |-> type, harm |-> harm, end |-> End(sent, Len(sent)) + Len(v)]
  <1>1. /\ Framed' /\ k \in Nat /\ type \in Types
    BY FramedPeer, LinkedTypes DEF Linked, Types
  <1>2. /\ m \in Seq(Symbol) /\ n \in Nat /\ n >= 10 /\ Written(m, type, k)
    BY <1>1, MessageLength, MessageWritten
  <1>3. Len(sent) < MaxSent
    BY DEF PeerSends, Garble
  <1>4. ASSUME NEW v \in Seq(Symbol), Len(v) >= 10, NEW harm \in Harms, Puts(v, type, harm), Copy(v, k, R(v, harm))
        PROVE  Linked' /\ Channel!Send /\ Extended
    BY <1>1, <1>3, <1>4, LinkedPuts
  <1>5. \A v, harm : R(v, harm).type = type /\ R(v, harm).harm = harm
    OBVIOUS
  <1> HIDE DEF R, type
  <1>6. ASSUME NEW v, NEW d \in Nat, Altered(m, v, d), NEW harm,
               harm = "none" => v = m /\ type \in KnownTypes,
               harm # "joined" => v[n - 1].half = "tag" /\ v[n].half = "value",
               harm # "length" /\ v[4].half = "value" => v[4] = m[4]
        PROVE  Copy(v, k, R(v, harm))
    <2>1. Len(v) = n
      BY <1>6 DEF Altered
    <2>2. kind.type = R(v, harm).type
      BY <1>5 DEF type
    <2> HIDE DEF k
    <2> QED  BY <1>5, <1>6, <2>1, <2>2 DEF Copy
  <1>7. m[n - 1].half = "tag" /\ m[n].half = "value" /\ m[4].half = "value"
    BY <1>2, SMTT(30) DEF Written, TagOf, ValueOf
  <1> HIDE DEF m
  <1>8. CASE PeerSends(kind)
    <2> DEFINE harm == IF type \in KnownTypes THEN "none" ELSE "unknown"
    <2>1. Puts(m, type, harm)
      BY <1>8 DEF PeerSends, m, k, type
    <2>2. harm \in Harms /\ harm # "joined" /\ (harm = "none" => type \in KnownTypes)
      BY DEF Harms
    <2>3. Altered(m, m, 0)
      BY <1>2 DEF Altered
    <2> HIDE DEF harm
    <2>4. Copy(m, k, R(m, harm))
      BY <1>6, <1>7, <2>2, <2>3
    <2> QED  BY <1>2, <1>4, <2>1, <2>2, <2>4
  <1>9. ASSUME NEW i \in 1 .. n, Puts([m EXCEPT ![i].half = "junk"], type, IF i >= n - 1 THEN "joined" ELSE "damaged")
        PROVE  Linked' /\ Channel!Send /\ Extended
    <2> DEFINE v == [m EXCEPT ![i].half = "junk"]
               harm == IF i >= n - 1 THEN "joined" ELSE "damaged"
    <2>1. m[i] \in Symbol /\ m[i].half # "junk"
      <3>1. Alternates(Message(kind, k))
        BY <1>1, MessageFacts
      <3> QED  BY <1>2, <3>1 DEF Alternates, Turn, m, n
    <2>2. v[i] = [m[i] EXCEPT !.half = "junk"] /\ v[i] \in Symbol /\ v[i].half = "junk"
      BY <1>2, <2>1 DEF Symbol, n
    <2>3. v \in Seq(Symbol) /\ Len(v) = n /\ \A j \in 1 .. n : j # i => v[j] = m[j]
      BY <1>2, <2>2 DEF n
    <2>4. harm \in Harms /\ harm # "none" /\ (harm # "joined" => ~(i >= n - 1))
      BY DEF Harms
    <2>5. Puts(v, type, harm)
      BY <1>9
    <2> HIDE DEF v, harm
    <2>6. Altered(m, v, i)
      BY <1>2, <2>1, <2>2, <2>3 DEF Altered, Changed, n
    <2>7. n - 1 \in 1 .. n /\ n \in 1 .. n /\ 4 \in 1 .. n /\ i \in Nat /\ n - 1 >= n - 1 /\ n >= n - 1
      BY <1>2
    <2>8. harm # "joined" => v[n - 1] = m[n - 1] /\ v[n] = m[n]
      BY <2>3, <2>4, <2>7
    <2>9. v[4].half = "value" => v[4] = m[4]
      BY <2>2, <2>3, <2>7
    <2>10. Copy(v, k, R(v, harm))
      BY <1>6, <1>7, <2>4, <2>6, <2>7, <2>8, <2>9
    <2> QED  BY <1>2, <1>4, <2>3, <2>4, <2>5, <2>10
  <1>10. ASSUME NEW i \in 1 .. n, NEW x \in Changes \ {m[i].is},
                Puts([m EXCEPT ![i].is = x], type, IF i = 4 THEN "length" ELSE "damaged")
         PROVE  Linked' /\ Channel!Send /\ Extended
    <2> DEFINE v == [m EXCEPT ![i].is = x]
               harm == IF i = 4 THEN "length" ELSE "damaged"
    <2>1. m[i] \in Symbol /\ x \in Nat
      <3>1. Changes \subseteq 0 .. 255
        BY FramingAssumption, Zenon
      <3> QED  BY <1>2, <3>1 DEF n
    <2>2. v[i] = [m[i] EXCEPT !.is = x] /\ v[i] \in Symbol /\ v[i].half = m[i].half
      BY <1>2, <2>1, SMTT(30) DEF Symbol, n
    <2>3. v \in Seq(Symbol) /\ Len(v) = n /\ \A j \in 1 .. n : j # i => v[j] = m[j]
      BY <1>2, <2>2 DEF n
    <2>4. harm \in Harms /\ harm # "none" /\ harm # "joined" /\ (harm # "length" => i # 4)
      BY DEF Harms
    <2>5. Puts(v, type, harm)
      BY <1>10
    <2> HIDE DEF v, harm
    <2>6. Altered(m, v, i)
      BY <1>2, <1>10, <2>1, <2>2, <2>3 DEF Altered, Changed, n
    <2>7. n - 1 \in 1 .. n /\ n \in 1 .. n /\ 4 \in 1 .. n /\ i \in Nat
      BY <1>2
    <2>8. v[n - 1].half = "tag" /\ v[n].half = "value"
      <3>1. \A j \in 1 .. n : v[j].half = m[j].half
        BY <2>2, <2>3
      <3> QED  BY <1>7, <2>7, <3>1
    <2>9. harm # "length" => v[4] = m[4]
      BY <2>3, <2>4, <2>7
    <2>10. Copy(v, k, R(v, harm))
      BY <1>6, <2>4, <2>6, <2>7, <2>8, <2>9
    <2> QED  BY <1>2, <1>4, <2>3, <2>4, <2>5, <2>10
  <1>11. CASE Garble(kind)
    <2>1. DOMAIN m = 1 .. n
      BY <1>2
    <2>2. PICK i \in DOMAIN m :
             \/ Puts([m EXCEPT ![i].half = "junk"], type, IF i >= n - 1 THEN "joined" ELSE "damaged")
             \/ \E x \in Changes \ {m[i].is} :
                   Puts([m EXCEPT ![i].is = x], type, IF i = 4 THEN "length" ELSE "damaged")
      BY <1>11 DEF Garble, m, n, k, type
    <2> QED  BY <1>9, <1>10, <2>1, <2>2
  <1> QED  BY <1>8, <1>11

\* The stream and what was read of it always agree with what the peer has sent: what
\* a damaged message leaves in the buffer is never taken for another, and a sound
\* message that follows a sound one is never passed over.
LEMMA LinkedInvariant == Spec => []Linked
  <1>1. Linked /\ [Next]_vars => Linked'
    <2> SUFFICES ASSUME Linked, [Next]_vars PROVE Linked'
      OBVIOUS
    <2>1. CASE RecvBuffered
      BY <2>1, LinkedRecvBuffered
    <2>2. CASE RecvArrived
      BY <2>2, LinkedRecvArrived
    <2>3. ASSUME NEW kind \in Kinds, PeerSends(kind) \/ Garble(kind) PROVE Linked'
      BY <2>3, LinkedPeer
    <2>4. CASE UNCHANGED vars
      BY <2>4 DEF vars, Linked, Framed, TypeOK, Stream, Dense, Closing, Channel!Read
    <2> QED  BY <2>1, <2>2, <2>3, <2>4 DEF Next, Ended
  <1> QED  BY <1>1, LinkedInit, PTL DEF Spec

\* The buffer and the parser are the channel that FIXSession counts on: messages are delivered
\* in the order they were sent, each at most once and as it was sent, and a message is missing
\* only after a damaged one.
THEOREM ImplementsChannel == Spec => ChannelSpec
  <1>1. Init => Channel!Init
    BY LinkedInit
  <1>2. Linked /\ [Next]_vars => [Channel!Next]_<<[k \in DOMAIN sent |-> [type |-> sent[k].type, harm |-> sent[k].harm]], delivered>>
    <2> DEFINE log == [k \in DOMAIN sent |-> [type |-> sent[k].type, harm |-> sent[k].harm]]
    <2> SUFFICES ASSUME Linked, [Next]_vars PROVE Channel!Next \/ UNCHANGED <<log, delivered>>
      OBVIOUS
    <2>1. CASE RecvBuffered
      BY <2>1, LinkedRecvBuffered DEF Channel!Next
    <2>2. CASE RecvArrived
      BY <2>2, LinkedRecvArrived DEF Channel!Next
    <2>3. ASSUME NEW kind \in Kinds, PeerSends(kind) \/ Garble(kind) PROVE Channel!Next
      BY <2>3, LinkedPeer DEF Channel!Next
    <2>4. CASE UNCHANGED vars
      BY <2>4 DEF vars
    <2> QED  BY <2>1, <2>2, <2>3, <2>4 DEF Next, Ended
  <1> QED  BY <1>1, <1>2, LinkedInvariant, PTL DEF Spec, ChannelSpec, Channel!Spec
-----------------------------------------------------------------------------
(* Nothing is held back.                                                   *)

\* Position a of s is the last one of a field.
FieldEnds(s, a) == a \in 2 .. Len(s) /\ s[a - 1].half = "tag" /\ s[a].half = "value"

\* Position n of u is not beyond what follows position a, and not at a, if that has come.
Near(u, a, n) == n <= a + 1 /\ (n = a => Len(u) = a - 1)

\* From before the end of a field, the parser goes on no further than there.
LEMMA NextTagNear ==
    ASSUME NEW s \in Seq(Symbol), NEW u, Prefix(u, s), NEW a, FieldEnds(s, a),
           NEW d \in 1 .. Len(u), d < a
    PROVE  Near(u, a, NextTag(u, d))
  <1>1. /\ u \in Seq(Symbol) /\ Len(u) \in Nat /\ Len(s) \in Nat /\ a \in 2 .. Len(s) /\ a \in Nat
        /\ s[a - 1].half = "tag" /\ s[a].half = "value" /\ d \in Nat \ {0}
    BY DEF FieldEnds, Prefix
  <1> DEFINE end == Find(u, "value", d)
  <1>2. First(u, "value", d, end)
    BY <1>1, FindFacts
  <1>3. NextTag(u, d) = IF end = 0 THEN Len(u) + 1 ELSE end + 1
    BY DEF NextTag
  <1> HIDE DEF end
  <1>4. /\ a <= Len(u) => u[a].half = "value"
        /\ a - 1 <= Len(u) => u[a - 1].half # "value"
    <2>1. a <= Len(u) => u[a] = s[a]
      BY <1>1 DEF Prefix
    <2>2. a - 1 <= Len(u) => u[a - 1] = s[a - 1]
      BY <1>1 DEF Prefix
    <2> QED  BY <1>1, <2>1, <2>2
  <1>5. CASE end = 0
    <2>1. ~(a <= Len(u))
      BY <1>1, <1>2, <1>4, <1>5 DEF First
    <2> QED  BY <1>1, <1>3, <1>5, <2>1 DEF Near
  <1>6. CASE end # 0
    <2>1. end \in d .. Len(u) /\ u[end].half = "value" /\ \A i \in d .. end - 1 : u[i].half # "value"
      BY <1>2, <1>6 DEF First
    <2>2. end <= a
      BY <1>1, <1>4, <2>1
    <2>3. end # a - 1
      BY <1>1, <1>4, <2>1
    <2> QED  BY <1>1, <1>3, <1>6, <2>1, <2>2, <2>3 DEF Near
  <1> QED  BY <1>5, <1>6

LEMMA PassesNear ==
    ASSUME NEW s \in Seq(Symbol), NEW u, Prefix(u, s), NEW a, FieldEnds(s, a),
           NEW x \in Nat \ {0}, x < a, NEW at, Passes(u, x, at)
    PROVE  Near(u, a, at)
  <1>1. /\ u \in Seq(Symbol) /\ Len(u) \in Nat /\ Len(s) \in Nat /\ a \in 2 .. Len(s)
        /\ s[a - 1].half = "tag"
    BY DEF FieldEnds, Prefix
  <1>2. PICK d \in x .. Len(u) : /\ \A i \in x .. d - 1 : u[i].half # "tag"
                                 /\ at = NextTag(u, d)
    BY DEF Passes
  <1>3. d < a
    <2> SUFFICES ASSUME d >= a PROVE FALSE
      BY <1>1, <1>2
    <2>1. a - 1 \in 1 .. Len(u) /\ a - 1 \in x .. d - 1
      BY <1>1, <1>2
    <2>2. u[a - 1] = s[a - 1]
      BY <2>1 DEF Prefix
    <2> QED  BY <1>1, <1>2, <2>1, <2>2
  <1>4. d \in 1 .. Len(u)
    BY <1>1, <1>2
  <1> QED  BY <1>2, <1>3, <1>4, NextTagNear

\* The parser does not wait for a field before the end of one that has come.
LEMMA FieldIsThere ==
    ASSUME NEW s \in Seq(Symbol), NEW a, FieldEnds(s, a), NEW x \in Nat \ {0}, x < a
    PROVE  ~Starved(s, x)
  <1>1. a \in x .. Len(s) /\ a - 1 \in x .. Len(s) /\ s[a - 1].half = "tag" /\ s[a].half = "value"
    BY DEF FieldEnds
  <1> QED  BY <1>1 DEF Starved, Lacks

\* Where a message is in the stream.
LEMMA HoldsEnd ==
    ASSUME NEW log \in Logs, NEW s \in Seq(Symbol), NEW k \in 1 .. Len(log), NEW v, Holds(log, s, k, v)
    PROVE  /\ k \in Nat /\ k - 1 \in 0 .. Len(log) /\ v \in Seq(Symbol) /\ Len(v) \in Nat /\ Len(v) >= 10
           /\ Headed(v) /\ Copy(v, k, log[k])
           /\ EndIn(log, s, k - 1) \in Int /\ EndIn(log, s, k) = EndIn(log, s, k - 1) + Len(v)
           /\ \A i \in 1 .. Len(v) : EndIn(log, s, k - 1) + i >= 1 => s[EndIn(log, s, k - 1) + i] = v[i]
  <1>1. /\ Len(log) \in Nat /\ Len(s) \in Nat
        /\ \A j \in 0 .. Len(log) : End(log, j) \in Nat /\ EndIn(log, s, j) \in Int
    BY EndFacts
  <1>2. k \in Nat /\ k \in 0 .. Len(log) /\ k - 1 \in 0 .. Len(log) /\ Len(log) \in 0 .. Len(log)
    BY <1>1
  <1>3. /\ Copy(v, k, log[k]) /\ End(log, k) = End(log, k - 1) + Len(v)
        /\ \A i \in 1 .. Len(v) : EndIn(log, s, k - 1) + i >= 1 => s[EndIn(log, s, k - 1) + i] = v[i]
    BY DEF Holds
  <1>4. v \in Seq(Symbol) /\ Len(v) \in Nat /\ Len(v) >= 10 /\ Headed(v)
    BY <1>2, <1>3, CopyFacts
  <1>5. End(log, k - 1) \in Nat /\ End(log, Len(log)) \in Nat /\ EndIn(log, s, k - 1) \in Int
    BY <1>1, <1>2
  <1>6. EndIn(log, s, k) = EndIn(log, s, k - 1) + Len(v)
    <2>1. /\ EndIn(log, s, k) = Len(s) + (End(log, k - 1) + Len(v)) - End(log, Len(log))
          /\ EndIn(log, s, k - 1) = Len(s) + End(log, k - 1) - End(log, Len(log))
      BY <1>3 DEF EndIn
    <2> QED  BY <1>1, <1>4, <1>5, <2>1, Z3
  <1> QED  BY <1>2, <1>3, <1>4, <1>5, <1>6

LEMMA EndsApart ==
    ASSUME NEW log \in Logs, NEW s \in Seq(Symbol), Tracks(log, s),
           NEW j \in 0 .. Len(log), NEW k \in 0 .. Len(log)
    PROVE  /\ EndIn(log, s, j) \in Int /\ EndIn(log, s, k) \in Int
           /\ j < k => EndIn(log, s, j) + 10 <= EndIn(log, s, k)
           /\ EndIn(log, s, j) < EndIn(log, s, k) => j < k
           /\ EndIn(log, s, k) <= Len(s)
  <1>1. /\ Len(log) \in Nat /\ Len(s) \in Nat /\ Len(log) \in 0 .. Len(log)
        /\ \A i \in 0 .. Len(log) : End(log, i) \in Nat /\ EndIn(log, s, i) \in Int
    <2>1. Len(log) \in Nat
      BY EndFacts
    <2> QED  BY <2>1, EndFacts
  <1>2. ASSUME NEW i \in 0 .. Len(log), NEW l \in 0 .. Len(log), i < l
        PROVE  End(log, i) + 10 <= End(log, l) /\ EndIn(log, s, i) + 10 <= EndIn(log, s, l)
    <2>1. End(log, i) + 10 <= End(log, l)
      BY <1>2 DEF Tracks
    <2>2. End(log, i) \in Nat /\ End(log, l) \in Nat /\ End(log, Len(log)) \in Nat
      BY <1>1
    <2>3. /\ EndIn(log, s, i) = Len(s) + End(log, i) - End(log, Len(log))
          /\ EndIn(log, s, l) = Len(s) + End(log, l) - End(log, Len(log))
      BY DEF EndIn
    <2>4. Len(s) \in Nat
      BY <1>1
    <2>5. EndIn(log, s, i) + 10 <= EndIn(log, s, l)
      BY <2>1, <2>2, <2>3, <2>4, Z3
    <2> QED  BY <2>1, <2>5
  <1>3. EndIn(log, s, j) \in Int /\ EndIn(log, s, k) \in Int
    BY <1>1
  <1>4. j < k => EndIn(log, s, j) + 10 <= EndIn(log, s, k)
    BY <1>2
  <1>5. ASSUME EndIn(log, s, j) < EndIn(log, s, k) PROVE j < k
    <2>1. k < j => EndIn(log, s, k) + 10 <= EndIn(log, s, j)
      BY <1>2
    <2>2. j < k \/ j = k \/ k < j
      BY <1>1
    <2> QED  BY <1>3, <1>5, <2>1, <2>2
  <1>6. EndIn(log, s, k) <= Len(s)
    <2>1. EndIn(log, s, Len(log)) = Len(s)
      BY EndFacts
    <2>2. k < Len(log) => EndIn(log, s, k) + 10 <= EndIn(log, s, Len(log))
      BY <1>1, <1>2
    <2>3. k < Len(log) \/ k = Len(log)
      BY <1>1
    <2> QED  BY <1>1, <1>3, <2>1, <2>2, <2>3
  <1> QED  BY <1>3, <1>4, <1>5, <1>6

\* A message that has kept the ends of its last field ends in one.
LEMMA MessageEnds ==
    ASSUME NEW log \in Logs, NEW s \in Seq(Symbol), Tracks(log, s), NEW k \in 1 .. Len(log),
           log[k].harm # "joined", EndIn(log, s, k) >= 2
    PROVE  FieldEnds(s, EndIn(log, s, k))
  <1>1. PICK v : Holds(log, s, k, v)
    BY DEF Tracks
  <1> DEFINE o == EndIn(log, s, k - 1)
             a == EndIn(log, s, k)
             n == Len(v)
  <1>2. /\ n \in Nat /\ n >= 10 /\ o \in Int /\ a = o + n /\ Copy(v, k, log[k])
        /\ \A i \in 1 .. n : o + i >= 1 => s[o + i] = v[i]
    BY <1>1, HoldsEnd
  <1>3. v[n - 1].half = "tag" /\ v[n].half = "value"
    BY <1>2 DEF Copy
  <1>4. a <= Len(s) /\ a >= 2 /\ Len(s) \in Nat
    <2>1. k \in 0 .. Len(log)
      OBVIOUS
    <2> QED  BY <2>1, EndsApart
  <1> HIDE DEF o, a, n
  <1>5. n - 1 \in 1 .. n /\ n \in 1 .. n /\ o + (n - 1) = a - 1 /\ o + n = a /\ a - 1 >= 1 /\ a >= 1 /\ a \in 2 .. Len(s)
    BY <1>2, <1>4
  <1>6. s[a - 1] = v[n - 1] /\ s[a] = v[n]
    BY <1>2, <1>5
  <1> QED  BY <1>3, <1>5, <1>6 DEF FieldEnds, a

\* Nothing has happened to message k, to the last field of the one before it, nor to the length
\* of one before it.
Clear(log, k) ==
    /\ k > 1 => log[k - 1].harm # "joined"
    /\ k <= Len(log) => log[k].harm = "none"
    /\ \A j \in 1 .. k : j <= Len(log) => log[j].harm # "length"

\* In an attempt at a position before message k, the parser looks for fields before it.
LEMMA LooksBefore ==
    ASSUME NEW log \in Logs, NEW s \in Seq(Symbol), Tracks(log, s), NEW u, Prefix(u, s),
           NEW k \in 1 .. Len(log) + 1, Clear(log, k), NEW a, a = EndIn(log, s, k - 1),
           NEW from \in 1 .. Len(u), from < a, NEW x, Looks(u, from, x)
    PROVE  x < a
  <1>1. /\ u \in Seq(Symbol) /\ Len(u) \in Nat /\ Len(s) \in Nat /\ Len(log) \in Nat
        /\ from \in 1 .. Len(s) /\ u[from] = s[from]
    BY EndFacts DEF Prefix
  <1>2. k \in Nat /\ k - 1 \in 0 .. Len(log)
    BY <1>1
  <1>3. a \in Int
    BY <1>2, EndsApart
  <1>4. CASE x = from
    BY <1>4
  <1>5. CASE x # from
    <2>1. u[from] = TagOf(BeginString)
      <3>1. \/ FieldAt(u, from, BeginString, x)
            \/ \E l, t : HeadAt(u, from, l, t)
        BY <1>5 DEF Looks
      <3> QED  BY <3>1 DEF HeadAt, FieldAt, TagOf
    <2>2. PICK j \in 1 .. Len(log) : EndIn(log, s, j - 1) = from - 1
      BY <1>1, <2>1, BeginWhere
    <2>3. PICK v : Holds(log, s, j, v)
      BY DEF Tracks
    <2> DEFINE o == EndIn(log, s, j - 1)
               n == Len(v)
    <2>4. /\ j \in Nat /\ j - 1 \in 0 .. Len(log) /\ j \in 0 .. Len(log) /\ n \in Nat /\ n >= 10 /\ Headed(v)
          /\ Copy(v, j, log[j]) /\ EndIn(log, s, j) = o + n
      <3>1. j \in 0 .. Len(log)
        BY <1>1
      <3> QED  BY <2>3, <3>1, HoldsEnd
    <2>5. o \in Nat /\ from = o + 1 /\ o < a
      BY <1>1, <1>3, <2>2
    <2>6. j <= k - 1
      <3>1. j - 1 < k - 1
        BY <1>2, <2>4, <2>5, EndsApart
      <3> QED  BY <1>2, <2>4, <3>1
    <2>7. o + n <= a
      <3>1. j < k - 1 => EndIn(log, s, j) + 10 <= a
        BY <1>2, <2>4, EndsApart
      <3>2. j = k - 1 \/ j < k - 1
        BY <1>2, <2>4, <2>6
      <3>3. EndIn(log, s, j) \in Int
        BY <1>2, <2>4, EndsApart
      <3>4. j = k - 1 => EndIn(log, s, j) = a
        OBVIOUS
      <3> QED  BY <1>3, <2>4, <3>1, <3>2, <3>3, <3>4
    <2>8. Fits(u, o, v)
      BY <2>3, <2>5, FitsCopy
    <2> HIDE DEF o, n
    <2>9. /\ \A l : FieldAt(u, from, BeginString, l) => l \in {o + 3, o + 5}
          /\ \A l, t : HeadAt(u, from, l, t) => l = o + 3 /\ t \in {o + 5, o + 7}
          /\ \A l, t, next : HeadAt(u, from, l, t) /\ FieldAt(u, t, MsgType, next) =>
                l = o + 3 /\ t = o + 5 /\ v[4].half = "value" /\ ValueAt(u, l) = v[4].is
      <3>1. /\ \A l : FieldAt(u, o + 1, BeginString, l) => l \in {o + 3, o + 5}
            /\ \A l, t : HeadAt(u, o + 1, l, t) => l = o + 3 /\ t \in {o + 5, o + 7}
            /\ \A l, t, next : HeadAt(u, o + 1, l, t) /\ FieldAt(u, t, MsgType, next) =>
                  l = o + 3 /\ t = o + 5 /\ v[4].half = "value" /\ ValueAt(u, l) = v[4].is
        BY <1>1, <2>4, <2>5, <2>8, HeadOf
      <3>2. from = o + 1
        BY <2>5
      <3> QED  BY <3>1, <3>2, Zenon
    <2>10. v[4].half = "value" => v[4].is = n - 6
      <3>1. PICK kind \in Kinds, d \in Nat : /\ Altered(Message(kind, j), v, d)
                                             /\ log[j].harm # "length" /\ v[4].half = "value" =>
                                                   v[4] = Message(kind, j)[4]
        BY <2>4 DEF Copy
      <3>2. Written(Message(kind, j), kind.type, j) /\ Len(v) = Len(Message(kind, j))
        BY <2>4, <3>1, MessageWritten DEF Altered
      <3>3. Message(kind, j)[4].is = n - 6
        BY <3>2 DEF Written, ValueOf, n
      <3>4. log[j].harm # "length"
        <4>1. j \in 1 .. k /\ j <= Len(log)
          BY <1>1, <1>2, <2>4, <2>6
        <4> QED  BY <4>1 DEF Clear
      <3> QED  BY <3>1, <3>3, <3>4
    <2>11. CASE FieldAt(u, from, BeginString, x)
      <3>1. x = o + 3 \/ x = o + 5
        BY <2>9, <2>11
      <3> QED  BY <1>3, <2>4, <2>5, <2>7, <3>1
    <2>12. CASE \E l : HeadAt(u, from, l, x)
      <3>1. x = o + 5 \/ x = o + 7
        BY <2>9, <2>12
      <3> QED  BY <1>3, <2>4, <2>5, <2>7, <3>1
    <2>13. CASE \E l, t, next : /\ HeadAt(u, from, l, t) /\ FieldAt(u, t, MsgType, next)
                                /\ x = t + ValueAt(u, l)
      <3>1. x = (o + 5) + (n - 6)
        BY <2>9, <2>10, <2>13
      <3> QED  BY <1>3, <2>4, <2>5, <2>7, <3>1
    <2> QED  BY <1>5, <2>11, <2>12, <2>13 DEF Looks
  <1> QED  BY <1>4, <1>5

\* The positions the parser may come to as long as message k is before it.
Before(u, a) == {n \in 1 .. Len(u) + 1 : Near(u, a, n)}

\* It does not pass over the message.
LEMMA NotPassed ==
    ASSUME NEW log \in Logs, NEW s \in Seq(Symbol), Tracks(log, s), NEW u, Prefix(u, s),
           NEW k \in 1 .. Len(log) + 1, Clear(log, k), NEW a, a = EndIn(log, s, k - 1),
           a = 0 \/ a >= 2
    PROVE  /\ StopsIn(u, Before(u, a), Parse(u))
           /\ a >= 2 => FieldEnds(s, a)
  <1>1. /\ u \in Seq(Symbol) /\ Len(u) \in Nat /\ Len(s) \in Nat /\ Len(log) \in Nat /\ Len(u) <= Len(s)
        /\ EndIn(log, s, Len(log)) = Len(s) /\ EndIn(log, s, 0) <= 0
    BY EndFacts DEF Prefix
  <1>2. k \in Nat /\ k - 1 \in 0 .. Len(log)
    BY <1>1
  <1>3. a \in Nat
    <2>1. a \in Int
      BY <1>2, EndsApart
    <2> QED  BY <2>1
  <1>4. ASSUME a >= 2 PROVE FieldEnds(s, a)
    <2>1. k > 1 /\ k - 1 \in 1 .. Len(log)
      <3>1. k # 1
        <4> SUFFICES ASSUME k = 1 PROVE FALSE
          OBVIOUS
        <4>1. k - 1 = 0
          OBVIOUS
        <4>2. a <= 0
          BY <1>1, <4>1
        <4> QED  BY <1>3, <1>4, <4>2
      <3> QED  BY <1>1, <1>2, <3>1
    <2>2. log[k - 1].harm # "joined"
      BY <2>1 DEF Clear
    <2> QED  BY <1>4, <2>1, <2>2, MessageEnds
  <1>5. ASSUME NEW n \in Before(u, a), n <= Len(u), NEW at, Attempt(u, n) = Garbled(at), Skips(u, n, at)
        PROVE  at \in Before(u, a)
    <2>1. n \in 1 .. Len(u) /\ n <= a + 1 /\ n # a /\ n \in Nat
      BY <1>1, <1>3, <1>5 DEF Before, Near
    <2>2. at \in 1 .. Len(u) + 1
      BY <1>1, <1>5, <2>1 DEF Skips
    <2>3. ASSUME n = a + 1 PROVE FALSE
      <3>1. k \in 1 .. Len(log)
        <4>1. k # Len(log) + 1
          <5> SUFFICES ASSUME k = Len(log) + 1 PROVE FALSE
            OBVIOUS
          <5>1. k - 1 = Len(log)
            BY <1>1
          <5>2. a = Len(s)
            BY <1>1, <5>1
          <5> QED  BY <1>1, <2>1, <2>3, <5>2
        <4> QED  BY <1>1, <4>1
      <3>2. PICK v : Holds(log, s, k, v)
        BY <3>1 DEF Tracks
      <3>3. log[k].harm = "none"
        BY <1>1, <3>1 DEF Clear
      <3>4. PICK kind \in Kinds : v = Message(kind, k) /\ kind.type \in KnownTypes
        <4>1. Copy(v, k, log[k])
          BY <3>2 DEF Holds
        <4> QED  BY <3>3, <4>1 DEF Copy
      <3>5. Fits(u, a, v)
        BY <1>3, <3>2, FitsCopy
      <3>6. Attempt(u, a + 1) = IF a + Len(v) <= Len(u) THEN Found(a + 5) ELSE Partial
        BY <1>1, <1>2, <1>3, <3>4, <3>5, SoundAttempt
      <3>7. Garbled(at).state = Found(a + 5).state \/ Garbled(at).state = Partial.state
        BY <1>5, <2>3, <3>6
      <3> QED  BY <3>7, StateFacts
    <2>4. n < a /\ a >= 2
      BY <1>3, <2>1, <2>3
    <2>5. FieldEnds(s, a)
      BY <1>4, <2>4
    <2>6. PICK x \in Nat \ {0} : Looks(u, n, x) /\ Passes(u, x, at)
      BY <1>5 DEF Skips
    <2>7. x < a
      BY <2>1, <2>4, <2>6, LooksBefore
    <2>8. Near(u, a, at)
      BY <2>5, <2>6, <2>7, PassesNear
    <2> QED  BY <2>2, <2>8 DEF Before
  <1>6. 1 \in Before(u, a)
    <2>1. 1 \in 1 .. Len(u) + 1 /\ 1 <= a + 1 /\ 1 # a
      BY <1>1, <1>3
    <2> QED  BY <2>1 DEF Before, Near
  <1>7. Before(u, a) \subseteq 1 .. Len(u) + 1
    BY DEF Before
  <1>8. Closed(u, Before(u, a))
    BY <1>5, <1>6, <1>7 DEF Closed
  <1> QED  BY <1>1, <1>4, <1>8, ParseStopsIn

\* What has not arrived of the stream begins inside the last field of no message but those in sp.
Cuts(log, left, sp) ==
    \A j \in 1 .. Len(log) : left = End(log, Len(log)) - End(log, j) + 1 => j \in sp

\* A message that was not read, D are those that were, can be read, if its start is not hidden: what
\* is left of the one before it is whole fields.
Awaited(log, s, sp, D) ==
    \A k \in 1 .. Len(log) + 1 :
       Clear(log, k) /\ k \notin D /\ (k - 1 \in sp => k - 1 \in D) =>
          EndIn(log, s, k - 1) = 0 \/ EndIn(log, s, k - 1) >= 2

LEMMA AwaitedParse ==
    ASSUME NEW log \in Logs, NEW s \in Seq(Symbol), Tracks(log, s), Len(log) <= 255,
           NEW u, Prefix(u, s), NEW read, Aligned(log, s, read),
           NEW t, Suffix(t, s), Len(t) = Len(s) - (Parse(u).at - 1),
           NEW sp, Cuts(log, Len(s) - Len(u), sp),
           NEW D, D \subseteq 1 .. read, Awaited(log, s, sp, D)
    PROVE  /\ Parse(u).state = "partial" => Awaited(log, t, sp, D)
           /\ \A j : Parse(u).state = "found" /\ Parse(u).msg.seq = j => Awaited(log, t, sp, D \cup {j})
  <1> DEFINE p == Parse(u)
  <1>1. /\ u \in Seq(Symbol) /\ Len(u) \in Nat /\ Len(s) \in Nat /\ Len(u) <= Len(s) /\ Len(log) \in Nat
        /\ EndIn(log, s, 0) <= 0 /\ p.at \in 1 .. Len(u) + 1 /\ Len(t) \in Nat
    <2>1. /\ u \in Seq(Symbol) /\ Len(u) \in Nat /\ Len(s) \in Nat /\ Len(u) <= Len(s) /\ Len(log) \in Nat
          /\ EndIn(log, s, 0) <= 0
      BY EndFacts DEF Prefix
    <2>2. Stops(u, p)
      BY <2>1, ParseStops
    <2>3. ASSUME NEW begin \in 1 .. Len(u) + 1, begin <= Len(u), NEW at \in begin + 2 .. Len(u),
                 Whole(u, begin, at)
          PROVE  RestOfMessage(u, at).at \in 1 .. Len(u) + 1
      <3>1. begin \in Nat \ {0}
        BY <2>1
      <3>2. RestOfMessage(u, at).at \in at + 1 .. Len(u) + 1 /\ at \in Nat
        BY <2>1, <2>3, <3>1, RestFacts
      <3> QED  BY <3>2
    <2> HIDE DEF p
    <2>4. p.at \in 1 .. Len(u) + 1
      BY <2>2, <2>3 DEF Stops, StopsIn
    <2> QED  BY <2>1, <2>4 DEF Suffix
  <1>2. /\ Len(s) - Len(t) = p.at - 1
        /\ \A k \in 0 .. Len(log) : EndIn(log, t, k) = EndIn(log, s, k) - (p.at - 1)
    <2>1. \A k \in 0 .. Len(log) : EndIn(log, t, k) = EndIn(log, s, k) - (Len(s) - Len(t))
      BY TracksSuffix
    <2>2. Len(t) = Len(s) - (p.at - 1)
      OBVIOUS
    <2> HIDE DEF p
    <2>3. Len(s) - Len(t) = p.at - 1
      <3>1. Len(s) \in Nat /\ p.at \in Nat
        BY <1>1
      <3> QED  BY <2>2, <3>1, Z3
    <2> QED  BY <2>1, <2>3
  <1>3. read \in 0 .. Len(log) /\ EndIn(log, s, read) <= 0
    BY DEF Aligned
  \* A message that the parser stays before is still awaited.
  <1>4. ASSUME NEW k \in 1 .. Len(log) + 1, NEW a, a = EndIn(log, s, k - 1),
               a = 0 \/ a >= 2, Near(u, a, p.at), k - 1 \in sp => k - 1 \in D
        PROVE  EndIn(log, t, k - 1) = 0 \/ EndIn(log, t, k - 1) >= 2
    <2>1. k \in Nat /\ k - 1 \in 0 .. Len(log) /\ a \in Int
      <3>1. k \in Nat /\ k - 1 \in 0 .. Len(log)
        BY <1>1
      <3>2. EndIn(log, s, k - 1) \in Int
        BY <3>1, EndsApart
      <3> QED  BY <1>4, <3>1, <3>2
    <2>2. EndIn(log, t, k - 1) = a - (p.at - 1)
      BY <1>2, <1>4, <2>1
    <2> HIDE DEF p
    <2>3. p.at # a
      <3> SUFFICES ASSUME p.at = a PROVE FALSE
        OBVIOUS
      <3>1. Len(u) = a - 1 /\ a >= 1
        BY <1>1, <1>4 DEF Near
      <3>2. k - 1 \in 1 .. Len(log)
        <4>1. k - 1 # 0
          BY <1>1, <1>4, <2>1, <3>1
        <4> QED  BY <1>1, <2>1, <4>1
      <3>3. Len(s) - Len(u) = End(log, Len(log)) - End(log, k - 1) + 1
        <4>1. End(log, Len(log)) \in Nat /\ End(log, k - 1) \in Nat
          <5>1. Len(log) \in 0 .. Len(log)
            BY <1>1
          <5> QED  BY <2>1, <5>1, EndFacts
        <4>2. a = Len(s) + End(log, k - 1) - End(log, Len(log))
          BY <1>4 DEF EndIn
        <4>3. Len(s) \in Nat /\ Len(u) \in Nat /\ a \in Int /\ Len(u) = a - 1
          BY <1>1, <2>1, <3>1
        <4> DEFINE e == End(log, Len(log))
                   f == End(log, k - 1)
                   m == Len(s)
                   n == Len(u)
        <4>4. e \in Nat /\ f \in Nat /\ m \in Nat /\ n = a - 1 /\ a = m + f - e
          BY <4>1, <4>2, <4>3
        <4> HIDE DEF e, f, m, n
        <4>5. m - n = e - f + 1
          BY <4>4, Z3
        <4> QED  BY <4>5 DEF e, f, m, n
      <3>4. k - 1 \in D
        BY <1>4, <3>2, <3>3 DEF Cuts
      <3>5. k - 1 <= read
        BY <1>1, <3>4
      <3>6. k - 1 < read \/ k - 1 = read
        BY <1>1, <1>3, <2>1, <3>5
      <3>7. k - 1 < read => a + 10 <= EndIn(log, s, read)
        BY <1>3, <1>4, <2>1, EndsApart
      <3>8. EndIn(log, s, read) \in Int
        BY <1>3, EndsApart
      <3>9. k - 1 = read => a = EndIn(log, s, read)
        BY <1>4
      <3> QED  BY <1>3, <2>1, <3>1, <3>6, <3>7, <3>8, <3>9
    <2>4. p.at <= a + 1 /\ p.at \in Int
      BY <1>1, <1>4 DEF Near
    <2> QED  BY <2>1, <2>2, <2>3, <2>4
  <1>5. ASSUME p.state = "partial" PROVE Awaited(log, t, sp, D)
    <2>1. ASSUME NEW k \in 1 .. Len(log) + 1, Clear(log, k), k \notin D, k - 1 \in sp => k - 1 \in D
          PROVE  EndIn(log, t, k - 1) = 0 \/ EndIn(log, t, k - 1) >= 2
      <3> DEFINE a == EndIn(log, s, k - 1)
      <3>1. a = 0 \/ a >= 2
        BY <2>1 DEF Awaited
      <3>2. StopsIn(u, Before(u, a), p)
        BY <2>1, <3>1, NotPassed
      <3>3. Near(u, a, p.at)
        <4>1. ASSUME NEW begin, NEW at, Whole(u, begin, at), p = RestOfMessage(u, at) PROVE FALSE
          <5>1. RestOfMessage(u, at).state = "found"
            BY DEF RestOfMessage
          <5> HIDE DEF p
          <5> QED  BY <1>5, <4>1, <5>1
        <4> HIDE DEF p, a
        <4> QED  BY <3>2, <4>1 DEF StopsIn, Before
      <3> HIDE DEF p
      <3> QED  BY <1>4, <2>1, <3>1, <3>3
    <2> QED  BY <2>1 DEF Awaited
  <1>6. ASSUME NEW j, p.state = "found", p.msg.seq = j PROVE Awaited(log, t, sp, D \cup {j})
    <2>1. ASSUME NEW begin \in 1 .. Len(u), NEW at, Whole(u, begin, at), p = RestOfMessage(u, at)
          PROVE  j \in 1 .. Len(log) /\ IsMessage(log, s, u, begin, p, j)
      <3>1. PICK l \in 1 .. Len(log) : IsMessage(log, s, u, begin, RestOfMessage(u, at), l)
        BY <2>1, WholeIsSent
      <3>2. RestOfMessage(u, at).msg.seq = l
        BY <3>1 DEF IsMessage
      <3> HIDE DEF p
      <3>3. l = j
        BY <1>6, <2>1, <3>2
      <3> QED  BY <2>1, <3>1, <3>3
    <2>2. ASSUME NEW G, G \subseteq 1 .. Len(u) + 1, StopsIn(u, G, p)
          PROVE  \E begin \in G : begin \in 1 .. Len(u) /\ \E at : Whole(u, begin, at) /\ p = RestOfMessage(u, at)
      <3>1. ASSUME NEW begin \in G, begin <= Len(u) PROVE begin \in 1 .. Len(u)
        BY <1>1, <2>2, <3>1
      <3> HIDE DEF p
      <3> QED  BY <1>6, <2>2, <3>1 DEF StopsIn
    <2>3. ASSUME NEW k \in 1 .. Len(log) + 1, Clear(log, k), k \notin D \cup {j},
                 k - 1 \in sp => k - 1 \in D \cup {j}
          PROVE  EndIn(log, t, k - 1) = 0 \/ EndIn(log, t, k - 1) >= 2
      <3> DEFINE a == EndIn(log, s, k - 1)
                 b == EndIn(log, s, j)
                 c == EndIn(log, s, j - 1)
      <3>0. j \in 1 .. Len(log) /\ (log[j].harm # "joined" => p.at - 1 = b)
        <4>1. StopsIn(u, 1 .. Len(u) + 1, p)
          BY <1>1, ParseStops DEF Stops
        <4>2. \E begin \in 1 .. Len(u) + 1 :
                 begin \in 1 .. Len(u) /\ \E at : Whole(u, begin, at) /\ p = RestOfMessage(u, at)
          BY <2>2, <4>1
        <4> HIDE DEF p, b
        <4> QED  BY <2>1, <4>2 DEF IsMessage, b
      <3>1. k \in Nat /\ k - 1 \in 0 .. Len(log) /\ j \in Nat /\ j - 1 \in 0 .. Len(log) /\ j \in 0 .. Len(log)
        BY <1>1, <3>0
      <3>2. ASSUME k - 1 = j PROVE EndIn(log, t, k - 1) = 0
        <4>1. log[j].harm # "joined"
          <5>1. k > 1
            BY <3>0, <3>1, <3>2
          <5> QED  BY <2>3, <3>2, <5>1 DEF Clear
        <4>2. EndIn(log, t, j) = EndIn(log, s, j) - (p.at - 1) /\ p.at - 1 = EndIn(log, s, j)
          BY <1>2, <3>0, <3>1, <4>1
        <4>3. EndIn(log, s, j) \in Int
          BY <3>1, EndsApart
        <4> QED  BY <3>2, <4>2, <4>3
      <3>3. ASSUME k - 1 # j PROVE EndIn(log, t, k - 1) = 0 \/ EndIn(log, t, k - 1) >= 2
        <4>1. k \notin D /\ (k - 1 \in sp => k - 1 \in D)
          BY <2>3, <3>3
        <4>2. a = 0 \/ a >= 2
          BY <2>3, <4>1 DEF Awaited
        <4>3. StopsIn(u, Before(u, a), p) /\ (a >= 2 => FieldEnds(s, a))
          BY <2>3, <4>2, NotPassed
        <4>4. PICK begin \in Before(u, a) :
                 begin \in 1 .. Len(u) /\ \E at : Whole(u, begin, at) /\ p = RestOfMessage(u, at)
          <5>1. Before(u, a) \subseteq 1 .. Len(u) + 1
            BY DEF Before
          <5> QED  BY <2>2, <4>3, <5>1
        <4>5. c = begin - 1 /\ b - 1 \in 1 .. Len(u) /\ p.at = NextTag(u, b - 1)
          BY <2>1, <4>4 DEF IsMessage
        <4>6. a \in Int /\ b \in Int /\ c \in Int /\ (k - 1 < j - 1 => a + 10 <= c) /\ (j < k - 1 => b + 10 <= a)
          BY <3>1, EndsApart
        <4> HIDE DEF p, a, b, c
        <4>7. begin <= a + 1 /\ begin \in Nat
          BY <4>4 DEF Before, Near
        <4>8. j # k
          BY <2>3
        <4>9. j < k - 1
          BY <3>1, <3>3, <4>5, <4>6, <4>7, <4>8
        <4>10. b - 1 < a /\ a >= 2
          BY <1>1, <4>5, <4>6, <4>9
        <4>11. Near(u, a, p.at)
          BY <4>3, <4>5, <4>10, NextTagNear
        <4> QED  BY <1>4, <4>1, <4>2, <4>11 DEF a
      <3> QED  BY <3>2, <3>3
    <2> QED  BY <2>3 DEF Awaited
  <1> QED  BY <1>5, <1>6

LEMMA AwaitedMore ==
    ASSUME NEW log, NEW s, NEW sp, NEW D, Awaited(log, s, sp, D), NEW sq, sp \subseteq sq
    PROVE  Awaited(log, s, sq, D)
  BY DEF Awaited

\* The messages that were read.
Seen == {delivered[i].seq : i \in DOMAIN delivered}

\* What is left of the stream still has the beginnings of the messages that were not read.
Held ==
    /\ Linked /\ Seen \subseteq 1 .. Channel!Read
    /\ Cuts(sent, Len(wire), split) /\ Awaited(sent, Stream, split, Seen)

LEMMA HeldInit == Init => Held
  <1> SUFFICES ASSUME Init PROVE Held
    OBVIOUS
  <1>1. Linked /\ sent = << >> /\ delivered = << >> /\ Stream = << >>
    BY LinkedInit DEF Init, Stream
  <1>2. Seen = {}
    BY <1>1 DEF Seen
  <1>3. Len(sent) = 0 /\ Len(Stream) = 0
    BY <1>1
  <1>4. Cuts(sent, Len(wire), split)
    BY <1>3 DEF Cuts
  <1>5. Awaited(sent, Stream, split, Seen)
    <2>1. \A k \in 1 .. Len(sent) + 1 : k - 1 = 0
      BY <1>3
    <2>2. EndIn(sent, Stream, 0) = 0
      BY <1>3 DEF EndIn, End
    <2> QED  BY <2>1, <2>2 DEF Awaited
  <1> QED  BY <1>1, <1>2, <1>4, <1>5 DEF Held

LEMMA SeenDelivered ==
    ASSUME Held, Channel!Deliver, NEW p, Deliver(p)
    PROVE  Seen' = Seen \cup {p.msg.seq} /\ Seen' \subseteq 1 .. Channel!Read'
  <1>1. delivered \in Seq([seq : Nat, type : Nat]) /\ Channel!Read \in 0 .. Len(sent) /\ Len(sent) \in Nat
    BY LinkedTypes DEF Held
  <1>a. ASSUME NEW R, NEW d \in Seq(R), NEW y
        PROVE  /\ Len(d) \in Nat /\ DOMAIN d = 1 .. Len(d) /\ DOMAIN Append(d, y) = 1 .. Len(d) + 1
               /\ \A i \in 1 .. Len(d) : Append(d, y)[i] = d[i]
               /\ Append(d, y)[Len(d) + 1] = y /\ Append(d, y) # << >> /\ Len(Append(d, y)) = Len(d) + 1
    BY <1>a
  <1> DEFINE n == Len(delivered)
             x == p.msg
  <1>2. /\ n \in Nat /\ DOMAIN delivered = 1 .. n /\ DOMAIN delivered' = 1 .. n + 1
        /\ \A i \in 1 .. n : delivered'[i] = delivered[i]
        /\ delivered'[n + 1] = x /\ delivered' # << >> /\ Len(delivered') = n + 1
    <2>1. delivered' = Append(delivered, x)
      BY DEF Deliver
    <2> HIDE DEF x
    <2> QED  BY <1>1, <1>a, <2>1
  <1> HIDE DEF n, x
  <1>3. \A i \in 1 .. n + 1 : i \in 1 .. n \/ i = n + 1
    BY <1>2
  <1>4. (\A i \in 1 .. n : i \in 1 .. n + 1) /\ n + 1 \in 1 .. n + 1
    BY <1>2
  <1>5. Seen' = Seen \cup {x.seq}
    BY <1>2, <1>3, <1>4 DEF Seen
  <1>6. Channel!Read' = x.seq
    BY <1>2 DEF Channel!Read
  <1>7. x.seq \in Nat /\ x.seq > Channel!Read
    <2> DEFINE log == [k \in DOMAIN sent |-> [type |-> sent[k].type, harm |-> sent[k].harm]]
    <2>1. PICK k \in Channel!Read + 1 .. Len(log) :
             delivered' = Append(delivered, [seq |-> k, type |-> log[k].type])
      BY DEF Channel!Deliver
    <2> DEFINE y == [seq |-> k, type |-> log[k].type]
    <2>2. y.seq = k
      OBVIOUS
    <2> HIDE DEF y, log
    <2>3. delivered' = Append(delivered, y)
      BY <2>1 DEF y
    <2>4. delivered'[n + 1] = y
      BY <1>1, <2>3 DEF n
    <2>5. k \in Nat /\ k > Channel!Read
      <3>1. Channel!Read \in Nat
        BY <1>1
      <3> QED  BY <2>1, <3>1
    <2> QED  BY <1>2, <2>2, <2>4, <2>5
  <1>8. Seen \subseteq 1 .. x.seq
    BY <1>1, <1>7 DEF Held
  <1>9. x.seq \in 1 .. x.seq
    BY <1>1, <1>7
  <1> QED  BY <1>5, <1>6, <1>8, <1>9 DEF x

LEMMA HeldRecvBuffered ==
    ASSUME Held, RecvBuffered
    PROVE  Held'
  <1> DEFINE p == Parse(rx.unread)
  <1>1. Linked' /\ Channel!Deliver
    BY LinkedRecvBuffered DEF Held
  <1>2. /\ Suffix(Stream', Stream) /\ Len(Stream') = Len(Stream) - (p.at - 1)
        /\ p.state = "found" /\ Deliver(p) /\ UNCHANGED <<sent, wire, split>>
    BY BufferedSteps DEF Held, Linked, Framed
  <1>3. Prefix(rx.unread, Stream) /\ Len(Stream) - Len(rx.unread) = Len(wire)
    BY ReadFacts DEF Held, Linked, Framed
  <1>4. sent \in Logs /\ Len(sent) <= 255 /\ Stream \in Seq(Symbol)
    BY LinkedTypes DEF Held
  <1>5. /\ Tracks(sent, Stream) /\ Aligned(sent, Stream, Channel!Read) /\ Seen \subseteq 1 .. Channel!Read
        /\ Cuts(sent, Len(Stream) - Len(rx.unread), split) /\ Awaited(sent, Stream, split, Seen)
    BY <1>3 DEF Held, Linked
  <1>6. Awaited(sent, Stream', split, Seen \cup {p.msg.seq})
    BY <1>2, <1>3, <1>4, <1>5, AwaitedParse
  <1> HIDE DEF p
  <1>7. Seen' = Seen \cup {p.msg.seq} /\ Seen' \subseteq 1 .. Channel!Read'
    BY <1>1, <1>2, SeenDelivered
  <1>8. Awaited(sent', Stream', split', Seen')
    BY <1>2, <1>6, <1>7
  <1>9. Cuts(sent', Len(wire'), split')
    BY <1>2 DEF Held
  <1> QED  BY <1>1, <1>7, <1>8, <1>9 DEF Held

LEMMA HeldRecvArrived ==
    ASSUME Held, RecvArrived
    PROVE  Held'
  <1>1. PICK s \in Seq(Symbol), u \in Seq(Symbol) :
           /\ Suffix(s, Stream) /\ Len(s) = Len(Stream) - (Parse(rx.unread).at - 1)
           /\ Prefix(u, s)
           /\ Suffix(Stream', s) /\ Len(Stream') = Len(s) - (Parse(u).at - 1)
           /\ \/ Parse(u).state = "found" /\ Deliver(Parse(u))
              \/ Parse(u).state = "partial" /\ UNCHANGED delivered
           /\ Len(s) - Len(u) = Len(wire')
    BY ArrivedSteps DEF Held, Linked
  <1>2. sent \in Logs /\ Len(sent) <= 255 /\ Stream \in Seq(Symbol) /\ delivered \in Seq([seq : Nat, type : Nat])
    BY LinkedTypes DEF Held
  <1>3. /\ Parse(rx.unread).state = "partial" /\ UNCHANGED sent
        /\ split' = split \cup {k \in DOMAIN sent : Len(wire') = LeftAfter(k) + 1}
    BY DEF RecvArrived
  <1>4. Prefix(rx.unread, Stream) /\ Len(Stream) - Len(rx.unread) = Len(wire)
    BY ReadFacts DEF Held, Linked, Framed
  <1>5. /\ Tracks(sent, Stream) /\ Aligned(sent, Stream, Channel!Read) /\ Seen \subseteq 1 .. Channel!Read
        /\ Cuts(sent, Len(Stream) - Len(rx.unread), split) /\ Awaited(sent, Stream, split, Seen)
    BY <1>4 DEF Held, Linked
  <1>6. Tracks(sent, s) /\ Aligned(sent, s, Channel!Read)
    BY <1>1, <1>2, <1>3, <1>4, <1>5, AlignedParse
  <1>7. Awaited(sent, s, split, Seen)
    BY <1>1, <1>2, <1>3, <1>4, <1>5, AwaitedParse
  <1>8. Awaited(sent, s, split', Seen)
    BY <1>3, <1>7, AwaitedMore
  <1>9. Cuts(sent, Len(wire'), split')
    <2>1. ASSUME NEW j \in 1 .. Len(sent), Len(wire') = End(sent, Len(sent)) - End(sent, j) + 1
          PROVE  j \in split'
      <3>1. j \in DOMAIN sent
        BY <1>2 DEF Logs
      <3>2. Len(wire') = LeftAfter(j) + 1
        BY <2>1 DEF LeftAfter, EndOf, End
      <3> QED  BY <1>3, <3>1, <3>2
    <2> QED  BY <2>1 DEF Cuts
  <1>10. Cuts(sent, Len(s) - Len(u), split')
    BY <1>1, <1>9
  <1>11. /\ Parse(u).state = "partial" => Awaited(sent, Stream', split', Seen)
         /\ \A j : Parse(u).state = "found" /\ Parse(u).msg.seq = j => Awaited(sent, Stream', split', Seen \cup {j})
    BY <1>1, <1>2, <1>5, <1>6, <1>8, <1>10, AwaitedParse
  <1>12. Linked' /\ (Channel!Deliver \/ UNCHANGED <<sent, delivered>>)
    BY LinkedRecvArrived DEF Held
  <1>13. CASE Parse(u).state = "found" /\ Deliver(Parse(u))
    <2> DEFINE p == Parse(u)
    <2>1. Channel!Deliver
      <3>1. delivered' # delivered
        <4>1. delivered' = Append(delivered, p.msg)
          BY <1>13 DEF Deliver
        <4> DEFINE x == p.msg
        <4> HIDE DEF x
        <4>2. Len(Append(delivered, x)) = Len(delivered) + 1 /\ Len(delivered) \in Nat
          BY <1>2
        <4>3. delivered' = Append(delivered, x)
          BY <4>1 DEF x
        <4>4. Len(delivered') # Len(delivered)
          BY <4>2, <4>3
        <4> QED  BY <4>4
      <3> QED  BY <1>12, <3>1
    <2>2. Seen' = Seen \cup {p.msg.seq} /\ Seen' \subseteq 1 .. Channel!Read'
      BY <1>13, <2>1, SeenDelivered
    <2>3. Awaited(sent, Stream', split', Seen \cup {p.msg.seq})
      BY <1>11, <1>13
    <2> HIDE DEF p
    <2> QED  BY <1>3, <1>9, <1>12, <2>2, <2>3 DEF Held
  <1>14. CASE Parse(u).state = "partial" /\ UNCHANGED delivered
    <2>1. Seen' = Seen /\ Channel!Read' = Channel!Read
      BY <1>14 DEF Seen, Channel!Read
    <2> QED  BY <1>3, <1>5, <1>9, <1>11, <1>12, <1>14, <2>1 DEF Held
  <1> QED  BY <1>1, <1>13, <1>14

LEMMA CutsAt ==
    ASSUME NEW log \in Logs, NEW s \in Seq(Symbol), NEW u \in Seq(Symbol), NEW left, Len(s) - Len(u) = left,
           NEW sp
    PROVE  Cuts(log, left, sp) <=> \A j \in 1 .. Len(log) : EndIn(log, s, j) = Len(u) + 1 => j \in sp
  <1>1. ASSUME NEW j \in 1 .. Len(log)
        PROVE  left = End(log, Len(log)) - End(log, j) + 1 <=> EndIn(log, s, j) = Len(u) + 1
    <2>1. Len(log) \in Nat /\ Len(s) \in Nat /\ Len(u) \in Nat
      BY EndFacts
    <2>2. j \in 0 .. Len(log) /\ Len(log) \in 0 .. Len(log)
      BY <2>1
    <2>3. End(log, j) \in Nat /\ End(log, Len(log)) \in Nat
      BY <2>2, EndFacts
    <2>4. EndIn(log, s, j) = Len(s) + End(log, j) - End(log, Len(log))
      BY DEF EndIn
    <2>5. Len(s) \in Nat /\ Len(u) \in Nat
      BY <2>1
    <2>6. left = Len(s) - Len(u)
      OBVIOUS
    <2> QED  BY <2>3, <2>4, <2>5, <2>6, Z3
  <1> QED  BY <1>1 DEF Cuts

LEMMA HeldPeer ==
    ASSUME Held, NEW kind \in Kinds, PeerSends(kind) \/ Garble(kind)
    PROVE  Held'
  <1> DEFINE n == Len(sent)
  <1>1. Linked' /\ Extended
    BY LinkedPeer DEF Held
  <1>2. /\ sent \in Logs /\ n \in Nat /\ Stream \in Seq(Symbol) /\ Len(Stream) \in Nat
        /\ sent' \in Logs /\ Stream' \in Seq(Symbol) /\ Len(Stream') \in Nat
    <2>1. sent \in Logs /\ n \in Nat /\ Stream \in Seq(Symbol)
      BY LinkedTypes DEF Held
    <2>2. sent' \in Logs /\ Stream' \in Seq(Symbol)
      BY <1>1 DEF Linked, Framed, TypeOK, Logs, Stream
    <2> QED  BY <2>1, <2>2
  <1>3. /\ Len(sent') = n + 1 /\ \A j \in 1 .. n : sent'[j] = sent[j]
        /\ \A k \in 0 .. n : EndIn(sent', Stream', k) = EndIn(sent, Stream, k)
        /\ Len(Stream') >= Len(Stream) + 10 /\ UNCHANGED <<rx, delivered, split>>
    BY <1>1 DEF Extended
  <1>4. EndIn(sent', Stream', n + 1) = Len(Stream')
    BY <1>2, <1>3, EndFacts
  <1>5. Seen' = Seen /\ Channel!Read' = Channel!Read
    BY <1>3 DEF Seen, Channel!Read
  <1>6. Cuts(sent', Len(wire'), split')
    <2>1. /\ Prefix(rx.unread, Stream) /\ Len(Stream) - Len(rx.unread) = Len(wire)
          /\ rx.unread \in Seq(Symbol) /\ Len(rx.unread) \in Nat /\ Len(rx.unread) <= Len(Stream)
      BY ReadFacts DEF Held, Linked, Framed, Prefix
    <2>2. Len(Stream') - Len(rx'.unread) = Len(wire')
      <3>1. TypeOK'
        BY <1>1 DEF Linked, Framed
      <3>2. rx'.unread \in Seq(Symbol) /\ wire' \in Seq(Symbol) /\ Stream' = rx'.unread \o wire'
        BY <3>1 DEF TypeOK, Stream
      <3>3. \A x, y \in Seq(Symbol) : Len(x \o y) = Len(x) + Len(y) /\ Len(x) \in Nat /\ Len(y) \in Nat
        OBVIOUS
      <3>4. Len(Stream') = Len(rx'.unread) + Len(wire') /\ Len(rx'.unread) \in Nat /\ Len(wire') \in Nat
        BY <3>2, <3>3, Zenon
      <3> QED  BY <3>4, Z3
    <2>3. \A j \in 1 .. n : EndIn(sent, Stream, j) = Len(rx.unread) + 1 => j \in split
      BY <1>2, <2>1, CutsAt DEF Held
    <2>4. ASSUME NEW j \in 1 .. n + 1, EndIn(sent', Stream', j) = Len(rx.unread) + 1 PROVE j \in split
      <3>1. j # n + 1
        BY <1>2, <1>3, <1>4, <2>1, <2>4
      <3>2. j \in 1 .. n /\ j \in 0 .. n
        BY <1>2, <3>1
      <3> QED  BY <1>3, <2>3, <2>4, <3>2
    <2>5. rx'.unread = rx.unread /\ split' = split
      BY <1>3
    <2>6. \A j \in 1 .. Len(sent') : EndIn(sent', Stream', j) = Len(rx'.unread) + 1 => j \in split'
      BY <1>3, <2>4, <2>5
    <2> QED  BY <1>2, <2>1, <2>2, <2>5, <2>6, CutsAt
  <1>7. Awaited(sent', Stream', split', Seen')
    <2>1. ASSUME NEW k \in 1 .. n + 2, Clear(sent', k), k \notin Seen, k - 1 \in split => k - 1 \in Seen
          PROVE  EndIn(sent', Stream', k - 1) = 0 \/ EndIn(sent', Stream', k - 1) >= 2
      <3>1. CASE k = n + 2
        <4>1. k - 1 = n + 1
          BY <1>2, <3>1
        <4> QED  BY <1>2, <1>3, <1>4, <4>1
      <3>2. CASE k # n + 2
        <4>1. k \in 1 .. n + 1 /\ k - 1 \in 0 .. n /\ k \in Nat
          BY <1>2, <3>2
        <4>2. Clear(sent, k)
          <5>1. k > 1 => k - 1 \in 1 .. n
            BY <1>2, <4>1
          <5>2. \A j \in 1 .. k : j <= n => j \in 1 .. n /\ j <= n + 1
            BY <1>2, <4>1
          <5>3. k <= n => k \in 1 .. n /\ k <= n + 1
            BY <1>2, <4>1
          <5>4. k > 1 => sent[k - 1].harm # "joined"
            BY <1>3, <2>1, <5>1 DEF Clear
          <5>5. k <= n => sent[k].harm = "none"
            BY <1>3, <2>1, <5>3 DEF Clear
          <5>6. \A j \in 1 .. k : j <= n => sent[j].harm # "length"
            BY <1>3, <2>1, <5>2 DEF Clear
          <5> QED  BY <5>4, <5>5, <5>6 DEF Clear
        <4>3. EndIn(sent, Stream, k - 1) = 0 \/ EndIn(sent, Stream, k - 1) >= 2
          BY <2>1, <4>1, <4>2 DEF Held, Awaited
        <4>4. EndIn(sent', Stream', k - 1) = EndIn(sent, Stream, k - 1)
          BY <1>3, <4>1
        <4> QED  BY <4>3, <4>4
      <3> QED  BY <3>1, <3>2
    <2>2. Len(sent') + 1 = n + 2
      BY <1>2, <1>3
    <2>3. split' = split
      BY <1>3
    <2> QED  BY <1>5, <2>1, <2>2, <2>3 DEF Awaited
  <1> QED  BY <1>1, <1>5, <1>6, <1>7 DEF Held

LEMMA HeldInvariant == Spec => []Held
  <1>1. Held /\ [Next]_vars => Held'
    <2> SUFFICES ASSUME Held, [Next]_vars PROVE Held'
      OBVIOUS
    <2>1. CASE RecvBuffered
      BY <2>1, HeldRecvBuffered
    <2>2. CASE RecvArrived
      BY <2>2, HeldRecvArrived
    <2>3. ASSUME NEW kind \in Kinds, PeerSends(kind) \/ Garble(kind) PROVE Held'
      BY <2>3, HeldPeer
    <2>4. CASE UNCHANGED vars
      <3>1. UNCHANGED <<sent, wire, rx, delivered, split>> /\ UNCHANGED <<Stream, Seen, Channel!Read>>
        BY <2>4 DEF vars, Stream, Seen, Channel!Read
      <3>2. Linked'
        BY <2>4 DEF vars, Held, Linked, Framed, TypeOK, Stream, Dense, Closing, Channel!Read
      <3> QED  BY <3>1, <3>2 DEF Held
    <2> QED  BY <2>1, <2>2, <2>3, <2>4 DEF Next, Ended
  <1> QED  BY <1>1, HeldInit, PTL DEF Spec

\* A sound message is read as soon as it has arrived, unless its start is hidden or a length
\* before it was changed: the parser does not wait for more with such a message in the buffer.
THEOREM NothingIsHeldBack == Spec => []NothingHeldBack
  <1>1. Held => NothingHeldBack
    <2> SUFFICES ASSUME Held, wire = << >>, Waiting, NEW k \in DOMAIN sent,
                        ~Delivered(k), ~Hidden(k), sent[k].harm = "none",
                        \A j \in 1 .. k : sent[j].harm # "length"
                 PROVE  FALSE
      BY DEF NothingHeldBack
    <2> DEFINE u == rx.unread
               a == EndIn(sent, Stream, k - 1)
               p == Parse(u)
    <2>1. /\ sent \in Logs /\ Len(sent) \in Nat /\ Stream \in Seq(Symbol) /\ k \in 1 .. Len(sent) /\ k \in Nat
      <3>1. sent \in Logs /\ Len(sent) \in Nat /\ Stream \in Seq(Symbol)
        BY LinkedTypes DEF Held
      <3>2. DOMAIN sent = 1 .. Len(sent)
        BY <3>1 DEF Logs
      <3> QED  BY <3>1, <3>2
    <2>2. u \in Seq(Symbol) /\ Len(u) \in Nat /\ Stream = u /\ Prefix(u, Stream)
      <3>1. TypeOK
        BY DEF Held, Linked, Framed
      <3>2. u \in Seq(Symbol)
        BY <3>1 DEF TypeOK
      <3>3. Stream = u
        BY <3>2 DEF Stream
      <3> QED  BY <3>1, <3>2, <3>3, ReadFacts
    <2>3. Clear(sent, k) /\ k \notin Seen /\ (k - 1 \in split => k - 1 \in Seen)
      <3>1. Clear(sent, k)
        BY <2>1 DEF Clear, Hidden
      <3>2. k \notin Seen
        BY DEF Seen, Delivered
      <3>3. ASSUME k - 1 \in split PROVE k - 1 \in Seen
        <4>1. k - 1 \in 1 .. Len(sent)
          <5>1. split \subseteq DOMAIN sent
            BY DEF Held, Linked, Framed, TypeOK
          <5> QED  BY <2>1, <3>3, <5>1 DEF Logs
        <4>2. k > 1
          BY <2>1, <4>1
        <4>3. Delivered(k - 1)
          BY <3>3, <4>2 DEF Hidden
        <4> QED  BY <4>3 DEF Seen, Delivered
      <3> QED  BY <3>1, <3>2, <3>3
    <2>4. k \in 1 .. Len(sent) + 1 /\ k - 1 \in 0 .. Len(sent) /\ k \in 0 .. Len(sent)
      BY <2>1
    <2>5. a = 0 \/ a >= 2
      BY <2>3, <2>4 DEF Held, Awaited
    <2>6. StopsIn(u, Before(u, a), p) /\ (a >= 2 => FieldEnds(u, a))
      <3>1. Tracks(sent, Stream)
        BY DEF Held, Linked
      <3> QED  BY <2>1, <2>2, <2>3, <2>4, <2>5, <3>1, NotPassed
    <2>7. PICK v : Holds(sent, Stream, k, v)
      BY <2>1 DEF Held, Linked, Tracks
    <2>8. /\ a \in Nat /\ Len(v) \in Nat /\ Len(v) >= 10 /\ a + Len(v) <= Len(u) /\ Copy(v, k, sent[k])
      <3>1. /\ Len(v) \in Nat /\ Len(v) >= 10 /\ a \in Int /\ EndIn(sent, Stream, k) = a + Len(v)
            /\ Copy(v, k, sent[k])
        BY <2>1, <2>7, HoldsEnd
      <3>2. EndIn(sent, Stream, k) <= Len(Stream)
        BY <2>1, <2>4, EndsApart DEF Held, Linked
      <3> QED  BY <2>2, <2>5, <3>1, <3>2
    <2> HIDE DEF a
    <2>9. Attempt(u, a + 1) = Found(a + 5)
      <3>1. PICK kind \in Kinds : v = Message(kind, k) /\ kind.type \in KnownTypes
        BY <2>8 DEF Copy
      <3>2. Fits(u, a, v)
        BY <2>1, <2>2, <2>7, <2>8, FitsCopy DEF a
      <3> QED  BY <2>1, <2>2, <2>8, <3>1, <3>2, SoundAttempt
    <2>10. p.state = "partial"
      BY DEF Waiting
    <2>11. p.at \in Before(u, a) /\ (p.at <= Len(u) => Attempt(u, p.at) = Partial /\ Wanting(u, p.at))
      <3>1. ASSUME NEW begin, NEW at, Whole(u, begin, at), p = RestOfMessage(u, at) PROVE FALSE
        <4>1. RestOfMessage(u, at).state = "found"
          BY DEF RestOfMessage
        <4> HIDE DEF p
        <4> QED  BY <2>10, <3>1, <4>1
      <3> HIDE DEF p, u
      <3> QED  BY <2>6, <3>1 DEF StopsIn
    <2> HIDE DEF p
    <2>12. p.at \in Nat \ {0} /\ p.at <= a + 1 /\ p.at # a /\ p.at <= Len(u)
      BY <2>2, <2>8, <2>11 DEF Before, Near
    <2>13. p.at # a + 1
      <3>1. Found(a + 5) # Partial
        BY DEF Found, Partial
      <3> QED  BY <2>9, <2>11, <2>12, <3>1
    <2>14. p.at < a /\ a >= 2
      BY <2>5, <2>8, <2>12, <2>13
    <2>15. PICK x \in Nat \ {0} : Looks(u, p.at, x) /\ Starved(u, x)
      BY <2>11, <2>12 DEF Wanting
    <2>16. x < a
      <3>1. p.at \in 1 .. Len(u) /\ Tracks(sent, Stream)
        BY <2>2, <2>12 DEF Held, Linked
      <3> QED  BY <2>1, <2>2, <2>3, <2>4, <2>14, <2>15, <3>1, LooksBefore DEF a
    <2> QED  BY <2>2, <2>6, <2>14, <2>15, <2>16, FieldIsThere
  <1> QED  BY <1>1, HeldInvariant, PTL

=============================================================================
