-------------------------- MODULE FIXSessionProofs --------------------------
(* What holds of a FIX session for every heartbeat interval, every peer,   *)
(* every loss and every time a handler blocks: its types, and the limits   *)
(* within which it hears of its peer, or finds it dead, and its peer hears *)
(* of it; and, as long as nothing was garbled, that it reads the messages  *)
(* in order and once, that a peer that asked for a gap is answered, and    *)
(* that one that answers is kept.                                          *)
EXTENDS FIXSession, SequenceTheorems, WellFoundedInduction, TLAPS

-----------------------------------------------------------------------------
(* What handling one message does to a session.                            *)

\* The request for a resend that a session s may send after message m.
Requested(s, m, x) ==
    x.type = "ResendRequest" =>
       x.ref = s.inSeq /\ s.inSeq < m.seq /\ x.end \in {0, m.seq}

\* The message x it sends after message m, if any, has the next number, but for the
\* gap fill that answers a resend request: that one has the number it names.
Numbered(s, m, x, t) ==
    \/ x.type # "GapFill" /\ x.seq = s.outSeq /\ t.outSeq = s.outSeq + 1
    \/ /\ x.type = "GapFill" /\ m.type = "ResendRequest"
       /\ x.seq = m.ref /\ x.ref = m.end + 1 /\ t.outSeq = s.outSeq

\* Session t is s after it handled message m: its clock and the times of the
\* last message in and of the test request are as they were, it has sent one
\* message at most, and if it is still active it waits for no logout.
Handled(s, m, t) ==
    /\ t \in Sessions
    /\ t.now = s.now /\ t.rx = s.rx /\ t.tr = s.tr /\ t.testId = s.testId
    /\ t.tx \in {s.tx, s.now}
    /\ t.trPending => s.trPending
    /\ t.active => s.active /\ t.grace = s.grace
    /\ t.lost = s.lost
    /\ \/ t.wire = s.wire /\ t.outSeq = s.outSeq
       \/ \E x \in Message : /\ t.wire = Append(s.wire, x)
                             /\ Requested(s, m, x) /\ Numbered(s, m, x, t)

LEMMA MsgType ==
    ASSUME NEW type \in Types, NEW ref \in Int
    PROVE  /\ Msg(type, ref) \in Message
           /\ Msg(type, ref).type = type /\ Msg(type, ref).ref = ref
           /\ Msg(type, ref).end = 0 /\ ~Msg(type, ref).dup
  BY DEF Msg, Message

LEMMA NoneType == NONE \in Int
  BY DEF NONE

LEMMA SentType ==
    ASSUME NEW s \in Sessions, NEW w \in Seq(Message), NEW n \in Nat, NEW time \in Nat
    PROVE  [s EXCEPT !.wire = w, !.outSeq = n, !.tx = time] \in Sessions
  BY DEF Sessions

LEMMA SendFacts ==
    ASSUME NEW s \in Sessions, NEW m \in Message
    PROVE  /\ Send(s, m) \in Sessions
           /\ Send(s, m).wire = Append(s.wire, [m EXCEPT !.seq = s.outSeq])
           /\ Send(s, m).outSeq = s.outSeq + 1 /\ Send(s, m).tx = s.now
           /\ Send(s, m).active = s.active /\ Send(s, m).now = s.now
           /\ Send(s, m).rx = s.rx /\ Send(s, m).tr = s.tr
           /\ Send(s, m).trPending = s.trPending /\ Send(s, m).testId = s.testId
           /\ Send(s, m).inSeq = s.inSeq /\ Send(s, m).grace = s.grace
           /\ Send(s, m).lost = s.lost
           /\ [m EXCEPT !.seq = s.outSeq] \in Message
  <1>1. [m EXCEPT !.seq = s.outSeq] \in Message
    BY DEF Message, Sessions
  <1>2. Append(s.wire, [m EXCEPT !.seq = s.outSeq]) \in Seq(Message)
    BY <1>1 DEF Sessions
  <1>3. s.outSeq + 1 \in Nat /\ s.now \in Nat
    BY DEF Sessions
  <1>4. Send(s, m) \in Sessions
    BY <1>2, <1>3, SentType DEF Send
  <1>5. /\ Send(s, m).wire = Append(s.wire, [m EXCEPT !.seq = s.outSeq])
        /\ Send(s, m).outSeq = s.outSeq + 1 /\ Send(s, m).tx = s.now
    BY DEF Sessions, Send
  <1>6. /\ Send(s, m).active = s.active /\ Send(s, m).now = s.now
        /\ Send(s, m).rx = s.rx /\ Send(s, m).tr = s.tr
        /\ Send(s, m).trPending = s.trPending /\ Send(s, m).testId = s.testId
        /\ Send(s, m).inSeq = s.inSeq /\ Send(s, m).grace = s.grace
        /\ Send(s, m).lost = s.lost
    BY DEF Sessions, Send
  <1> QED  BY <1>1, <1>4, <1>5, <1>6

\* Sending a message is a way to handle one.
LEMMA SendHandled ==
    ASSUME NEW s \in Sessions, NEW m \in Message, NEW x \in Message,
           Requested(s, m, x), x.type # "GapFill"
    PROVE  Handled(s, m, Send(s, x))
  <1> DEFINE y == [x EXCEPT !.seq = s.outSeq]
  <1>1. /\ y \in Message /\ Requested(s, m, y)
        /\ y.type = x.type /\ y.seq = s.outSeq
    BY SendFacts DEF Requested, Message, Sessions
  <1>2. Send(s, x).wire = Append(s.wire, y) /\ Send(s, x).outSeq = s.outSeq + 1
    BY SendFacts
  <1>3. \E z \in Message : /\ Send(s, x).wire = Append(s.wire, z)
                           /\ Requested(s, m, z) /\ Numbered(s, m, z, Send(s, x))
    BY <1>1, <1>2 DEF Numbered
  <1> HIDE DEF y
  <1>4. /\ Send(s, x) \in Sessions /\ Send(s, x).tx = s.now
        /\ Send(s, x).active = s.active /\ Send(s, x).now = s.now
        /\ Send(s, x).rx = s.rx /\ Send(s, x).tr = s.tr
        /\ Send(s, x).trPending = s.trPending /\ Send(s, x).testId = s.testId
        /\ Send(s, x).grace = s.grace
        /\ Send(s, x).lost = s.lost
    BY SendFacts
  <1> QED  BY <1>3, <1>4 DEF Handled

\* The number of the last message is set back or forward, after the sending ...
LEMMA ThenInSeq ==
    ASSUME NEW s \in Sessions, NEW m, NEW t, Handled(s, m, t), NEW n \in Nat
    PROVE  Handled(s, m, [t EXCEPT !.inSeq = n]) /\ [t EXCEPT !.inSeq = n].inSeq = n
  <1>1. t \in Sessions
    BY DEF Handled
  <1>2. /\ [t EXCEPT !.inSeq = n] \in Sessions
        /\ [t EXCEPT !.inSeq = n].inSeq = n
        /\ [t EXCEPT !.inSeq = n].now = t.now /\ [t EXCEPT !.inSeq = n].rx = t.rx
        /\ [t EXCEPT !.inSeq = n].tr = t.tr /\ [t EXCEPT !.inSeq = n].tx = t.tx
        /\ [t EXCEPT !.inSeq = n].testId = t.testId
        /\ [t EXCEPT !.inSeq = n].trPending = t.trPending
        /\ [t EXCEPT !.inSeq = n].active = t.active
        /\ [t EXCEPT !.inSeq = n].grace = t.grace
        /\ [t EXCEPT !.inSeq = n].lost = t.lost
        /\ [t EXCEPT !.inSeq = n].wire = t.wire
        /\ [t EXCEPT !.inSeq = n].outSeq = t.outSeq
    BY <1>1 DEF Sessions
  <1> HIDE DEF Sessions
  <1> QED  BY <1>2 DEF Handled, Numbered

\* ... or before it.
LEMMA InSeqThenSend ==
    ASSUME NEW s \in Sessions, NEW m, NEW n \in Nat,
           NEW x \in Message, x.type \notin {"ResendRequest", "GapFill"}
    PROVE  Handled(s, m, Send([s EXCEPT !.inSeq = n], x))
  <1> DEFINE r == [s EXCEPT !.inSeq = n]
             y == [x EXCEPT !.seq = r.outSeq]
  <1>1. /\ r \in Sessions /\ r.now = s.now /\ r.rx = s.rx /\ r.tr = s.tr /\ r.tx = s.tx
        /\ r.testId = s.testId /\ r.trPending = s.trPending /\ r.active = s.active
        /\ r.grace = s.grace /\ r.wire = s.wire /\ r.outSeq = s.outSeq /\ s.outSeq \in Nat
        /\ r.lost = s.lost
    BY DEF Sessions
  <1> HIDE DEF r
  <1>2. y.type = x.type /\ y.seq = s.outSeq
    BY <1>1 DEF Message
  <1>3. /\ Send(r, x) \in Sessions /\ Send(r, x).now = s.now /\ Send(r, x).rx = s.rx
        /\ Send(r, x).tr = s.tr /\ Send(r, x).tx = s.now
        /\ Send(r, x).testId = s.testId /\ Send(r, x).trPending = s.trPending
        /\ Send(r, x).active = s.active /\ Send(r, x).grace = s.grace
        /\ Send(r, x).lost = s.lost
        /\ Send(r, x).wire = Append(s.wire, y) /\ y \in Message
        /\ Send(r, x).outSeq = s.outSeq + 1
    BY SMTT(30), <1>1, SendFacts
  <1>4. Requested(s, m, y) /\ Numbered(s, m, y, Send(r, x))
    BY <1>2, <1>3 DEF Requested, Numbered
  <1> HIDE DEF y
  <1>5. Handled(s, m, Send(r, x))
    BY <1>3, <1>4 DEF Handled
  <1> QED  BY <1>5 DEF r

\* Logging out is the last thing a session does before it waits for the peer.
LEMMA ThenLogout ==
    ASSUME NEW s \in Sessions, NEW m, NEW t, Handled(s, m, t), clock \in Nat
    PROVE  LET u == [t EXCEPT !.active = FALSE, !.grace = Append(@, clock)]
           IN  Handled(s, m, u) /\ ~u.active /\ u.inSeq = t.inSeq
  <1> DEFINE g == Append(t.grace, clock)
             u == [t EXCEPT !.active = FALSE, !.grace = g]
  <1>1. t \in Sessions
    BY DEF Handled
  <1>2. g \in Seq(Nat)
    BY <1>1 DEF Sessions
  <1> HIDE DEF g
  <1>3. /\ u \in Sessions
        /\ u.now = t.now /\ u.rx = t.rx /\ u.tr = t.tr /\ u.tx = t.tx
        /\ u.testId = t.testId /\ u.trPending = t.trPending /\ ~u.active
        /\ u.lost = t.lost /\ u.wire = t.wire /\ u.inSeq = t.inSeq /\ u.outSeq = t.outSeq
    BY <1>1, <1>2 DEF Sessions
  <1> HIDE DEF u
  <1>4. Handled(s, m, u) /\ ~u.active /\ u.inSeq = t.inSeq
    BY <1>3 DEF Handled, Numbered
  <1> QED  BY <1>4 DEF u, g

LEMMA SameHandled ==
    ASSUME NEW s \in Sessions, NEW m PROVE Handled(s, m, s)
  BY DEF Handled

LEMMA TooLowHandled ==
    ASSUME NEW s \in Sessions, NEW m, s.inSeq > 0, clock \in Nat
    PROVE  Handled(s, m, TooLow(s, m))
  <1> DEFINE r == [s EXCEPT !.inSeq = s.inSeq - 1]
  <1>1. s.inSeq - 1 \in Nat
    BY DEF Sessions
  <1>2. Handled(s, m, r)
    BY <1>1, SameHandled, ThenInSeq
  <1>3. Msg("Logout", NONE) \in Message /\ Msg("Logout", NONE).type = "Logout"
    BY NoneType, MsgType DEF Types
  <1>4. Handled(s, m, Send(r, Msg("Logout", NONE)))
    BY <1>1, <1>3, InSeqThenSend
  <1>5. Handled(s, m, Logout(r))
    BY <1>4, ThenLogout DEF Logout
  <1> QED  BY <1>2, <1>5 DEF TooLow

LEMMA ResendRequestHandled ==
    ASSUME NEW s \in Sessions, NEW m \in Message, NEW end \in {0, m.seq}, s.inSeq < m.seq
    PROVE  /\ Handled(s, m, ResendRequest(s, s.inSeq, end))
           /\ ResendRequest(s, s.inSeq, end).inSeq = s.inSeq
  <1> DEFINE q == Msg("ResendRequest", s.inSeq)
             x == [q EXCEPT !.end = end]
  <1>1. end \in Nat /\ s.inSeq \in Int
    BY DEF Message, Sessions
  <1>2. q \in Message /\ q.type = "ResendRequest" /\ q.ref = s.inSeq
    BY <1>1, MsgType DEF Types, AdminTypes
  <1>3. x \in Message /\ x.type = "ResendRequest" /\ x.ref = s.inSeq /\ x.end = end
    BY <1>1, <1>2 DEF Message
  <1> HIDE DEF x
  <1>4. Handled(s, m, Send(s, x)) /\ Send(s, x).inSeq = s.inSeq
    BY <1>3, SendHandled, SendFacts DEF Requested
  <1> QED  BY <1>4 DEF ResendRequest, x

LEMMA UnexpectedHandled ==
    ASSUME NEW s \in Sessions, NEW m \in Message, s.inSeq > 0, clock \in Nat
    PROVE  Handled(s, m, Unexpected(s, m))
  <1>1. s.inSeq - 1 \in Nat /\ s.inSeq \in Nat /\ m.seq \in Nat
    BY DEF Sessions, Message
  <1>2. CASE m.seq > s.inSeq
    <2> DEFINE t == ResendRequest(s, s.inSeq, 0)
    <2>1. Handled(s, m, t) /\ t.inSeq = s.inSeq
      BY <1>1, <1>2, ResendRequestHandled
    <2>3. Handled(s, m, [t EXCEPT !.inSeq = s.inSeq - 1])
      BY <1>1, <2>1, ThenInSeq
    <2> QED  BY <1>2, <2>1, <2>3 DEF Unexpected
  <1>3. CASE ~(m.seq > s.inSeq)
    BY <1>3, TooLowHandled DEF Unexpected
  <1> QED  BY <1>2, <1>3

LEMMA SendAsHandled ==
    ASSUME NEW s \in Sessions, NEW m, NEW x \in Message, x.type = "GapFill",
           m.type = "ResendRequest", m.ref \in Nat, x.ref = m.end + 1
    PROVE  Handled(s, m, SendAs(s, x, m.ref))
  <1> DEFINE seq == m.ref
             y == [x EXCEPT !.seq = seq]
             w == Append(s.wire, y)
             t == [s EXCEPT !.wire = w, !.tx = s.now]
  <1> HIDE DEF seq
  <1>1. y \in Message /\ y.type = "GapFill" /\ y.seq = m.ref /\ y.ref = m.end + 1
    BY DEF Message, seq
  <1> HIDE DEF y
  <1>2. w \in Seq(Message) /\ s.now \in Nat
    BY <1>1 DEF Sessions
  <1>3. w = Append(s.wire, y)
    OBVIOUS
  <1> HIDE DEF w
  <1>4. /\ t \in Sessions /\ t.now = s.now /\ t.rx = s.rx
        /\ t.tr = s.tr /\ t.tx = s.now /\ t.testId = s.testId
        /\ t.trPending = s.trPending /\ t.active = s.active /\ t.grace = s.grace
        /\ t.lost = s.lost
        /\ t.wire = w /\ t.outSeq = s.outSeq
    BY <1>2 DEF Sessions
  <1> HIDE DEF t
  <1>5. Requested(s, m, y) /\ Numbered(s, m, y, t)
    BY <1>1, <1>4 DEF Requested, Numbered
  <1>6. Handled(s, m, t)
    BY <1>1, <1>3, <1>4, <1>5 DEF Handled
  <1> QED  BY <1>6 DEF SendAs, t, w, y, seq

LEMMA OnGapFillHandled ==
    ASSUME NEW s \in Sessions, NEW m \in Message, s.inSeq > 0, clock \in Nat
    PROVE  Handled(s, m, OnGapFill(s, m))
  <1>1. s.inSeq - 1 \in Nat /\ s.inSeq \in Nat /\ m.seq \in Nat /\ m.ref \in Int
    BY SMTT(30) DEF Sessions, Message
  <1>2. CASE m.seq > s.inSeq
    <2> DEFINE t == ResendRequest(s, s.inSeq, m.seq)
    <2>1. Handled(s, m, t) /\ t.inSeq = s.inSeq
      BY <1>1, <1>2, ResendRequestHandled
    <2>2. Handled(s, m, [t EXCEPT !.inSeq = s.inSeq - 1])
      BY <1>1, <2>1, ThenInSeq
    <2>3. OnGapFill(s, m) = [t EXCEPT !.inSeq = s.inSeq - 1]
      BY <1>1, <1>2, <2>1 DEF OnGapFill
    <2> QED  BY <2>2, <2>3
  <1>3. CASE m.seq < s.inSeq
    <2>1. OnGapFill(s, m) = TooLow(s, m)
      BY <1>1, <1>3 DEF OnGapFill
    <2> QED  BY <2>1, TooLowHandled
  <1>4. CASE m.seq = s.inSeq /\ m.ref > m.seq
    <2>1. OnGapFill(s, m) = [s EXCEPT !.inSeq = m.ref - 1] /\ m.ref - 1 \in Nat
      BY <1>1, <1>4 DEF OnGapFill
    <2> QED  BY <2>1, SameHandled, ThenInSeq
  <1>5. CASE m.seq = s.inSeq /\ ~(m.ref > m.seq)
    <2>1. OnGapFill(s, m) = Send(s, Msg("Reject", m.seq))
      BY <1>1, <1>5 DEF OnGapFill
    <2>2. "Reject" \in Types /\ m.seq \in Int
      BY <1>1 DEF Types
    <2>3. Msg("Reject", m.seq) \in Message /\ Msg("Reject", m.seq).type = "Reject"
      BY <2>2, MsgType
    <2> QED  BY <2>1, <2>3, SendHandled DEF Requested
  <1> QED  BY <1>1, <1>2, <1>3, <1>4, <1>5

LEMMA OnResetHandled ==
    ASSUME NEW s \in Sessions, NEW m \in Message, s.inSeq > 0
    PROVE  Handled(s, m, OnReset(s, m))
  <1>1. s.inSeq - 1 \in Nat /\ s.inSeq \in Nat /\ s.inSeq \in Int /\ m.ref \in Int
    BY DEF Sessions, Message
  <1>2. CASE m.ref > s.inSeq
    <2>1. OnReset(s, m) = [s EXCEPT !.inSeq = m.ref - 1] /\ m.ref - 1 \in Nat
      BY <1>1, <1>2 DEF OnReset
    <2> QED  BY <2>1, SameHandled, ThenInSeq
  <1>3. CASE m.ref < s.inSeq
    <2>1. OnReset(s, m) = Send([s EXCEPT !.inSeq = s.inSeq - 1], Msg("Reject", s.inSeq))
      BY <1>1, <1>3 DEF OnReset
    <2>2. "Reject" \in Types
      BY DEF Types
    <2>3. Msg("Reject", s.inSeq) \in Message /\ Msg("Reject", s.inSeq).type = "Reject"
      BY <1>1, <2>2, MsgType
    <2> QED  BY <1>1, <2>1, <2>3, InSeqThenSend
  <1>4. CASE m.ref = s.inSeq
    BY <1>1, <1>4, SameHandled DEF OnReset
  <1> QED  BY <1>1, <1>2, <1>3, <1>4

\* A resend request of the peer has a number to resend from.
Answerable(m) == m.type = "ResendRequest" => m.ref \in Nat

LEMMA AdminHandled ==
    ASSUME NEW s \in Sessions, NEW m \in Message, s.inSeq > 0, clock \in Nat,
           m.type \in AdminTypes \/ ~Expected(s, m), Answerable(m)
    PROVE  Handled(s, m, Admin(s, m))
  <1>1. CASE ~Expected(s, m)
    BY <1>1, UnexpectedHandled DEF Admin
  <1>2. CASE Expected(s, m) /\ m.type = "Heartbeat"
    <2> DEFINE t == [s EXCEPT !.trPending = FALSE]
    <2>1. /\ t \in Sessions /\ t.now = s.now /\ t.rx = s.rx
          /\ t.tr = s.tr /\ t.tx = s.tx /\ t.testId = s.testId
          /\ ~t.trPending /\ t.active = s.active /\ t.grace = s.grace
          /\ t.lost = s.lost
          /\ t.wire = s.wire /\ t.outSeq = s.outSeq
      BY DEF Sessions
    <2> HIDE DEF t
    <2>2. Handled(s, m, t)
      BY <2>1 DEF Handled
    <2>3. Admin(s, m) \in {s, t}
      BY <1>2 DEF Admin, OnHeartbeat, t
    <2> QED  BY <2>2, <2>3, SameHandled
  <1>3. CASE Expected(s, m) /\ m.type = "TestRequest"
    <2>1. Admin(s, m) = Send(s, Msg("Heartbeat", m.ref)) /\ m.ref \in Int
      BY <1>3 DEF Admin, Message
    <2>2. /\ Msg("Heartbeat", m.ref) \in Message
          /\ Msg("Heartbeat", m.ref).type = "Heartbeat"
      BY <2>1, MsgType DEF Types, AdminTypes
    <2> QED  BY <2>1, <2>2, SendHandled DEF Requested
  <1>4. CASE Expected(s, m) /\ m.type = "ResendRequest"
    <2>1. /\ Admin(s, m) = SendAs(s, Msg("GapFill", m.end + 1), m.ref)
          /\ m.ref \in Nat /\ m.end + 1 \in Int
      BY <1>4 DEF Admin, OnResendRequest, Answerable, Message
    <2>2. /\ Msg("GapFill", m.end + 1) \in Message
          /\ Msg("GapFill", m.end + 1).type = "GapFill"
          /\ Msg("GapFill", m.end + 1).ref = m.end + 1
      BY <2>1, MsgType DEF Types, AdminTypes
    <2> QED  BY <1>4, <2>1, <2>2, SendAsHandled
  <1>5. CASE Expected(s, m) /\ m.type = "GapFill"
    BY <1>5, OnGapFillHandled DEF Admin
  <1>6. CASE Expected(s, m) /\ m.type = "Reset"
    BY <1>6, OnResetHandled DEF Admin
  <1> QED  BY <1>1, <1>2, <1>3, <1>4, <1>5, <1>6 DEF AdminTypes

-----------------------------------------------------------------------------
(* What the peer sends again.                                              *)

LEMMA LeastNumber ==
    ASSUME NEW S \in SUBSET Nat, S # {}
    PROVE  \E x \in S : \A y \in S : x <= y
  <1>1. PICK x \in S : \A y \in S : ~(<<y, x>> \in OpToRel(<, Nat))
    BY NatLessThanWellFounded, WFMin
  <1>2. ASSUME NEW y \in S PROVE x <= y
    <2>1. y \in Nat /\ x \in Nat /\ <<y, x>> \in Nat \X Nat
      OBVIOUS
    <2>2. ~(y < x)
      BY <1>1, <2>1 DEF OpToRel
    <2> QED  BY <2>1, <2>2
  <1> QED  BY <1>2

Logs == Seq({"App", "Admin"})

\* Numbers from which on up to another one a log has no application message.
NoApp(log, from, to) == from < to /\ to <= Len(log) + 1 /\ \A i \in from .. to - 1 : log[i] # "App"

\* Messages as they are sent again for messages of a log: an application message as
\* it was, or a gap fill for a run of others.
ResentFor(log, m) ==
    /\ m.seq \in DOMAIN log /\ m.dup
    /\ \/ m.type = "App" /\ log[m.seq] = "App"
       \/ m.type = "GapFill" /\ NoApp(log, m.seq, m.ref)
Resends(log) == {q \in Seq(Message) : \A k \in DOMAIN q : ResentFor(log, q[k])}

LEMMA NextAppFacts ==
    ASSUME NEW log, NEW to \in Nat, NEW n \in 1 .. to
    PROVE  /\ NextApp(log, to, n) \in n .. to + 1
           /\ NextApp(log, to, n) = to + 1 \/ log[NextApp(log, to, n)] = "App"
           /\ \A j \in n .. NextApp(log, to, n) - 1 : log[j] # "App"
  <1> DEFINE S == {k \in n .. to + 1 : k = to + 1 \/ log[k] = "App"}
  <1>1. S \in SUBSET Nat /\ to + 1 \in S
    OBVIOUS
  <1>2. PICK k \in S : \A j \in S : k <= j
    BY <1>1, LeastNumber
  <1>3. k \in n .. to + 1 /\ (k = to + 1 \/ log[k] = "App")
    OBVIOUS
  <1>4. ASSUME NEW j \in n .. k - 1 PROVE log[j] # "App"
    <2>1. j \in n .. to + 1 /\ ~(k <= j)
      BY <1>3
    <2> QED  BY <1>2, <2>1
  <1> QED  BY <1>3, <1>4 DEF NextApp

LEMMA AgainFacts ==
    ASSUME NEW log \in Logs, NEW m \in Message, NEW n \in 1 .. Len(log), NEW q \in Resends(log),
           \/ m.type = "App" /\ log[n] = "App"
           \/ m.type = "GapFill" /\ NoApp(log, n, m.ref)
    PROVE  Again(m, n) \o q \in Resends(log)
  <1> DEFINE x == [m EXCEPT !.seq = n, !.dup = TRUE]
  <1>0. Len(log) \in Nat /\ n \in Nat /\ n <= Len(log) /\ n \in DOMAIN log
    BY DEF Logs
  <1>1. x \in Message /\ x.seq = n /\ x.type = m.type /\ x.ref = m.ref /\ x.dup
    <2> HIDE DEF Logs, Resends
    <2> QED  BY <1>0 DEF Message
  <1> HIDE DEF x
  <1>2. <<x>> \in Seq(Message) /\ q \in Seq(Message)
    BY <1>1 DEF Resends
  <1>3. /\ <<x>> \o q \in Seq(Message)
        /\ \A k \in DOMAIN (<<x>> \o q) :
              (<<x>> \o q)[k] = x \/ \E j \in DOMAIN q : (<<x>> \o q)[k] = q[j]
    BY <1>2
  <1>4. \A j \in DOMAIN q : ResentFor(log, q[j])
    BY DEF Resends
  <1>5. ResentFor(log, x)
    BY <1>0, <1>1 DEF ResentFor
  <1>6. <<x>> \o q \in Resends(log)
    BY <1>3, <1>4, <1>5 DEF Resends
  <1> QED  BY <1>6 DEF Again, x

\* What is sent again for message n depends on what is for the later ones only.
LEMMA ResentFromFacts ==
    ASSUME NEW log \in Logs, NEW to \in 0 .. Len(log), NEW n \in 1 .. to + 1, NEW g
    PROVE  /\ (\A m \in n + 1 .. to + 1 : g[m] \in Resends(log))
                 => ResentFrom(log, to, g, n) \in Resends(log)
           /\ \A h : (\A m \in n + 1 .. to + 1 : g[m] = h[m])
                 => ResentFrom(log, to, g, n) = ResentFrom(log, to, h, n)
  <1>0. Len(log) \in Nat
    BY DEF Logs
  <1>1. CASE n = to + 1
    <2>1. << >> \in Resends(log)
      BY DEF Resends
    <2>2. \A h : ResentFrom(log, to, h, n) = << >>
      BY <1>1 DEF ResentFrom
    <2> QED  BY <2>1, <2>2
  <1>2. CASE n # to + 1
    <2> DEFINE next == NextApp(log, to, n)
    <2>1. /\ next \in n .. to + 1 /\ n \in 1 .. to /\ (next = to + 1 \/ log[next] = "App")
          /\ \A j \in n .. next - 1 : log[j] # "App"
      BY <1>0, <1>2, NextAppFacts
    <2>2. CASE next = n
      <3>1. \A h : ResentFrom(log, to, h, n) = Again(Msg("App", NONE), n) \o h[n + 1]
        BY SMTT(30), <1>0, <1>2, <2>1, <2>2 DEF ResentFrom
      <3>2. Msg("App", NONE) \in Message /\ Msg("App", NONE).type = "App"
        BY NoneType, MsgType DEF Types
      <3>3. n + 1 \in n + 1 .. to + 1 /\ n \in 1 .. Len(log) /\ log[n] = "App"
        BY <1>0, <2>1, <2>2
      <3> QED  BY <3>1, <3>2, <3>3, AgainFacts
    <2>3. CASE next # n
      <3> HIDE DEF next
      <3>1. \A h : ResentFrom(log, to, h, n) = Again(Msg("GapFill", next), n) \o h[next]
        BY <1>0, <1>2, <2>1, <2>3 DEF ResentFrom, next
      <3>2. /\ next \in n + 1 .. to + 1 /\ n \in 1 .. Len(log) /\ next \in Int
            /\ n < next /\ next <= Len(log) + 1
        BY <1>0, <2>1, <2>3
      <3>4. NoApp(log, n, next)
        BY <2>1, <3>2 DEF NoApp, next
      <3>3. /\ Msg("GapFill", next) \in Message /\ Msg("GapFill", next).type = "GapFill"
            /\ Msg("GapFill", next).ref = next
        BY <3>2, MsgType DEF Types, AdminTypes
      <3> QED  BY <3>1, <3>2, <3>3, <3>4, AgainFacts
    <2> QED  BY <2>2, <2>3
  <1> QED  BY <1>1, <1>2

\* What is sent again is found by recursion, which goes up to the end of the log: the
\* induction is on the distance from there.
LEMMA ResentSolved ==
    ASSUME NEW log \in Logs, NEW bgn \in 1 .. Len(log), NEW end \in Nat,
           end = 0 \/ end >= bgn
    PROVE  \E f : /\ Resent(log, bgn, end) = f[bgn]
                  /\ \A n \in bgn .. ResendEnd(log, end) + 1 :
                        f[n] = ResentFrom(log, ResendEnd(log, end), f, n) /\ f[n] \in Resends(log)
  <1> DEFINE to == ResendEnd(log, end)
             D == bgn .. to + 1
             Solves(g, n) == g[n] = ResentFrom(log, to, g, n)
             Solved(j) == \E g \in [D -> Resends(log)] : \A n \in to + 1 - j .. to + 1 : Solves(g, n)
  <1>1. to \in bgn .. Len(log) /\ Len(log) \in Nat /\ to \in 0 .. Len(log) /\ D \subseteq 1 .. to + 1
    BY DEF ResendEnd, Logs
  <1> HIDE DEF to
  <1>2. Solved(to + 1 - bgn)
    <2> DEFINE Bad == {j \in 0 .. to + 1 - bgn : ~Solved(j)}
    <2>1. ASSUME NEW j \in Bad, \A i \in Bad : j <= i PROVE FALSE
      <3> DEFINE n0 == to + 1 - j
      <3>1. n0 \in D /\ n0 \in 1 .. to + 1 /\ j \in 0 .. to + 1 - bgn
        BY <1>1
      <3>2. \E g \in [D -> Resends(log)] : \A n \in n0 + 1 .. to + 1 : Solves(g, n)
        <4>1. CASE j = 0
          <5>1. << >> \in Resends(log)
            BY DEF Resends
          <5>2. [n \in D |-> << >>] \in [D -> Resends(log)]
            BY <5>1
          <5>3. n0 + 1 .. to + 1 = {}
            BY <1>1, <4>1
          <5> QED  BY <5>2, <5>3
        <4>2. CASE j # 0
          <5>1. j - 1 \in 0 .. to + 1 - bgn /\ ~(j <= j - 1)
            BY <1>1, <3>1, <4>2
          <5>2. Solved(j - 1)
            BY <2>1, <5>1
          <5>3. to + 1 - (j - 1) = n0 + 1
            BY <1>1, <3>1
          <5> QED  BY <5>2, <5>3
        <4> QED  BY <4>1, <4>2
      <3>3. PICK g \in [D -> Resends(log)] : \A n \in n0 + 1 .. to + 1 : Solves(g, n)
        BY <3>2
      <3> DEFINE h == [g EXCEPT ![n0] = ResentFrom(log, to, g, n0)]
      <3>4. \A n \in n0 + 1 .. to + 1 : n \in D /\ n # n0
        BY <1>1, <3>1
      <3>5. ResentFrom(log, to, g, n0) \in Resends(log)
        BY <1>1, <3>1, <3>4, ResentFromFacts
      <3>6. /\ h \in [D -> Resends(log)] /\ h[n0] = ResentFrom(log, to, g, n0)
            /\ \A n \in n0 + 1 .. to + 1 : h[n] = g[n]
        BY <3>1, <3>4, <3>5
      <3> HIDE DEF h
      <3>7. ASSUME NEW n \in n0 .. to + 1 PROVE Solves(h, n)
        <4>1. n \in 1 .. to + 1 /\ \A m \in n + 1 .. to + 1 : m \in n0 + 1 .. to + 1
          BY <1>1, <3>1
        <4>2. ResentFrom(log, to, h, n) = ResentFrom(log, to, g, n)
          BY <1>1, <3>6, <4>1, ResentFromFacts
        <4>3. CASE n = n0
          BY <3>6, <4>2, <4>3
        <4>4. CASE n # n0
          <5>1. n \in n0 + 1 .. to + 1
            BY <1>1, <3>1, <4>4
          <5> QED  BY <3>3, <3>6, <4>2, <5>1
        <4> QED  BY <4>3, <4>4
      <3>8. Solved(j)
        BY <3>6, <3>7
      <3> QED  BY <3>8
    <2>2. Bad = {}
      <3> HIDE DEF Solved
      <3>1. Bad \in SUBSET Nat
        BY <1>1
      <3> QED  BY <2>1, <3>1, LeastNumber
    <2>3. to + 1 - bgn \in 0 .. to + 1 - bgn
      BY <1>1
    <2> QED  BY <2>2, <2>3
  <1>3. \E g : g = [n \in D |-> ResentFrom(log, to, g, n)]
    <2>1. PICK g \in [D -> Resends(log)] : \A n \in to + 1 - (to + 1 - bgn) .. to + 1 : Solves(g, n)
      BY <1>2
    <2>2. to + 1 - (to + 1 - bgn) = bgn
      BY <1>1
    <2>3. \A n \in D : g[n] = ResentFrom(log, to, g, n)
      BY <2>1, <2>2
    <2>4. g = [n \in D |-> g[n]]
      OBVIOUS
    <2> QED  BY <2>3, <2>4
  <1> DEFINE f == CHOOSE g : g = [n \in D |-> ResentFrom(log, to, g, n)]
  <1>4. f = [n \in D |-> ResentFrom(log, to, f, n)]
    BY <1>3
  <1>5. Resent(log, bgn, end) = f[bgn]
    BY DEF Resent, to
  <1> HIDE DEF f
  <1>6. \A n \in D : f[n] = ResentFrom(log, to, f, n)
    BY <1>4
  <1> DEFINE Wrong == {j \in 0 .. to + 1 - bgn : f[to + 1 - j] \notin Resends(log)}
  <1>7. ASSUME NEW j \in Wrong, \A i \in Wrong : j <= i PROVE FALSE
    <2> DEFINE n0 == to + 1 - j
    <2>1. n0 \in D /\ n0 \in 1 .. to + 1
      BY <1>1
    <2>2. ASSUME NEW m \in n0 + 1 .. to + 1 PROVE f[m] \in Resends(log)
      <3>1. to + 1 - m \in 0 .. to + 1 - bgn /\ ~(j <= to + 1 - m) /\ to + 1 - (to + 1 - m) = m
        BY <1>1
      <3> QED  BY <1>7, <3>1
    <2>3. f[n0] \in Resends(log)
      BY <1>1, <1>6, <2>1, <2>2, ResentFromFacts
    <2> QED  BY <2>3
  <1>8. Wrong = {}
    <2>1. Wrong \in SUBSET Nat
      BY <1>1
    <2> QED  BY <1>7, <2>1, LeastNumber
  <1>9. ASSUME NEW n \in D PROVE f[n] \in Resends(log)
    <2>1. to + 1 - n \in 0 .. to + 1 - bgn /\ to + 1 - (to + 1 - n) = n
      BY <1>1
    <2> QED  BY <1>8, <2>1
  <1> QED  BY <1>5, <1>6, <1>9 DEF to

\* What a resend sends again are messages of the log.
LEMMA ResentFacts ==
    ASSUME NEW log \in Logs, NEW bgn \in 1 .. Len(log), NEW end \in Nat,
           end = 0 \/ end >= bgn
    PROVE  Resent(log, bgn, end) \in Resends(log)
  <1>1. PICK f : /\ Resent(log, bgn, end) = f[bgn]
                 /\ \A n \in bgn .. ResendEnd(log, end) + 1 : f[n] \in Resends(log)
    BY ResentSolved
  <1>2. bgn \in bgn .. ResendEnd(log, end) + 1
    BY DEF ResendEnd, Logs
  <1> QED  BY <1>1, <1>2

-----------------------------------------------------------------------------
(* Types.                                                                  *)

\* A resend request on its way names messages the peer has sent, n of them ...
Requests(wire, n) ==
    \A k \in DOMAIN wire :
       wire[k].type = "ResendRequest" =>
          wire[k].ref \in 1 .. n /\ (wire[k].end = 0 \/ wire[k].end >= wire[k].ref)

\* ... and one of a peer p, whose messages have the numbers of its log, starts at a
\* number.
Sound(p) ==
    \A k \in DOMAIN p.wire : p.wire[k].seq <= Len(p.log) /\ Answerable(p.wire[k])

TypeInv == TypeOK /\ Requests(session.wire, Len(peer.log)) /\ Sound(peer)

\* Peer q is p after a step of its own.
Continues(p, q) == q \in Peers /\ Sound(q) /\ Len(p.log) <= Len(q.log)

LEMMA ContinuesTrans ==
    ASSUME NEW p \in Peers, NEW q, NEW r, Continues(p, q), Continues(q, r)
    PROVE  Continues(p, r)
  <1>1. Len(p.log) \in Nat /\ Len(q.log) \in Nat /\ Len(r.log) \in Nat
    BY DEF Continues, Peers
  <1> QED  BY <1>1 DEF Continues

LEMMA PeerSendFacts ==
    ASSUME NEW p \in Peers, Sound(p), NEW m \in Message, Answerable(m)
    PROVE  Continues(p, PeerSend(p, m))
  <1> DEFINE x == [m EXCEPT !.seq = Len(p.log) + 1]
             w == Append(p.wire, x)
             l == Append(p.log, IF m.type = "App" THEN "App" ELSE "Admin")
             q == [p EXCEPT !.wire = w, !.log = l]
  <1>1. Len(p.log) \in Nat /\ p.wire \in Seq(Message)
    BY DEF Peers
  <1>2. x \in Message /\ x.seq = Len(p.log) + 1 /\ x.type = m.type /\ x.ref = m.ref
    BY <1>1 DEF Message
  <1>3. l \in Logs /\ Len(l) = Len(p.log) + 1
    BY DEF Peers, Logs
  <1> HIDE DEF x, l
  <1>4. /\ w \in Seq(Message)
        /\ \A k \in DOMAIN w : w[k] = x \/ (k \in DOMAIN p.wire /\ w[k] = p.wire[k])
    BY <1>1, <1>2
  <1> HIDE DEF w
  <1>5. q \in Peers /\ q.wire = w /\ q.log = l
    BY <1>3, <1>4 DEF Peers, Logs
  <1> HIDE DEF q
  <1>6. ASSUME NEW k \in DOMAIN w PROVE w[k].seq <= Len(l) /\ Answerable(w[k])
    <2>1. CASE w[k] = x
      BY <1>2, <1>3, <2>1, <1>1 DEF Answerable
    <2>2. CASE k \in DOMAIN p.wire /\ w[k] = p.wire[k]
      <3>0. p.wire[k] \in Message
        BY <1>1, <2>2
      <3>1. p.wire[k].seq \in Nat
        BY <3>0 DEF Message
      <3> QED  BY <1>1, <1>3, <2>2, <3>1 DEF Sound
    <2> QED  BY <1>4, <2>1, <2>2
  <1>7. Continues(p, q)
    BY <1>1, <1>3, <1>5, <1>6 DEF Continues, Sound
  <1> QED  BY <1>7 DEF PeerSend, q, w, l, x

LEMMA PeerFieldFacts ==
    ASSUME NEW p \in Peers, Sound(p)
    PROVE  /\ Continues(p, p)
           /\ Continues(p, [p EXCEPT !.alive = FALSE])
           /\ \A n \in Nat : Continues(p, [p EXCEPT !.expects = n])
           /\ \A r \in {"none", "bounded", "open"} : Continues(p, [p EXCEPT !.resend = r])
           /\ \A n \in Nat : Continues(p, [p EXCEPT !.expects = n, !.resend = "none"])
  <1>1. Len(p.log) \in Nat
    BY DEF Peers
  <1>0. \A q \in Peers : q.wire = p.wire /\ q.log = p.log => Continues(p, q)
    BY <1>1 DEF Continues, Sound
  <1>2. Continues(p, p)
    BY <1>0
  <1>3. Continues(p, [p EXCEPT !.alive = FALSE])
    <2>1. /\ [p EXCEPT !.alive = FALSE] \in Peers
          /\ [p EXCEPT !.alive = FALSE].wire = p.wire
          /\ [p EXCEPT !.alive = FALSE].log = p.log
      BY DEF Peers
    <2> QED  BY <1>0, <2>1
  <1>4. ASSUME NEW n \in Nat PROVE Continues(p, [p EXCEPT !.expects = n])
    <2>1. /\ [p EXCEPT !.expects = n] \in Peers
          /\ [p EXCEPT !.expects = n].wire = p.wire
          /\ [p EXCEPT !.expects = n].log = p.log
      BY DEF Peers
    <2> QED  BY <1>0, <2>1
  <1>5. ASSUME NEW n \in Nat PROVE Continues(p, [p EXCEPT !.expects = n, !.resend = "none"])
    <2>1. /\ [p EXCEPT !.expects = n, !.resend = "none"] \in Peers
          /\ [p EXCEPT !.expects = n, !.resend = "none"].wire = p.wire
          /\ [p EXCEPT !.expects = n, !.resend = "none"].log = p.log
      BY DEF Peers
    <2> QED  BY <1>0, <2>1
  <1>6. ASSUME NEW r \in {"none", "bounded", "open"}
        PROVE  Continues(p, [p EXCEPT !.resend = r])
    <2>1. /\ [p EXCEPT !.resend = r] \in Peers
          /\ [p EXCEPT !.resend = r].wire = p.wire
          /\ [p EXCEPT !.resend = r].log = p.log
      BY DEF Peers
    <2> QED  BY <1>0, <2>1
  <1> QED  BY <1>2, <1>3, <1>4, <1>5, <1>6

LEMMA PeerResendFacts ==
    ASSUME NEW p \in Peers, Sound(p), NEW bgn \in 1 .. Len(p.log), NEW end \in Nat,
           end = 0 \/ end >= bgn
    PROVE  Continues(p, [p EXCEPT !.wire = p.wire \o Resent(p.log, bgn, end)])
  <1> DEFINE a == Resent(p.log, bgn, end)
             w == p.wire \o a
             q == [p EXCEPT !.wire = w]
  <1>1. Len(p.log) \in Nat /\ p.log \in Logs /\ p.wire \in Seq(Message)
    BY DEF Peers, Logs
  <1>2. a \in Resends(p.log)
    BY <1>1, ResentFacts
  <1> HIDE DEF a
  <1>3. /\ a \in Seq(Message)
        /\ \A k \in DOMAIN a : a[k].seq <= Len(p.log) /\ a[k].type \in {"App", "GapFill"}
    BY <1>2 DEF Resends, ResentFor
  <1>4. /\ w \in Seq(Message)
        /\ \A k \in DOMAIN w : \/ k \in DOMAIN p.wire /\ w[k] = p.wire[k]
                               \/ \E j \in DOMAIN a : w[k] = a[j]
    BY <1>1, <1>3
  <1> HIDE DEF w
  <1>5. q \in Peers /\ q.wire = w /\ q.log = p.log
    BY <1>4 DEF Peers
  <1> HIDE DEF q
  <1>6. ASSUME NEW k \in DOMAIN w PROVE w[k].seq <= Len(p.log) /\ Answerable(w[k])
    BY <1>3, <1>4 DEF Sound, Answerable
  <1>7. Continues(p, q)
    BY <1>1, <1>5, <1>6 DEF Continues, Sound
  <1> QED  BY <1>7 DEF q, w, a

LEMMA ReplyFacts ==
    ASSUME NEW p \in Peers, Sound(p), NEW m \in Message,
           m.type = "ResendRequest" =>
              m.ref \in 1 .. Len(p.log) /\ (m.end = 0 \/ m.end >= m.ref)
    PROVE  Continues(p, Reply(p, m))
  <1>0. m.ref \in Int /\ m.end \in Nat
    BY DEF Message
  <1>1. \A type \in {"Logon", "Heartbeat", "Logout"}, ref \in Int :
           Continues(p, PeerSend(p, Msg(type, ref)))
    BY MsgType, PeerSendFacts DEF Types, AdminTypes, Answerable
  <1>2. CASE m.type = "Logon"
    BY <1>1, <1>2, NoneType DEF Reply
  <1>3. CASE m.type = "TestRequest"
    BY <1>0, <1>1, <1>3 DEF Reply
  <1>4. CASE m.type = "Logout"
    BY <1>1, <1>4, NoneType DEF Reply
  <1>5. CASE m.type = "ResendRequest"
    BY <1>0, <1>5, PeerResendFacts DEF Reply
  <1>6. CASE m.type \notin {"Logon", "TestRequest", "Logout", "ResendRequest"}
    BY <1>6, PeerFieldFacts DEF Reply
  <1> QED  BY <1>2, <1>3, <1>4, <1>5, <1>6

LEMMA AfterReadingFacts ==
    ASSUME NEW p \in Peers, Sound(p), NEW m \in Message, NEW end \in Nat,
           m.type = "ResendRequest" =>
              m.ref \in 1 .. Len(p.log) /\ (m.end = 0 \/ m.end >= m.ref)
    PROVE  Continues(p, AfterReading(p, m, end))
  <1>0. m.ref \in Int /\ m.seq \in Nat /\ p.expects \in Nat /\ p.expects \in Int
    BY DEF Message, Peers
  <1>1. Continues(p, p) /\ Continues(p, Reply(p, m))
    BY PeerFieldFacts, ReplyFacts
  <1>2. Continues(p, Reply([p EXCEPT !.expects = p.expects + 1], m))
    <2> DEFINE q == [p EXCEPT !.expects = p.expects + 1]
    <2>1. p.expects + 1 \in Nat
      BY <1>0
    <2>2. Continues(p, q) /\ q.log = p.log
      BY <2>1, PeerFieldFacts DEF Peers
    <2> HIDE DEF q
    <2>3. Continues(q, Reply(q, m))
      BY <2>2, ReplyFacts DEF Continues
    <2>4. Continues(p, Reply(q, m))
      BY <2>2, <2>3, ContinuesTrans
    <2> QED  BY <2>4 DEF q
  <1>3. \A r \in {"none", "bounded", "open"} :
           Continues(p, [PeerSend(p, [Msg("ResendRequest", p.expects) EXCEPT !.end = end])
                           EXCEPT !.resend = r])
    <2> DEFINE q == Msg("ResendRequest", p.expects)
               x == [q EXCEPT !.end = end]
    <2>1. q \in Message /\ q.ref = p.expects
      BY <1>0, MsgType DEF Types, AdminTypes
    <2>2. x \in Message /\ Answerable(x)
      BY <1>0, <2>1 DEF Message, Answerable
    <2> HIDE DEF x
    <2>3. Continues(p, PeerSend(p, x))
      BY <2>2, PeerSendFacts
    <2>4. \A r \in {"none", "bounded", "open"} :
             Continues(PeerSend(p, x), [PeerSend(p, x) EXCEPT !.resend = r])
      BY <2>3, PeerFieldFacts DEF Continues
    <2>5. \A r \in {"none", "bounded", "open"} : Continues(p, [PeerSend(p, x) EXCEPT !.resend = r])
      BY <2>3, <2>4, ContinuesTrans
    <2> QED  BY <2>5 DEF x
  <1>4. m.ref > m.seq => Continues(p, [p EXCEPT !.expects = m.ref, !.resend = "none"])
    <2>1. m.ref > m.seq => m.ref \in Nat
      BY <1>0
    <2> QED  BY <2>1, PeerFieldFacts
  <1>5. Continues(p, AfterGap(p, m, end))
    BY <1>1, <1>3 DEF AfterGap
  <1> QED  BY <1>1, <1>2, <1>4, <1>5 DEF AfterReading

LEMMA RequestsGrow ==
    ASSUME NEW wire, NEW n \in Nat, NEW l \in Nat, Requests(wire, n), n <= l
    PROVE  Requests(wire, l)
  BY DEF Requests

LEMMA RequestsAppend ==
    ASSUME NEW wire \in Seq(Message), NEW n \in Nat, Requests(wire, n), NEW x \in Message,
           x.type = "ResendRequest" => x.ref \in 1 .. n /\ (x.end = 0 \/ x.end >= x.ref)
    PROVE  Requests(Append(wire, x), n)
  <1>1. \A k \in DOMAIN Append(wire, x) :
           Append(wire, x)[k] = x \/ (k \in DOMAIN wire /\ Append(wire, x)[k] = wire[k])
    OBVIOUS
  <1> QED  BY <1>1 DEF Requests

LEMMA RequestsTail ==
    ASSUME NEW wire \in Seq(Message), NEW n \in Nat, Requests(wire, n), wire # << >>
    PROVE  Requests(Tail(wire), n)
  <1>1. \A k \in DOMAIN Tail(wire) : k + 1 \in DOMAIN wire /\ Tail(wire)[k] = wire[k + 1]
    OBVIOUS
  <1> QED  BY <1>1 DEF Requests

\* A session handles messages the peer has sent: what it asks for is there.
LEMMA HandledRequests ==
    ASSUME NEW s \in Sessions, s.inSeq > 0, NEW m \in Message, NEW n \in Nat, m.seq <= n,
           NEW t, Handled(s, m, t), Requests(s.wire, n)
    PROVE  Requests(t.wire, n)
  <1>1. s.inSeq \in Nat /\ m.seq \in Nat /\ s.wire \in Seq(Message)
    BY DEF Sessions, Message
  <1>2. CASE t.wire = s.wire
    BY <1>2
  <1>3. ASSUME NEW x \in Message, t.wire = Append(s.wire, x), Requested(s, m, x)
        PROVE  Requests(t.wire, n)
    <2>1. x.type = "ResendRequest" => x.ref \in 1 .. n /\ (x.end = 0 \/ x.end >= x.ref)
      BY <1>1, <1>3 DEF Requested
    <2> QED  BY <1>1, <1>3, <2>1, RequestsAppend
  <1> QED  BY <1>2, <1>3 DEF Handled

LEMMA ReadsFacts ==
    ASSUME TypeInv, Reads
    PROVE  /\ Incoming \in Message /\ Incoming.seq <= Len(peer.log) /\ Answerable(Incoming)
           /\ Continues(peer, peer') /\ peer'.log = peer.log /\ peer'.alive = peer.alive
           /\ heard' = IF Incoming.type = "Garbled" THEN heard ELSE clock
           /\ heard' \in Nat
           /\ read' \in Seq(Types \X Nat)
  <1>1. peer \in Peers /\ peer.wire \in Seq(Message) /\ peer.wire # << >>
    BY DEF TypeInv, TypeOK, Reads, Peers
  <1>2. Incoming = peer.wire[1] /\ 1 \in DOMAIN peer.wire
    BY <1>1 DEF Incoming
  <1>3. Incoming \in Message
    BY <1>1, <1>2
  <1>4. Incoming.seq <= Len(peer.log) /\ Answerable(Incoming)
    BY <1>2 DEF TypeInv, Sound
  <1> DEFINE w == Tail(peer.wire)
  <1>5. w \in Seq(Message) /\ \A k \in DOMAIN w : k + 1 \in DOMAIN peer.wire /\ w[k] = peer.wire[k + 1]
    BY <1>1
  <1> HIDE DEF w
  <1>6. peer' = [peer EXCEPT !.wire = w]
    BY DEF Reads, w
  <1>7. peer' \in Peers /\ peer'.wire = w /\ peer'.log = peer.log /\ peer'.alive = peer.alive
    BY <1>1, <1>5, <1>6 DEF Peers
  <1>8. Sound(peer')
    BY <1>5, <1>7 DEF TypeInv, Sound
  <1>9. Len(peer.log) \in Nat
    BY <1>1 DEF Peers
  <1>10. Continues(peer, peer')
    BY <1>7, <1>8, <1>9 DEF Continues
  <1>11. read' \in Seq(Types \X Nat)
    <2>1. Incoming.type \in Types /\ Incoming.seq \in Nat /\ read \in Seq(Types \X Nat)
      BY <1>3 DEF Message, TypeInv, TypeOK
    <2> QED  BY <2>1 DEF Reads
  <1>12. heard' = (IF Incoming.type = "Garbled" THEN heard ELSE clock) /\ heard' \in Nat
    BY SessionAssumption DEF Reads, TypeInv, TypeOK
  <1> QED  BY <1>3, <1>4, <1>7, <1>10, <1>11, <1>12

LEMMA ParsedFacts ==
    ASSUME NEW s \in Sessions
    PROVE  /\ Parsed(s) \in Sessions
           /\ Parsed(s).inSeq = s.inSeq + 1 /\ Parsed(s).inSeq > 0
           /\ Parsed(s).rx = s.now /\ Parsed(s).now = s.now /\ Parsed(s).tx = s.tx
           /\ Parsed(s).tr = s.tr /\ Parsed(s).trPending = s.trPending
           /\ Parsed(s).testId = s.testId /\ Parsed(s).active = s.active
           /\ Parsed(s).outSeq = s.outSeq
           /\ Parsed(s).wire = s.wire /\ Parsed(s).grace = s.grace
           /\ Parsed(s).lost = s.lost
  <1>1. s.inSeq + 1 \in Nat /\ s.inSeq + 1 > 0 /\ s.now \in Nat
    BY DEF Sessions
  <1>2. \A n \in Nat, time \in Nat : [s EXCEPT !.rx = time, !.inSeq = n] \in Sessions
    BY DEF Sessions
  <1>3. Parsed(s) \in Sessions
    BY <1>1, <1>2 DEF Parsed
  <1>4. /\ Parsed(s).inSeq = s.inSeq + 1
        /\ Parsed(s).rx = s.now /\ Parsed(s).now = s.now /\ Parsed(s).tx = s.tx
        /\ Parsed(s).tr = s.tr /\ Parsed(s).trPending = s.trPending
        /\ Parsed(s).testId = s.testId /\ Parsed(s).active = s.active
        /\ Parsed(s).outSeq = s.outSeq
        /\ Parsed(s).wire = s.wire /\ Parsed(s).grace = s.grace
        /\ Parsed(s).lost = s.lost
    BY DEF Sessions, Parsed
  <1> QED  BY <1>1, <1>3, <1>4

LEMMA TestRequestFacts ==
    ASSUME NEW s \in Sessions, NEW n \in Nat, Requests(s.wire, n)
    PROVE  LET t == TestRequest(s)
           IN  /\ t \in Sessions
               /\ t.now = s.now /\ t.rx = s.rx /\ t.tx = s.now /\ t.tr = s.now
               /\ t.trPending /\ t.testId = s.now /\ t.active = s.active
               /\ t.inSeq = s.inSeq /\ t.grace = s.grace
               /\ t.lost = s.lost
               /\ t.outSeq = s.outSeq + 1
               /\ \E x \in Message : /\ t.wire = Append(s.wire, x)
                                     /\ x.type = "TestRequest" /\ x.ref = s.now
                                     /\ x.seq = s.outSeq
               /\ Requests(t.wire, n)
  <1> DEFINE r == [s EXCEPT !.testId = s.now, !.tr = s.now, !.trPending = TRUE]
             q == Msg("TestRequest", s.now)
             x == [q EXCEPT !.seq = r.outSeq]
  <1>1. s.now \in Nat /\ s.now \in Int /\ s.outSeq \in Nat
    BY DEF Sessions
  <1>2. q \in Message /\ q.type = "TestRequest" /\ q.ref = s.now
    BY <1>1, MsgType DEF Types, AdminTypes
  <1>3. /\ r \in Sessions /\ r.now = s.now /\ r.rx = s.rx /\ r.tr = s.now /\ r.trPending
        /\ r.testId = s.now /\ r.active = s.active /\ r.inSeq = s.inSeq
        /\ r.grace = s.grace /\ r.wire = s.wire /\ r.outSeq = s.outSeq
        /\ r.lost = s.lost
    BY <1>1 DEF Sessions
  <1>4. x.type = "TestRequest" /\ x.ref = s.now /\ x.seq = s.outSeq
    BY <1>2, <1>3 DEF Message
  <1> HIDE DEF r, q
  <1>5. /\ Send(r, q) \in Sessions /\ Send(r, q).now = s.now /\ Send(r, q).rx = s.rx
        /\ Send(r, q).tx = s.now /\ Send(r, q).tr = s.now /\ Send(r, q).trPending
        /\ Send(r, q).testId = s.now /\ Send(r, q).active = s.active
        /\ Send(r, q).inSeq = s.inSeq /\ Send(r, q).grace = s.grace
        /\ Send(r, q).lost = s.lost
        /\ Send(r, q).outSeq = s.outSeq + 1
        /\ Send(r, q).wire = Append(s.wire, x) /\ x \in Message
    BY SMTT(30), <1>2, <1>3, SendFacts
  <1> HIDE DEF x
  <1>6. Requests(Append(s.wire, x), n)
    <2>1. s.wire \in Seq(Message)
      BY DEF Sessions
    <2> QED  BY <1>4, <1>5, <2>1, RequestsAppend
  <1>7. TestRequest(s) = Send(r, q)
    BY DEF TestRequest, r, q
  <1> QED  BY <1>4, <1>5, <1>6, <1>7

LEMMA KeptAliveFacts ==
    ASSUME NEW s \in Sessions, NEW n \in Nat, Requests(s.wire, n), clock \in Nat
    PROVE  LET t == KeptAlive(s)
           IN  /\ t \in Sessions
               /\ t.now = s.now /\ t.rx = s.rx /\ t.inSeq = s.inSeq
               /\ t.active = s.active /\ t.grace = s.grace
               /\ t.lost = s.lost
               /\ Requests(t.wire, n)
               /\ Asks(s) => t.trPending /\ t.tr = s.now /\ t.testId = s.now
               /\ ~Asks(s) => t.trPending = s.trPending /\ t.tr = s.tr /\ t.testId = s.testId
               /\ t.tx = s.now \/ (t.tx = s.tx /\ clock - s.tx <= HeartBtInt)
  <1> DEFINE p == IF Asks(s) THEN TestRequest(s) ELSE s
             x == Msg("Heartbeat", NONE)
  <1>1. /\ p \in Sessions
        /\ p.now = s.now /\ p.rx = s.rx /\ p.inSeq = s.inSeq
        /\ p.active = s.active /\ p.grace = s.grace
        /\ p.lost = s.lost
        /\ Requests(p.wire, n)
        /\ Asks(s) => p.trPending /\ p.tr = s.now /\ p.testId = s.now /\ p.tx = s.now
        /\ ~Asks(s) => p = s
    BY TestRequestFacts
  <1>2. x \in Message /\ x.type = "Heartbeat"
    BY NoneType, MsgType DEF Types, AdminTypes
  <1>3. KeptAlive(s) = IF Beats(p) THEN Send(p, x) ELSE p
    BY DEF KeptAlive
  <1> HIDE DEF p, x
  <1>4. CASE Beats(p)
    <2> DEFINE y == [x EXCEPT !.seq = p.outSeq]
    <2>1. y.type = "Heartbeat"
      BY <1>2 DEF Message
    <2> HIDE DEF y
    <2>2. /\ Send(p, x) \in Sessions /\ Send(p, x).now = p.now /\ Send(p, x).rx = p.rx
          /\ Send(p, x).inSeq = p.inSeq /\ Send(p, x).active = p.active
          /\ Send(p, x).grace = p.grace /\ Send(p, x).tr = p.tr
          /\ Send(p, x).lost = p.lost
          /\ Send(p, x).trPending = p.trPending /\ Send(p, x).testId = p.testId
          /\ Send(p, x).tx = p.now
          /\ Send(p, x).wire = Append(p.wire, y) /\ y \in Message
      BY <1>1, <1>2, SendFacts DEF y
    <2>3. p.wire \in Seq(Message)
      BY <1>1 DEF Sessions
    <2>4. Requests(Append(p.wire, y), n)
      BY <1>1, <2>1, <2>2, <2>3, RequestsAppend
    <2>5. KeptAlive(s) = Send(p, x)
      BY <1>3, <1>4
    <2> QED  BY <1>1, <2>2, <2>4, <2>5
  <1>5. CASE ~Beats(p)
    <2>1. KeptAlive(s) = p
      BY <1>3, <1>5
    <2>2. ~Asks(s) => clock - s.tx <= HeartBtInt
      <3>1. s.tx \in Nat /\ HeartBtInt \in Nat
        BY SessionAssumption DEF Sessions
      <3>2. ~Asks(s) => ~Beats(s)
        BY <1>1, <1>5
      <3> QED  BY <3>1, <3>2 DEF Beats
    <2> QED  BY <1>1, <2>1, <2>2
  <1> QED  BY <1>4, <1>5

\* The session when a poll comes to the receive.
LEMMA PolledFacts ==
    ASSUME session \in Sessions, clock \in Nat, NEW n \in Nat, Requests(session.wire, n)
    PROVE  /\ Polled \in Sessions
           /\ Polled.now = clock /\ Polled.rx = session.rx /\ Polled.inSeq = session.inSeq
           /\ Polled.active = session.active /\ Polled.grace = session.grace
           /\ Polled.lost = session.lost
           /\ Requests(Polled.wire, n)
           /\ KeepAliveDue /\ Asks(session)
                => /\ Polled.trPending /\ Polled.tr = session.now
                   /\ Polled.testId = session.now
           /\ ~(KeepAliveDue /\ Asks(session))
                => /\ Polled.trPending = session.trPending /\ Polled.tr = session.tr
                   /\ Polled.testId = session.testId
           /\ \/ Polled.tx = session.tx /\ ~KeepAliveDue
              \/ Polled.tx = session.now
              \/ Polled.tx = session.tx /\ clock - session.tx <= HeartBtInt
  <1> DEFINE s == IF KeepAliveDue THEN KeptAlive(session) ELSE session
  <1>1. /\ s \in Sessions
        /\ s.rx = session.rx /\ s.inSeq = session.inSeq
        /\ s.active = session.active /\ s.grace = session.grace
        /\ s.lost = session.lost
        /\ Requests(s.wire, n)
        /\ KeepAliveDue /\ Asks(session)
             => s.trPending /\ s.tr = session.now /\ s.testId = session.now
        /\ ~(KeepAliveDue /\ Asks(session))
             => s.trPending = session.trPending /\ s.tr = session.tr /\ s.testId = session.testId
        /\ \/ s.tx = session.tx /\ ~KeepAliveDue
           \/ s.tx = session.now
           \/ s.tx = session.tx /\ clock - session.tx <= HeartBtInt
    BY KeptAliveFacts
  <1>2. Polled = [s EXCEPT !.now = clock]
    BY DEF Polled
  <1> HIDE DEF s
  <1>3. /\ Polled \in Sessions /\ Polled.now = clock /\ Polled.rx = s.rx
        /\ Polled.inSeq = s.inSeq /\ Polled.active = s.active /\ Polled.grace = s.grace
        /\ Polled.lost = s.lost
        /\ Polled.wire = s.wire /\ Polled.tr = s.tr /\ Polled.trPending = s.trPending
        /\ Polled.testId = s.testId /\ Polled.tx = s.tx
    BY <1>1, <1>2 DEF Sessions
  <1> QED  BY <1>1, <1>3

\* A message at the head of the stream, once parsed and handled in session s.
LEMMA IncomingHandled ==
    ASSUME TypeInv, Reads, NEW s \in Sessions, Requests(s.wire, Len(peer.log)),
           NEW t, \/ Handled(Parsed(s), Incoming, t)
                  \/ t = s
    PROVE  t \in Sessions /\ Requests(t.wire, Len(peer'.log))
  <1>1. /\ Incoming \in Message /\ Incoming.seq <= Len(peer.log)
        /\ peer'.log = peer.log /\ Len(peer.log) \in Nat
    BY ReadsFacts DEF TypeInv, TypeOK, Peers
  <1>2. CASE t = s
    BY <1>1, <1>2
  <1>3. CASE Handled(Parsed(s), Incoming, t)
    <2>1. /\ Parsed(s) \in Sessions /\ Parsed(s).inSeq > 0
          /\ Requests(Parsed(s).wire, Len(peer.log))
      BY ParsedFacts
    <2>2. t \in Sessions
      BY <1>3 DEF Handled
    <2>3. Requests(t.wire, Len(peer.log))
      BY <1>1, <1>3, <2>1, HandledRequests
    <2> QED  BY <1>1, <2>2, <2>3
  <1> QED  BY <1>2, <1>3


LEMMA LogoutHandled ==
    ASSUME NEW s \in Sessions, NEW m \in Message, clock \in Nat
    PROVE  Handled(s, m, Logout(s)) /\ ~Logout(s).active
  <1> DEFINE x == Msg("Logout", NONE)
  <1>1. x \in Message /\ x.type = "Logout"
    BY NoneType, MsgType DEF Types
  <1>2. Handled(s, m, Send(s, x))
    BY <1>1, SendHandled DEF Requested
  <1> QED  BY <1>2, ThenLogout DEF Logout

LEMMA EndGraceFacts ==
    ASSUME NEW s \in Sessions, s.grace # << >>
    PROVE  /\ EndGrace(s) \in Sessions /\ EndGrace(s).wire = s.wire
           /\ EndGrace(s).now = s.now /\ EndGrace(s).tx = s.tx /\ EndGrace(s).rx = s.rx
           /\ EndGrace(s).trPending = s.trPending /\ EndGrace(s).active = s.active
           /\ EndGrace(s).inSeq = s.inSeq /\ EndGrace(s).outSeq = s.outSeq
           /\ EndGrace(s).lost = s.lost
  <1> DEFINE g == SubSeq(s.grace, 1, Len(s.grace) - 1)
  <1>1. s.grace \in Seq(Nat)
    BY DEF Sessions
  <1>2. g \in Seq(Nat)
    BY <1>1
  <1> HIDE DEF g
  <1>3. /\ [s EXCEPT !.grace = g] \in Sessions /\ [s EXCEPT !.grace = g].wire = s.wire
        /\ [s EXCEPT !.grace = g].now = s.now /\ [s EXCEPT !.grace = g].tx = s.tx
        /\ [s EXCEPT !.grace = g].rx = s.rx /\ [s EXCEPT !.grace = g].active = s.active
        /\ [s EXCEPT !.grace = g].trPending = s.trPending
        /\ [s EXCEPT !.grace = g].inSeq = s.inSeq
        /\ [s EXCEPT !.grace = g].lost = s.lost
    BY <1>2 DEF Sessions
  <1> QED  BY <1>3 DEF EndGrace, g

LEMMA SendAppFacts ==
    ASSUME NEW s \in Sessions, NEW n \in Nat, Requests(s.wire, n)
    PROVE  LET t == Send(s, Msg("App", NONE))
           IN  /\ t \in Sessions /\ Requests(t.wire, n)
               /\ t.now = s.now /\ t.rx = s.rx /\ t.tx = s.now /\ t.tr = s.tr
               /\ t.trPending = s.trPending /\ t.testId = s.testId
               /\ t.inSeq = s.inSeq /\ t.active = s.active /\ t.grace = s.grace
               /\ t.lost = s.lost
  <1> DEFINE x == Msg("App", NONE)
             y == [x EXCEPT !.seq = s.outSeq]
             t == Send(s, x)
  <1>1. x \in Message /\ x.type = "App"
    BY NoneType, MsgType DEF Types
  <1>2. y.type = "App"
    BY <1>1 DEF Message
  <1> HIDE DEF x
  <1>3. /\ t \in Sessions /\ t.wire = Append(s.wire, y) /\ y \in Message
        /\ t.now = s.now /\ t.rx = s.rx /\ t.tx = s.now /\ t.tr = s.tr
        /\ t.trPending = s.trPending /\ t.testId = s.testId
        /\ t.inSeq = s.inSeq /\ t.active = s.active /\ t.grace = s.grace
        /\ t.lost = s.lost
    BY <1>1, SendFacts
  <1>4. s.wire \in Seq(Message)
    BY DEF Sessions
  <1> HIDE DEF t, y
  <1>5. Requests(t.wire, n)
    BY <1>2, <1>3, <1>4, RequestsAppend
  <1> QED  BY <1>3, <1>5 DEF t, x

\* Wire w is what is left of a wire without its message k.
Thinned(wire, k, w) ==
    /\ Len(w) = Len(wire) - 1
    /\ \A j \in DOMAIN w :
          /\ j \in Nat /\ j >= 1
          /\ j < k => j \in DOMAIN wire /\ w[j] = wire[j]
          /\ ~(j < k) => j + 1 \in DOMAIN wire /\ w[j] = wire[j + 1]
    /\ \A j \in DOMAIN wire :
          /\ j < k => j \in DOMAIN w /\ w[j] = wire[j]
          /\ j > k => j - 1 \in DOMAIN w /\ w[j - 1] = wire[j]

LEMMA RemoveAtFacts ==
    ASSUME NEW wire \in Seq(Message), NEW k \in DOMAIN wire
    PROVE  RemoveAt(wire, k) \in Seq(Message) /\ Thinned(wire, k, RemoveAt(wire, k))
  <1> DEFINE a == SubSeq(wire, 1, k - 1)
             b == SubSeq(wire, k + 1, Len(wire))
             w == a \o b
  <1>1. k \in Nat /\ 1 <= k /\ k <= Len(wire) /\ Len(wire) \in Nat
    OBVIOUS
  <1>2. /\ a \in Seq(Message) /\ Len(a) = k - 1
        /\ \A j \in 1 .. k - 1 : a[j] = wire[j]
    BY <1>1
  <1>3. /\ b \in Seq(Message) /\ Len(b) = Len(wire) - k
        /\ \A j \in 1 .. Len(wire) - k : b[j] = wire[k + j]
    BY <1>1
  <1> HIDE DEF a, b
  <1>4. /\ w \in Seq(Message) /\ Len(w) = Len(wire) - 1
        /\ \A j \in 1 .. Len(w) : w[j] = IF j <= Len(a) THEN a[j] ELSE b[j - Len(a)]
    BY <1>1, <1>2, <1>3
  <1> HIDE DEF w
  <1>5. DOMAIN w = 1 .. Len(wire) - 1 /\ DOMAIN wire = 1 .. Len(wire)
    BY <1>4
  <1>6. \A j \in DOMAIN w : w[j] = IF j < k THEN wire[j] ELSE wire[j + 1]
    <2> SUFFICES ASSUME NEW j \in DOMAIN w PROVE w[j] = IF j < k THEN wire[j] ELSE wire[j + 1]
      OBVIOUS
    <2>1. CASE j < k
      BY <1>1, <1>2, <1>4, <1>5, <2>1
    <2>2. CASE ~(j < k)
      <3>1. j - (k - 1) \in 1 .. Len(wire) - k /\ k + (j - (k - 1)) = j + 1
        BY <1>1, <1>5, <2>2
      <3>2. w[j] = b[j - (k - 1)]
        BY <1>1, <1>2, <1>4, <1>5, <2>2
      <3> QED  BY <1>3, <2>2, <3>1, <3>2
    <2> QED  BY <2>1, <2>2
  <1>7. Thinned(wire, k, w)
    <2>1. ASSUME NEW j \in DOMAIN w
          PROVE  /\ j \in Nat /\ j >= 1
                 /\ j < k => j \in DOMAIN wire /\ w[j] = wire[j]
                 /\ ~(j < k) => j + 1 \in DOMAIN wire /\ w[j] = wire[j + 1]
      <3>1. j \in Nat /\ j >= 1 /\ j \in DOMAIN wire /\ j + 1 \in DOMAIN wire
        BY <1>1, <1>5
      <3> QED  BY <1>6, <3>1
    <2>2. ASSUME NEW j \in DOMAIN wire, j < k
          PROVE  j \in DOMAIN w /\ w[j] = wire[j]
      <3>1. j \in DOMAIN w
        BY <1>1, <1>5, <2>2
      <3> QED  BY <1>6, <2>2, <3>1
    <2>3. ASSUME NEW j \in DOMAIN wire, j > k
          PROVE  j - 1 \in DOMAIN w /\ w[j - 1] = wire[j]
      <3>1. j - 1 \in DOMAIN w /\ ~(j - 1 < k) /\ (j - 1) + 1 = j
        BY <1>1, <1>5, <2>3
      <3>2. w[j - 1] = wire[(j - 1) + 1]
        BY <1>6, <3>1
      <3> QED  BY <3>1, <3>2
    <2> QED  BY <1>4, <2>1, <2>2, <2>3 DEF Thinned
  <1> QED  BY <1>4, <1>7 DEF RemoveAt, w, a, b

\* A message whose send failed is missing on the wire, and nothing else is changed.
LEMMA SendFailsFacts ==
    ASSUME TypeInv, SendFails
    PROVE  /\ session' \in Sessions /\ Requests(session'.wire, Len(peer.log))
           /\ session'.now = session.now /\ session'.rx = session.rx
           /\ session'.tx = session.tx /\ session'.tr = session.tr
           /\ session'.trPending = session.trPending /\ session'.testId = session.testId
           /\ session'.inSeq = session.inSeq /\ session'.outSeq = session.outSeq
           /\ session'.active = session.active /\ session'.grace = session.grace
           /\ \E k \in DOMAIN session.wire :
                 /\ Thinned(session.wire, k, session'.wire)
                 /\ session'.lost = session.lost \cup {session.wire[k]}
  <1>1. /\ session \in Sessions /\ session.wire \in Seq(Message)
        /\ session.lost \in SUBSET Message /\ Requests(session.wire, Len(peer.log))
    BY DEF TypeInv, TypeOK, Sessions
  <1>2. PICK k \in DOMAIN session.wire :
           session' = [session EXCEPT !.wire = RemoveAt(session.wire, k),
                                      !.lost = session.lost \cup {session.wire[k]}]
    BY DEF SendFails
  <1> DEFINE w == RemoveAt(session.wire, k)
             l == session.lost \cup {session.wire[k]}
  <1>3. w \in Seq(Message) /\ Thinned(session.wire, k, w)
    BY <1>1, RemoveAtFacts
  <1>4. l \in SUBSET Message
    BY <1>1
  <1>5. session' = [session EXCEPT !.wire = w, !.lost = l]
    BY <1>2
  <1> HIDE DEF w, l
  <1>6. /\ session' \in Sessions /\ session'.wire = w /\ session'.lost = l
        /\ session'.now = session.now /\ session'.rx = session.rx
        /\ session'.tx = session.tx /\ session'.tr = session.tr
        /\ session'.trPending = session.trPending /\ session'.testId = session.testId
        /\ session'.inSeq = session.inSeq /\ session'.outSeq = session.outSeq
        /\ session'.active = session.active /\ session'.grace = session.grace
    BY <1>1, <1>3, <1>4, <1>5 DEF Sessions
  <1>7. Requests(w, Len(peer.log))
    BY <1>1, <1>3 DEF Requests, Thinned
  <1> QED  BY <1>3, <1>6, <1>7 DEF l

\* What the session becomes in each step that handles a message.
LEMMA PollMessageFacts ==
    ASSUME TypeInv, PollMessage
    PROVE  /\ Polled \in Sessions /\ Requests(Polled.wire, Len(peer.log))
           /\ \/ Incoming.type = "Garbled" /\ session' = Polled /\ pc' = "poll"
              \/ /\ Incoming.type # "Garbled" /\ Handled(Parsed(Polled), Incoming, session')
                 /\ pc' \in {"poll", "handler"}
  <1>1. /\ session \in Sessions /\ clock \in Nat /\ Len(peer.log) \in Nat
        /\ Requests(session.wire, Len(peer.log)) /\ pc = "poll"
    BY SessionAssumption DEF TypeInv, TypeOK, Peers, PollMessage, PollBegins, Polls
  <1>2. Polled \in Sessions /\ Requests(Polled.wire, Len(peer.log))
    BY <1>1, PolledFacts
  <1>3. Incoming \in Message /\ Answerable(Incoming)
    BY ReadsFacts DEF PollMessage
  <1> DEFINE s == Parsed(Polled)
  <1>4. s \in Sessions /\ s.inSeq > 0
    BY <1>2, ParsedFacts
  <1> HIDE DEF s
  <1>5. Incoming.type \in AdminTypes => Handled(s, Incoming, Admin(s, Incoming))
    BY <1>1, <1>3, <1>4, AdminHandled
  <1>6. Handled(s, Incoming, s)
    BY <1>4, SameHandled
  <1>7. "Garbled" \notin AdminTypes
    BY DEF AdminTypes
  <1> QED  BY <1>1, <1>2, <1>5, <1>6, <1>7 DEF PollMessage, s

LEMMA GraceMessageFacts ==
    ASSUME TypeInv, GraceMessage
    PROVE  \E t : /\ t = session \/ Handled(Parsed(session), Incoming, t)
                  /\ session' = t \/ (t.grace # << >> /\ session' = EndGrace(t))
  <1>1. session \in Sessions /\ clock \in Nat /\ session.grace # << >>
    BY SessionAssumption DEF TypeInv, TypeOK, GraceMessage, InGrace
  <1>2. Incoming \in Message /\ Answerable(Incoming)
    BY ReadsFacts DEF GraceMessage
  <1> DEFINE s == Parsed(session)
  <1>3. s \in Sessions /\ s.inSeq > 0 /\ s.grace # << >>
    BY <1>1, ParsedFacts
  <1> HIDE DEF s
  <1>4. ~Expected(s, Incoming) \/ Incoming.type \in AdminTypes
          => Handled(s, Incoming, Admin(s, Incoming))
    BY <1>1, <1>2, <1>3, AdminHandled
  <1>5. Handled(s, Incoming, s)
    BY <1>3, SameHandled
  <1>6. \/ session' = session
        \/ /\ ~Expected(s, Incoming) \/ Incoming.type \in AdminTypes
           /\ session' = Admin(s, Incoming)
        \/ session' = EndGrace(s)
    BY DEF GraceMessage, s
  <1>7. CASE session' = session
    BY <1>7
  <1>8. CASE /\ ~Expected(s, Incoming) \/ Incoming.type \in AdminTypes
             /\ session' = Admin(s, Incoming)
    BY <1>4, <1>8 DEF s
  <1>9. CASE session' = EndGrace(s)
    BY <1>3, <1>5, <1>9 DEF s
  <1> QED  BY <1>6, <1>7, <1>8, <1>9

LEMMA LogonMessageFacts ==
    ASSUME TypeInv, LogonMessage
    PROVE  /\ session' = session \/ Handled(Parsed(session), Incoming, session')
           /\ \/ pc' = "logon" /\ last' = last /\ joined' = joined
              \/ pc' = "failed" /\ last' = last /\ joined' = joined
              \/ /\ pc' = "poll" /\ session' = Parsed(session) /\ Incoming.type = "Logon"
                 /\ last' = clock /\ joined' = clock
  <1>1. session \in Sessions /\ clock \in Nat /\ pc = "logon"
    BY SessionAssumption DEF TypeInv, TypeOK, LogonMessage
  <1>2. Incoming \in Message
    BY ReadsFacts DEF LogonMessage
  <1> DEFINE s == Parsed(session)
  <1>3. s \in Sessions /\ s.inSeq > 0
    BY <1>1, ParsedFacts
  <1> HIDE DEF s
  <1>4. /\ Handled(s, Incoming, Unexpected(s, Incoming))
        /\ Handled(s, Incoming, Logout(s)) /\ Handled(s, Incoming, s)
    BY <1>1, <1>2, <1>3, UnexpectedHandled, LogoutHandled, SameHandled
  <1>5. \/ UNCHANGED <<pc, session, last, joined>>
        \/ /\ session' = Unexpected(s, Incoming) /\ pc' \in {pc, "failed"}
           /\ UNCHANGED <<last, joined>>
        \/ /\ pc' = "poll" /\ session' = s /\ Incoming.type = "Logon"
           /\ last' = clock /\ joined' = clock
        \/ pc' = "failed" /\ session' = Logout(s) /\ UNCHANGED <<last, joined>>
    BY DEF LogonMessage, s
  <1> QED  BY <1>1, <1>4, <1>5 DEF s


LEMMA PeerReadsFacts ==
    ASSUME TypeInv, PeerReads
    PROVE  /\ Continues(peer, peer')
           /\ session' \in Sessions /\ Requests(session'.wire, Len(peer'.log))
           /\ session'.active = session.active /\ session'.now = session.now
           /\ session'.rx = session.rx /\ session'.tx = session.tx /\ session'.tr = session.tr
           /\ session'.trPending = session.trPending /\ session'.testId = session.testId
           /\ session'.inSeq = session.inSeq /\ session'.grace = session.grace
           /\ session'.lost = session.lost
  <1> DEFINE m == Head(session.wire)
             w == Tail(session.wire)
  <1>1. /\ session \in Sessions /\ session.wire \in Seq(Message) /\ session.wire # << >>
        /\ peer \in Peers /\ Sound(peer) /\ Requests(session.wire, Len(peer.log))
        /\ Len(peer.log) \in Nat
    <2>1. session \in Sessions /\ peer \in Peers /\ Sound(peer) /\ session.wire # << >>
      BY DEF TypeInv, TypeOK, PeerReads
    <2>2. session.wire \in Seq(Message)
      BY <2>1 DEF Sessions
    <2>3. Len(peer.log) \in Nat
      BY <2>1 DEF Peers
    <2> QED  BY <2>1, <2>2, <2>3 DEF TypeInv
  <1>2. m \in Message /\ m = session.wire[1] /\ 1 \in DOMAIN session.wire
    BY <1>1
  <1>3. m.type = "ResendRequest" =>
           m.ref \in 1 .. Len(peer.log) /\ (m.end = 0 \/ m.end >= m.ref)
    BY <1>1, <1>2 DEF Requests
  <1>4. m.seq \in Nat
    BY <1>2 DEF Message
  <1>5. PICK end \in Nat : peer' = AfterReading(peer, m, end)
    BY <1>4 DEF PeerReads
  <1>6. Continues(peer, peer')
    BY <1>1, <1>2, <1>3, <1>5, AfterReadingFacts
  <1>7. w \in Seq(Message) /\ Requests(w, Len(peer.log))
    BY <1>1, RequestsTail
  <1>8. session' = [session EXCEPT !.wire = w]
    BY DEF PeerReads
  <1> HIDE DEF w
  <1>9. /\ session' \in Sessions /\ session'.wire = w
        /\ session'.active = session.active /\ session'.now = session.now
        /\ session'.rx = session.rx /\ session'.tx = session.tx /\ session'.tr = session.tr
        /\ session'.trPending = session.trPending /\ session'.testId = session.testId
        /\ session'.inSeq = session.inSeq /\ session'.grace = session.grace
        /\ session'.lost = session.lost
    BY <1>1, <1>7, <1>8 DEF Sessions
  <1>10. Requests(w, Len(peer'.log))
    <2>1. Len(peer'.log) \in Nat /\ Len(peer.log) <= Len(peer'.log)
      BY <1>6 DEF Continues, Peers
    <2> QED  BY <1>1, <1>7, <2>1, RequestsGrow
  <1> QED  BY <1>6, <1>9, <1>10

LEMMA PeerTalksFacts ==
    ASSUME TypeInv, NEW type \in PeerTypes \cup {"App"}, PeerTalks(type)
    PROVE  Continues(peer, peer')
  <1>1. peer \in Peers /\ Sound(peer) /\ clock \in Nat /\ Len(peer.log) \in Nat
    BY SessionAssumption DEF TypeInv, TypeOK, Peers
  <1>2. \A t \in {"Heartbeat", "TestRequest", "Reset", "Logout", "App"}, ref \in Int :
           Continues(peer, PeerSend(peer, Msg(t, ref)))
    BY <1>1, MsgType, PeerSendFacts DEF Types, AdminTypes, Answerable
  <1>3. type \in {"Heartbeat", "TestRequest", "Reset", "Logout", "App"}
    BY SessionAssumption
  <1>4. CASE type = "Reset"
    <2> DEFINE q == PeerSend(peer, Msg("Reset", Len(peer.log) + 3))
               l == Append(q.log, "Admin")
    <2>1. Continues(peer, q)
      BY <1>1, <1>2
    <2> HIDE DEF q
    <2>2. q \in Peers /\ Sound(q) /\ Len(q.log) \in Nat /\ q.log \in Logs /\ q.wire \in Seq(Message)
      BY <2>1 DEF Continues, Peers, Logs
    <2>3. l \in Logs /\ Len(l) = Len(q.log) + 1
      BY <2>2 DEF Logs
    <2> HIDE DEF l
    <2>4. /\ [q EXCEPT !.log = l] \in Peers
          /\ [q EXCEPT !.log = l].wire = q.wire /\ [q EXCEPT !.log = l].log = l
      BY <2>2, <2>3 DEF Peers, Logs
    <2>5. ASSUME NEW k \in DOMAIN q.wire PROVE q.wire[k] \in Message /\ q.wire[k].seq \in Nat
      <3>1. q.wire[k] \in Message
        BY <2>2
      <3> QED  BY <3>1 DEF Message
    <2>6. Continues(q, [q EXCEPT !.log = l])
      BY <2>2, <2>3, <2>4, <2>5 DEF Continues, Sound
    <2>7. peer' = [q EXCEPT !.log = l]
      BY <1>4 DEF PeerTalks, q, l
    <2> QED  BY <1>1, <2>1, <2>6, <2>7, ContinuesTrans
  <1>5. CASE type = "Logout"
    <2> DEFINE q == PeerSend(peer, Msg("Logout", NONE))
    <2>1. Continues(peer, q)
      BY <1>2, NoneType
    <2>2. Continues(q, [q EXCEPT !.alive = FALSE])
      BY <2>1, PeerFieldFacts DEF Continues
    <2>3. peer' = [q EXCEPT !.alive = FALSE]
      BY <1>5 DEF PeerTalks
    <2> HIDE DEF q
    <2> QED  BY <1>1, <2>1, <2>2, <2>3, ContinuesTrans
  <1>6. CASE type = "TestRequest"
    BY <1>1, <1>2, <1>6 DEF PeerTalks
  <1>7. CASE type \in {"Heartbeat", "App"}
    BY <1>2, <1>7, NoneType DEF PeerTalks
  <1> QED  BY <1>3, <1>4, <1>5, <1>6, <1>7

LEMMA GarbleFacts ==
    ASSUME TypeInv, Garble
    PROVE  Continues(peer, peer')
  <1>1. peer \in Peers /\ Sound(peer) /\ peer.wire \in Seq(Message) /\ Len(peer.log) \in Nat
    BY DEF TypeInv, TypeOK, Peers
  <1>2. PICK k \in DOMAIN peer.wire : peer' = [peer EXCEPT !.wire[k].type = "Garbled"]
    BY DEF Garble
  <1> DEFINE x == [peer.wire[k] EXCEPT !.type = "Garbled"]
             w == [peer.wire EXCEPT ![k] = x]
  <1>3. peer.wire[k] \in Message
    BY <1>1
  <1>4. x \in Message /\ x.seq = peer.wire[k].seq /\ x.type = "Garbled"
    BY <1>3 DEF Message, Types
  <1> HIDE DEF x
  <1>5. /\ w \in Seq(Message)
        /\ \A j \in DOMAIN w : j \in DOMAIN peer.wire /\ w[j] = IF j = k THEN x ELSE peer.wire[j]
    BY <1>1, <1>4
  <1>6. peer' = [peer EXCEPT !.wire = w]
    BY <1>1, <1>2 DEF x, Peers
  <1> HIDE DEF w
  <1>7. peer' \in Peers /\ peer'.wire = w /\ peer'.log = peer.log
    BY <1>1, <1>5, <1>6 DEF Peers
  <1>8. \A j \in DOMAIN w : w[j].seq <= Len(peer.log) /\ Answerable(w[j])
    BY <1>4, <1>5, <1>1 DEF Sound, Answerable
  <1> QED  BY <1>1, <1>7, <1>8 DEF Continues, Sound


LEMMA NewSessionFacts ==
    ASSUME clock \in Nat
    PROVE  /\ NewSession \in Sessions /\ NewSession.wire = << >> /\ NewSession.grace = << >>
           /\ NewSession.now = clock /\ ~NewSession.trPending /\ NewSession.inSeq = 0
           /\ NewSession.outSeq = 1 /\ ~NewSession.active /\ NewSession.lost = {}
  <1>1. << >> \in Seq(Message) /\ << >> \in Seq(Nat)
    OBVIOUS
  <1> QED  BY <1>1 DEF NewSession, Sessions

LEMMA TypeInit ==
    ASSUME Init PROVE TypeInv
  <1>1. session = NewSession /\ clock = 0
    BY DEF Init
  <1>2. session \in Sessions /\ session.wire = << >>
    BY <1>1 DEF NewSession, Sessions
  <1>3. peer \in Peers /\ peer.wire = << >> /\ Sound(peer)
    BY DEF Init, Peers, Sound
  <1>4. Requests(session.wire, Len(peer.log))
    BY <1>2 DEF Requests
  <1>5. clock \in 0 .. MaxTime /\ last \in Nat /\ heard \in Nat /\ asked \in Nat /\ joined \in Nat
    BY SessionAssumption DEF Init
  <1>6. budget \in [garbled : Nat, lost : Nat, app : Nat, peerApp : Nat, admin : Nat]
    BY SessionAssumption DEF Init
  <1>7. pc = "new" /\ read = << >>
    BY DEF Init
  <1> QED  BY <1>2, <1>3, <1>4, <1>5, <1>6, <1>7 DEF TypeInv, TypeOK

LEMMA TypeStep ==
    ASSUME TypeInv, [Next]_vars PROVE TypeInv'
  <1> USE SessionAssumption
  <1> DEFINE Budgets == [garbled : Nat, lost : Nat, app : Nat, peerApp : Nat, admin : Nat]
             Parts == /\ clock' \in 0 .. MaxTime
                      /\ pc' \in {"new", "logon", "poll", "handler", "failed", "closed"}
                      /\ session' \in Sessions /\ Requests(session'.wire, Len(peer'.log))
                      /\ last' \in Nat
                      /\ Continues(peer, peer')
                      /\ budget' \in Budgets
                      /\ read' \in Seq(Types \X Nat)
                      /\ heard' \in Nat /\ asked' \in Nat /\ joined' \in Nat
  <1>1. SUFFICES Parts
    <2>1. ASSUME Parts PROVE TypeInv'
      <3>1. (clock \in 0 .. MaxTime)' /\ (last \in Nat)' /\ (session \in Sessions)'
        BY <2>1 DEF Sessions
      <3>2. (peer \in Peers)' /\ Sound(peer)'
        BY <2>1 DEF Continues, Sound, Peers
      <3>3. Requests(session.wire, Len(peer.log))'
        BY <2>1 DEF Requests
      <3> QED  BY <2>1, <3>1, <3>2, <3>3 DEF TypeInv, TypeOK
    <2> QED  BY <2>1
  <1>2. /\ clock \in 0 .. MaxTime /\ clock \in Nat
        /\ pc \in {"new", "logon", "poll", "handler", "failed", "closed"}
        /\ session \in Sessions /\ Requests(session.wire, Len(peer.log))
        /\ last \in Nat /\ peer \in Peers /\ Sound(peer) /\ budget \in Budgets
        /\ read \in Seq(Types \X Nat)
        /\ heard \in Nat /\ asked \in Nat /\ joined \in Nat
        /\ Len(peer.log) \in Nat
    BY DEF TypeInv, TypeOK, Peers
  <1>3. Continues(peer, peer)
    BY <1>2, PeerFieldFacts
  <1> HIDE DEF Budgets
  <1>4. ASSUME UNCHANGED vars PROVE Parts
    BY <1>2, <1>3, <1>4 DEF vars
  <1>5. CASE Initiate
    <2> DEFINE x == Msg("Logon", NONE)
               y == [x EXCEPT !.seq = NewSession.outSeq]
               t == Send(NewSession, x)
    <2>1. x \in Message /\ x.type = "Logon" /\ NewSession \in Sessions /\ NewSession.wire = << >>
      BY <1>2, NoneType, MsgType, NewSessionFacts DEF Types
    <2>2. y.type = "Logon"
      BY <2>1 DEF Message
    <2> HIDE DEF x, y
    <2>3. t \in Sessions /\ t.wire = Append(<< >>, y) /\ y \in Message
      BY SMTT(30), <2>1, SendFacts DEF y
    <2>4. Requests(<< >>, Len(peer.log)) /\ << >> \in Seq(Message)
      BY DEF Requests
    <2>5. Requests(t.wire, Len(peer.log))
      BY <1>2, <2>2, <2>3, <2>4, RequestsAppend
    <2>6. session' = [t EXCEPT !.active = TRUE]
      BY <1>5 DEF Initiate, x
    <2> HIDE DEF t
    <2>7. session' \in Sessions /\ session'.wire = t.wire
      BY <2>3, <2>6 DEF Sessions
    <2> QED  BY <1>2, <1>3, <1>5, <2>5, <2>7 DEF Initiate
  <1>6. CASE LogonMessage
    <2>1. session' \in Sessions /\ Requests(session'.wire, Len(peer'.log))
      BY <1>2, <1>6, LogonMessageFacts, IncomingHandled DEF LogonMessage
    <2>2. Continues(peer, peer') /\ heard' \in Nat /\ read' \in Seq(Types \X Nat)
      BY <1>6, ReadsFacts DEF LogonMessage
    <2>3. last' \in Nat /\ joined' \in Nat /\ pc' \in {"logon", "failed", "poll"}
      BY <1>2, <1>6, LogonMessageFacts
    <2> QED  BY <1>2, <1>6, <2>1, <2>2, <2>3 DEF LogonMessage
  <1>7. CASE PollInactive
    BY <1>2, <1>3, <1>7 DEF PollInactive
  <1>8. CASE KeepAliveFails
    <2>1. session' \in Sessions /\ session'.wire = session.wire
      BY <1>2, <1>8 DEF KeepAliveFails, Sessions
    <2> QED  BY <1>2, <1>3, <1>8, <2>1 DEF KeepAliveFails
  <1>9. ASSUME PollBegins PROVE last' \in Nat /\ asked' \in Nat
    BY <1>2, <1>9 DEF PollBegins
  <1>10. CASE PollNothing
    <2>1. session' \in Sessions /\ Requests(session'.wire, Len(peer.log))
      BY <1>2, <1>10, PolledFacts DEF PollNothing
    <2> QED  BY <1>2, <1>3, <1>9, <1>10, <2>1 DEF PollNothing
  <1>11. CASE PollMessage
    <2>1. session' \in Sessions /\ Requests(session'.wire, Len(peer'.log))
      BY <1>11, PollMessageFacts, IncomingHandled DEF PollMessage
    <2>2. Continues(peer, peer') /\ heard' \in Nat /\ read' \in Seq(Types \X Nat)
      BY <1>11, ReadsFacts DEF PollMessage
    <2>3. pc' \in {"poll", "handler"}
      BY <1>11, PollMessageFacts
    <2> QED  BY <1>2, <1>9, <1>11, <2>1, <2>2, <2>3 DEF PollMessage
  <1>12. CASE HandlerReturns
    BY <1>2, <1>3, <1>12 DEF HandlerReturns
  <1>13. CASE SendApp
    <2>1. session' \in Sessions /\ Requests(session'.wire, Len(peer.log))
      BY <1>2, <1>13, SendAppFacts DEF SendApp
    <2>2. budget' \in Budgets
      <3>1. budget.app > 0 /\ budget' = [budget EXCEPT !.app = budget.app - 1]
        BY <1>13 DEF SendApp
      <3>2. budget.app - 1 \in Nat
        <4>1. budget.app \in Nat
          BY <1>2 DEF Budgets
        <4> QED  BY <3>1, <4>1
      <3>3. \A n \in Nat : [budget EXCEPT !.app = n] \in Budgets
        BY <1>2 DEF Budgets
      <3> QED  BY <3>1, <3>2, <3>3
    <2> QED  BY <1>2, <1>3, <1>13, <2>1, <2>2 DEF SendApp
  <1>24. CASE SendFails
    <2>1. session' \in Sessions /\ Requests(session'.wire, Len(peer.log))
      BY <1>24, SendFailsFacts
    <2>2. budget' \in Budgets
      <3>1. budget.lost > 0 /\ budget' = [budget EXCEPT !.lost = budget.lost - 1]
        BY <1>24 DEF SendFails
      <3>2. budget.lost - 1 \in Nat
        <4>1. budget.lost \in Nat
          BY <1>2 DEF Budgets
        <4> QED  BY <3>1, <4>1
      <3>3. \A n \in Nat : [budget EXCEPT !.lost = n] \in Budgets
        BY <1>2 DEF Budgets
      <3> QED  BY <3>1, <3>2, <3>3
    <2> QED  BY <1>2, <1>3, <1>24, <2>1, <2>2 DEF SendFails
  <1>14. CASE GraceOver
    <2>1. session' \in Sessions /\ session'.wire = session.wire
      BY <1>2, <1>14, EndGraceFacts DEF GraceOver, InGrace
    <2> QED  BY <1>2, <1>3, <1>14, <2>1 DEF GraceOver
  <1>15. CASE GraceMessage
    <2>1. session' \in Sessions /\ Requests(session'.wire, Len(peer'.log))
      <3>1. PICK t : /\ t = session \/ Handled(Parsed(session), Incoming, t)
                     /\ session' = t \/ (t.grace # << >> /\ session' = EndGrace(t))
        BY <1>15, GraceMessageFacts
      <3>2. t \in Sessions /\ Requests(t.wire, Len(peer'.log))
        BY <1>2, <1>15, <3>1, IncomingHandled DEF GraceMessage
      <3> QED  BY <3>1, <3>2, EndGraceFacts
    <2>2. Continues(peer, peer') /\ heard' \in Nat /\ read' \in Seq(Types \X Nat)
      BY <1>15, ReadsFacts DEF GraceMessage
    <2> QED  BY <1>2, <1>15, <2>1, <2>2 DEF GraceMessage
  <1>16. CASE Terminate
    <2>0. << >> \in Seq(Message)
      OBVIOUS
    <2>1. session' \in Sessions /\ session'.wire = << >>
      <3>1. session' = [session EXCEPT !.active = FALSE, !.wire = << >>]
        BY <1>16 DEF Terminate
      <3> QED  BY <1>2, <2>0, <3>1 DEF Sessions
    <2>2. /\ peer' \in Peers /\ peer'.wire = << >> /\ peer'.log = peer.log
      <3>1. peer' = [peer EXCEPT !.alive = FALSE, !.wire = << >>]
        BY <1>16 DEF Terminate
      <3> QED  BY <1>2, <2>0, <3>1 DEF Peers
    <2>3. Continues(peer, peer') /\ Requests(<< >>, Len(peer'.log))
      BY <1>2, <2>2 DEF Continues, Sound, Requests
    <2> QED  BY <1>2, <1>16, <2>1, <2>3 DEF Terminate
  <1>17. CASE PeerReads
    BY <1>2, <1>17, PeerReadsFacts DEF PeerReads
  <1>18. ASSUME Continues(peer, peer') PROVE Requests(session.wire, Len(peer'.log))
    <2>1. Len(peer'.log) \in Nat /\ Len(peer.log) <= Len(peer'.log)
      BY <1>18 DEF Continues, Peers
    <2> QED  BY <1>2, <2>1, RequestsGrow
  <1>19. CASE PeerDies
    <2>1. Continues(peer, peer')
      BY <1>2, <1>19, PeerFieldFacts DEF PeerDies
    <2> QED  BY <1>2, <1>18, <1>19, <2>1 DEF PeerDies
  <1>20. CASE Garble
    <2>1. Continues(peer, peer')
      BY <1>20, GarbleFacts
    <2>2. budget' \in Budgets
      <3>1. budget.garbled > 0 /\ budget' = [budget EXCEPT !.garbled = budget.garbled - 1]
        BY <1>20 DEF Garble
      <3>2. budget.garbled - 1 \in Nat
        <4>1. budget.garbled \in Nat
          BY <1>2 DEF Budgets
        <4> QED  BY <3>1, <4>1
      <3>3. \A n \in Nat : [budget EXCEPT !.garbled = n] \in Budgets
        BY <1>2 DEF Budgets
      <3> QED  BY <3>1, <3>2, <3>3
    <2> QED  BY <1>2, <1>18, <1>20, <2>1, <2>2 DEF Garble
  <1>21. ASSUME NEW type \in PeerTypes \cup {"App"}, PeerTalks(type) PROVE Parts
    <2>1. Continues(peer, peer')
      BY <1>21, PeerTalksFacts
    <2>2. budget' \in Budgets
      <3>1. PICK kind \in {"peerApp", "admin"} :
               budget[kind] > 0 /\ budget' = [budget EXCEPT ![kind] = budget[kind] - 1]
        BY <1>21 DEF PeerTalks
      <3>2. budget[kind] \in Nat
        BY <1>2 DEF Budgets
      <3>3. \A n \in Nat : [budget EXCEPT ![kind] = n] \in Budgets
        BY <1>2 DEF Budgets
      <3>4. budget[kind] - 1 \in Nat
        BY <3>1, <3>2
      <3> QED  BY <3>1, <3>3, <3>4
    <2> QED  BY <1>2, <1>18, <1>21, <2>1, <2>2 DEF PeerTalks
  <1>22. CASE Tick
    BY <1>2, <1>3, <1>22 DEF Tick
  <1>23. CASE Ended
    BY <1>4, <1>23 DEF Ended
  <1> HIDE DEF Parts
  <1> QED  BY <1>4, <1>5, <1>6, <1>7, <1>8, <1>10, <1>11, <1>12, <1>13, <1>14, <1>15,
              <1>16, <1>17, <1>19, <1>20, <1>21, <1>22, <1>23, <1>24 DEF Next

\* Every state has the types the code gives it, whatever the peer sends, loses or
\* garbles: no sequence number goes below zero, and a request for a resend always
\* names messages the peer has sent.
THEOREM TypeCorrect == Spec => []TypeOK
  <1>1. Spec => []TypeInv
    <2>1. Init => TypeInv
      BY TypeInit
    <2>2. TypeInv /\ [Next]_vars => TypeInv'
      BY TypeStep
    <2> QED  BY <2>1, <2>2, PTL DEF Spec
  <1>2. TypeInv => TypeOK
    BY DEF TypeInv
  <1> QED  BY <1>1, <1>2, PTL


-----------------------------------------------------------------------------
(* Times.                                                                  *)

Live == session.active /\ pc \in {"poll", "handler"}

\* The clock of the session is that of its last poll.  It lags by a second, by the
\* time a handler blocks, or since the logon was sent, until the first poll.
Lag ==
    /\ pc = "handler" => session.now = heard /\ clock - session.now <= MaxStall
    /\ pc = "poll" => \/ clock - session.now <= 1
                      \/ last = clock
                      \/ session.now = heard /\ clock - session.now <= MaxStall

\* What the last keepalive left: a silence that is not yet worth a test request, or
\* a request that may still be answered.
Silence ==
    /\ ~session.trPending => last - heard <= ProbeTime
    /\ session.trPending =>
          /\ session.tr - heard <= ProbeTime + Interval - 1
          /\ \/ last - session.tr <= AnswerTime
             \/ last = asked /\ asked - heard <= MaxStall

\* The test request is as old as the poll before the one that sent it.
Asked == session.trPending => \E lag \in {1, MaxStall} : asked - session.tr <= lag

\* What the last keepalive left of the announced interval.
Beaten == last = joined \/ \E quiet \in {HeartBtInt, MaxStall} : last - session.tx <= quiet

LiveInv ==
    /\ session.grace = << >>
    /\ last <= clock /\ heard <= clock /\ session.rx <= heard
    /\ session.now - last < Interval
    /\ Lag /\ Silence /\ Asked /\ Beaten

TimeInv ==
    /\ session.now <= clock /\ session.tx <= session.now
    /\ pc = "logon" => ~session.trPending
    /\ Live => LiveInv

LEMMA TimeFacts ==
    /\ HeartBtInt \in Nat /\ HeartBtInt >= 1 /\ MaxStall \in Nat
    /\ Interval \in Nat /\ Interval >= 1 /\ ProbeTime \in Nat
    /\ AnswerTime \in Nat /\ AnswerTime >= 1
    /\ SilenceLimit = ProbeTime + AnswerTime + 2 * Interval - 1
    /\ \A x \in Int : /\ 10 * x > HeartBtInt <=> x >= Interval
                      /\ ~(4 * x > 5 * HeartBtInt) => x <= ProbeTime
                      /\ ~(2 * x > HeartBtInt) => x <= AnswerTime
  <1>1. HeartBtInt \in Nat /\ HeartBtInt >= 1 /\ MaxStall \in Nat
    BY SessionAssumption
  <1>2. Interval \in Nat /\ Interval >= 1
    BY <1>1 DEF Interval
  <1>3. ProbeTime \in Nat
    BY <1>1 DEF ProbeTime
  <1>4. AnswerTime \in Nat /\ AnswerTime >= 1
    BY <1>1 DEF AnswerTime
  <1>5. \A x \in Int : 10 * x > HeartBtInt <=> x >= Interval
    BY <1>1 DEF Interval
  <1>6. \A x \in Int : ~(4 * x > 5 * HeartBtInt) => x <= ProbeTime
    BY <1>1 DEF ProbeTime
  <1>7. \A x \in Int : ~(2 * x > HeartBtInt) => x <= AnswerTime
    BY <1>1 DEF AnswerTime
  <1> QED  BY <1>1, <1>2, <1>3, <1>4, <1>5, <1>6, <1>7 DEF SilenceLimit

LEMMA TimeTypes ==
    ASSUME TypeInv
    PROVE  /\ clock \in Nat /\ last \in Nat /\ heard \in Nat /\ asked \in Nat /\ joined \in Nat
           /\ session \in Sessions /\ session.now \in Nat /\ session.rx \in Nat
           /\ session.tx \in Nat /\ session.tr \in Nat
           /\ session.trPending \in BOOLEAN /\ session.active \in BOOLEAN
  BY SessionAssumption DEF TypeInv, TypeOK, Sessions

\* A poll of a live session, whether it handled a message or not.
LEMMA PollTimes ==
    ASSUME TypeInv, PollNothing \/ PollMessage
    PROVE  /\ session'.now = clock /\ session'.tx \in {Polled.tx, clock}
           /\ session'.tr = Polled.tr
           /\ session'.active => session.active /\ session'.grace = session.grace
           /\ \/ /\ pc' = "poll" /\ heard' = heard /\ session'.rx = session.rx
                 /\ session'.trPending = Polled.trPending
              \/ /\ pc' \in {"poll", "handler"} /\ heard' = clock /\ session'.rx = clock
                 /\ session'.trPending => Polled.trPending
  <1>1. /\ session \in Sessions /\ clock \in Nat /\ Len(peer.log) \in Nat
        /\ Requests(session.wire, Len(peer.log))
    BY SessionAssumption DEF TypeInv, TypeOK, Peers
  <1>2. /\ Polled \in Sessions /\ Polled.now = clock /\ Polled.rx = session.rx
        /\ Polled.active = session.active /\ Polled.grace = session.grace
        /\ Polled.lost = session.lost
    BY <1>1, PolledFacts
  <1>3. CASE PollNothing
    BY <1>2, <1>3 DEF PollNothing, PollBegins, Polls
  <1>4. CASE PollMessage
    <2>1. CASE Incoming.type = "Garbled" /\ session' = Polled /\ pc' = "poll"
      BY <1>2, <1>4, <2>1, ReadsFacts DEF PollMessage
    <2>2. CASE /\ Incoming.type # "Garbled" /\ Handled(Parsed(Polled), Incoming, session')
               /\ pc' \in {"poll", "handler"}
      <3>1. heard' = clock
        BY <1>4, <2>2, ReadsFacts DEF PollMessage
      <3>2. /\ Parsed(Polled).now = clock /\ Parsed(Polled).rx = clock
            /\ Parsed(Polled).tx = Polled.tx /\ Parsed(Polled).tr = Polled.tr
            /\ Parsed(Polled).trPending = Polled.trPending
            /\ Parsed(Polled).active = session.active
            /\ Parsed(Polled).grace = session.grace
            /\ Parsed(Polled).lost = session.lost
        BY <1>2, ParsedFacts
      <3> QED  BY <2>2, <3>1, <3>2 DEF Handled
    <2> QED  BY <1>4, <2>1, <2>2, PollMessageFacts
  <1> QED  BY <1>3, <1>4

\* The arithmetic of one poll.
LEMMA PollKeepsTimes ==
    ASSUME TypeInv, TimeInv, PollNothing \/ PollMessage
    PROVE  TimeInv'
  <1>1. /\ clock' = clock /\ joined' = joined /\ pc = "poll" /\ session.active
        /\ last' = (IF KeepAliveDue THEN clock ELSE last)
        /\ asked' = (IF KeepAliveDue /\ Asks(session) THEN clock ELSE asked)
        /\ KeepAliveDue => ~Unanswered(session)
    BY DEF PollNothing, PollMessage, PollBegins, Polls
  <1>2. LiveInv /\ session.now <= clock /\ session.tx <= session.now
    BY <1>1 DEF TimeInv, Live
  <1>3. /\ clock \in Nat /\ last \in Nat /\ heard \in Nat /\ asked \in Nat /\ joined \in Nat
        /\ session.now \in Nat /\ session.rx \in Nat
        /\ session.tx \in Nat /\ session.tr \in Nat
        /\ session \in Sessions /\ Len(peer.log) \in Nat
        /\ Requests(session.wire, Len(peer.log))
    BY TimeTypes DEF TypeInv, TypeOK, Peers
  <1>4. /\ KeepAliveDue /\ Asks(session) => Polled.trPending /\ Polled.tr = session.now
        /\ ~(KeepAliveDue /\ Asks(session))
             => Polled.trPending = session.trPending /\ Polled.tr = session.tr
        /\ \/ Polled.tx = session.tx /\ ~KeepAliveDue
           \/ Polled.tx = session.now
           \/ Polled.tx = session.tx /\ clock - session.tx <= HeartBtInt
    BY <1>3, PolledFacts
  <1>5. KeepAliveDue <=> clock - last >= Interval
    BY SMTT(30), <1>3, SessionAssumption DEF KeepAliveDue, Interval
  <1>6. KeepAliveDue /\ ~session.trPending /\ ~Asks(session) => clock - session.rx <= ProbeTime
    BY SMTT(30), <1>3, TimeFacts DEF Asks
  <1>7. KeepAliveDue /\ session.trPending => clock - session.tr <= AnswerTime
    <2>1. KeepAliveDue /\ session.trPending => ~(2 * (clock - session.tr) > HeartBtInt)
      BY <1>1 DEF Unanswered
    <2>2. clock - session.tr \in Int
      BY <1>3
    <2> HIDE DEF KeepAliveDue
    <2> QED  BY <2>1, <2>2, TimeFacts
  <1>8. Asks(session) => ~session.trPending
    BY DEF Asks
  <1>9. session'.now <= clock' /\ session'.tx <= session'.now /\ pc' # "logon"
    BY <1>1, <1>2, <1>3, <1>4, PollTimes
  <1>10. ASSUME session'.active PROVE LiveInv'
    <2>1. session'.grace = << >>
      BY <1>2, <1>10, PollTimes DEF LiveInv
    <2>2. last' <= clock' /\ heard' <= clock' /\ session'.rx <= heard'
      BY <1>1, <1>2, <1>3, PollTimes DEF LiveInv
    <2>3. session'.now - last' < Interval
      BY <1>1, <1>3, <1>5, PollTimes, TimeFacts
    <2>4. Lag'
      BY <1>1, <1>3, PollTimes, TimeFacts DEF Lag
    <2>5. clock - session.now <= 1 \/ ~KeepAliveDue
            \/ (session.now = heard /\ clock - session.now <= MaxStall)
      BY <1>1, <1>2, <1>3, <1>5, TimeFacts DEF LiveInv, Lag
    <2>6. Silence'
      <3>0. session.now - last < Interval /\ last <= clock /\ heard <= clock
              /\ session.rx <= heard
        BY <1>2 DEF LiveInv
      <3>1. CASE heard' = clock
        <4>1. session'.trPending =>
                 /\ session'.tr - heard' <= ProbeTime + Interval - 1
                 /\ \/ last' - session'.tr <= AnswerTime
                    \/ last' = asked' /\ asked' - heard' <= MaxStall
          <5>1. CASE KeepAliveDue /\ Asks(session)
            <6>1. session'.tr = session.now /\ last' = clock /\ asked' = clock
              BY <1>1, <1>4, <5>1, PollTimes
            <6>2. session.now - clock <= ProbeTime + Interval - 1
              BY <1>2, <1>3, TimeFacts
            <6> QED  BY <1>3, <3>1, <6>1, <6>2, TimeFacts
          <5>2. CASE ~(KeepAliveDue /\ Asks(session))
            <6>1. session'.trPending => session.trPending /\ session'.tr = session.tr
              BY <1>4, <5>2, PollTimes
            <6>2. CASE KeepAliveDue
              BY <1>1, <1>2, <1>3, <1>7, <3>0, <3>1, <5>2, <6>1, <6>2, TimeFacts
                 DEF LiveInv, Silence
            <6>3. CASE ~KeepAliveDue
              BY <1>1, <1>2, <1>3, <3>0, <3>1, <5>2, <6>1, <6>3, TimeFacts DEF LiveInv, Silence
            <6> QED  BY <6>2, <6>3
          <5> QED  BY <5>1, <5>2
        <4>2. last' - heard' <= ProbeTime
          BY <1>1, <1>3, <3>0, <3>1, TimeFacts
        <4> QED  BY <4>1, <4>2 DEF Silence
      <3>2. CASE heard' = heard /\ session'.trPending = Polled.trPending
        <4>1. CASE KeepAliveDue /\ Asks(session)
          <5>1. session'.trPending /\ session'.tr = session.now /\ last' = clock /\ asked' = clock
            BY <1>1, <1>4, <3>2, <4>1, PollTimes
          <5>2. session.now - heard <= ProbeTime + Interval - 1
            BY <1>2, <1>3, <1>8, <3>0, <4>1, TimeFacts DEF LiveInv, Silence
          <5>3. \/ clock - session.now <= AnswerTime
                \/ clock - heard <= MaxStall
            BY <1>3, <2>5, <4>1, TimeFacts
          <5> QED  BY <3>2, <5>1, <5>2, <5>3 DEF Silence
        <4>2. CASE KeepAliveDue /\ ~Asks(session)
          <5>1. /\ session'.trPending = session.trPending /\ session'.tr = session.tr
                /\ last' = clock /\ asked' = asked
            BY <1>1, <1>4, <3>2, <4>2, PollTimes
          <5>2. ~session.trPending => clock - heard <= ProbeTime
            BY <1>3, <1>6, <3>0, <4>2, TimeFacts
          <5>3. session.trPending => session.tr - heard <= ProbeTime + Interval - 1
            BY <1>2 DEF LiveInv, Silence
          <5> QED  BY <1>7, <3>2, <4>2, <5>1, <5>2, <5>3 DEF Silence
        <4>3. CASE ~KeepAliveDue
          <5>1. /\ session'.trPending = session.trPending /\ session'.tr = session.tr
                /\ last' = last /\ asked' = asked
            BY <1>1, <1>4, <3>2, <4>3, PollTimes
          <5> QED  BY <1>2, <3>2, <5>1 DEF LiveInv, Silence
        <4> QED  BY <4>1, <4>2, <4>3
      <3> QED  BY <3>1, <3>2, PollTimes
    <2>7. Asked'
      <3>1. CASE KeepAliveDue /\ Asks(session)
        <4>1. session'.tr = session.now /\ asked' = clock
          BY <1>1, <1>4, <3>1, PollTimes
        <4>2. \E lag \in {1, MaxStall} : clock - session.now <= lag
          BY <2>5, <3>1
        <4> QED  BY <4>1, <4>2 DEF Asked
      <3>2. CASE ~(KeepAliveDue /\ Asks(session))
        <4>1. session'.tr = session.tr /\ asked' = asked /\ (session'.trPending => session.trPending)
          BY <1>1, <1>4, <3>2, PollTimes
        <4> QED  BY <1>2, <4>1 DEF Asked, LiveInv
      <3> QED  BY <3>1, <3>2
    <2>8. Beaten'
      <3>1. session'.tx >= Polled.tx /\ Polled.tx \in Nat /\ session'.tx \in Nat
        BY <1>2, <1>3, <1>4, PollTimes
      <3>2. CASE KeepAliveDue
        <4>1. \E quiet \in {HeartBtInt, MaxStall} : clock - Polled.tx <= quiet
          BY <1>3, <1>4, <2>5, <3>2, TimeFacts
        <4>2. last' = clock
          BY <1>1, <3>2
        <4> QED  BY <1>3, <3>1, <4>1, <4>2, TimeFacts DEF Beaten
      <3>3. CASE ~KeepAliveDue
        <4>1. last' = last /\ Polled.tx >= session.tx
          BY <1>1, <1>2, <1>3, <1>4, <3>3
        <4>2. Beaten
          BY <1>2 DEF LiveInv
        <4> QED  BY SMTT(30), <1>1, <1>3, <3>1, <4>1, <4>2, TimeFacts DEF Beaten
      <3> QED  BY <3>2, <3>3
    <2> QED  BY <2>1, <2>2, <2>3, <2>4, <2>6, <2>7, <2>8 DEF LiveInv
  <1> QED  BY <1>9, <1>10 DEF TimeInv, Live

LEMMA TimeInit ==
    ASSUME Init PROVE TimeInv
  <1>1. pc = "new" /\ session = NewSession /\ clock = 0
    BY DEF Init
  <1>2. session.now = 0 /\ session.tx = 0
    BY <1>1 DEF NewSession
  <1> QED  BY <1>1, <1>2 DEF TimeInv, Live

\* A live session stays within its times when a step changes neither its clock,
\* the keepalive nor the test request, and sends later messages only.
LEMMA TimesKept ==
    ASSUME TypeInv, TimeInv,
           session' \in Sessions,
           clock' = clock, last' = last, heard' = heard, asked' = asked, joined' = joined,
           session'.now = session.now, session'.rx = session.rx,
           session'.tx \in {session.tx, session.now}, session'.tr = session.tr,
           session'.trPending = session.trPending,
           session'.active => session.active /\ session'.grace = session.grace,
           pc' = pc \/ (pc = "handler" /\ pc' = "poll") \/ pc' \in {"failed", "closed"}
    PROVE  TimeInv'
  <1>1. /\ session.now <= clock /\ session.tx <= session.now
        /\ clock \in Nat /\ session.now \in Nat /\ session.tx \in Nat /\ last \in Nat
    BY TimeTypes DEF TimeInv
  <1>2. session'.now <= clock' /\ session'.tx <= session'.now
    BY <1>1
  <1>3. pc' = "logon" => ~session'.trPending
    BY DEF TimeInv
  <1>4. ASSUME Live' PROVE LiveInv'
    <2>1. LiveInv
      BY <1>4 DEF Live, TimeInv
    <2>2. Lag'
      BY <1>4, <2>1 DEF LiveInv, Lag, Live
    <2>3. Silence' /\ Asked'
      BY <2>1 DEF LiveInv, Silence, Asked
    <2>4. Beaten'
      BY SMTT(30), <1>1, <2>1, TimeFacts DEF LiveInv, Beaten
    <2>5. session'.grace = << >>
      BY <1>4, <2>1 DEF Live, LiveInv
    <2> QED  BY <2>1, <2>2, <2>3, <2>4, <2>5 DEF LiveInv
  <1> QED  BY <1>2, <1>3, <1>4 DEF TimeInv

LEMMA TimeStep ==
    ASSUME TypeInv, TypeInv', TimeInv, [Next]_vars PROVE TimeInv'
  <1>1. /\ clock \in Nat /\ last \in Nat /\ heard \in Nat /\ asked \in Nat /\ joined \in Nat
        /\ session \in Sessions /\ session' \in Sessions
        /\ session.now \in Nat /\ session.tx \in Nat
        /\ session.now <= clock /\ session.tx <= session.now
    BY TimeTypes DEF TimeInv, TypeInv, TypeOK
  <1>2. ASSUME UNCHANGED vars PROVE TimeInv'
    BY <1>2 DEF vars, TimeInv, Live, LiveInv, Lag, Silence, Asked, Beaten
  <1>3. CASE Initiate
    <2> DEFINE t == Send(NewSession, Msg("Logon", NONE))
    <2>1. Msg("Logon", NONE) \in Message
      BY NoneType, MsgType DEF Types
    <2>2. t \in Sessions /\ t.now = clock /\ t.tx = clock /\ ~t.trPending
      <3>1. /\ NewSession \in Sessions /\ NewSession.now = clock
            /\ ~NewSession.trPending
        BY <1>1, NewSessionFacts
      <3> QED  BY <2>1, <3>1, SendFacts
    <2> HIDE DEF t
    <2>3. session' = [t EXCEPT !.active = TRUE] /\ clock' = clock /\ pc' = "logon"
      BY <1>3 DEF Initiate, t
    <2>4. session'.now = clock /\ session'.tx = clock /\ ~session'.trPending
      BY <2>2, <2>3 DEF Sessions
    <2> QED  BY <1>1, <2>3, <2>4 DEF TimeInv, Live
  <1>4. CASE LogonMessage
    <2>1. pc = "logon" /\ ~session.trPending /\ session.grace = << >> /\ clock' = clock
      BY <1>4 DEF LogonMessage, TimeInv, InGrace
    <2>2. session' = session \/ Handled(Parsed(session), Incoming, session')
      BY <1>4, LogonMessageFacts
    <2>3. /\ session'.now = session.now /\ session'.tx \in {session.tx, session.now}
          /\ ~session'.trPending
      BY <1>1, <2>1, <2>2, ParsedFacts DEF Handled
    <2>4. session'.now <= clock' /\ session'.tx <= session'.now
      BY <1>1, <2>1, <2>3
    <2>5. ASSUME pc' \in {"poll", "handler"} PROVE LiveInv'
      <3>1. /\ session' = Parsed(session) /\ Incoming.type = "Logon"
            /\ last' = clock /\ joined' = clock
        BY <1>4, <2>5, LogonMessageFacts
      <3>2. heard' = clock
        BY <1>4, <3>1, ReadsFacts DEF LogonMessage
      <3>3. session'.rx = session.now /\ session'.grace = << >>
        BY <1>1, <2>1, <3>1, ParsedFacts
      <3>4. pc' = "poll"
        BY <1>4, <2>5, LogonMessageFacts
      <3>5. Lag' /\ Asked' /\ Beaten'
        BY <2>1, <2>3, <3>1, <3>4 DEF Lag, Asked, Beaten
      <3>6. Silence'
        BY <1>1, <2>3, <3>1, <3>2, TimeFacts DEF Silence
      <3>7. session'.now - last' < Interval
        BY <1>1, <2>3, <3>1, TimeFacts
      <3> QED  BY <1>1, <2>1, <3>1, <3>2, <3>3, <3>5, <3>6, <3>7 DEF LiveInv
    <2> QED  BY <2>3, <2>4, <2>5 DEF TimeInv, Live
  <1>5. CASE PollInactive
    BY <1>1, <1>5, TimesKept DEF PollInactive
  <1>6. CASE KeepAliveFails
    <2>1. session' = [session EXCEPT !.active = FALSE] /\ clock' = clock /\ pc' = "failed"
      BY <1>6 DEF KeepAliveFails
    <2>2. session'.now = session.now /\ session'.tx = session.tx
      BY <1>1, <2>1 DEF Sessions
    <2> QED  BY <1>1, <2>1, <2>2 DEF TimeInv, Live
  <1>7. CASE PollNothing \/ PollMessage
    BY <1>7, PollKeepsTimes
  <1>8. CASE HandlerReturns
    BY <1>1, <1>8, TimesKept DEF HandlerReturns
  <1>9. CASE SendApp
    <2>1. Len(peer.log) \in Nat /\ Requests(session.wire, Len(peer.log))
      BY DEF TypeInv, TypeOK, Peers
    <2>2. /\ session'.now = session.now /\ session'.rx = session.rx /\ session'.tx = session.now
          /\ session'.tr = session.tr /\ session'.trPending = session.trPending
          /\ session'.active = session.active /\ session'.grace = session.grace
      BY <1>1, <1>9, <2>1, SendAppFacts DEF SendApp
    <2> QED  BY <1>1, <1>9, <2>2, TimesKept DEF SendApp
  <1>19. CASE SendFails
    BY <1>19, SendFailsFacts, TimesKept DEF SendFails
  <1>10. CASE GraceOver
    <2>1. /\ session'.now = session.now /\ session'.tx = session.tx
          /\ session'.trPending = session.trPending /\ session'.active = session.active
      BY <1>1, <1>10, EndGraceFacts DEF GraceOver, InGrace
    <2>2. ~Live
      BY <1>10 DEF GraceOver, InGrace, TimeInv, LiveInv
    <2> QED  BY <1>1, <1>10, <2>1, <2>2 DEF GraceOver, TimeInv, Live
  <1>11. CASE GraceMessage
    <2>1. PICK t : /\ t = session \/ Handled(Parsed(session), Incoming, t)
                   /\ session' = t \/ (t.grace # << >> /\ session' = EndGrace(t))
      BY <1>11, GraceMessageFacts
    <2>2. /\ t \in Sessions /\ t.now = session.now /\ t.tx \in {session.tx, session.now}
          /\ t.trPending => session.trPending
          /\ t.active => session.active
      BY <1>1, <2>1, ParsedFacts DEF Handled
    <2>3. /\ session'.now = session.now /\ session'.tx \in {session.tx, session.now}
          /\ session'.trPending => session.trPending
          /\ session'.active => session.active
      BY <2>1, <2>2, EndGraceFacts
    <2>4. ~Live
      BY <1>11 DEF GraceMessage, InGrace, TimeInv, LiveInv
    <2> QED  BY <1>1, <1>11, <2>3, <2>4 DEF GraceMessage, TimeInv, Live
  <1>12. CASE Terminate
    <2>1. session' = [session EXCEPT !.active = FALSE, !.wire = << >>]
            /\ clock' = clock /\ pc' = "closed"
      BY <1>12 DEF Terminate
    <2>2. session'.now = session.now /\ session'.tx = session.tx
      BY <1>1, <2>1 DEF Sessions
    <2> QED  BY <1>1, <2>1, <2>2 DEF TimeInv, Live
  <1>13. CASE PeerReads
    BY <1>1, <1>13, PeerReadsFacts, TimesKept DEF PeerReads
  <1>14. CASE PeerDies
    BY <1>1, <1>14, TimesKept DEF PeerDies
  <1>15. CASE Garble
    BY <1>1, <1>15, TimesKept DEF Garble
  <1>16. ASSUME NEW type \in PeerTypes \cup {"App"}, PeerTalks(type) PROVE TimeInv'
    BY <1>1, <1>16, TimesKept DEF PeerTalks
  <1>17. CASE Tick
    <2>1. /\ clock' = clock + 1
          /\ UNCHANGED <<pc, session, last, heard, asked, joined>>
          /\ Polls => session.now = clock
          /\ pc = "handler" => clock - session.now < MaxStall
      BY <1>17 DEF Tick
    <2>2. ASSUME Live PROVE LiveInv'
      <3>1. LiveInv
        BY <2>2 DEF TimeInv
      <3>2. Lag'
        BY <1>1, <2>1, <2>2, <3>1, TimeFacts DEF Live, LiveInv, Lag, Polls, InGrace
      <3>3. Silence' /\ Asked' /\ Beaten'
        BY <2>1, <3>1 DEF LiveInv, Silence, Asked, Beaten
      <3>4. /\ session'.grace = << >>
            /\ last' <= clock' /\ heard' <= clock' /\ session'.rx <= heard'
            /\ session'.now - last' < Interval
        BY <1>1, <2>1, <3>1 DEF LiveInv
      <3> QED  BY <3>2, <3>3, <3>4 DEF LiveInv
    <2> QED  BY <1>1, <2>1, <2>2 DEF TimeInv, Live
  <1>18. CASE Ended
    BY <1>2, <1>18 DEF Ended
  <1> QED  BY <1>2, <1>3, <1>4, <1>5, <1>6, <1>7, <1>8, <1>9, <1>10, <1>11, <1>12,
              <1>13, <1>14, <1>15, <1>16, <1>17, <1>18, <1>19 DEF Next

THEOREM TimeInvariant == Spec => [](TypeInv /\ TimeInv)
  <1>1. Init => TypeInv /\ TimeInv
    BY TypeInit, TimeInit
  <1>2. TypeInv /\ TimeInv /\ [Next]_vars => (TypeInv /\ TimeInv)'
    BY TypeStep, TimeStep
  <1> QED  BY <1>1, <1>2, PTL DEF Spec

\* When a live session is polled, its last keepalive is at most an interval old, or a
\* handler has blocked since it read the last message.
LEMMA KeepAliveAge ==
    ASSUME TypeInv, LiveInv, pc = "poll", session.now <= clock
    PROVE  clock - last <= Interval \/ (session.now = heard /\ clock - heard <= MaxStall)
  BY SMTT(30), TimeTypes, TimeFacts DEF LiveInv, Lag

\* Whatever the peer does, and however long a handler blocks, a session that is
\* polled has heard of its peer within the limit, for every heartbeat interval: a
\* dead peer does not go unnoticed.
THEOREM SilenceDetected == Spec => []DeadPeerDetected
  <1>1. TypeInv /\ TimeInv => DeadPeerDetected
    <2> SUFFICES ASSUME TypeInv, TimeInv, Polls, session.active
                 PROVE  \E limit \in {SilenceLimit, MaxStall + Interval} : clock - heard <= limit
      BY DEF DeadPeerDetected
    <2>1. LiveInv /\ pc = "poll" /\ session.now <= clock
      BY DEF TimeInv, Live, Polls
    <2>2. /\ clock \in Nat /\ last \in Nat /\ heard \in Nat /\ asked \in Nat
          /\ session.tr \in Nat /\ session.trPending \in BOOLEAN
      BY TimeTypes
    <2>3. CASE session.now = heard /\ clock - heard <= MaxStall
      BY <2>2, <2>3, TimeFacts
    <2>4. CASE clock - last <= Interval
      <3>1. CASE ~session.trPending
        <4>1. last - heard <= ProbeTime
          BY <2>1, <3>1 DEF LiveInv, Silence
        <4> QED  BY <2>2, <2>4, <4>1, TimeFacts
      <3>2. CASE session.trPending /\ last - session.tr <= AnswerTime
        <4>1. session.tr - heard <= ProbeTime + Interval - 1
          BY <2>1, <3>2 DEF LiveInv, Silence
        <4> QED  BY <2>2, <2>4, <3>2, <4>1, TimeFacts
      <3>3. CASE last = asked /\ asked - heard <= MaxStall
        BY <2>2, <2>4, <3>3, TimeFacts
      <3> QED  BY <2>1, <3>1, <3>2, <3>3 DEF LiveInv, Silence
    <2> QED  BY <2>1, <2>3, <2>4, KeepAliveAge
  <1> QED  BY <1>1, TimeInvariant, PTL

\* A live session none of whose sends failed never leaves its peer without a message for
\* longer than it announced, one keepalive interval and the time its handlers block.
THEOREM BeatsKept == Spec => []PeerHearsUs
  <1>1. TypeInv /\ TimeInv => PeerHearsUs
    <2> SUFFICES ASSUME TypeInv, TimeInv, Polls, session.active
                 PROVE  \E quiet \in {HeartBtInt, MaxStall}, sent \in {session.tx, joined} :
                           clock - sent <= quiet + Interval + MaxStall
      BY DEF PeerHearsUs
    <2>1. LiveInv /\ pc = "poll" /\ session.now <= clock
      BY DEF TimeInv, Live, Polls
    <2>2. /\ clock \in Nat /\ last \in Nat /\ heard \in Nat /\ joined \in Nat
          /\ session.tx \in Nat /\ session.now \in Nat
      BY TimeTypes
    <2>3. clock - last <= Interval + MaxStall
      BY <2>1, <2>2, KeepAliveAge, TimeFacts DEF LiveInv
    <2>4. last = joined \/ \E quiet \in {HeartBtInt, MaxStall} : last - session.tx <= quiet
      BY <2>1 DEF LiveInv, Beaten
    <2> QED  BY <2>2, <2>3, <2>4, TimeFacts
  <1> QED  BY <1>1, TimeInvariant, PTL

\* The keepalive fails no peer that had less than half a heartbeat interval to
\* answer, less the second, or the time a handler blocked, by which the clock of
\* the session lagged when it asked.
THEOREM FailureIsJustified == Spec => FailureJustified
  <1>1. TypeInv /\ TimeInv /\ [Next]_vars
          => [KeepAliveFails =>
                \E lag \in {1, MaxStall} : 2 * (clock - asked + lag) > HeartBtInt]_vars
    <2> SUFFICES ASSUME TypeInv, TimeInv, KeepAliveFails
                 PROVE  \E lag \in {1, MaxStall} : 2 * (clock - asked + lag) > HeartBtInt
      OBVIOUS
    <2>1. session.trPending /\ 2 * (clock - session.tr) > HeartBtInt /\ LiveInv
      BY DEF KeepAliveFails, Polls, Unanswered, TimeInv, Live
    <2>2. PICK lag \in {1, MaxStall} : asked - session.tr <= lag
      BY <2>1 DEF LiveInv, Asked
    <2>3. clock \in Nat /\ asked \in Nat /\ session.tr \in Nat /\ lag \in Nat
      BY TimeTypes, TimeFacts
    <2>4. 2 * (clock - asked + lag) > HeartBtInt
      BY <2>1, <2>2, <2>3, TimeFacts
    <2> QED  BY <2>4
  <1> QED  BY <1>1, TimeInvariant, PTL DEF Spec, FailureJustified

-----------------------------------------------------------------------------
(* The invariant.                                                          *)

\* The number of the message after m.
After(m) == IF m.type = "Reset" THEN m.ref ELSE m.seq + 1

\* The messages of a wire follow one another from a number to the one before another.
InOrder(wire, from, to) ==
    /\ \A k \in DOMAIN wire :
          /\ wire[k].type \notin {"GapFill", "Garbled"}
          /\ wire[k].type = "Reset" => wire[k].ref > wire[k].seq
          /\ wire[k].seq = IF k = 1 THEN from ELSE After(wire[k - 1])
    /\ to = IF wire = << >> THEN from ELSE After(wire[Len(wire)])

NoneOf(type, wire) == \A k \in DOMAIN wire : wire[k].type # type

ReadUpTo(n) ==
    \A k \in DOMAIN read :
       /\ read[k][2] <= n
       /\ \A j \in 1 .. k - 1 : read[j][2] < read[k][2]

\* While nothing was garbled, the messages on their way are the ones the session
\* expects, and it asks for none again.
Ordered ==
    (NothingGarbled /\ session.active) =>
       /\ InOrder(peer.wire, session.inSeq + 1, Len(peer.log) + 1)
       /\ NoneOf("ResendRequest", session.wire)
       /\ ReadUpTo(session.inSeq)

\* The messages of the session have rising numbers below the next one, but for a gap
\* fill, whose number the peer has asked for.  A peer that waits for a gap to be filled
\* from the number it expects on is past the messages that had these numbers.
Rising(wire, next, expects, waits) ==
    /\ waits => expects < next
    /\ \A k \in DOMAIN wire :
          /\ wire[k].type = "GapFill" => wire[k].seq <= expects
          /\ wire[k].type # "GapFill" =>
                /\ wire[k].seq < next
                /\ waits => expects < wire[k].seq
                /\ \A j \in 1 .. k - 1 :
                      wire[j].type # "GapFill" => wire[j].seq < wire[k].seq

Ranked ==
    /\ Rising(session.wire, session.outSeq, peer.expects, peer.resend # "none")
    /\ \A k \in DOMAIN peer.wire :
          peer.wire[k].type = "ResendRequest" => peer.wire[k].ref <= peer.expects

\* What a peer that asked for a gap asked, or the answer, is on its way, unless the
\* sending of the answer failed.
Asking ==
    \E k \in DOMAIN peer.wire :
       /\ peer.wire[k].type = "ResendRequest"
       /\ peer.wire[k].ref = peer.expects /\ peer.wire[k].end >= peer.expects
Filling ==
    \E k \in DOMAIN session.wire :
       /\ session.wire[k].type = "GapFill"
       /\ session.wire[k].seq = peer.expects /\ session.wire[k].ref > peer.expects

Served ==
    (NothingGarbled /\ session.active /\ peer.alive /\ peer.resend = "bounded")
       => Asking \/ Filling \/ AnswerLost

\* The test request is on its way to the peer, which has time left to answer it.
Probing ==
    /\ clock - asked <= AnswerDelay
    /\ \E k \in DOMAIN session.wire :
          session.wire[k].type = "TestRequest" /\ session.wire[k].ref = session.testId

\* The messages of the session are the ones its peer expects.
Consecutive(wire, next, expects) ==
    /\ NoneOf("GapFill", wire)
    /\ \A k \in DOMAIN wire : wire[k].seq = expects + k - 1
    /\ next = expects + Len(wire)

\* Where nothing is lost either, the peer is in step with the session as well, and
\* a test request is answered.
Lossless ==
    (MaxGarbled = 0 /\ MaxLost = 0 /\ session.active /\ peer.alive) =>
       /\ peer.resend = "none"
       /\ NoneOf("ResendRequest", peer.wire)
       /\ Consecutive(session.wire, session.outSeq, peer.expects)
       /\ session.trPending => Probing \/ AnswerWaits

\* Before the session is initiated nothing was sent.
Untouched ==
    pc = "new" => /\ peer.wire = << >> /\ peer.log = << >> /\ read = << >>
                  /\ peer.expects = 1 /\ peer.resend = "none"
                  /\ session.wire = << >>

Bounded ==
    /\ session.active => session.grace = << >>
    /\ budget.garbled <= MaxGarbled /\ budget.lost <= MaxLost
    /\ Untouched

OrderInv ==
    /\ Bounded
    /\ Ordered /\ Ranked /\ Served /\ Lossless

-----------------------------------------------------------------------------
(* Lemmas about wires.                                                     *)

LEMMA AppendFacts ==
    ASSUME NEW wire \in Seq(Message), NEW x \in Message
    PROVE  LET w == Append(wire, x)
           IN  /\ \A k \in DOMAIN wire : k \in DOMAIN w /\ w[k] = wire[k]
               /\ \A k \in DOMAIN w : \/ k \in DOMAIN wire /\ w[k] = wire[k]
                                      \/ k = Len(wire) + 1 /\ w[k] = x
               /\ \A k \in DOMAIN wire : k \in Nat /\ k <= Len(wire)
                                            /\ \A j \in 1 .. k - 1 : j \in DOMAIN wire
               /\ \A j \in 1 .. Len(wire) : j \in DOMAIN wire
               /\ Len(wire) + 1 \in DOMAIN w /\ w[Len(wire) + 1] = x
               /\ Len(w) = Len(wire) + 1 /\ Len(wire) \in Nat
  OBVIOUS

LEMMA TailFacts ==
    ASSUME NEW wire \in Seq(Message), wire # << >>
    PROVE  LET w == Tail(wire)
           IN  /\ Head(wire) = wire[1] /\ 1 \in DOMAIN wire
               /\ \A k \in DOMAIN w : /\ k \in Nat /\ k >= 1 /\ k + 1 \in DOMAIN wire
                                      /\ w[k] = wire[k + 1]
                                      /\ \A j \in 1 .. k - 1 : j + 1 \in 1 .. k /\ w[j] = wire[j + 1]
               /\ \A k \in DOMAIN wire : k # 1 => k - 1 \in DOMAIN w /\ w[k - 1] = wire[k]
               /\ Len(wire) = Len(w) + 1 /\ Len(w) \in Nat
  OBVIOUS

LEMMA InOrderAppend ==
    ASSUME NEW wire \in Seq(Message), NEW from, NEW to, InOrder(wire, from, to),
           NEW x \in Message, x.type \notin {"GapFill", "Garbled"}, x.seq = to,
           x.type = "Reset" => x.ref > x.seq
    PROVE  InOrder(Append(wire, x), from, After(x))
  <1> DEFINE w == Append(wire, x)
  <1>1. /\ Len(w) = Len(wire) + 1 /\ w # << >> /\ w[Len(w)] = x /\ Len(wire) \in Nat
        /\ \A k \in DOMAIN wire : k \in DOMAIN w /\ w[k] = wire[k]
        /\ \A k \in DOMAIN w : k \in DOMAIN wire \/ k = Len(wire) + 1
        /\ \A k \in DOMAIN wire : k = 1 \/ k - 1 \in DOMAIN wire
        /\ wire = << >> => Len(wire) = 0
        /\ wire # << >> => Len(wire) \in DOMAIN wire /\ Len(wire) # 0
    OBVIOUS
  <1> HIDE DEF w
  <1>2. ASSUME NEW k \in DOMAIN w
        PROVE  /\ w[k].type \notin {"GapFill", "Garbled"}
               /\ w[k].type = "Reset" => w[k].ref > w[k].seq
               /\ w[k].seq = IF k = 1 THEN from ELSE After(w[k - 1])
    <2>1. CASE k \in DOMAIN wire
      BY <1>1, <2>1 DEF InOrder
    <2>2. CASE k = Len(wire) + 1
      <3>1. w[k] = x
        BY <1>1, <2>2
      <3>2. x.seq = IF k = 1 THEN from ELSE After(w[k - 1])
        BY <1>1, <2>2 DEF InOrder
      <3> QED  BY <3>1, <3>2
    <2> QED  BY <1>1, <2>1, <2>2
  <1>3. InOrder(w, from, After(x))
    BY <1>1, <1>2 DEF InOrder
  <1> QED  BY <1>3 DEF w

LEMMA InOrderTail ==
    ASSUME NEW wire \in Seq(Message), wire # << >>, NEW from, NEW to, InOrder(wire, from, to)
    PROVE  /\ Head(wire).type \notin {"GapFill", "Garbled"} /\ Head(wire).seq = from
           /\ Head(wire).type = "Reset" => Head(wire).ref > Head(wire).seq
           /\ InOrder(Tail(wire), After(Head(wire)), to)
  <1> DEFINE w == Tail(wire)
  <1>1. /\ Head(wire) = wire[1] /\ 1 \in DOMAIN wire
        /\ \A k \in DOMAIN w : k \in Nat /\ k >= 1 /\ k + 1 \in DOMAIN wire /\ w[k] = wire[k + 1]
        /\ \A k \in DOMAIN wire : k # 1 => k - 1 \in DOMAIN w
        /\ Len(wire) = Len(w) + 1 /\ Len(w) \in Nat
    BY TailFacts
  <1>5. /\ w = << >> => Len(wire) = 1
        /\ w # << >> => Len(w) \in DOMAIN w
        /\ \A k \in DOMAIN w : k # 1 => k \in DOMAIN wire
    <2>1. w \in Seq(Message)
      OBVIOUS
    <2> HIDE DEF w
    <2>2. DOMAIN w = 1 .. Len(w) /\ DOMAIN wire = 1 .. Len(wire)
      BY <2>1
    <2>3. w = << >> <=> Len(w) = 0
      BY <2>1
    <2> QED  BY <1>1, <2>2, <2>3
  <1> HIDE DEF w
  <1>2. ASSUME NEW k \in DOMAIN w
        PROVE  /\ w[k].type \notin {"GapFill", "Garbled"}
               /\ w[k].type = "Reset" => w[k].ref > w[k].seq
               /\ w[k].seq = IF k = 1 THEN After(wire[1]) ELSE After(w[k - 1])
    <2>1. k + 1 \in DOMAIN wire /\ w[k] = wire[k + 1] /\ k \in Nat
      BY <1>1
    <2>2. wire[k + 1].seq = IF k + 1 = 1 THEN from ELSE After(wire[k + 1 - 1])
      BY <2>1 DEF InOrder
    <2>3. k + 1 # 1 /\ k + 1 - 1 = k
      BY <1>1, <2>1
    <2>4. k # 1 => k - 1 \in DOMAIN w /\ w[k - 1] = wire[k]
      <3>1. k # 1 => k - 1 \in DOMAIN w /\ k - 1 + 1 = k
        BY <1>1, <1>5, <2>1
      <3> QED  BY <1>1, <3>1
    <2> QED  BY <2>1, <2>2, <2>3, <2>4 DEF InOrder
  <1>3. to = IF w = << >> THEN After(wire[1]) ELSE After(w[Len(w)])
    <2>1. to = After(wire[Len(wire)])
      BY DEF InOrder
    <2> QED  BY <1>1, <1>5, <2>1
  <1>4. InOrder(w, After(wire[1]), to)
    BY <1>2, <1>3 DEF InOrder
  <1> QED  BY <1>1, <1>4 DEF w, InOrder

\* Session t has sent, after what session s had, messages of its own.
Carries(s, t) ==
    /\ \A k \in DOMAIN s.wire : k \in DOMAIN t.wire /\ t.wire[k] = s.wire[k]
    /\ \A e \in Nat, waits \in BOOLEAN :
          Rising(s.wire, s.outSeq, e, waits) => Rising(t.wire, t.outSeq, e, waits)
    /\ NoneOf("ResendRequest", s.wire) => NoneOf("ResendRequest", t.wire)
    /\ \A e \in Nat :
          Consecutive(s.wire, s.outSeq, e) => Consecutive(t.wire, t.outSeq, e)

LEMMA RisingAppend ==
    ASSUME NEW wire \in Seq(Message), NEW n \in Nat, NEW e \in Nat, NEW waits \in BOOLEAN,
           Rising(wire, n, e, waits), NEW x \in Message
    PROVE  /\ x.type # "GapFill" /\ x.seq = n => Rising(Append(wire, x), n + 1, e, waits)
           /\ x.type = "GapFill" /\ x.seq <= e => Rising(Append(wire, x), n, e, waits)
           /\ Rising(wire, n + 1, e, waits)
  <1> DEFINE w == Append(wire, x)
  <1>1. /\ \A k \in DOMAIN w : \/ k \in DOMAIN wire /\ w[k] = wire[k]
                               \/ k = Len(wire) + 1 /\ w[k] = x
        /\ \A k \in DOMAIN wire : w[k] = wire[k]
        /\ \A k \in DOMAIN wire : \A j \in 1 .. k - 1 : j \in DOMAIN wire
        /\ \A j \in 1 .. Len(wire) : j \in DOMAIN wire
        /\ Len(wire) \in Nat /\ Len(wire) + 1 - 1 = Len(wire)
    BY AppendFacts
  <1>2. \A k \in DOMAIN wire : wire[k].seq \in Nat
    <2>1. \A k \in DOMAIN wire : wire[k] \in Message
      OBVIOUS
    <2> QED  BY <2>1 DEF Message
  <1>3. x.seq \in Nat
    BY DEF Message
  <1> HIDE DEF w
  <1>4. Rising(wire, n + 1, e, waits)
    BY <1>2 DEF Rising
  <1>5. ASSUME x.type # "GapFill", x.seq = n PROVE Rising(w, n + 1, e, waits)
    <2>1. ASSUME NEW k \in DOMAIN w
          PROVE  /\ w[k].type = "GapFill" => w[k].seq <= e
                 /\ w[k].type # "GapFill" =>
                       /\ w[k].seq < n + 1
                       /\ waits => e < w[k].seq
                       /\ \A j \in 1 .. k - 1 : w[j].type # "GapFill" => w[j].seq < w[k].seq
      <3>1. CASE k \in DOMAIN wire /\ w[k] = wire[k]
        BY <1>1, <1>4, <3>1 DEF Rising
      <3>2. CASE k = Len(wire) + 1 /\ w[k] = x
        <4>1. \A j \in 1 .. k - 1 : j \in DOMAIN wire /\ w[j] = wire[j]
          BY <1>1, <3>2
        <4> QED  BY <1>3, <1>5, <3>2, <4>1 DEF Rising
      <3> QED  BY <1>1, <3>1, <3>2
    <2> QED  BY <2>1 DEF Rising
  <1>6. ASSUME x.type = "GapFill", x.seq <= e PROVE Rising(w, n, e, waits)
    <2>1. ASSUME NEW k \in DOMAIN w
          PROVE  /\ w[k].type = "GapFill" => w[k].seq <= e
                 /\ w[k].type # "GapFill" =>
                       /\ w[k].seq < n
                       /\ waits => e < w[k].seq
                       /\ \A j \in 1 .. k - 1 : w[j].type # "GapFill" => w[j].seq < w[k].seq
      <3>1. CASE k \in DOMAIN wire /\ w[k] = wire[k]
        BY <1>1, <3>1 DEF Rising
      <3>2. CASE k = Len(wire) + 1 /\ w[k] = x
        BY <1>6, <3>2
      <3> QED  BY <1>1, <3>1, <3>2
    <2> QED  BY <2>1 DEF Rising
  <1> QED  BY <1>4, <1>5, <1>6 DEF w

LEMMA RisingTail ==
    ASSUME NEW wire \in Seq(Message), wire # << >>, NEW n, NEW e, NEW waits,
           Rising(wire, n, e, waits)
    PROVE  /\ Rising(Tail(wire), n, e, waits)
           /\ Head(wire).type # "GapFill" =>
                 \A k \in DOMAIN Tail(wire) :
                    Tail(wire)[k].type # "GapFill" => Head(wire).seq < Tail(wire)[k].seq
  <1> DEFINE w == Tail(wire)
  <1>1. /\ Head(wire) = wire[1] /\ 1 \in DOMAIN wire
        /\ \A k \in DOMAIN w : /\ k \in Nat /\ k >= 1 /\ k + 1 \in DOMAIN wire
                               /\ w[k] = wire[k + 1]
                               /\ \A j \in 1 .. k - 1 : j + 1 \in 1 .. k /\ w[j] = wire[j + 1]
    BY TailFacts
  <1> HIDE DEF w
  <1>0. ASSUME NEW i \in DOMAIN wire, NEW j \in 1 .. i - 1,
               wire[i].type # "GapFill", wire[j].type # "GapFill"
        PROVE  wire[j].seq < wire[i].seq
    BY <1>0 DEF Rising
  <1>2. ASSUME NEW k \in DOMAIN w
        PROVE  /\ w[k].type = "GapFill" => w[k].seq <= e
               /\ w[k].type # "GapFill" =>
                     /\ w[k].seq < n
                     /\ waits => e < w[k].seq
                     /\ \A j \in 1 .. k - 1 : w[j].type # "GapFill" => w[j].seq < w[k].seq
                     /\ wire[1].type # "GapFill" => wire[1].seq < w[k].seq
    <2>1. k + 1 \in DOMAIN wire /\ w[k] = wire[k + 1] /\ k + 1 - 1 = k /\ 1 \in 1 .. k
      BY <1>1
    <2>2. ASSUME NEW j \in 1 .. k, wire[k + 1].type # "GapFill", wire[j].type # "GapFill"
          PROVE  wire[j].seq < wire[k + 1].seq
      <3>1. PICK i \in DOMAIN wire : i = k + 1
        BY <2>1
      <3>2. j \in 1 .. i - 1 /\ wire[i].type # "GapFill"
        BY <2>1, <2>2, <3>1
      <3>3. wire[j].seq < wire[i].seq
        BY <1>0, <2>2, <3>2
      <3> QED  BY <3>1, <3>3
    <2> QED  BY <1>1, <2>1, <2>2 DEF Rising
  <1>3. Rising(w, n, e, waits)
    BY <1>2 DEF Rising
  <1> QED  BY <1>1, <1>2, <1>3 DEF w

LEMMA CarriesTrans ==
    ASSUME NEW s, NEW t, NEW u, Carries(s, t), Carries(t, u)
    PROVE  Carries(s, u)
  BY DEF Carries

LEMMA CarriesSame ==
    ASSUME NEW s, NEW t, t.wire = s.wire, t.outSeq = s.outSeq
    PROVE  Carries(s, t)
  BY DEF Carries

LEMMA CarriesSend ==
    ASSUME NEW s \in Sessions, NEW t, NEW x \in Message,
           x.type \notin {"GapFill", "ResendRequest"}, x.seq = s.outSeq,
           t.wire = Append(s.wire, x), t.outSeq = s.outSeq + 1
    PROVE  Carries(s, t)
  <1>1. s.wire \in Seq(Message) /\ s.outSeq \in Nat
    BY DEF Sessions
  <1>2. /\ \A k \in DOMAIN s.wire : k \in DOMAIN t.wire /\ t.wire[k] = s.wire[k]
        /\ \A k \in DOMAIN t.wire : \/ k \in DOMAIN s.wire /\ t.wire[k] = s.wire[k]
                                    \/ k = Len(s.wire) + 1 /\ t.wire[k] = x
        /\ Len(t.wire) = Len(s.wire) + 1 /\ Len(s.wire) \in Nat
    BY <1>1, AppendFacts
  <1>3. \A e \in Nat, waits \in BOOLEAN :
           Rising(s.wire, s.outSeq, e, waits) => Rising(t.wire, t.outSeq, e, waits)
    BY <1>1, RisingAppend
  <1>4. NoneOf("ResendRequest", s.wire) => NoneOf("ResendRequest", t.wire)
    BY <1>2 DEF NoneOf
  <1>5. ASSUME NEW e \in Nat, Consecutive(s.wire, s.outSeq, e)
        PROVE  Consecutive(t.wire, t.outSeq, e)
    <2>1. NoneOf("GapFill", t.wire)
      BY <1>2, <1>5 DEF NoneOf, Consecutive
    <2>2. ASSUME NEW k \in DOMAIN t.wire PROVE t.wire[k].seq = e + k - 1
      <3>1. CASE k \in DOMAIN s.wire /\ t.wire[k] = s.wire[k]
        BY <1>5, <3>1 DEF Consecutive
      <3>2. CASE k = Len(s.wire) + 1 /\ t.wire[k] = x
        <4>1. s.outSeq = e + Len(s.wire)
          BY <1>5 DEF Consecutive
        <4> QED  BY <1>1, <1>2, <3>2, <4>1
      <3> QED  BY <1>2, <3>1, <3>2
    <2>3. t.outSeq = e + Len(t.wire)
      BY <1>1, <1>2, <1>5 DEF Consecutive
    <2> QED  BY <2>1, <2>2, <2>3 DEF Consecutive
  <1> QED  BY <1>2, <1>3, <1>4, <1>5 DEF Carries


-----------------------------------------------------------------------------
(* What a session does to its wire.                                        *)

LEMMA KeptAliveCarries ==
    ASSUME NEW s \in Sessions, NEW n \in Nat, Requests(s.wire, n), clock \in Nat
    PROVE  LET t == KeptAlive(s)
           IN  /\ Carries(s, t)
               /\ Asks(s) => \E k \in DOMAIN t.wire :
                                t.wire[k].type = "TestRequest" /\ t.wire[k].ref = s.now
  <1> DEFINE p == IF Asks(s) THEN TestRequest(s) ELSE s
             x == Msg("Heartbeat", NONE)
  <1>1. /\ p \in Sessions /\ Carries(s, p)
        /\ Asks(s) => \E k \in DOMAIN p.wire :
                         p.wire[k].type = "TestRequest" /\ p.wire[k].ref = s.now
    <2>1. CASE Asks(s)
      <3> DEFINE t == TestRequest(s)
      <3>1. /\ t \in Sessions /\ t.outSeq = s.outSeq + 1
            /\ \E y \in Message : /\ t.wire = Append(s.wire, y)
                                  /\ y.type = "TestRequest" /\ y.ref = s.now
                                  /\ y.seq = s.outSeq
        BY TestRequestFacts
      <3> HIDE DEF t
      <3>2. PICK y \in Message : /\ t.wire = Append(s.wire, y)
                                 /\ y.type = "TestRequest" /\ y.ref = s.now
                                 /\ y.seq = s.outSeq
        BY <3>1
      <3>3. s.wire \in Seq(Message)
        BY DEF Sessions
      <3>4. Len(s.wire) + 1 \in DOMAIN t.wire /\ t.wire[Len(s.wire) + 1] = y
        BY <3>2, <3>3, AppendFacts
      <3>5. Carries(s, t)
        BY <3>1, <3>2, CarriesSend
      <3> QED  BY <2>1, <3>1, <3>2, <3>4, <3>5 DEF t
    <2>2. CASE ~Asks(s)
      BY <2>2, CarriesSame
    <2> QED  BY <2>1, <2>2
  <1>2. x \in Message /\ x.type = "Heartbeat"
    BY NoneType, MsgType DEF Types, AdminTypes
  <1>3. KeptAlive(s) = IF Beats(p) THEN Send(p, x) ELSE p
    BY DEF KeptAlive
  <1> HIDE DEF p, x
  <1>4. Carries(p, Send(p, x))
    <2> DEFINE y == [x EXCEPT !.seq = p.outSeq]
    <2>1. y.type = "Heartbeat" /\ y.seq = p.outSeq
      BY <1>2 DEF Message
    <2> HIDE DEF y
    <2>2. /\ Send(p, x).wire = Append(p.wire, y) /\ y \in Message
          /\ Send(p, x).outSeq = p.outSeq + 1
      BY <1>1, <1>2, SendFacts DEF y
    <2> QED  BY <1>1, <2>1, <2>2, CarriesSend
  <1>5. Carries(p, KeptAlive(s))
    BY <1>3, <1>4, CarriesSame
  <1>6. Carries(s, KeptAlive(s))
    BY <1>1, <1>5, CarriesTrans
  <1> QED  BY <1>1, <1>5, <1>6 DEF Carries

LEMMA PolledCarries ==
    ASSUME session \in Sessions, clock \in Nat, NEW n \in Nat, Requests(session.wire, n)
    PROVE  /\ Carries(session, Polled)
           /\ KeepAliveDue /\ Asks(session) =>
                 \E k \in DOMAIN Polled.wire :
                    Polled.wire[k].type = "TestRequest" /\ Polled.wire[k].ref = session.now
  <1> DEFINE s == IF KeepAliveDue THEN KeptAlive(session) ELSE session
  <1>1. /\ s \in Sessions /\ Carries(session, s)
        /\ KeepAliveDue /\ Asks(session) =>
              \E k \in DOMAIN s.wire :
                 s.wire[k].type = "TestRequest" /\ s.wire[k].ref = session.now
    BY KeptAliveFacts, KeptAliveCarries, CarriesSame
  <1>2. Polled = [s EXCEPT !.now = clock]
    BY DEF Polled
  <1> HIDE DEF s
  <1>3. Polled.wire = s.wire /\ Polled.outSeq = s.outSeq
    BY <1>1, <1>2 DEF Sessions
  <1>4. Carries(s, Polled)
    BY <1>3, CarriesSame
  <1>5. Carries(session, Polled)
    BY <1>1, <1>4, CarriesTrans
  <1> QED  BY <1>1, <1>3, <1>5

LEMMA ParsedCarries ==
    ASSUME NEW s \in Sessions PROVE Carries(s, Parsed(s))
  BY ParsedFacts, CarriesSame

LEMMA SendAppCarries ==
    ASSUME NEW s \in Sessions
    PROVE  LET t == Send(s, Msg("App", NONE))
           IN  Carries(s, t) /\ t.outSeq = s.outSeq + 1
  <1> DEFINE x == Msg("App", NONE)
             y == [x EXCEPT !.seq = s.outSeq]
  <1>1. x \in Message /\ x.type = "App"
    BY NoneType, MsgType DEF Types
  <1>2. y.type = "App" /\ y.seq = s.outSeq
    BY <1>1 DEF Message
  <1> HIDE DEF x, y
  <1>3. /\ Send(s, x).wire = Append(s.wire, y) /\ y \in Message
        /\ Send(s, x).outSeq = s.outSeq + 1
    BY <1>1, SendFacts DEF y
  <1>4. Carries(s, Send(s, x))
    BY <1>2, <1>3, CarriesSend
  <1> QED  BY <1>3, <1>4 DEF x

\* What is sent in answer to a message.  A session that is in step with its peer asks
\* for nothing.
LEMMA HandledCarries ==
    ASSUME NEW s \in Sessions, NEW m \in Message, NEW t, Handled(s, m, t)
    PROVE  /\ \A k \in DOMAIN s.wire : k \in DOMAIN t.wire /\ t.wire[k] = s.wire[k]
           /\ \A e \in Nat, waits \in BOOLEAN :
                 /\ Rising(s.wire, s.outSeq, e, waits)
                 /\ m.type = "ResendRequest" => m.ref <= e
                 => Rising(t.wire, t.outSeq, e, waits)
           /\ m.seq <= s.inSeq /\ NoneOf("ResendRequest", s.wire)
                 => NoneOf("ResendRequest", t.wire)
           /\ m.seq <= s.inSeq /\ m.type # "ResendRequest" => Carries(s, t)
  <1>1. s.wire \in Seq(Message) /\ s.outSeq \in Nat /\ s.inSeq \in Nat /\ m.seq \in Nat
    BY DEF Sessions, Message
  <1>2. CASE t.wire = s.wire /\ t.outSeq = s.outSeq
    BY <1>2, CarriesSame
  <1>3. ASSUME NEW x \in Message, t.wire = Append(s.wire, x),
               Requested(s, m, x), Numbered(s, m, x, t)
        PROVE  /\ \A k \in DOMAIN s.wire : k \in DOMAIN t.wire /\ t.wire[k] = s.wire[k]
               /\ \A e \in Nat, waits \in BOOLEAN :
                     /\ Rising(s.wire, s.outSeq, e, waits)
                     /\ m.type = "ResendRequest" => m.ref <= e
                     => Rising(t.wire, t.outSeq, e, waits)
               /\ m.seq <= s.inSeq /\ NoneOf("ResendRequest", s.wire)
                     => NoneOf("ResendRequest", t.wire)
               /\ m.seq <= s.inSeq /\ m.type # "ResendRequest" => Carries(s, t)
    <2>1. /\ \A k \in DOMAIN s.wire : k \in DOMAIN t.wire /\ t.wire[k] = s.wire[k]
          /\ \A k \in DOMAIN t.wire : \/ k \in DOMAIN s.wire /\ t.wire[k] = s.wire[k]
                                      \/ k = Len(s.wire) + 1 /\ t.wire[k] = x
      BY <1>1, <1>3, AppendFacts
    <2>2. ASSUME NEW e \in Nat, NEW waits \in BOOLEAN, Rising(s.wire, s.outSeq, e, waits),
                 m.type = "ResendRequest" => m.ref <= e
          PROVE  Rising(t.wire, t.outSeq, e, waits)
      BY <1>1, <1>3, <2>2, RisingAppend DEF Numbered
    <2>3. m.seq <= s.inSeq => x.type # "ResendRequest"
      BY <1>1, <1>3 DEF Requested
    <2>4. m.seq <= s.inSeq /\ NoneOf("ResendRequest", s.wire) => NoneOf("ResendRequest", t.wire)
      BY <2>1, <2>3 DEF NoneOf
    <2>5. m.seq <= s.inSeq /\ m.type # "ResendRequest" => Carries(s, t)
      BY <1>3, <2>3, CarriesSend DEF Numbered
    <2> QED  BY <2>1, <2>2, <2>4, <2>5
  <1> QED  BY <1>2, <1>3 DEF Handled

\* A message that has the number the session expects.
LEMMA AdminExpected ==
    ASSUME NEW s \in Sessions, NEW m \in Message, m.seq = s.inSeq,
           m.type \in AdminTypes, m.type # "GapFill", m.type = "Reset" => m.ref > m.seq
    PROVE  LET t == Admin(s, m)
           IN  /\ t.inSeq = After(m) - 1
               /\ m.type = "Heartbeat" /\ m.ref = s.testId => ~t.trPending
               /\ m.type = "ResendRequest" =>
                     \E k \in DOMAIN t.wire : /\ t.wire[k].type = "GapFill"
                                              /\ t.wire[k].seq = m.ref
                                              /\ t.wire[k].ref = m.end + 1
  <1>1. Expected(s, m)
    BY DEF Expected
  <1>2. m.seq \in Nat /\ m.ref \in Int /\ m.end \in Nat /\ s.wire \in Seq(Message)
    BY DEF Message, Sessions
  <1>3. CASE m.type = "Heartbeat"
    <2>1. Admin(s, m) = OnHeartbeat(s, m)
      BY <1>1, <1>3 DEF Admin
    <2>2. [s EXCEPT !.trPending = FALSE].inSeq = s.inSeq
            /\ ~[s EXCEPT !.trPending = FALSE].trPending
      BY DEF Sessions
    <2> QED  BY <1>2, <1>3, <2>1, <2>2 DEF OnHeartbeat, After
  <1>4. CASE m.type = "TestRequest"
    <2>1. Admin(s, m) = Send(s, Msg("Heartbeat", m.ref))
      BY <1>1, <1>4 DEF Admin
    <2>2. Msg("Heartbeat", m.ref) \in Message
      BY <1>2, MsgType DEF Types, AdminTypes
    <2>3. Send(s, Msg("Heartbeat", m.ref)).inSeq = s.inSeq
      BY <2>2, SendFacts
    <2> QED  BY <1>2, <1>4, <2>1, <2>3 DEF After
  <1>5. CASE m.type = "ResendRequest"
    <2> DEFINE q == Msg("GapFill", m.end + 1)
               x == [q EXCEPT !.seq = m.ref]
               w == Append(s.wire, x)
    <2>1. Admin(s, m) = SendAs(s, q, m.ref)
      BY <1>1, <1>5 DEF Admin, OnResendRequest
    <2>2. x.type = "GapFill" /\ x.seq = m.ref /\ x.ref = m.end + 1
      BY DEF Msg
    <2> HIDE DEF x
    <2>3. Len(s.wire) + 1 \in DOMAIN w /\ w[Len(s.wire) + 1] = x
      BY <1>2
    <2> HIDE DEF w
    <2>4. SendAs(s, q, m.ref) = [s EXCEPT !.wire = w, !.tx = s.now]
      BY DEF SendAs, w, x
    <2> HIDE DEF q
    <2>5. Admin(s, m).inSeq = s.inSeq /\ Admin(s, m).wire = w
      BY <2>1, <2>4 DEF Sessions
    <2> QED  BY <1>2, <1>5, <2>2, <2>3, <2>5 DEF After
  <1>6. CASE m.type = "Reset"
    <2>1. m.ref > s.inSeq
      BY <1>6
    <2>2. Admin(s, m) = [s EXCEPT !.inSeq = m.ref - 1]
      <3>1. Admin(s, m) = OnReset(s, m)
        BY <1>1, <1>6 DEF Admin
      <3>2. s.inSeq \in Nat /\ ~(m.ref < s.inSeq)
        BY <1>2, <2>1 DEF Sessions
      <3> QED  BY <2>1, <3>1, <3>2 DEF OnReset
    <2>3. [s EXCEPT !.inSeq = m.ref - 1].inSeq = m.ref - 1
      BY DEF Sessions
    <2> QED  BY <1>6, <2>2, <2>3 DEF After
  <1> QED  BY <1>3, <1>4, <1>5, <1>6 DEF AdminTypes

-----------------------------------------------------------------------------
(* Steps of the session.                                                   *)

LEMMA OrderTypes ==
    ASSUME TypeInv
    PROVE  /\ session \in Sessions /\ session.wire \in Seq(Message)
           /\ session.inSeq \in Nat /\ session.outSeq \in Nat
           /\ peer \in Peers /\ peer.wire \in Seq(Message) /\ peer.expects \in Nat
           /\ peer.log \in Logs /\ Len(peer.log) \in Nat
           /\ (peer.resend # "none") \in BOOLEAN
           /\ Requests(session.wire, Len(peer.log))
           /\ clock \in Nat /\ asked \in Nat /\ AnswerDelay \in Nat
           /\ budget.garbled \in Nat /\ budget.lost \in Nat
  <1>1. /\ session \in Sessions /\ peer \in Peers /\ clock \in Nat /\ asked \in Nat
        /\ Requests(session.wire, Len(peer.log)) /\ AnswerDelay \in Nat
        /\ budget.garbled \in Nat /\ budget.lost \in Nat
    BY SessionAssumption DEF TypeInv, TypeOK
  <1>2. session.wire \in Seq(Message) /\ session.inSeq \in Nat /\ session.outSeq \in Nat
    BY <1>1 DEF Sessions
  <1>3. /\ peer.wire \in Seq(Message) /\ peer.expects \in Nat
        /\ peer.log \in Logs /\ Len(peer.log) \in Nat
    BY <1>1 DEF Peers, Logs
  <1> QED  BY <1>1, <1>2, <1>3

\* A session that is not active owes nothing.
LEMMA InactiveOrder ==
    ASSUME ~session'.active
    PROVE  Ordered' /\ Served' /\ Lossless'
  BY DEF Ordered, Served, Lossless

\* The session sends messages of its own, or nothing.
LEMMA SendingOrder ==
    ASSUME TypeInv, OrderInv, Carries(session, session'),
           session'.inSeq = session.inSeq, session'.active => session.active,
           session'.lost = session.lost,
           peer' = peer, read' = read, budget'.garbled = budget.garbled,
           (session'.active /\ peer.alive /\ session'.trPending)
              => \/ /\ session.trPending /\ session'.testId = session.testId
                    /\ Probing => clock' - asked' <= AnswerDelay
                 \/ Probing'
    PROVE  Ordered' /\ Ranked' /\ Served' /\ Lossless'
  <1>1. /\ peer.expects \in Nat /\ (peer.resend # "none") \in BOOLEAN
        /\ \A k \in DOMAIN session.wire :
              k \in DOMAIN session'.wire /\ session'.wire[k] = session.wire[k]
    BY OrderTypes DEF Carries
  <1>2. Ordered'
    <2>1. ASSUME NothingGarbled, session.active
          PROVE  NoneOf("ResendRequest", session'.wire)
      BY <2>1 DEF OrderInv, Ordered, Carries
    <2> QED  BY <2>1 DEF OrderInv, Ordered, NothingGarbled, ReadUpTo
  <1>3. Ranked'
    <2>1. Rising(session'.wire, session'.outSeq, peer.expects, peer.resend # "none")
      BY <1>1 DEF OrderInv, Ranked, Carries
    <2> QED  BY <2>1 DEF OrderInv, Ranked
  <1>4. Served'
    <2>1. Filling => Filling'
      BY <1>1 DEF Filling
    <2>2. (Asking => Asking') /\ (AnswerLost => AnswerLost')
      BY DEF Asking, AnswerLost
    <2> QED  BY <2>1, <2>2 DEF OrderInv, Served, NothingGarbled
  <1>5. Lossless'
    <2>1. ASSUME MaxGarbled = 0, MaxLost = 0, session.active, peer.alive
          PROVE  /\ peer.resend = "none" /\ NoneOf("ResendRequest", peer.wire)
                 /\ Consecutive(session'.wire, session'.outSeq, peer.expects)
      BY <1>1, <2>1 DEF OrderInv, Lossless, Carries
    <2>2. session'.testId = session.testId
            => /\ Probing /\ clock' - asked' <= AnswerDelay => Probing'
               /\ AnswerWaits => AnswerWaits'
      BY <1>1 DEF Probing, AnswerWaits
    <2> QED  BY <2>1, <2>2 DEF OrderInv, Lossless
  <1> QED  BY <1>2, <1>3, <1>4, <1>5

\* Whatever the session sends when it handles a message, its wire stays ranked.
LEMMA ReadsRanked ==
    ASSUME TypeInv, Ranked, Reads, NEW s \in Sessions, Carries(session, s),
           NEW t, t = s \/ Handled(Parsed(s), Incoming, t),
           session'.wire = t.wire, session'.outSeq = t.outSeq
    PROVE  Ranked'
  <1> DEFINE e == peer.expects
             waits == peer.resend # "none"
             S == Parsed(s)
             m == Incoming
  <1>1. /\ e \in Nat /\ waits \in BOOLEAN /\ peer.wire \in Seq(Message) /\ peer.wire # << >>
        /\ peer \in Peers
    BY OrderTypes DEF Reads
  <1>2. /\ m = peer.wire[1] /\ 1 \in DOMAIN peer.wire /\ m \in Message
        /\ \A k \in DOMAIN Tail(peer.wire) :
              k + 1 \in DOMAIN peer.wire /\ Tail(peer.wire)[k] = peer.wire[k + 1]
    BY <1>1, TailFacts DEF Incoming
  <1>3. m.type = "ResendRequest" => m.ref <= e
    BY <1>2 DEF Ranked
  <1>4. /\ peer'.wire = Tail(peer.wire) /\ peer'.expects = e /\ peer'.resend = peer.resend
    BY <1>1 DEF Reads, Peers
  <1>5. Rising(session.wire, session.outSeq, e, waits)
    BY DEF Ranked
  <1> HIDE DEF e, waits, S, m
  <1>6. Rising(s.wire, s.outSeq, e, waits)
    BY <1>1, <1>5 DEF Carries
  <1>7. Rising(t.wire, t.outSeq, e, waits)
    <2>1. CASE t = s
      BY <1>6, <2>1
    <2>2. CASE Handled(S, m, t)
      <3>1. S \in Sessions /\ Rising(S.wire, S.outSeq, e, waits)
        BY <1>6, ParsedFacts DEF S
      <3> QED  BY <1>1, <1>2, <1>3, <2>2, <3>1, HandledCarries
    <2> QED  BY <2>1, <2>2 DEF S, m
  <1>8. \A k \in DOMAIN peer'.wire :
           peer'.wire[k].type = "ResendRequest" => peer'.wire[k].ref <= peer'.expects
    BY <1>2, <1>4 DEF Ranked, e
  <1> QED  BY <1>4, <1>7, <1>8 DEF Ranked, waits, e

\* A session s that read the next message, and what became of it.
LEMMA ReadsOrder ==
    ASSUME TypeInv, OrderInv, Reads, NEW s \in Sessions, Carries(session, s),
           s.inSeq = session.inSeq, session'.active => session.active,
           s.lost = session.lost, clock' = clock, budget' = budget,
           (Incoming.type # "Garbled" /\ Expected(Parsed(s), Incoming) /\ session'.active)
              => /\ Handled(Parsed(s), Incoming, session')
                 /\ session' = IF Incoming.type \in AdminTypes
                                 THEN Admin(Parsed(s), Incoming) ELSE Parsed(s),
           s.trPending =>
              \/ /\ asked' = clock
                 /\ \E k \in DOMAIN s.wire :
                       s.wire[k].type = "TestRequest" /\ s.wire[k].ref = s.testId
              \/ session.trPending /\ asked' = asked /\ s.testId = session.testId
    PROVE  Ordered' /\ Served' /\ Lossless'
  <1> DEFINE S == Parsed(s)
             m == Incoming
  <1>1. /\ session.inSeq \in Nat /\ peer.wire \in Seq(Message) /\ peer.wire # << >>
        /\ peer \in Peers /\ Len(peer.log) \in Nat /\ clock \in Nat /\ asked \in Nat
        /\ peer.expects \in Nat /\ AnswerDelay \in Nat /\ budget.garbled \in Nat
    BY OrderTypes DEF Reads
  <1>2. /\ m = peer.wire[1] /\ 1 \in DOMAIN peer.wire /\ m \in Message /\ m = Head(peer.wire)
        /\ \A k \in DOMAIN Tail(peer.wire) :
              k + 1 \in DOMAIN peer.wire /\ Tail(peer.wire)[k] = peer.wire[k + 1]
        /\ \A k \in DOMAIN peer.wire :
              k # 1 => k - 1 \in DOMAIN Tail(peer.wire) /\ Tail(peer.wire)[k - 1] = peer.wire[k]
    BY <1>1, TailFacts DEF Incoming
  <1>3. /\ peer'.wire = Tail(peer.wire) /\ peer'.expects = peer.expects
        /\ peer'.resend = peer.resend /\ peer'.log = peer.log /\ peer'.alive = peer.alive
    BY <1>1 DEF Reads, Peers
  <1>4. /\ S \in Sessions /\ S.inSeq = session.inSeq + 1 /\ S.testId = s.testId
        /\ S.trPending = s.trPending /\ Carries(session, S) /\ S.lost = session.lost
    BY ParsedFacts, ParsedCarries, CarriesTrans
  <1>5. SUFFICES ASSUME NothingGarbled, session'.active PROVE Ordered' /\ Served' /\ Lossless'
    <2>1. MaxGarbled = 0 => NothingGarbled
      BY <1>1 DEF OrderInv, Bounded, NothingGarbled
    <2> QED  BY <2>1 DEF Ordered, Served, Lossless, NothingGarbled
  <1>6. /\ InOrder(peer.wire, session.inSeq + 1, Len(peer.log) + 1)
        /\ NoneOf("ResendRequest", session.wire) /\ ReadUpTo(session.inSeq)
    BY <1>5 DEF OrderInv, Ordered
  <1>7. /\ m.type \notin {"GapFill", "Garbled"} /\ m.seq = session.inSeq + 1
        /\ m.type = "Reset" => m.ref > m.seq
        /\ InOrder(Tail(peer.wire), After(m), Len(peer.log) + 1)
    BY <1>1, <1>2, <1>6, InOrderTail
  <1>8. /\ Handled(S, m, session')
        /\ session' = IF m.type \in AdminTypes THEN Admin(S, m) ELSE S
    BY <1>4, <1>5, <1>7 DEF Expected
  <1> HIDE DEF S, m
  <1>9. /\ session'.inSeq = After(m) - 1
        /\ m.type = "Heartbeat" /\ m.ref = S.testId => ~session'.trPending
        /\ m.type = "ResendRequest" =>
              \E k \in DOMAIN session'.wire : /\ session'.wire[k].type = "GapFill"
                                              /\ session'.wire[k].seq = m.ref
                                              /\ session'.wire[k].ref = m.end + 1
    <2>1. CASE m.type \in AdminTypes
      BY <1>2, <1>4, <1>7, <1>8, <2>1, AdminExpected
    <2>2. CASE m.type \notin AdminTypes
      BY <1>1, <1>4, <1>7, <1>8, <2>2 DEF AdminTypes, After
    <2> QED  BY <2>1, <2>2
  <1>10. /\ session'.trPending => S.trPending
         /\ session'.testId = S.testId
         /\ session'.lost = session.lost
         /\ m.seq <= S.inSeq
    BY <1>1, <1>4, <1>7, <1>8 DEF Handled
  <1>11. /\ \A k \in DOMAIN S.wire :
              k \in DOMAIN session'.wire /\ session'.wire[k] = S.wire[k]
         /\ NoneOf("ResendRequest", session'.wire)
         /\ m.type # "ResendRequest" => Carries(S, session')
    BY <1>2, <1>4, <1>6, <1>8, <1>10, HandledCarries DEF Carries
  <1>12. After(m) \in Int /\ m.seq \in Nat /\ m.seq < After(m) /\ m.end \in Nat /\ m.ref \in Int
    <2>1. m.seq \in Nat /\ m.end \in Nat /\ m.ref \in Int
      BY <1>2 DEF Message
    <2> QED  BY <1>7, <2>1 DEF After
  <1>13. Ordered'
    <2>1. InOrder(peer'.wire, session'.inSeq + 1, Len(peer'.log) + 1)
      BY <1>3, <1>7, <1>9, <1>12
    <2>2. ReadUpTo(session.inSeq)'
      <3> DEFINE x == <<m.type, m.seq>>
                 r == Append(read, x)
      <3>1. read \in Seq(Types \X Nat) /\ x[2] = m.seq /\ x \in Types \X Nat
        BY <1>2, <1>12 DEF TypeInv, TypeOK, Message
      <3> HIDE DEF x
      <3>2. /\ \A k \in DOMAIN r : \/ k \in DOMAIN read /\ r[k] = read[k]
                                   \/ k = Len(read) + 1 /\ r[k] = x
            /\ \A k \in DOMAIN read : r[k] = read[k] /\ read[k][2] \in Nat
            /\ \A k \in DOMAIN read : \A j \in 1 .. k - 1 : j \in DOMAIN read
            /\ \A j \in 1 .. Len(read) : j \in DOMAIN read
            /\ Len(read) \in Nat
        BY <3>1
      <3>3. read' = r
        BY DEF Reads, r, x, m
      <3> HIDE DEF r
      <3>4. m.seq > session.inSeq /\ session'.inSeq >= m.seq /\ session'.inSeq \in Int
        BY SMTT(30), <1>1, <1>7, <1>9, <1>12
      <3>5. ASSUME NEW k \in DOMAIN r
            PROVE  /\ r[k][2] <= session'.inSeq
                   /\ \A j \in 1 .. k - 1 : r[j][2] < r[k][2]
        <4>1. CASE k \in DOMAIN read /\ r[k] = read[k]
          <5>1. read[k][2] <= session.inSeq /\ \A j \in 1 .. k - 1 : read[j][2] < read[k][2]
            BY <1>6, <4>1 DEF ReadUpTo
          <5>2. r[k][2] <= session'.inSeq
            <6>1. read[k][2] \in Nat
              BY <3>2, <4>1
            <6> QED  BY SMTT(30), <1>1, <1>12, <3>4, <4>1, <5>1, <6>1
          <5>3. \A j \in 1 .. k - 1 : r[j] = read[j]
            BY <3>2, <4>1
          <5> QED  BY <4>1, <5>1, <5>2, <5>3
        <4>2. CASE k = Len(read) + 1 /\ r[k] = x
          <5>1. \A j \in 1 .. k - 1 : j \in DOMAIN read
            BY <3>2, <4>2
          <5>2. ASSUME NEW j \in DOMAIN read PROVE read[j][2] < m.seq
            <6>1. read[j][2] <= session.inSeq /\ read[j][2] \in Nat
              BY <1>6, <3>2 DEF ReadUpTo
            <6> QED  BY <1>1, <1>12, <3>4, <6>1
          <5>3. r[k][2] = m.seq
            BY <3>1, <4>2
          <5> QED  BY <1>12, <3>2, <3>4, <5>1, <5>2, <5>3
        <4> QED  BY <3>2, <4>1, <4>2
      <3> QED  BY <3>3, <3>5 DEF ReadUpTo
    <2> QED  BY <1>11, <2>1, <2>2 DEF Ordered
  <1>14. Served'
    <2> SUFFICES ASSUME peer'.alive, peer'.resend = "bounded"
                 PROVE  (Asking \/ Filling \/ AnswerLost)'
      BY DEF Served
    <2>1. CASE Filling
      <3>1. Filling'
        BY <1>3, <1>4, <1>11, <2>1 DEF Filling, Carries
      <3> QED  BY <3>1
    <2>2. CASE Asking
      <3>1. PICK k \in DOMAIN peer.wire :
               /\ peer.wire[k].type = "ResendRequest"
               /\ peer.wire[k].ref = peer.expects /\ peer.wire[k].end >= peer.expects
        BY <2>2 DEF Asking
      <3>2. CASE k = 1
        <4>1. m.type = "ResendRequest" /\ m.ref = peer.expects /\ m.end >= peer.expects
          BY <1>2, <3>1, <3>2
        <4>2. m.end + 1 > peer.expects
          BY <1>1, <1>12, <4>1
        <4> QED  BY <1>3, <1>9, <4>1, <4>2 DEF Filling
      <3>3. CASE k # 1
        <4>1. k - 1 \in DOMAIN peer'.wire /\ peer'.wire[k - 1] = peer.wire[k]
          BY <1>2, <1>3, <3>3
        <4> QED  BY <1>3, <3>1, <4>1 DEF Asking
      <3> QED  BY <3>2, <3>3
    <2>3. session.active
      BY <1>5
    <2>4. AnswerLost => AnswerLost'
      BY <1>3, <1>10 DEF AnswerLost
    <2> QED  BY <1>3, <1>5, <2>1, <2>2, <2>3, <2>4 DEF OrderInv, Served
  <1>15. Lossless'
    <2> SUFFICES ASSUME MaxGarbled = 0, MaxLost = 0, peer'.alive
                 PROVE  /\ peer'.resend = "none" /\ NoneOf("ResendRequest", peer'.wire)
                        /\ Consecutive(session'.wire, session'.outSeq, peer'.expects)
                        /\ session'.trPending => (Probing \/ AnswerWaits)'
      BY DEF Lossless
    <2>1. /\ peer.resend = "none" /\ NoneOf("ResendRequest", peer.wire)
          /\ Consecutive(session.wire, session.outSeq, peer.expects)
          /\ session.trPending => Probing \/ AnswerWaits
      BY <1>3, <1>5 DEF OrderInv, Lossless
    <2>2. m.type # "ResendRequest" /\ NoneOf("ResendRequest", peer'.wire)
      BY <1>2, <1>3, <2>1 DEF NoneOf
    <2>3. Consecutive(session'.wire, session'.outSeq, peer.expects)
      BY <1>1, <1>4, <1>11, <2>1, <2>2 DEF Carries
    <2>4. ASSUME session'.trPending PROVE (Probing \/ AnswerWaits)'
      <3>1. s.trPending /\ session'.testId = s.testId /\ ~(m.type = "Heartbeat" /\ m.ref = s.testId)
        BY <1>4, <1>9, <1>10, <2>4
      <3>2. \A k \in DOMAIN s.wire : k \in DOMAIN session'.wire /\ session'.wire[k] = s.wire[k]
        <4>1. S.wire = s.wire
          BY ParsedFacts DEF S
        <4> QED  BY <1>11, <4>1
      <3>3. CASE /\ asked' = clock
                 /\ \E k \in DOMAIN s.wire :
                       s.wire[k].type = "TestRequest" /\ s.wire[k].ref = s.testId
        <4>1. clock' - asked' <= AnswerDelay
          BY <1>1, <3>3
        <4> QED  BY <3>1, <3>2, <3>3, <4>1 DEF Probing
      <3>4. CASE session.trPending /\ asked' = asked /\ s.testId = session.testId
        <4>1. CASE Probing
          <5>1. \A k \in DOMAIN session.wire :
                   k \in DOMAIN s.wire /\ s.wire[k] = session.wire[k]
            BY DEF Carries
          <5> QED  BY <3>1, <3>2, <3>4, <4>1, <5>1 DEF Probing
        <4>2. CASE AnswerWaits
          <5>1. PICK k \in DOMAIN peer.wire :
                   peer.wire[k].type = "Heartbeat" /\ peer.wire[k].ref = session.testId
            BY <4>2 DEF AnswerWaits
          <5>2. k # 1
            BY <1>2, <3>1, <3>4, <5>1
          <5>3. k - 1 \in DOMAIN peer'.wire /\ peer'.wire[k - 1] = peer.wire[k]
            BY <1>2, <1>3, <5>2
          <5> QED  BY <3>1, <3>4, <5>1, <5>3 DEF AnswerWaits
        <4> QED  BY <2>1, <3>4, <4>1, <4>2
      <3> QED  BY <3>1, <3>3, <3>4
    <2> QED  BY <1>3, <2>1, <2>2, <2>3, <2>4
  <1> QED  BY <1>13, <1>14, <1>15

-----------------------------------------------------------------------------
(* Steps of the peer.                                                      *)

LEMMA PeerSendFields ==
    ASSUME NEW p \in Peers, NEW x \in Message
    PROVE  LET q == PeerSend(p, x)
               y == [x EXCEPT !.seq = Len(p.log) + 1]
           IN  /\ q.expects = p.expects /\ q.resend = p.resend /\ q.alive = p.alive
               /\ y \in Message /\ y.seq = Len(p.log) + 1
               /\ y.type = x.type /\ y.ref = x.ref /\ y.end = x.end /\ y.dup = x.dup
               /\ q.wire = Append(p.wire, y)
               /\ \A i \in DOMAIN q.log : i = Len(p.log) + 1 \/ (i \in DOMAIN p.log /\ q.log[i] = p.log[i])
               /\ q.log \in Logs /\ Len(q.log) = Len(p.log) + 1
               /\ Len(p.log) \in Nat /\ p.wire \in Seq(Message)
  <1> DEFINE y == [x EXCEPT !.seq = Len(p.log) + 1]
             w == Append(p.wire, y)
             l == Append(p.log, IF x.type = "App" THEN "App" ELSE "Admin")
             q == [p EXCEPT !.wire = w, !.log = l]
  <1>1. Len(p.log) \in Nat /\ p.wire \in Seq(Message) /\ p.log \in Logs
    BY DEF Peers, Logs
  <1>2. /\ y \in Message /\ y.seq = Len(p.log) + 1
        /\ y.type = x.type /\ y.ref = x.ref /\ y.end = x.end /\ y.dup = x.dup
    BY <1>1 DEF Message
  <1>3. /\ l \in Logs /\ Len(l) = Len(p.log) + 1
        /\ \A i \in DOMAIN l : i = Len(p.log) + 1 \/ (i \in DOMAIN p.log /\ l[i] = p.log[i])
    BY <1>1 DEF Logs
  <1> HIDE DEF y, l, w
  <1>4. /\ q.expects = p.expects /\ q.resend = p.resend /\ q.alive = p.alive
        /\ q.wire = w /\ q.log = l
    BY DEF Peers
  <1> QED  BY <1>1, <1>2, <1>3, <1>4 DEF PeerSend, w, l, y

\* Peer q has sent messages after what peer p had sent, none of them a resend request,
\* and without a garbled message in between they follow on.
Follows(p, q) ==
    /\ \A k \in DOMAIN p.wire : k \in DOMAIN q.wire /\ q.wire[k] = p.wire[k]
    /\ \A k \in DOMAIN q.wire :
          k \in DOMAIN p.wire \/ q.wire[k].type # "ResendRequest"
    /\ q.expects = p.expects /\ q.resend = p.resend

Orderly(p, q) ==
    \A n : InOrder(p.wire, n, Len(p.log) + 1) => InOrder(q.wire, n, Len(q.log) + 1)

LEMMA FollowsSend ==
    ASSUME NEW p \in Peers, NEW x \in Message
    PROVE  /\ x.type \notin {"GapFill", "Garbled", "Reset"} => Orderly(p, PeerSend(p, x))
           /\ x.type # "ResendRequest" => Follows(p, PeerSend(p, x))
           /\ \A k \in DOMAIN p.wire :
                 k \in DOMAIN PeerSend(p, x).wire /\ PeerSend(p, x).wire[k] = p.wire[k]
           /\ \E k \in DOMAIN PeerSend(p, x).wire :
                 /\ PeerSend(p, x).wire[k].type = x.type
                 /\ PeerSend(p, x).wire[k].ref = x.ref /\ PeerSend(p, x).wire[k].end = x.end
           /\ \A k \in DOMAIN PeerSend(p, x).wire :
                 \/ k \in DOMAIN p.wire
                 \/ /\ PeerSend(p, x).wire[k].type = x.type
                    /\ PeerSend(p, x).wire[k].ref = x.ref
  <1> DEFINE q == PeerSend(p, x)
             y == [x EXCEPT !.seq = Len(p.log) + 1]
  <1>1. /\ q.expects = p.expects /\ q.resend = p.resend
        /\ y \in Message /\ y.seq = Len(p.log) + 1
        /\ y.type = x.type /\ y.ref = x.ref /\ y.end = x.end
        /\ q.wire = Append(p.wire, y) /\ Len(q.log) = Len(p.log) + 1
        /\ Len(p.log) \in Nat /\ p.wire \in Seq(Message)
    BY PeerSendFields
  <1> HIDE DEF q, y
  <1>2. /\ \A k \in DOMAIN p.wire : k \in DOMAIN q.wire /\ q.wire[k] = p.wire[k]
        /\ \A k \in DOMAIN q.wire : \/ k \in DOMAIN p.wire
                                    \/ k = Len(p.wire) + 1 /\ q.wire[k] = y
        /\ Len(p.wire) + 1 \in DOMAIN q.wire /\ q.wire[Len(p.wire) + 1] = y
    BY <1>1, AppendFacts
  <1>3. ASSUME x.type \notin {"GapFill", "Garbled", "Reset"} PROVE Orderly(p, q)
    <2>1. After(y) = Len(q.log) + 1
      BY <1>1, <1>3 DEF After
    <2>2. ASSUME NEW n, InOrder(p.wire, n, Len(p.log) + 1)
          PROVE  InOrder(q.wire, n, Len(q.log) + 1)
      <3>1. InOrder(Append(p.wire, y), n, After(y))
        BY <1>1, <1>3, <2>2, InOrderAppend
      <3> QED  BY <1>1, <2>1, <3>1
    <2> QED  BY <2>2 DEF Orderly
  <1>4. x.type # "ResendRequest" => Follows(p, q)
    BY <1>1, <1>2 DEF Follows
  <1> QED  BY <1>1, <1>2, <1>3, <1>4 DEF q

LEMMA ReplyFollows ==
    ASSUME NEW p \in Peers, NEW m \in Message
    PROVE  /\ m.type # "ResendRequest" => Orderly(p, Reply(p, m)) /\ Follows(p, Reply(p, m))
           /\ m.type = "TestRequest" =>
                 \E k \in DOMAIN Reply(p, m).wire :
                    /\ Reply(p, m).wire[k].type = "Heartbeat"
                    /\ Reply(p, m).wire[k].ref = m.ref
  <1>1. \A type \in {"Logon", "Heartbeat", "Logout"}, ref \in Int :
           /\ Msg(type, ref) \in Message /\ Msg(type, ref).type = type
           /\ Msg(type, ref).ref = ref
    BY MsgType DEF Types, AdminTypes
  <1>2. m.ref \in Int
    BY DEF Message
  <1>3. \A type \in {"Logon", "Heartbeat", "Logout"}, ref \in Int :
           /\ Orderly(p, PeerSend(p, Msg(type, ref))) /\ Follows(p, PeerSend(p, Msg(type, ref)))
           /\ \E k \in DOMAIN PeerSend(p, Msg(type, ref)).wire :
                 /\ PeerSend(p, Msg(type, ref)).wire[k].type = type
                 /\ PeerSend(p, Msg(type, ref)).wire[k].ref = ref
    <2> SUFFICES ASSUME NEW type \in {"Logon", "Heartbeat", "Logout"}, NEW ref \in Int
                 PROVE  /\ Orderly(p, PeerSend(p, Msg(type, ref)))
                        /\ Follows(p, PeerSend(p, Msg(type, ref)))
                        /\ \E k \in DOMAIN PeerSend(p, Msg(type, ref)).wire :
                              /\ PeerSend(p, Msg(type, ref)).wire[k].type = type
                              /\ PeerSend(p, Msg(type, ref)).wire[k].ref = ref
      OBVIOUS
    <2> DEFINE x == Msg(type, ref)
    <2>1. x \in Message /\ x.type = type /\ x.ref = ref
      BY <1>1
    <2> HIDE DEF x
    <2>2. /\ Orderly(p, PeerSend(p, x)) /\ Follows(p, PeerSend(p, x))
          /\ \E k \in DOMAIN PeerSend(p, x).wire :
                /\ PeerSend(p, x).wire[k].type = type /\ PeerSend(p, x).wire[k].ref = ref
      BY <2>1, FollowsSend
    <2> QED  BY <2>2 DEF x
  <1>4. Orderly(p, p) /\ Follows(p, p)
    BY DEF Orderly, Follows
  <1>5. CASE m.type = "Logon"
    BY <1>3, <1>5, NoneType DEF Reply
  <1>6. CASE m.type = "TestRequest"
    BY <1>2, <1>3, <1>6 DEF Reply
  <1>7. CASE m.type = "Logout"
    BY <1>3, <1>7, NoneType DEF Reply
  <1>8. CASE m.type \notin {"Logon", "TestRequest", "Logout", "ResendRequest"}
    BY <1>4, <1>8 DEF Reply
  <1> QED  BY <1>5, <1>6, <1>7, <1>8

\* What is sent again holds no resend request.
LEMMA ResendFollows ==
    ASSUME NEW p \in Peers, NEW m \in Message, m.type = "ResendRequest",
           m.ref \in 1 .. Len(p.log), m.end = 0 \/ m.end >= m.ref
    PROVE  Follows(p, Reply(p, m))
  <1> DEFINE a == Resent(p.log, m.ref, m.end)
             w == p.wire \o a
  <1>1. p.log \in Logs /\ p.wire \in Seq(Message) /\ m.end \in Nat
    BY DEF Peers, Logs, Message
  <1>2. a \in Resends(p.log)
    BY <1>1, ResentFacts
  <1> HIDE DEF a
  <1>3. a \in Seq(Message) /\ \A k \in DOMAIN a : a[k].type \in {"App", "GapFill"}
    BY <1>2 DEF Resends, ResentFor
  <1>4. /\ \A k \in DOMAIN w : k \in DOMAIN p.wire \/ \E j \in DOMAIN a : w[k] = a[j]
        /\ \A k \in DOMAIN p.wire : k \in DOMAIN w /\ w[k] = p.wire[k]
    <2> DEFINE u == p.wire
    <2>1. u \in Seq(Message) /\ a \in Seq(Message) /\ w = u \o a
      BY <1>1, <1>3
    <2> HIDE DEF u, w
    <2>2. /\ Len(w) = Len(u) + Len(a) /\ Len(u) \in Nat /\ Len(a) \in Nat
          /\ DOMAIN w = 1 .. Len(w) /\ DOMAIN u = 1 .. Len(u) /\ DOMAIN a = 1 .. Len(a)
      BY <2>1
    <2>3. ASSUME NEW k \in DOMAIN u PROVE k \in DOMAIN w /\ w[k] = u[k]
      BY <2>1, <2>2
    <2>4. ASSUME NEW k \in DOMAIN w, k \notin DOMAIN u PROVE \E j \in DOMAIN a : w[k] = a[j]
      <3>1. k - Len(u) \in DOMAIN a
        BY <2>2, <2>4
      <3>2. w[k] = a[k - Len(u)]
        BY <2>1, <2>2, <2>4
      <3> QED  BY <3>1, <3>2
    <2> QED  BY <2>3, <2>4 DEF u
  <1>5. Reply(p, m) = [p EXCEPT !.wire = w]
    BY DEF Reply, a
  <1> HIDE DEF w
  <1>6. Reply(p, m).wire = w /\ Reply(p, m).expects = p.expects /\ Reply(p, m).resend = p.resend
    BY <1>5 DEF Peers
  <1> QED  BY <1>3, <1>4, <1>6 DEF Follows

\* A peer that does not wait for a gap to be filled may expect a later message.
LEMMA RisingMore ==
    ASSUME NEW wire \in Seq(Message), NEW n \in Nat, NEW e \in Nat, NEW f \in Nat, e <= f,
           NEW waits, Rising(wire, n, e, waits)
    PROVE  Rising(wire, n, f, FALSE)
  <1>1. \A k \in DOMAIN wire : wire[k].seq \in Nat
    <2>1. \A k \in DOMAIN wire : wire[k] \in Message
      OBVIOUS
    <2> QED  BY <2>1 DEF Message
  <1> QED  BY <1>1 DEF Rising

LEMMA ConsecutiveTail ==
    ASSUME NEW wire \in Seq(Message), wire # << >>, NEW next, NEW e \in Nat,
           Consecutive(wire, next, e)
    PROVE  /\ Head(wire).type # "GapFill" /\ Head(wire).seq = e
           /\ Consecutive(Tail(wire), next, e + 1)
  <1> DEFINE w == Tail(wire)
  <1>1. /\ Head(wire) = wire[1] /\ 1 \in DOMAIN wire
        /\ \A k \in DOMAIN w : k \in Nat /\ k + 1 \in DOMAIN wire /\ w[k] = wire[k + 1]
        /\ Len(wire) = Len(w) + 1 /\ Len(w) \in Nat
    BY TailFacts
  <1> HIDE DEF w
  <1>2. ASSUME NEW k \in DOMAIN w PROVE w[k].seq = e + 1 + k - 1
    <2>1. PICK i \in DOMAIN wire : i = k + 1 /\ w[k] = wire[i]
      BY <1>1
    <2>2. wire[i].seq = e + i - 1
      BY DEF Consecutive
    <2> QED  BY SMTT(30), <1>1, <2>1, <2>2
  <1>3. NoneOf("GapFill", w)
    BY <1>1 DEF Consecutive, NoneOf
  <1>4. next = e + 1 + Len(w)
    BY <1>1 DEF Consecutive
  <1>5. Consecutive(w, next, e + 1)
    BY <1>2, <1>3, <1>4 DEF Consecutive
  <1>6. wire[1].type # "GapFill" /\ wire[1].seq = e
    BY <1>1 DEF Consecutive, NoneOf
  <1> QED  BY <1>1, <1>5, <1>6 DEF w

\* What the peer does with a message: it leaves it; it reads it and replies; it asks for
\* the gap before it; it reads a gap fill; or it sends again what it was asked for.
Leaves(p, q, m) == q = p
Answers(p, q, m) ==
    /\ p.alive /\ m.seq = p.expects /\ m.type # "GapFill"
    /\ q = Reply([p EXCEPT !.expects = @ + 1], m)
AsksAgain(p, q, m, end) ==
    /\ p.alive /\ m.seq > p.expects /\ p.resend = "none"
    /\ q = [PeerSend(p, [Msg("ResendRequest", p.expects) EXCEPT !.end = end])
              EXCEPT !.resend = IF end = 0 THEN "open" ELSE "bounded"]
SkipsGap(p, q, m) ==
    /\ p.alive /\ m.type = "GapFill" /\ m.seq = p.expects /\ m.ref > m.seq
    /\ q = [p EXCEPT !.expects = m.ref, !.resend = "none"]
SendsAgain(p, q, m) ==
    /\ p.alive /\ m.seq > p.expects /\ m.type = "ResendRequest" /\ q = Reply(p, m)

LEMMA ReadingCases ==
    ASSUME NEW p \in Peers, NEW m \in Message, NEW end
    PROVE  LET q == AfterReading(p, m, end)
           IN  \/ /\ Leaves(p, q, m)
                  /\ p.alive => /\ ~(m.seq = p.expects /\ m.type # "GapFill")
                                /\ ~(m.seq = p.expects /\ m.ref > m.seq)
               \/ Answers(p, q, m) \/ AsksAgain(p, q, m, end)
               \/ SkipsGap(p, q, m) \/ SendsAgain(p, q, m)
  <1>1. p.expects \in Int /\ m.seq \in Int /\ m.ref \in Int /\ p.resend \in {"none", "bounded", "open"}
    BY DEF Peers, Message
  <1>2. CASE p.alive /\ m.seq > p.expects
    <2> DEFINE q == AfterGap(p, m, end)
    <2>1. AfterReading(p, m, end) = q
      BY <1>1, <1>2 DEF AfterReading
    <2>2. CASE m.type = "ResendRequest"
      BY <1>2, <2>1, <2>2 DEF AfterGap, SendsAgain
    <2>3. CASE m.type # "ResendRequest" /\ p.resend = "none"
      <3>1. q = [PeerSend(p, [Msg("ResendRequest", p.expects) EXCEPT !.end = end])
                   EXCEPT !.resend = IF end = 0 THEN "open" ELSE "bounded"]
        BY <2>3 DEF AfterGap
      <3> QED  BY <1>2, <2>1, <2>3, <3>1 DEF AsksAgain
    <2>4. CASE m.type # "ResendRequest" /\ p.resend # "none"
      BY <1>1, <1>2, <2>1, <2>4 DEF AfterGap, Leaves
    <2> QED  BY <2>2, <2>3, <2>4
  <1>3. CASE p.alive /\ m.seq = p.expects /\ m.type # "GapFill"
    <2>1. AfterReading(p, m, end) = Reply([p EXCEPT !.expects = @ + 1], m)
      BY <1>1, <1>3 DEF AfterReading
    <2> QED  BY <1>3, <2>1 DEF Answers
  <1>4. CASE p.alive /\ m.seq = p.expects /\ m.type = "GapFill" /\ m.ref > m.seq
    <2>1. AfterReading(p, m, end) = [p EXCEPT !.expects = m.ref, !.resend = "none"]
      BY <1>1, <1>4 DEF AfterReading
    <2> QED  BY <1>4, <2>1 DEF SkipsGap
  <1>5. CASE \/ ~p.alive
             \/ /\ ~(m.seq > p.expects) /\ ~(m.seq = p.expects /\ m.type # "GapFill")
                /\ ~(m.seq = p.expects /\ m.ref > m.seq)
    <2>1. AfterReading(p, m, end) = p
      BY <1>1, <1>5 DEF AfterReading
    <2> QED  BY <1>5, <2>1 DEF Leaves
  <1> QED  BY <1>2, <1>3, <1>4, <1>5

\* What every reading leaves on the wire of the session.
LEMMA PeerReadsTail ==
    ASSUME TypeInv, OrderInv, PeerReads
    PROVE  LET m == Head(session.wire)
           IN  /\ m \in Message /\ m = session.wire[1] /\ 1 \in DOMAIN session.wire
               /\ m.type = "ResendRequest" =>
                     m.ref \in 1 .. Len(peer.log) /\ (m.end = 0 \/ m.end >= m.ref)
               /\ session' = [session EXCEPT !.wire = Tail(session.wire)]
               /\ session'.wire = Tail(session.wire)
               /\ session'.wire \in Seq(Message) /\ session'.outSeq = session.outSeq
               /\ session'.inSeq = session.inSeq /\ session'.active = session.active
               /\ session'.trPending = session.trPending /\ session'.testId = session.testId
               /\ session'.grace = session.grace /\ session'.lost = session.lost
               /\ \A k \in DOMAIN session.wire :
                     k # 1 => /\ k - 1 \in DOMAIN session'.wire
                              /\ session'.wire[k - 1] = session.wire[k]
               /\ Rising(session'.wire, session.outSeq, peer.expects, peer.resend # "none")
               /\ \A type \in Types : NoneOf(type, session.wire)
                     => m.type # type /\ NoneOf(type, session'.wire)
               /\ read' = read /\ budget' = budget /\ clock' = clock /\ asked' = asked
  <1> DEFINE wire == session.wire
             m == Head(wire)
             w == Tail(wire)
  <1>1. session \in Sessions /\ wire \in Seq(Message) /\ wire # << >>
    BY OrderTypes DEF PeerReads
  <1>2. /\ m = wire[1] /\ 1 \in DOMAIN wire /\ w \in Seq(Message)
        /\ \A k \in DOMAIN w : k + 1 \in DOMAIN wire /\ w[k] = wire[k + 1]
        /\ \A k \in DOMAIN wire : k # 1 => k - 1 \in DOMAIN w /\ w[k - 1] = wire[k]
    BY <1>1, TailFacts
  <1>3. m \in Message
    BY <1>1, <1>2
  <1>4. m.type = "ResendRequest" =>
           m.ref \in 1 .. Len(peer.log) /\ (m.end = 0 \/ m.end >= m.ref)
    BY <1>2, OrderTypes DEF Requests
  <1>5. Rising(w, session.outSeq, peer.expects, peer.resend # "none")
    BY <1>1, RisingTail DEF OrderInv, Ranked
  <1>6. \A type \in Types : NoneOf(type, wire) => m.type # type /\ NoneOf(type, w)
    BY <1>2 DEF NoneOf
  <1>7. session' = [session EXCEPT !.wire = w]
    BY DEF PeerReads
  <1> HIDE DEF w, m
  <1>8. /\ session'.wire = w /\ session'.outSeq = session.outSeq
        /\ session'.inSeq = session.inSeq /\ session'.active = session.active
        /\ session'.trPending = session.trPending /\ session'.testId = session.testId
        /\ session'.grace = session.grace /\ session'.lost = session.lost
    BY <1>1, <1>7 DEF Sessions
  <1>9. read' = read /\ budget' = budget /\ clock' = clock /\ asked' = asked
    BY DEF PeerReads
  <1> QED  BY <1>2, <1>3, <1>4, <1>5, <1>6, <1>7, <1>8, <1>9 DEF w, m

\* The order of the messages of the peer is kept when it answers what it may be asked.
LEMMA PeerReadsOrdered ==
    ASSUME TypeInv, OrderInv, PeerReads,
           peer' = peer \/ Head(session.wire).type = "ResendRequest" \/ Orderly(peer, peer')
    PROVE  Ordered'
  <1> SUFFICES ASSUME NothingGarbled, session.active
               PROVE  Ordered'
    BY PeerReadsTail DEF Ordered, NothingGarbled
  <1>1. /\ InOrder(peer.wire, session.inSeq + 1, Len(peer.log) + 1)
        /\ NoneOf("ResendRequest", session.wire) /\ ReadUpTo(session.inSeq)
    BY DEF OrderInv, Ordered
  <1>2. "ResendRequest" \in Types
    BY DEF Types, AdminTypes
  <1>3. Head(session.wire).type # "ResendRequest" /\ NoneOf("ResendRequest", session'.wire)
    BY <1>1, <1>2, PeerReadsTail
  <1>4. InOrder(peer'.wire, session'.inSeq + 1, Len(peer'.log) + 1)
    BY <1>1, <1>3, PeerReadsTail DEF Orderly
  <1>5. ReadUpTo(session.inSeq)'
    BY <1>1, PeerReadsTail DEF ReadUpTo
  <1> QED  BY <1>3, <1>4, <1>5 DEF Ordered

LEMMA LeavesOrder ==
    ASSUME TypeInv, OrderInv, PeerReads, peer' = peer,
           peer.alive => LET m == Head(session.wire)
                         IN  /\ ~(m.seq = peer.expects /\ m.type # "GapFill")
                             /\ ~(m.seq = peer.expects /\ m.ref > m.seq)
    PROVE  Ordered' /\ Ranked' /\ Served' /\ Lossless'
  <1>1. Ordered'
    BY PeerReadsOrdered
  <1>2. Ranked'
    BY PeerReadsTail DEF Ranked, OrderInv
  <1> DEFINE m == Head(session.wire)
  <1>3. ASSUME peer.alive, Filling PROVE Filling'
    <2>1. PICK k \in DOMAIN session.wire :
             /\ session.wire[k].type = "GapFill"
             /\ session.wire[k].seq = peer.expects /\ session.wire[k].ref > peer.expects
      BY <1>3 DEF Filling
    <2>2. k # 1
      BY <1>3, <2>1, PeerReadsTail
    <2>3. k - 1 \in DOMAIN session'.wire /\ session'.wire[k - 1] = session.wire[k]
      BY <2>2, PeerReadsTail
    <2> QED  BY <2>1, <2>3 DEF Filling
  <1>4. Served'
    BY <1>3, PeerReadsTail DEF Served, OrderInv, Asking, AnswerLost, NothingGarbled
  <1>5. Lossless'
    <2>1. ASSUME MaxGarbled = 0, MaxLost = 0, session.active, peer.alive PROVE FALSE
      <3>1. Consecutive(session.wire, session.outSeq, peer.expects)
        BY <2>1 DEF OrderInv, Lossless
      <3>2. m.type # "GapFill" /\ m.seq = peer.expects
        BY <3>1, OrderTypes, ConsecutiveTail DEF PeerReads
      <3> QED  BY <2>1, <3>2
    <2> QED  BY <2>1, PeerReadsTail DEF Lossless
  <1> QED  BY <1>1, <1>2, <1>4, <1>5

LEMMA AnswersOrder ==
    ASSUME TypeInv, OrderInv, PeerReads, Answers(peer, peer', Head(session.wire))
    PROVE  Ordered' /\ Ranked' /\ Served' /\ Lossless'
  <1> DEFINE m == Head(session.wire)
             e == peer.expects
             q == [peer EXCEPT !.expects = @ + 1]
  <1>1. peer \in Peers /\ e \in Nat /\ peer.wire \in Seq(Message)
    BY OrderTypes
  <1>2. /\ q \in Peers /\ q.expects = e + 1 /\ q.wire = peer.wire /\ q.log = peer.log
        /\ q.resend = peer.resend
    BY <1>1 DEF Peers
  <1>3. /\ peer.alive /\ m.seq = e /\ m.type # "GapFill" /\ peer' = Reply(q, m) /\ m \in Message
        /\ m = session.wire[1] /\ 1 \in DOMAIN session.wire
        /\ m.type = "ResendRequest" =>
              m.ref \in 1 .. Len(peer.log) /\ (m.end = 0 \/ m.end >= m.ref)
    BY PeerReadsTail DEF Answers
  <1> HIDE DEF q
  <1>4. peer.resend = "none"
    <2>1. peer.resend # "none" => e < session.wire[1].seq
      BY <1>3 DEF OrderInv, Ranked, Rising
    <2> QED  BY <1>1, <1>3, <2>1
  <1>5. /\ Follows(q, peer')
        /\ m.type # "ResendRequest" => Orderly(q, peer')
        /\ m.type = "TestRequest" =>
              \E k \in DOMAIN peer'.wire :
                 peer'.wire[k].type = "Heartbeat" /\ peer'.wire[k].ref = m.ref
    <2>1. CASE m.type # "ResendRequest"
      BY <1>2, <1>3, <2>1, ReplyFollows
    <2>2. CASE m.type = "ResendRequest"
      BY <1>2, <1>3, <2>2, ResendFollows
    <2> QED  BY <2>1, <2>2
  <1>6. /\ peer'.expects = e + 1 /\ peer'.resend = "none"
        /\ \A k \in DOMAIN peer.wire : k \in DOMAIN peer'.wire /\ peer'.wire[k] = peer.wire[k]
        /\ \A k \in DOMAIN peer'.wire :
              k \in DOMAIN peer.wire \/ peer'.wire[k].type # "ResendRequest"
    BY <1>2, <1>4, <1>5 DEF Follows
  <1>7. Ordered'
    <2>1. m.type = "ResendRequest" \/ Orderly(peer, peer')
      BY <1>2, <1>5 DEF Orderly
    <2> QED  BY <2>1, PeerReadsOrdered
  <1>8. Ranked'
    <2>1. Rising(session'.wire, session'.outSeq, e + 1, FALSE)
      <3>1. /\ Rising(session'.wire, session.outSeq, e, peer.resend # "none")
            /\ session'.wire \in Seq(Message) /\ session'.outSeq = session.outSeq
            /\ session.outSeq \in Nat /\ e + 1 \in Nat /\ e <= e + 1
        BY SMTT(30), <1>1, PeerReadsTail, OrderTypes
      <3> QED  BY ZenonT(30), <1>1, <3>1, RisingMore
    <2>2. ASSUME NEW k \in DOMAIN peer'.wire, peer'.wire[k].type = "ResendRequest"
          PROVE  peer'.wire[k].ref <= e + 1
      <3>1. peer.wire[k].ref <= e /\ peer.wire[k] \in Message
        BY <1>1, <1>6, <2>2 DEF OrderInv, Ranked
      <3>2. peer.wire[k].ref \in Int
        BY <3>1 DEF Message
      <3> QED  BY <1>1, <1>6, <2>2, <3>1, <3>2
    <2> QED  BY <1>6, <2>1, <2>2 DEF Ranked
  <1>9. Served'
    BY <1>6 DEF Served
  <1>10. Lossless'
    <2> SUFFICES ASSUME MaxGarbled = 0, MaxLost = 0, session.active
                 PROVE  /\ NoneOf("ResendRequest", peer'.wire)
                        /\ Consecutive(session'.wire, session'.outSeq, e + 1)
                        /\ session'.trPending => (Probing \/ AnswerWaits)'
      BY <1>6, PeerReadsTail DEF Lossless
    <2>1. /\ NoneOf("ResendRequest", peer.wire)
          /\ Consecutive(session.wire, session.outSeq, e)
          /\ session.trPending => Probing \/ AnswerWaits
      BY <1>3 DEF OrderInv, Lossless
    <2>2. NoneOf("ResendRequest", peer'.wire)
      BY <1>6, <2>1 DEF NoneOf
    <2>3. Consecutive(session'.wire, session'.outSeq, e + 1)
      BY <1>1, <2>1, PeerReadsTail, OrderTypes, ConsecutiveTail DEF PeerReads
    <2>4. ASSUME AnswerWaits PROVE AnswerWaits'
      BY <1>6, <2>4, PeerReadsTail DEF AnswerWaits
    <2>5. ASSUME Probing PROVE (Probing \/ AnswerWaits)'
      <3>1. PICK k \in DOMAIN session.wire :
               session.wire[k].type = "TestRequest" /\ session.wire[k].ref = session.testId
        BY <2>5 DEF Probing
      <3>2. CASE k = 1
        <4>1. m.type = "TestRequest" /\ m.ref = session'.testId
          BY <1>3, <3>1, <3>2, PeerReadsTail
        <4> QED  BY <1>5, <4>1 DEF AnswerWaits
      <3>3. CASE k # 1
        <4>1. k - 1 \in DOMAIN session'.wire /\ session'.wire[k - 1] = session.wire[k]
          BY <3>3, PeerReadsTail
        <4>2. /\ clock' - asked' <= AnswerDelay
              /\ session'.wire[k - 1].type = "TestRequest"
              /\ session'.wire[k - 1].ref = session'.testId
          BY <2>5, <3>1, <4>1, PeerReadsTail DEF Probing
        <4> QED  BY <4>1, <4>2 DEF Probing
      <3> QED  BY <3>2, <3>3
    <2> QED  BY <2>1, <2>2, <2>3, <2>4, <2>5, PeerReadsTail
  <1> QED  BY <1>7, <1>8, <1>9, <1>10

\* A peer that reads a later message than it expects is not in step.
LEMMA AheadLossless ==
    ASSUME TypeInv, OrderInv, PeerReads, peer.alive, Head(session.wire).seq # peer.expects
           \/ Head(session.wire).type = "GapFill"
    PROVE  Lossless'
  <1>1. ASSUME MaxGarbled = 0, MaxLost = 0, session.active PROVE FALSE
    <2>1. Consecutive(session.wire, session.outSeq, peer.expects)
      BY <1>1 DEF OrderInv, Lossless
    <2> QED  BY <2>1, OrderTypes, ConsecutiveTail DEF PeerReads
  <1> QED  BY <1>1, PeerReadsTail DEF Lossless

LEMMA AsksAgainOrder ==
    ASSUME TypeInv, OrderInv, PeerReads, NEW end \in {0, Head(session.wire).seq},
           AsksAgain(peer, peer', Head(session.wire), end)
    PROVE  Ordered' /\ Ranked' /\ Served' /\ Lossless'
  <1> DEFINE m == Head(session.wire)
             e == peer.expects
             z == Msg("ResendRequest", e)
             x == [z EXCEPT !.end = end]
             q == PeerSend(peer, x)
             r == IF end = 0 THEN "open" ELSE "bounded"
  <1>1. peer \in Peers /\ e \in Nat /\ peer.wire \in Seq(Message)
    BY OrderTypes
  <1>2. /\ peer.alive /\ m.seq > e /\ peer.resend = "none" /\ peer' = [q EXCEPT !.resend = r]
        /\ m \in Message /\ m = session.wire[1] /\ 1 \in DOMAIN session.wire
    BY PeerReadsTail DEF AsksAgain
  <1>3. m.seq \in Nat /\ end \in Nat
    BY <1>2 DEF Message
  <1>4. z \in Message /\ z.type = "ResendRequest" /\ z.ref = e
    BY <1>1, MsgType DEF Types, AdminTypes
  <1>5. x \in Message /\ x.type = "ResendRequest" /\ x.ref = e /\ x.end = end
    BY <1>3, <1>4 DEF Message
  <1> HIDE DEF x
  <1>6. /\ Orderly(peer, q) /\ q.expects = e
        /\ \A k \in DOMAIN peer.wire : k \in DOMAIN q.wire /\ q.wire[k] = peer.wire[k]
        /\ \E k \in DOMAIN q.wire :
              q.wire[k].type = "ResendRequest" /\ q.wire[k].ref = e /\ q.wire[k].end = end
        /\ \A k \in DOMAIN q.wire :
              k \in DOMAIN peer.wire \/ q.wire[k].ref = e
        /\ q \in Peers
    <2>1. q \in Peers
      <3>1. Sound(peer) /\ Answerable(x)
        BY <1>1, <1>5 DEF TypeInv, Answerable
      <3> QED  BY <1>1, <1>5, <3>1, PeerSendFacts DEF Continues
    <2>2. q.expects = e
      BY <1>1, <1>5, PeerSendFields
    <2>3. /\ Orderly(peer, q)
          /\ \A k \in DOMAIN peer.wire : k \in DOMAIN q.wire /\ q.wire[k] = peer.wire[k]
          /\ \E k \in DOMAIN q.wire : /\ q.wire[k].type = x.type /\ q.wire[k].ref = x.ref
                                      /\ q.wire[k].end = x.end
          /\ \A k \in DOMAIN q.wire : \/ k \in DOMAIN peer.wire
                                      \/ q.wire[k].type = x.type /\ q.wire[k].ref = x.ref
      BY <1>1, <1>5, FollowsSend
    <2> HIDE DEF q
    <2> QED  BY <1>5, <2>1, <2>2, <2>3
  <1> HIDE DEF q
  <1>7. /\ peer'.wire = q.wire /\ peer'.log = q.log /\ peer'.expects = e /\ peer'.resend = r
    BY <1>2, <1>6 DEF Peers
  <1>8. Ordered'
    BY <1>6, <1>7, PeerReadsOrdered DEF Orderly
  <1>9. m.type # "GapFill"
    BY <1>1, <1>2, <1>3 DEF OrderInv, Ranked, Rising
  <1>10. Ranked'
    <2>1. Rising(session'.wire, session'.outSeq, e, TRUE)
      <3>1. Rising(session'.wire, session'.outSeq, e, FALSE)
        BY <1>2, PeerReadsTail
      <3>2. \A k \in DOMAIN session'.wire :
               session'.wire[k].type # "GapFill" => m.seq < session'.wire[k].seq
        BY ZenonT(40), <1>9, PeerReadsTail, OrderTypes, RisingTail DEF OrderInv, Ranked, PeerReads
      <3>3. m.seq < session.outSeq /\ session'.outSeq = session.outSeq /\ session.outSeq \in Nat
        BY <1>2, <1>9, PeerReadsTail, OrderTypes DEF OrderInv, Ranked, Rising
      <3>4. ASSUME NEW k \in DOMAIN session'.wire, session'.wire[k].type # "GapFill"
            PROVE  e < session'.wire[k].seq
        <4>1. session'.wire[k] \in Message
          BY PeerReadsTail
        <4>2. session'.wire[k].seq \in Nat
          BY <4>1 DEF Message
        <4> QED  BY <1>1, <1>2, <1>3, <3>2, <3>4, <4>2
      <3> QED  BY <1>1, <1>2, <1>3, <3>1, <3>3, <3>4 DEF Rising
    <2>2. ASSUME NEW k \in DOMAIN q.wire, q.wire[k].type = "ResendRequest"
          PROVE  q.wire[k].ref <= e
      BY <1>1, <1>6, <2>2 DEF OrderInv, Ranked
    <2>3. r # "none"
      OBVIOUS
    <2> QED  BY <1>7, <2>1, <2>2, <2>3 DEF Ranked
  <1>11. Served'
    <2>1. ASSUME r = "bounded" PROVE Asking'
      <3>1. end >= e
        BY <1>1, <1>2, <1>3, <2>1
      <3> QED  BY <1>6, <1>7, <3>1 DEF Asking
    <2> QED  BY <1>7, <2>1 DEF Served
  <1>12. Lossless'
    <2>1. m.seq # e
      BY <1>1, <1>2, <1>3
    <2> QED  BY <1>2, <2>1, AheadLossless
  <1> QED  BY <1>8, <1>10, <1>11, <1>12

LEMMA SkipsGapOrder ==
    ASSUME TypeInv, OrderInv, PeerReads, SkipsGap(peer, peer', Head(session.wire))
    PROVE  Ordered' /\ Ranked' /\ Served' /\ Lossless'
  <1> DEFINE m == Head(session.wire)
             e == peer.expects
             n == m.ref
  <1>1. peer \in Peers /\ e \in Nat /\ peer.wire \in Seq(Message) /\ m \in Message
    BY OrderTypes, PeerReadsTail
  <1>2. /\ peer.alive /\ m.type = "GapFill" /\ m.seq = e /\ n > m.seq
        /\ peer' = [peer EXCEPT !.expects = n, !.resend = "none"]
    BY DEF SkipsGap
  <1>3. n \in Nat /\ n > e
    <2>1. n \in Int
      BY <1>1 DEF Message
    <2> QED  BY <1>1, <1>2, <2>1
  <1> HIDE DEF n
  <1>4. /\ peer'.expects = n /\ peer'.resend = "none" /\ peer'.wire = peer.wire
        /\ peer'.log = peer.log
    BY <1>1, <1>2 DEF Peers
  <1>5. Ordered'
    BY <1>4, PeerReadsOrdered DEF Orderly
  <1>6. Ranked'
    <2>1. Rising(session'.wire, session'.outSeq, n, FALSE)
      <3>1. /\ Rising(session'.wire, session.outSeq, e, peer.resend # "none")
            /\ session'.wire \in Seq(Message) /\ session'.outSeq = session.outSeq
            /\ session.outSeq \in Nat /\ e <= n
        BY <1>1, <1>3, PeerReadsTail, OrderTypes
      <3> QED  BY <1>1, <1>3, <3>1, RisingMore
    <2>2. ASSUME NEW k \in DOMAIN peer.wire, peer.wire[k].type = "ResendRequest"
          PROVE  peer.wire[k].ref <= n
      <3>1. peer.wire[k].ref <= e /\ peer.wire[k] \in Message
        BY <1>1, <2>2 DEF OrderInv, Ranked
      <3>2. peer.wire[k].ref \in Int
        BY <3>1 DEF Message
      <3> QED  BY <1>1, <1>3, <3>1, <3>2
    <2> QED  BY <1>4, <2>1, <2>2 DEF Ranked
  <1>7. Served'
    BY <1>4 DEF Served
  <1>8. Lossless'
    BY <1>2, AheadLossless
  <1> QED  BY <1>5, <1>6, <1>7, <1>8

LEMMA SendsAgainOrder ==
    ASSUME TypeInv, OrderInv, PeerReads, SendsAgain(peer, peer', Head(session.wire))
    PROVE  Ordered' /\ Ranked' /\ Served' /\ Lossless'
  <1> DEFINE m == Head(session.wire)
  <1>1. peer \in Peers /\ peer.expects \in Nat /\ m \in Message
    BY OrderTypes, PeerReadsTail
  <1>2. peer.alive /\ m.seq > peer.expects /\ m.type = "ResendRequest" /\ peer' = Reply(peer, m)
    BY DEF SendsAgain
  <1>3. Follows(peer, peer')
    BY <1>1, <1>2, PeerReadsTail, ResendFollows
  <1>4. Ordered'
    BY <1>2, PeerReadsOrdered
  <1>5. Ranked'
    BY <1>3, PeerReadsTail DEF Ranked, Follows, OrderInv
  <1>6. ASSUME NothingGarbled, session.active PROVE FALSE
    <2>1. "ResendRequest" \in Types /\ NoneOf("ResendRequest", session.wire)
      BY <1>6 DEF OrderInv, Ordered, Types, AdminTypes
    <2> QED  BY <1>2, <2>1, PeerReadsTail
  <1>7. Served'
    BY <1>6, PeerReadsTail DEF Served, NothingGarbled
  <1>8. Lossless'
    <2>1. m.seq # peer.expects
      <3>1. m.seq \in Nat
        BY <1>1 DEF Message
      <3> QED  BY <1>1, <1>2, <3>1
    <2> QED  BY <1>2, <2>1, AheadLossless
  <1> QED  BY <1>4, <1>5, <1>7, <1>8

LEMMA PeerReadsOrder ==
    ASSUME TypeInv, OrderInv, PeerReads
    PROVE  Ordered' /\ Ranked' /\ Served' /\ Lossless'
  <1> DEFINE m == Head(session.wire)
  <1>1. PICK end \in {0, m.seq} : peer' = AfterReading(peer, m, end)
    BY DEF PeerReads
  <1>2. peer \in Peers /\ m \in Message
    BY OrderTypes, PeerReadsTail
  <1>3. \/ /\ peer' = peer
           /\ peer.alive => /\ ~(m.seq = peer.expects /\ m.type # "GapFill")
                            /\ ~(m.seq = peer.expects /\ m.ref > m.seq)
        \/ Answers(peer, peer', m) \/ AsksAgain(peer, peer', m, end)
        \/ SkipsGap(peer, peer', m) \/ SendsAgain(peer, peer', m)
    BY <1>1, <1>2, ReadingCases DEF Leaves
  <1> QED  BY <1>3, LeavesOrder, AnswersOrder, AsksAgainOrder, SkipsGapOrder, SendsAgainOrder

\* The peer sends messages of its own, or dies.
LEMMA PeerSendsOrder ==
    ASSUME TypeInv, OrderInv, Orderly(peer, peer'), Follows(peer, peer'),
           peer'.alive => peer.alive, session' = session, read' = read,
           budget'.garbled = budget.garbled, clock' = clock, asked' = asked
    PROVE  Ordered' /\ Ranked' /\ Served' /\ Lossless'
  <1>1. /\ peer'.expects = peer.expects /\ peer'.resend = peer.resend
        /\ \A k \in DOMAIN peer.wire : k \in DOMAIN peer'.wire /\ peer'.wire[k] = peer.wire[k]
        /\ \A k \in DOMAIN peer'.wire :
              k \in DOMAIN peer.wire \/ peer'.wire[k].type # "ResendRequest"
    BY DEF Follows
  <1>2. Ordered'
    BY DEF OrderInv, Ordered, Orderly, NothingGarbled, ReadUpTo
  <1>3. Ranked'
    BY <1>1 DEF OrderInv, Ranked
  <1>4. Served'
    <2>1. Asking => Asking'
      BY <1>1 DEF Asking
    <2>2. (Filling => Filling') /\ (AnswerLost => AnswerLost')
      BY <1>1 DEF Filling, AnswerLost
    <2> QED  BY <1>1, <2>1, <2>2 DEF OrderInv, Served, NothingGarbled
  <1>5. Lossless'
    <2>1. NoneOf("ResendRequest", peer.wire) => NoneOf("ResendRequest", peer'.wire)
      BY <1>1 DEF NoneOf
    <2>2. (Probing => Probing') /\ (AnswerWaits => AnswerWaits')
      BY <1>1 DEF Probing, AnswerWaits
    <2> QED  BY <1>1, <2>1, <2>2 DEF OrderInv, Lossless
  <1> QED  BY <1>2, <1>3, <1>4, <1>5

LEMMA PeerTalksFollows ==
    ASSUME TypeInv, NEW type \in PeerTypes \cup {"App"}, PeerTalks(type)
    PROVE  Orderly(peer, peer') /\ Follows(peer, peer') /\ (peer'.alive => peer.alive)
  <1>1. peer \in Peers /\ clock \in Nat /\ Len(peer.log) \in Nat /\ peer.wire \in Seq(Message)
    BY OrderTypes
  <1>2. \A t \in {"Heartbeat", "TestRequest", "Reset", "Logout", "App"}, ref \in Int :
           /\ Msg(t, ref) \in Message /\ Msg(t, ref).type = t /\ Msg(t, ref).ref = ref
           /\ Follows(peer, PeerSend(peer, Msg(t, ref)))
           /\ t # "Reset" => Orderly(peer, PeerSend(peer, Msg(t, ref)))
           /\ PeerSend(peer, Msg(t, ref)).alive = peer.alive
           /\ PeerSend(peer, Msg(t, ref)) \in Peers
    <2> SUFFICES ASSUME NEW t \in {"Heartbeat", "TestRequest", "Reset", "Logout", "App"},
                        NEW ref \in Int
                 PROVE  /\ Msg(t, ref) \in Message /\ Msg(t, ref).type = t
                        /\ Msg(t, ref).ref = ref
                        /\ Follows(peer, PeerSend(peer, Msg(t, ref)))
                        /\ t # "Reset" => Orderly(peer, PeerSend(peer, Msg(t, ref)))
                        /\ PeerSend(peer, Msg(t, ref)).alive = peer.alive
                        /\ PeerSend(peer, Msg(t, ref)) \in Peers
      OBVIOUS
    <2> DEFINE x == Msg(t, ref)
    <2>1. x \in Message /\ x.type = t /\ x.ref = ref
      BY MsgType DEF Types, AdminTypes
    <2> HIDE DEF x
    <2>2. Follows(peer, PeerSend(peer, x)) /\ (t # "Reset" => Orderly(peer, PeerSend(peer, x)))
      BY <1>1, <2>1, FollowsSend
    <2>3. PeerSend(peer, x).alive = peer.alive
      BY <1>1, <2>1, PeerSendFields
    <2>4. PeerSend(peer, x) \in Peers
      BY <1>1, <2>1, PeerSendFacts DEF TypeInv, Answerable, Continues
    <2> QED  BY <2>1, <2>2, <2>3, <2>4 DEF x
  <1>3. type \in {"Heartbeat", "TestRequest", "Reset", "Logout", "App"}
    BY SessionAssumption
  <1>4. Orderly(peer, peer') /\ Follows(peer, peer') /\ (peer'.alive => peer.alive)
    <2>1. CASE type = "Reset"
      <3> DEFINE n == Len(peer.log) + 3
                 x == Msg("Reset", n)
                 q == PeerSend(peer, x)
                 l == Append(q.log, "Admin")
                 y == [x EXCEPT !.seq = Len(peer.log) + 1]
      <3>1. x \in Message /\ x.type = "Reset" /\ x.ref = n /\ q \in Peers /\ Follows(peer, q)
        BY <1>1, <1>2
      <3> HIDE DEF x
      <3>2. /\ q.expects = peer.expects /\ q.resend = peer.resend /\ q.alive = peer.alive
            /\ y \in Message /\ y.seq = Len(peer.log) + 1 /\ y.type = "Reset" /\ y.ref = n
            /\ q.wire = Append(peer.wire, y)
            /\ q.log \in Logs /\ Len(q.log) = Len(peer.log) + 1
        BY <1>1, <3>1, PeerSendFields
      <3>3. peer' = [q EXCEPT !.log = l]
        BY <2>1 DEF PeerTalks, x
      <3> HIDE DEF q, y
      <3>4. Len(l) = Len(peer.log) + 2
        BY SMTT(30), <1>1, <3>2 DEF Logs
      <3> HIDE DEF l
      <3>5. /\ peer'.wire = q.wire /\ peer'.log = l /\ peer'.alive = peer.alive
            /\ peer'.expects = q.expects /\ peer'.resend = q.resend
        BY <3>1, <3>2, <3>3 DEF Peers
      <3>6. Follows(peer, peer')
        BY <3>1, <3>5 DEF Follows
      <3>7. ASSUME NEW from, InOrder(peer.wire, from, Len(peer.log) + 1)
            PROVE  InOrder(peer'.wire, from, Len(peer'.log) + 1)
        <4>1. y.ref > y.seq
          BY <1>1, <3>2
        <4>2. InOrder(Append(peer.wire, y), from, After(y))
          BY <1>1, <3>2, <3>7, <4>1, InOrderAppend
        <4>3. After(y) = Len(l) + 1
          BY <1>1, <3>2, <3>4 DEF After
        <4> QED  BY <3>2, <3>5, <4>2, <4>3
      <3> QED  BY <3>5, <3>6, <3>7 DEF Orderly
    <2>2. CASE type = "Logout"
      <3> DEFINE q == PeerSend(peer, Msg("Logout", NONE))
      <3>1. q \in Peers /\ Follows(peer, q) /\ Orderly(peer, q)
        BY <1>2, NoneType
      <3>2. peer' = [q EXCEPT !.alive = FALSE]
        BY <2>2 DEF PeerTalks
      <3> HIDE DEF q
      <3>3. /\ peer'.wire = q.wire /\ peer'.log = q.log /\ ~peer'.alive
            /\ peer'.expects = q.expects /\ peer'.resend = q.resend
        BY <3>1, <3>2 DEF Peers
      <3> QED  BY <3>1, <3>3 DEF Orderly, Follows
    <2>3. CASE type = "TestRequest"
      <3>1. peer' = PeerSend(peer, Msg("TestRequest", clock)) /\ clock \in Int
        BY <1>1, <2>3 DEF PeerTalks
      <3> HIDE DEF PeerTalks
      <3>2. /\ Orderly(peer, PeerSend(peer, Msg("TestRequest", clock)))
            /\ Follows(peer, PeerSend(peer, Msg("TestRequest", clock)))
            /\ PeerSend(peer, Msg("TestRequest", clock)).alive = peer.alive
        BY <1>2, <3>1
      <3> QED  BY <3>1, <3>2
    <2>4. CASE type \in {"Heartbeat", "App"}
      BY <1>2, <2>4, NoneType DEF PeerTalks
    <2> QED  BY <1>3, <2>1, <2>2, <2>3, <2>4
  <1> QED  BY <1>4

LEMMA PeerTalksOrder ==
    ASSUME TypeInv, OrderInv, NEW type \in PeerTypes \cup {"App"}, PeerTalks(type)
    PROVE  Ordered' /\ Ranked' /\ Served' /\ Lossless'
  <1>1. /\ session' = session /\ read' = read /\ clock' = clock /\ asked' = asked
        /\ budget'.garbled = budget.garbled
    <2>1. budget \in [garbled : Nat, lost : Nat, app : Nat, peerApp : Nat, admin : Nat]
      BY DEF TypeInv, TypeOK
    <2> DEFINE kind == IF type = "App" THEN "peerApp" ELSE "admin"
    <2>2. budget' = [budget EXCEPT ![kind] = @ - 1] /\ kind # "garbled"
      BY DEF PeerTalks
    <2> HIDE DEF kind
    <2>3. budget'.garbled = budget.garbled
      BY <2>1, <2>2
    <2> QED  BY <2>3 DEF PeerTalks
  <1> QED  BY <1>1, PeerTalksFollows, PeerSendsOrder

LEMMA PeerDiesOrder ==
    ASSUME TypeInv, OrderInv, PeerDies
    PROVE  Ordered' /\ Ranked' /\ Served' /\ Lossless'
  <1>1. peer \in Peers
    BY OrderTypes
  <1>2. /\ peer'.wire = peer.wire /\ peer'.log = peer.log /\ ~peer'.alive
        /\ peer'.expects = peer.expects /\ peer'.resend = peer.resend
    BY <1>1 DEF PeerDies, Peers
  <1>3. Orderly(peer, peer') /\ Follows(peer, peer')
    BY <1>2 DEF Orderly, Follows
  <1> QED  BY <1>2, <1>3, PeerSendsOrder DEF PeerDies

LEMMA GarbleOrder ==
    ASSUME TypeInv, OrderInv, Garble
    PROVE  Ordered' /\ Ranked' /\ Served' /\ Lossless'
  <1>1. peer \in Peers /\ peer.wire \in Seq(Message) /\ budget.garbled \in Nat /\ MaxGarbled \in Nat
    BY OrderTypes, SessionAssumption
  <1>2. budget'.garbled = budget.garbled - 1 /\ budget.garbled > 0
    <2>1. budget \in [garbled : Nat, lost : Nat, app : Nat, peerApp : Nat, admin : Nat]
      BY DEF TypeInv, TypeOK
    <2> QED  BY <2>1 DEF Garble
  <1>3. budget'.garbled # MaxGarbled /\ MaxGarbled # 0
    BY <1>1, <1>2 DEF OrderInv, Bounded
  <1>4. Ordered' /\ Served' /\ Lossless'
    BY <1>3 DEF Ordered, Served, Lossless, NothingGarbled
  <1>5. PICK k \in DOMAIN peer.wire : peer' = [peer EXCEPT !.wire[k].type = "Garbled"]
    BY DEF Garble
  <1> DEFINE x == [peer.wire[k] EXCEPT !.type = "Garbled"]
             w == [peer.wire EXCEPT ![k] = x]
  <1>6. peer.wire[k] \in Message
    BY <1>1
  <1>7. x.type = "Garbled"
    BY <1>6 DEF Message
  <1> HIDE DEF x
  <1>8. \A j \in DOMAIN w : j \in DOMAIN peer.wire /\ w[j] = IF j = k THEN x ELSE peer.wire[j]
    BY <1>1
  <1>9. peer' = [peer EXCEPT !.wire = w]
    BY <1>1, <1>5 DEF x, Peers
  <1> HIDE DEF w
  <1>10. peer'.wire = w /\ peer'.expects = peer.expects /\ peer'.resend = peer.resend
    BY <1>1, <1>9 DEF Peers
  <1>11. Ranked'
    BY <1>7, <1>8, <1>10 DEF OrderInv, Ranked, Garble
  <1> QED  BY <1>4, <1>11

-----------------------------------------------------------------------------
(* The remaining steps of the session.                                     *)

LEMMA InitiateOrder ==
    ASSUME TypeInv, OrderInv, Initiate
    PROVE  Bounded' /\ Ordered' /\ Ranked' /\ Served' /\ Lossless'
  <1> DEFINE s == NewSession
             z == Msg("Logon", NONE)
             x == [z EXCEPT !.seq = s.outSeq]
             t == Send(s, z)
  <1>1. /\ s \in Sessions /\ s.wire = << >> /\ s.grace = << >> /\ s.outSeq = 1
        /\ s.inSeq = 0 /\ ~s.trPending
    BY OrderTypes, NewSessionFacts
  <1>2. z \in Message /\ z.type = "Logon"
    BY NoneType, MsgType DEF Types
  <1>3. x.type = "Logon" /\ x.seq = 1
    BY <1>1, <1>2 DEF Message
  <1>4. session' = [t EXCEPT !.active = TRUE]
    BY DEF Initiate
  <1> HIDE DEF s, z, x
  <1>5. /\ t \in Sessions /\ t.wire = Append(s.wire, x) /\ t.outSeq = s.outSeq + 1
        /\ t.grace = s.grace /\ t.inSeq = s.inSeq /\ t.trPending = s.trPending
    BY <1>1, <1>2, SendFacts DEF x
  <1> HIDE DEF t
  <1>6. /\ session'.wire = <<x>> /\ session'.outSeq = 2 /\ session'.inSeq = 0
        /\ session'.grace = << >> /\ ~session'.trPending
    BY <1>1, <1>4, <1>5 DEF Sessions
  <1>7. /\ peer.wire = << >> /\ peer.log = << >> /\ read = << >>
        /\ peer.expects = 1 /\ peer.resend = "none"
        /\ pc' = "logon" /\ UNCHANGED <<clock, last, peer, budget, read, heard, asked, joined>>
    BY DEF OrderInv, Bounded, Untouched, Initiate
  <1>8. Len(<<x>>) = 1 /\ DOMAIN <<x>> = 1 .. 1 /\ <<x>>[1] = x
    OBVIOUS
  <1>9. Bounded'
    BY <1>6, <1>7 DEF OrderInv, Bounded, Untouched
  <1>10. Ordered'
    <2>1. InOrder(<< >>, 0 + 1, Len(<< >>) + 1)
      BY DEF InOrder
    <2>2. NoneOf("ResendRequest", <<x>>)
      BY <1>3, <1>8 DEF NoneOf
    <2>3. ReadUpTo(session.inSeq)'
      BY <1>7 DEF ReadUpTo
    <2> QED  BY <1>6, <1>7, <2>1, <2>2, <2>3 DEF Ordered
  <1>11. Ranked'
    BY <1>3, <1>6, <1>7, <1>8 DEF Ranked, Rising
  <1>12. Served'
    BY <1>7 DEF Served
  <1>13. Lossless'
    <2>1. Consecutive(<<x>>, 2, 1)
      BY <1>3, <1>8 DEF Consecutive, NoneOf
    <2> QED  BY <1>6, <1>7, <2>1 DEF Lossless, NoneOf
  <1> QED  BY <1>9, <1>10, <1>11, <1>12, <1>13

LEMMA LogonMessageOrder ==
    ASSUME TypeInv, OrderInv, LogonMessage
    PROVE  Ordered' /\ Ranked' /\ Served' /\ Lossless'
  <1> DEFINE s == Parsed(session)
             m == Incoming
  <1>1. session \in Sessions /\ Carries(session, session) /\ clock \in Nat /\ m \in Message
    BY OrderTypes, CarriesSame, ReadsFacts DEF LogonMessage
  <1>2. Reads /\ clock' = clock /\ budget' = budget /\ asked' = asked
    BY DEF LogonMessage
  <1>3. session' = session \/ Handled(s, m, session')
    BY LogonMessageFacts
  <1>4. Ranked'
    BY <1>1, <1>2, <1>3, ReadsRanked DEF OrderInv
  <1>5. session'.active => session.active
    BY <1>1, <1>3, ParsedFacts DEF Handled
  <1>6. ASSUME m.type # "Garbled", Expected(s, m), session'.active
        PROVE  /\ Handled(s, m, session')
               /\ session' = IF m.type \in AdminTypes THEN Admin(s, m) ELSE s
    <2>1. s \in Sessions
      BY <1>1, ParsedFacts
    <2>2. CASE m.type = "Logon"
      <3>1. session' = s /\ m.type \notin AdminTypes
        BY <1>6, <2>2 DEF LogonMessage, AdminTypes
      <3> QED  BY <2>1, <3>1, SameHandled
    <2>3. CASE m.type # "Logon"
      <3>1. session' = Logout(s)
        BY <1>6, <2>3 DEF LogonMessage
      <3>2. ~Logout(s).active
        BY <1>1, <2>1, LogoutHandled
      <3> QED  BY <1>6, <3>1, <3>2
    <2> QED  BY <2>2, <2>3
  <1> HIDE DEF s, m
  <1>7. Ordered' /\ Served' /\ Lossless'
    BY <1>1, <1>2, <1>5, <1>6, ReadsOrder DEF s, m
  <1> QED  BY <1>4, <1>7

LEMMA PollMessageOrder ==
    ASSUME TypeInv, OrderInv, PollMessage
    PROVE  Ordered' /\ Ranked' /\ Served' /\ Lossless'
  <1> DEFINE s == Polled
             S == Parsed(s)
             m == Incoming
             asks == KeepAliveDue /\ Asks(session)
  <1>1. /\ session \in Sessions /\ clock \in Nat /\ Requests(session.wire, Len(peer.log))
        /\ Len(peer.log) \in Nat
    BY OrderTypes
  <1>2. /\ s \in Sessions /\ Carries(session, s) /\ s.inSeq = session.inSeq
        /\ s.active = session.active /\ s.lost = session.lost
        /\ asks => /\ s.testId = session.now
                   /\ \E k \in DOMAIN s.wire :
                         s.wire[k].type = "TestRequest" /\ s.wire[k].ref = session.now
        /\ ~asks => s.trPending = session.trPending /\ s.testId = session.testId
    BY <1>1, PolledFacts, PolledCarries
  <1>3. /\ Reads /\ clock' = clock /\ budget' = budget
        /\ asked' = IF asks THEN clock ELSE asked
    BY DEF PollMessage, PollBegins
  <1>4. \/ m.type = "Garbled" /\ session' = s
        \/ m.type # "Garbled" /\ Handled(S, m, session')
    BY PollMessageFacts
  <1>5. session' = s \/ Handled(S, m, session')
    BY <1>4
  <1>6. Ranked'
    BY <1>2, <1>3, <1>5, ReadsRanked DEF OrderInv
  <1>7. session'.active => session.active
    BY <1>2, <1>5, ParsedFacts DEF Handled
  <1>8. ASSUME m.type # "Garbled"
        PROVE  /\ Handled(S, m, session')
               /\ session' = IF m.type \in AdminTypes THEN Admin(S, m) ELSE S
    <2>1. session' = IF m.type \in AdminTypes THEN Admin(S, m) ELSE S
      <3>1. "App" \notin AdminTypes
        BY DEF AdminTypes
      <3> QED  BY <1>8, <3>1 DEF PollMessage
    <2> QED  BY <1>4, <1>8, <2>1
  <1>9. s.trPending =>
              \/ /\ asked' = clock
                 /\ \E k \in DOMAIN s.wire :
                       s.wire[k].type = "TestRequest" /\ s.wire[k].ref = s.testId
              \/ session.trPending /\ asked' = asked /\ s.testId = session.testId
    BY <1>2, <1>3
  <1> HIDE DEF s, S, m, asks
  <1>10. Ordered' /\ Served' /\ Lossless'
    BY <1>2, <1>3, <1>7, <1>8, <1>9, ReadsOrder DEF S, m
  <1> QED  BY <1>6, <1>10

LEMMA PollNothingOrder ==
    ASSUME TypeInv, OrderInv, PollNothing
    PROVE  Ordered' /\ Ranked' /\ Served' /\ Lossless'
  <1> DEFINE asks == KeepAliveDue /\ Asks(session)
  <1>1. /\ session \in Sessions /\ clock \in Nat /\ Requests(session.wire, Len(peer.log))
        /\ Len(peer.log) \in Nat /\ AnswerDelay \in Nat
    BY OrderTypes
  <1>2. /\ session' = Polled /\ peer' = peer /\ read' = read /\ budget' = budget
        /\ clock' = clock /\ asked' = IF asks THEN clock ELSE asked
    BY DEF PollNothing, PollBegins
  <1>3. /\ Carries(session, session') /\ session'.inSeq = session.inSeq
        /\ session'.active = session.active /\ session'.lost = session.lost
        /\ asks => /\ session'.testId = session.now
                   /\ \E k \in DOMAIN session'.wire :
                         /\ session'.wire[k].type = "TestRequest"
                         /\ session'.wire[k].ref = session.now
        /\ ~asks => /\ session'.trPending = session.trPending
                    /\ session'.testId = session.testId
    BY <1>1, <1>2, PolledFacts, PolledCarries
  <1> HIDE DEF asks
  <1>4. asks => Probing'
    <2>1. asks => clock' - asked' <= AnswerDelay
      BY <1>1, <1>2
    <2> QED  BY <1>3, <2>1 DEF Probing
  <1>5. Probing /\ ~asks => clock' - asked' <= AnswerDelay
    BY <1>2 DEF Probing
  <1> QED  BY <1>2, <1>3, <1>4, <1>5, SendingOrder

\* The session and the wire of the peer stay as they are.
LEMMA IdleOrder ==
    ASSUME TypeInv, OrderInv,
           UNCHANGED <<session, peer, budget, read, asked>>,
           clock' = clock \/ (Probing /\ peer.alive => clock' - asked <= AnswerDelay)
    PROVE  Ordered' /\ Ranked' /\ Served' /\ Lossless'
  <1>1. session' = session /\ peer' = peer /\ budget' = budget /\ read' = read /\ asked' = asked
    OBVIOUS
  <1>2. Carries(session, session')
    BY <1>1, CarriesSame
  <1>3. Probing /\ peer.alive => clock' - asked' <= AnswerDelay
    BY <1>1 DEF Probing
  <1> QED  BY <1>1, <1>2, <1>3, SendingOrder

LEMMA TickOrder ==
    ASSUME TypeInv, OrderInv, Tick
    PROVE  Ordered' /\ Ranked' /\ Served' /\ Lossless'
  <1>1. clock \in Nat /\ asked \in Nat /\ AnswerDelay \in Nat
    BY OrderTypes
  <1>2. Probing /\ peer.alive => clock - asked < AnswerDelay
    BY DEF Tick, Probing
  <1>3. Probing /\ peer.alive => clock' - asked <= AnswerDelay
    BY <1>1, <1>2 DEF Tick
  <1> QED  BY <1>3, IdleOrder DEF Tick

LEMMA SendAppOrder ==
    ASSUME TypeInv, OrderInv, SendApp
    PROVE  Ordered' /\ Ranked' /\ Served' /\ Lossless'
  <1>1. session \in Sessions /\ Len(peer.log) \in Nat /\ Requests(session.wire, Len(peer.log))
    BY OrderTypes
  <1>2. /\ session' = Send(session, Msg("App", NONE)) /\ peer' = peer /\ read' = read
        /\ clock' = clock /\ asked' = asked
    BY DEF SendApp
  <1>3. /\ session'.trPending = session.trPending /\ session'.testId = session.testId
        /\ session'.inSeq = session.inSeq /\ session'.active = session.active
        /\ session'.lost = session.lost /\ Carries(session, session')
    BY <1>1, <1>2, SendAppFacts, SendAppCarries
  <1>4. budget'.garbled = budget.garbled
    <2>1. budget \in [garbled : Nat, lost : Nat, app : Nat, peerApp : Nat, admin : Nat]
      BY DEF TypeInv, TypeOK
    <2> QED  BY <2>1 DEF SendApp
  <1>5. Probing => clock' - asked' <= AnswerDelay
    BY <1>2 DEF Probing
  <1> QED  BY <1>2, <1>3, <1>4, <1>5, SendingOrder

\* A send that fails: the messages before and after it keep their order, and when it was
\* the answer that the peer waits for, that answer is lost.
LEMMA RisingThinned ==
    ASSUME NEW wire, NEW k, NEW w, Thinned(wire, k, w), NEW n, NEW e, NEW waits,
           Rising(wire, n, e, waits), k \in Int
    PROVE  Rising(w, n, e, waits)
  <1> SUFFICES ASSUME NEW i \in DOMAIN w
               PROVE  /\ w[i].type = "GapFill" => w[i].seq <= e
                      /\ w[i].type # "GapFill" =>
                            /\ w[i].seq < n
                            /\ waits => e < w[i].seq
                            /\ \A j \in 1 .. i - 1 :
                                  w[j].type # "GapFill" => w[j].seq < w[i].seq
    BY DEF Rising
  <1> DEFINE at(j) == IF j < k THEN j ELSE j + 1
  <1>1. \A j \in DOMAIN w : /\ j \in Nat /\ j >= 1 /\ at(j) \in DOMAIN wire
                             /\ w[j] = wire[at(j)]
    BY DEF Thinned
  <1>2. \A j \in 1 .. i - 1 : at(j) \in 1 .. at(i) - 1
    BY <1>1
  <1>3. \A j \in 1 .. i - 1 : w[j] = wire[at(j)]
    <2>1. DOMAIN w = 1 .. Len(w)
      OBVIOUS
    <2> QED  BY <1>1, <2>1
  <1> HIDE DEF at
  <1>4. at(i) \in DOMAIN wire /\ w[i] = wire[at(i)]
    BY <1>1
  <1> QED  BY <1>2, <1>3, <1>4 DEF Rising

LEMMA SendFailsOrder ==
    ASSUME TypeInv, OrderInv, SendFails
    PROVE  Bounded' /\ Ordered' /\ Ranked' /\ Served' /\ Lossless'
  <1> DEFINE wire == session.wire
             w == session'.wire
  <1>1. /\ wire \in Seq(Message) /\ session' \in Sessions /\ w \in Seq(Message)
        /\ budget.lost \in Nat /\ MaxLost \in Nat
    BY OrderTypes, SendFailsFacts, SessionAssumption DEF Sessions
  <1>2. PICK k \in DOMAIN wire :
           Thinned(wire, k, w) /\ session'.lost = session.lost \cup {wire[k]}
    BY SendFailsFacts
  <1>3. /\ session'.inSeq = session.inSeq /\ session'.outSeq = session.outSeq
        /\ session'.active = session.active /\ session'.grace = session.grace
    BY SendFailsFacts
  <1>4. /\ peer' = peer /\ read' = read /\ pc' = pc /\ budget.lost > 0
        /\ budget'.garbled = budget.garbled /\ budget'.lost = budget.lost - 1
    <2>1. budget \in [garbled : Nat, lost : Nat, app : Nat, peerApp : Nat, admin : Nat]
      BY DEF TypeInv, TypeOK
    <2> QED  BY <2>1 DEF SendFails
  <1>5. k \in Nat /\ wire # << >> /\ DOMAIN w = 1 .. Len(w)
    BY <1>1
  <1> HIDE DEF wire, w
  <1>6. \A type : NoneOf(type, wire) => NoneOf(type, w)
    BY <1>2 DEF NoneOf, Thinned
  <1>7. Bounded'
    <2>1. budget'.lost <= MaxLost
      BY <1>1, <1>4 DEF OrderInv, Bounded
    <2> QED  BY <1>3, <1>4, <1>5, <2>1 DEF OrderInv, Bounded, Untouched, wire
  <1>8. Ordered'
    BY <1>3, <1>4, <1>6 DEF OrderInv, Ordered, NothingGarbled, ReadUpTo, wire, w
  <1>9. Ranked'
    BY <1>2, <1>3, <1>4, <1>5, RisingThinned DEF OrderInv, Ranked, wire, w
  <1>10. Served'
    <2>1. ASSUME Filling PROVE Filling' \/ AnswerLost'
      <3>1. PICK j \in DOMAIN wire :
               /\ wire[j].type = "GapFill"
               /\ wire[j].seq = peer.expects /\ wire[j].ref > peer.expects
        BY <2>1 DEF Filling, wire
      <3>2. CASE j = k
        BY <1>2, <1>4, <3>1, <3>2 DEF AnswerLost
      <3>3. CASE j # k
        <4>1. \E i \in DOMAIN w : w[i] = wire[j]
          BY <1>1, <1>2, <1>5, <3>3 DEF Thinned
        <4> QED  BY <1>4, <3>1, <4>1 DEF Filling, w
      <3> QED  BY <3>2, <3>3
    <2>2. (Asking => Asking') /\ (AnswerLost => AnswerLost')
      BY <1>2, <1>4 DEF Asking, AnswerLost
    <2> QED  BY <1>3, <1>4, <2>1, <2>2 DEF OrderInv, Served, NothingGarbled
  <1>11. Lossless'
    BY <1>1, <1>4 DEF OrderInv, Bounded, Lossless
  <1> QED  BY <1>7, <1>8, <1>9, <1>10, <1>11

\* A session that is no longer active, with its wire as it was or closed.
LEMMA KeepAliveFailsOrder ==
    ASSUME TypeInv, OrderInv, KeepAliveFails
    PROVE  Ordered' /\ Ranked' /\ Served' /\ Lossless'
  <1>1. session \in Sessions
    BY OrderTypes
  <1>2. ~session'.active /\ session'.wire = session.wire /\ session'.outSeq = session.outSeq
    BY <1>1 DEF KeepAliveFails, Sessions
  <1>3. Ranked'
    BY <1>2 DEF OrderInv, Ranked, KeepAliveFails
  <1> QED  BY <1>2, <1>3, InactiveOrder

LEMMA TerminateOrder ==
    ASSUME TypeInv, OrderInv, Terminate
    PROVE  Ordered' /\ Ranked' /\ Served' /\ Lossless'
  <1>1. session \in Sessions /\ peer \in Peers
    BY OrderTypes
  <1>2. ~session'.active /\ session'.wire = << >> /\ session'.outSeq = session.outSeq
    BY <1>1 DEF Terminate, Sessions
  <1>3. peer'.wire = << >> /\ peer'.expects = peer.expects /\ peer'.resend = peer.resend
    BY <1>1 DEF Terminate, Peers
  <1>4. Ranked'
    BY <1>2, <1>3 DEF OrderInv, Ranked, Rising
  <1> QED  BY <1>2, <1>4, InactiveOrder

LEMMA GraceOverOrder ==
    ASSUME TypeInv, OrderInv, GraceOver
    PROVE  Ordered' /\ Ranked' /\ Served' /\ Lossless'
  <1>1. session \in Sessions /\ session.grace # << >> /\ ~session.active
    BY OrderTypes DEF GraceOver, InGrace, OrderInv, Bounded
  <1>2. ~session'.active /\ session'.wire = session.wire /\ session'.outSeq = session.outSeq
    BY <1>1, EndGraceFacts DEF GraceOver
  <1>3. Ranked'
    BY <1>2 DEF OrderInv, Ranked, GraceOver
  <1> QED  BY <1>2, <1>3, InactiveOrder

LEMMA GraceMessageOrder ==
    ASSUME TypeInv, OrderInv, GraceMessage
    PROVE  Ordered' /\ Ranked' /\ Served' /\ Lossless'
  <1>1. /\ session \in Sessions /\ Carries(session, session)
        /\ session.grace # << >> /\ ~session.active /\ Reads
    BY OrderTypes, CarriesSame DEF GraceMessage, InGrace, OrderInv, Bounded
  <1>2. PICK t : /\ t = session \/ Handled(Parsed(session), Incoming, t)
                 /\ session' = t \/ (t.grace # << >> /\ session' = EndGrace(t))
    BY GraceMessageFacts
  <1>3. t \in Sessions /\ ~t.active
    BY <1>1, <1>2, ParsedFacts DEF Handled
  <1>4. ~session'.active /\ session'.wire = t.wire /\ session'.outSeq = t.outSeq
    BY <1>2, <1>3, EndGraceFacts
  <1>5. Ranked'
    BY <1>1, <1>2, <1>4, ReadsRanked DEF OrderInv
  <1> QED  BY <1>4, <1>5, InactiveOrder

-----------------------------------------------------------------------------
(* The invariant.                                                          *)

LEMMA BoundedStep ==
    ASSUME TypeInv, OrderInv, Next PROVE Bounded'
  <1>1. /\ session \in Sessions /\ peer \in Peers /\ clock \in Nat
        /\ budget \in [garbled : Nat, lost : Nat, app : Nat, peerApp : Nat, admin : Nat]
        /\ Requests(session.wire, Len(peer.log)) /\ Len(peer.log) \in Nat
        /\ MaxGarbled \in Nat /\ MaxLost \in Nat
    BY OrderTypes, SessionAssumption DEF TypeInv, TypeOK
  <1>2. /\ session.active => session.grace = << >>
        /\ budget.garbled <= MaxGarbled /\ budget.lost <= MaxLost /\ Untouched
    BY DEF OrderInv, Bounded
  <1>3. \A t \in Sessions : t.active = session.active /\ t.grace = session.grace
           => (t.active => t.grace = << >>)
    BY <1>2
  <1>4. CASE UNCHANGED <<session, peer, budget, read>> /\ pc' \in {pc, "failed", "closed", "poll"}
    BY <1>2, <1>4 DEF Bounded, Untouched
  <1>5. CASE Initiate
    BY <1>5, InitiateOrder
  <1>6. CASE LogonMessage
    <2>1. session' = session \/ Handled(Parsed(session), Incoming, session')
      BY <1>6, LogonMessageFacts
    <2>2. session'.active => session'.grace = << >>
      BY <1>1, <1>2, <2>1, ParsedFacts DEF Handled
    <2>3. pc' # "new" /\ budget' = budget
      BY <1>6, LogonMessageFacts DEF LogonMessage
    <2> QED  BY <1>2, <2>2, <2>3 DEF Bounded, Untouched
  <1>7. CASE PollMessage
    <2>1. session' = Polled \/ Handled(Parsed(Polled), Incoming, session')
      BY <1>7, PollMessageFacts
    <2>2. Polled \in Sessions /\ Polled.active = session.active /\ Polled.grace = session.grace
      BY <1>1, PolledFacts
    <2>3. session'.active => session'.grace = << >>
      BY <1>2, <2>1, <2>2, ParsedFacts DEF Handled
    <2>4. pc' # "new" /\ budget' = budget
      BY <1>7, PollMessageFacts DEF PollMessage
    <2> QED  BY <1>2, <2>3, <2>4 DEF Bounded, Untouched
  <1>8. CASE PollNothing
    <2>1. Polled.active = session.active /\ Polled.grace = session.grace
      BY <1>1, PolledFacts
    <2>2. session' = Polled /\ budget' = budget /\ pc' = "poll"
      BY <1>8 DEF PollNothing, PollBegins, Polls
    <2> QED  BY <1>2, <2>1, <2>2 DEF Bounded, Untouched
  <1>9. CASE KeepAliveFails \/ Terminate
    <2>1. ~session'.active
      BY <1>1, <1>9 DEF KeepAliveFails, Terminate, Sessions
    <2>2. pc' # "new" /\ budget' = budget
      BY <1>9 DEF KeepAliveFails, Terminate
    <2> QED  BY <1>2, <2>1, <2>2 DEF Bounded, Untouched
  <1>10. CASE SendApp
    <2>1. session'.active = session.active /\ session'.grace = session.grace
      BY <1>1, <1>10, SendAppFacts DEF SendApp
    <2>2. /\ budget'.garbled = budget.garbled /\ budget'.lost = budget.lost
          /\ pc' = "poll"
      BY <1>1, <1>10 DEF SendApp, Polls
    <2> QED  BY <1>2, <2>1, <2>2 DEF Bounded, Untouched
  <1>18. CASE SendFails
    BY <1>18, SendFailsOrder
  <1>11. CASE GraceOver
    <2>1. session.grace # << >> /\ ~session.active
      BY <1>2, <1>11 DEF GraceOver, InGrace
    <2>2. ~session'.active /\ session'.wire = session.wire
      BY <1>1, <1>11, <2>1, EndGraceFacts DEF GraceOver
    <2> QED  BY <1>2, <1>11, <2>2 DEF GraceOver, Bounded, Untouched
  <1>12. CASE GraceMessage
    <2>1. session.grace # << >> /\ ~session.active /\ peer.wire # << >>
      BY <1>2, <1>12 DEF GraceMessage, InGrace, Reads
    <2>2. PICK t : /\ t = session \/ Handled(Parsed(session), Incoming, t)
                   /\ session' = t \/ (t.grace # << >> /\ session' = EndGrace(t))
      BY <1>12, GraceMessageFacts
    <2>3. t \in Sessions /\ ~t.active
      BY <1>1, <2>1, <2>2, ParsedFacts DEF Handled
    <2>4. ~session'.active
      BY <2>2, <2>3, EndGraceFacts
    <2>5. pc' # "new" /\ budget' = budget
      BY <1>2, <1>12, <2>1 DEF GraceMessage, Untouched
    <2> QED  BY <1>2, <2>4, <2>5 DEF Bounded, Untouched
  <1>13. CASE PeerReads
    <2>1. pc # "new" /\ pc' = pc /\ budget' = budget
      BY <1>2, <1>13 DEF PeerReads, Untouched
    <2>2. session'.active = session.active /\ session'.grace = session.grace
      BY <1>13, PeerReadsFacts
    <2> QED  BY <1>2, <2>1, <2>2 DEF Bounded, Untouched
  <1>14. CASE PeerDies
    <2>1. /\ peer'.wire = peer.wire /\ peer'.log = peer.log
          /\ peer'.expects = peer.expects /\ peer'.resend = peer.resend
      BY <1>1, <1>14 DEF PeerDies, Peers
    <2> QED  BY <1>2, <1>14, <2>1 DEF PeerDies, Bounded, Untouched
  <1>15. CASE Garble
    <2>1. pc # "new" /\ pc' = pc /\ session' = session
      BY <1>2, <1>15 DEF Garble, Untouched
    <2>2. budget'.garbled = budget.garbled - 1 /\ budget'.lost = budget.lost
      BY <1>1, <1>15 DEF Garble
    <2>3. budget'.garbled <= MaxGarbled
      BY <1>1, <1>2, <2>2
    <2> QED  BY <1>2, <2>1, <2>2, <2>3 DEF Bounded, Untouched
  <1>16. ASSUME NEW type \in PeerTypes \cup {"App"}, PeerTalks(type) PROVE Bounded'
    <2>1. pc # "new" /\ pc' = pc /\ session' = session
      BY <1>2, <1>16 DEF PeerTalks, Untouched
    <2> DEFINE kind == IF type = "App" THEN "peerApp" ELSE "admin"
    <2>2. budget' = [budget EXCEPT ![kind] = @ - 1] /\ kind # "garbled" /\ kind # "lost"
      BY <1>16 DEF PeerTalks
    <2> HIDE DEF kind
    <2>3. budget'.garbled = budget.garbled /\ budget'.lost = budget.lost
      BY <1>1, <2>2
    <2> QED  BY <1>2, <2>1, <2>3 DEF Bounded, Untouched
  <1>17. CASE PollInactive \/ HandlerReturns \/ Tick \/ Ended
    BY <1>4, <1>17 DEF PollInactive, HandlerReturns, Tick, Ended, vars
  <1> QED  BY <1>5, <1>6, <1>7, <1>8, <1>9, <1>10, <1>11, <1>12, <1>13, <1>14, <1>15,
              <1>16, <1>17, <1>18 DEF Next

LEMMA OrderInit ==
    ASSUME Init PROVE OrderInv
  <1>1. session = NewSession /\ clock = 0
    BY DEF Init
  <1>2. ~session.active /\ session.wire = << >> /\ session.outSeq = 1
    BY <1>1, NewSessionFacts
  <1>3. /\ peer.wire = << >> /\ peer.log = << >> /\ peer.expects = 1 /\ peer.resend = "none"
        /\ read = << >> /\ budget.garbled = MaxGarbled /\ budget.lost = MaxLost
    BY DEF Init
  <1>4. Bounded
    BY <1>2, <1>3, SessionAssumption DEF Bounded, Untouched
  <1>5. Ranked
    BY <1>2, <1>3 DEF Ranked, Rising
  <1> QED  BY <1>2, <1>4, <1>5 DEF OrderInv, Ordered, Served, Lossless

LEMMA OrderStep ==
    ASSUME TypeInv, OrderInv, [Next]_vars PROVE OrderInv'
  <1>1. CASE UNCHANGED vars
    <2>1. Bounded'
      BY <1>1 DEF OrderInv, Bounded, Untouched, vars
    <2>2. Ordered' /\ Ranked' /\ Served' /\ Lossless'
      BY <1>1, IdleOrder DEF vars
    <2> QED  BY <2>1, <2>2 DEF OrderInv
  <1>2. CASE Next
    <2>1. Bounded'
      BY <1>2, BoundedStep
    <2> SUFFICES Ordered' /\ Ranked' /\ Served' /\ Lossless'
      BY <2>1 DEF OrderInv
    <2>2. CASE Initiate
      BY <2>2, InitiateOrder
    <2>3. CASE LogonMessage
      BY <2>3, LogonMessageOrder
    <2>4. CASE PollInactive \/ HandlerReturns
      BY <2>4, IdleOrder DEF PollInactive, HandlerReturns
    <2>5. CASE KeepAliveFails
      BY <2>5, KeepAliveFailsOrder
    <2>6. CASE PollNothing
      BY <2>6, PollNothingOrder
    <2>7. CASE PollMessage
      BY <2>7, PollMessageOrder
    <2>8. CASE SendApp
      BY <2>8, SendAppOrder
    <2>18. CASE SendFails
      BY <2>18, SendFailsOrder
    <2>9. CASE GraceOver
      BY <2>9, GraceOverOrder
    <2>10. CASE GraceMessage
      BY <2>10, GraceMessageOrder
    <2>11. CASE Terminate
      BY <2>11, TerminateOrder
    <2>12. CASE PeerReads
      BY <2>12, PeerReadsOrder
    <2>13. CASE PeerDies
      BY <2>13, PeerDiesOrder
    <2>14. CASE Garble
      BY <2>14, GarbleOrder
    <2>15. ASSUME NEW type \in PeerTypes \cup {"App"}, PeerTalks(type)
           PROVE  Ordered' /\ Ranked' /\ Served' /\ Lossless'
      BY <2>15, PeerTalksOrder
    <2>16. CASE Tick
      BY <2>16, TickOrder
    <2>17. CASE Ended
      BY <2>17, IdleOrder DEF Ended, vars
    <2> QED  BY <1>2, <2>2, <2>3, <2>4, <2>5, <2>6, <2>7, <2>8, <2>9, <2>10, <2>11, <2>12,
                <2>13, <2>14, <2>15, <2>16, <2>17, <2>18 DEF Next
  <1> QED  BY <1>1, <1>2

\* The messages of both sides are in order, and what a peer asked for is on its way.
THEOREM OrderInvariant == Spec => [](TypeInv /\ OrderInv)
  <1>1. Init => TypeInv /\ OrderInv
    BY TypeInit, OrderInit
  <1>2. TypeInv /\ OrderInv /\ [Next]_vars => (TypeInv /\ OrderInv)'
    BY TypeStep, OrderStep
  <1> QED  BY <1>1, <1>2, PTL DEF Spec

-----------------------------------------------------------------------------
(* What follows from it.                                                   *)

\* As long as nothing was garbled, poll and the logon read the messages of the peer once
\* and in order, and fix_session_recv counts all of them, whatever the peer sends.
THEOREM SessionInStep == Spec => []InStep
  <1>1. TypeInv /\ OrderInv => InStep
    <2> SUFFICES ASSUME TypeInv, OrderInv, NothingGarbled, session.active PROVE
                 /\ \A j, k \in DOMAIN read : j < k => read[j][2] < read[k][2]
                 /\ peer.wire = << >> => session.inSeq = Len(peer.log)
      BY DEF InStep
    <2>1. /\ InOrder(peer.wire, session.inSeq + 1, Len(peer.log) + 1)
          /\ ReadUpTo(session.inSeq)
      BY DEF OrderInv, Ordered
    <2>2. ASSUME NEW j \in DOMAIN read, NEW k \in DOMAIN read, j < k
          PROVE  read[j][2] < read[k][2]
      <3>1. read \in Seq(Types \X Nat)
        BY DEF TypeInv, TypeOK
      <3>2. j \in 1 .. k - 1
        BY <2>2, <3>1
      <3> QED  BY <2>1, <3>2 DEF ReadUpTo
    <2>3. ASSUME peer.wire = << >> PROVE session.inSeq = Len(peer.log)
      <3>1. Len(peer.log) + 1 = session.inSeq + 1
        BY <2>1, <2>3 DEF InOrder
      <3> QED  BY SMTT(30), <3>1, OrderTypes
    <2> QED  BY <2>2, <2>3
  <1> QED  BY <1>1, OrderInvariant, PTL

\* A gap that the peer asked to have filled up to some message is filled, unless the
\* sending of that very gap fill failed: the answer of fix_session_admin, or the request,
\* is on its way as long as the peer waits, whatever else of ours is lost.
THEOREM GapsAreFilled == Spec => []PeerUnblocked
  <1>1. TypeInv /\ OrderInv => PeerUnblocked
    BY DEF OrderInv, Served, Asking, Filling, PeerUnblocked
  <1> QED  BY <1>1, OrderInvariant, PTL

\* fix_session_keepalive fails no peer that answers its test requests in time, but where
\* a handler blocked before the request, or before the answer was read.
THEOREM LivePeersAreKept == Spec => ResponsivePeerKept
  <1> DEFINE Kept == (2 * (AnswerDelay + 1) <= HeartBtInt /\ MaxGarbled = 0 /\ MaxLost = 0)
                       => (KeepAliveFails /\ peer.alive => AskedLate \/ AnswerWaits)
  <1>1. TypeInv /\ OrderInv => Kept
    <2> SUFFICES ASSUME TypeInv, OrderInv, 2 * (AnswerDelay + 1) <= HeartBtInt,
                        MaxGarbled = 0, MaxLost = 0, KeepAliveFails, peer.alive, ~AskedLate
                 PROVE  AnswerWaits
      OBVIOUS
    <2>1. session.trPending /\ 2 * (clock - session.tr) > HeartBtInt /\ session.active
      BY DEF KeepAliveFails, Unanswered
    <2>2. /\ clock \in Nat /\ session.tr \in Nat /\ asked \in Nat /\ AnswerDelay \in Nat
          /\ HeartBtInt \in Nat
      BY TimeTypes, TimeFacts, OrderTypes
    <2>3. asked - session.tr <= 1
      BY <2>2 DEF AskedLate
    <2>4. clock - asked > AnswerDelay
      BY <2>1, <2>2, <2>3
    <2>5. ~Probing
      BY <2>2, <2>4 DEF Probing
    <2> QED  BY <2>1, <2>5 DEF OrderInv, Lossless
  <1>2. TypeInv /\ OrderInv => [Kept]_vars
    BY <1>1
  <1> HIDE DEF Kept
  <1>3. Spec => [][Kept]_vars
    BY <1>1, OrderInvariant, PTL
  <1> QED  BY <1>3 DEF ResponsivePeerKept, Kept
=============================================================================
