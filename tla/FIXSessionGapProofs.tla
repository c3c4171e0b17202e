------------------------ MODULE FIXSessionGapProofs ------------------------
(* What holds of a FIX session when messages were garbled, for every       *)
(* interval, peer and loss, until it counts an application message again:  *)
(* it counts nothing twice and does not log out by itself, and the gap     *)
(* that one garbled message leaves closes.                                 *)
EXTENDS FIXSessionProofs, FiniteSetTheorems

-----------------------------------------------------------------------------
(* No logout by itself.  What follows holds whether messages were garbled  *)
(* or not, and up to the application message that is counted again.        *)

\* The numbers of the new messages after m start from here.
Until(m) == IF m.type \in {"GapFill", "Reset"} THEN m.ref ELSE m.seq + 1

\* A message of a peer whose log is log: it stands for what is there, and when it is sent
\* again it is an application message or a gap fill, unless it was garbled.
Sane(m, log) ==
    /\ m.type # "Reject" /\ (m.type = "Logon" => m.seq = 1)
    /\ IF m.dup THEN m.type \in {"App", "GapFill", "Garbled"} ELSE m.type # "GapFill"
    /\ m.type \in {"GapFill", "Reset"} => m.ref > m.seq
    /\ m.seq \in DOMAIN log /\ Until(m) <= Len(log) + 1
    /\ m.type # "Garbled" =>
          /\ m.type = "App" <=> log[m.seq] = "App"
          /\ \A i \in m.seq + 1 .. Until(m) - 1 : log[i] # "App"

\* The messages on their way from a peer, whose messages A the session has counted: the
\* new ones follow on, and after a logout the peer sends nothing.
Trails(p, A) ==
    \A k \in DOMAIN p.wire :
       /\ Sane(p.wire[k], p.log)
       /\ ~p.wire[k].dup => /\ \A i \in A : i < p.wire[k].seq
                            /\ \A j \in 1 .. k - 1 : Until(p.wire[j]) <= p.wire[k].seq
       /\ p.wire[k].type = "Logout" => ~p.alive /\ k = Len(p.wire)

\* A session that has read r has counted the application message i.
Known(r, i) ==
    \E k \in DOMAIN r : r[k] = <<"App", i>> \/ (r[k][1] = "Reset" /\ i <= r[k][2])

\* A peer that is gone, and nothing of it is on its way.
Over(p) == ~p.alive /\ p.wire = << >>

\* A session that has read r has counted n messages of its peer, those in A.
Tally(p, A, n, r) ==
    /\ IsFiniteSet(A) /\ Cardinality(A) = n
    /\ A \subseteq DOMAIN p.log
    /\ \A i \in A : /\ p.log[i] = "App" => Known(r, i)
                    /\ i > n => p.log[i] = "App" \/ Over(p)

\* The session logs on first, when its peer has sent nothing, and does not log out.
Civil ==
    \A k \in DOMAIN session.wire :
       /\ session.wire[k].type # "Logout"
       /\ session.wire[k].type = "Logon" => k = 1 /\ peer.log = << >>

\* As long as no application message was counted again, the session has counted each
\* message of its peer once at most, and waits for no logout.
Tracking ==
    (~AppCounted /\ pc \in {"new", "logon", "poll", "handler"}) =>
       /\ session.grace = << >>
       /\ Civil
       /\ \E A \in SUBSET (DOMAIN peer.log) :
             Tally(peer, A, session.inSeq, read) /\ Trails(peer, A)


-----------------------------------------------------------------------------
(* What the session counts when it reads a message.                        *)

\* What a session that has counted n messages counts once it has handled message m.
Moves(m, n, l) ==
    \/ l = n
    \/ /\ m.type \notin {"GapFill", "Reset", "Garbled"}
       /\ m.type \in {"App", "Logon", "Logout"} \/ m.seq = n + 1
       /\ l = n + 1
    \/ m.type = "GapFill" /\ m.seq = n + 1 /\ l = m.ref - 1
    \/ m.type = "Reset" /\ l = m.ref - 1

LEMMA UntilType ==
    ASSUME NEW m \in Message
    PROVE  Until(m) \in Int /\ m.seq \in Nat /\ m.ref \in Int /\ m.dup \in BOOLEAN /\ m.type \in Types
  BY DEF Until, Message

LEMMA KnownAppend ==
    ASSUME NEW r \in Seq(Types \X Nat), NEW e \in Types \X Nat
    PROVE  /\ \A i : Known(r, i) => Known(Append(r, e), i)
           /\ e[1] = "App" => Known(Append(r, e), e[2])
           /\ e[1] = "Reset" => \A i \in Nat : i <= e[2] => Known(Append(r, e), i)
  <1> DEFINE q == Append(r, e)
  <1>1. /\ \A k \in DOMAIN r : k \in DOMAIN q /\ q[k] = r[k]
        /\ Len(r) + 1 \in DOMAIN q /\ q[Len(r) + 1] = e
    OBVIOUS
  <1> HIDE DEF q
  <1>2. e = <<e[1], e[2]>>
    OBVIOUS
  <1> QED  BY <1>1, <1>2 DEF Known, q

\* Peer q is p after the session has taken the first message from its wire.
Taken(p, q) ==
    /\ p.wire # << >>
    /\ q.wire = Tail(p.wire) /\ q.log = p.log /\ q.alive = p.alive

LEMMA TrailsTaken ==
    ASSUME NEW p \in Peers, NEW q, Taken(p, q), NEW A, Trails(p, A),
           NEW B \in SUBSET Nat, \A i \in B : i \in A \/ i < Until(Head(p.wire))
    PROVE  Trails(q, B)
  <1> DEFINE w == Tail(p.wire)
  <1>1. p.wire \in Seq(Message) /\ p.wire # << >>
    BY DEF Peers, Taken
  <1>2. /\ Head(p.wire) = p.wire[1] /\ 1 \in DOMAIN p.wire
        /\ \A k \in DOMAIN w : /\ k \in Nat /\ k >= 1 /\ k + 1 \in DOMAIN p.wire
                               /\ w[k] = p.wire[k + 1]
                               /\ \A j \in 1 .. k - 1 : j + 1 \in 1 .. k /\ w[j] = p.wire[j + 1]
        /\ Len(p.wire) = Len(w) + 1 /\ Len(w) \in Nat
    BY <1>1, TailFacts
  <1> HIDE DEF w
  <1>3. \A k \in DOMAIN p.wire : p.wire[k].seq \in Nat /\ Until(p.wire[k]) \in Int
    BY <1>1, UntilType
  <1>4. ASSUME NEW k \in DOMAIN w
        PROVE  /\ Sane(w[k], p.log)
               /\ ~w[k].dup => /\ \A i \in B : i < w[k].seq
                               /\ \A j \in 1 .. k - 1 : Until(w[j]) <= w[k].seq
               /\ w[k].type = "Logout" => ~p.alive /\ k = Len(w)
    <2>1. PICK i \in DOMAIN p.wire : i = k + 1 /\ w[k] = p.wire[i]
      BY <1>2
    <2>2. k \in Nat /\ k >= 1 /\ i - 1 = k /\ 1 \in 1 .. i - 1
      BY <1>2, <2>1
    <2>3. /\ Sane(p.wire[i], p.log)
          /\ ~p.wire[i].dup => /\ \A a \in A : a < p.wire[i].seq
                               /\ \A j \in 1 .. i - 1 : Until(p.wire[j]) <= p.wire[i].seq
          /\ p.wire[i].type = "Logout" => ~p.alive /\ i = Len(p.wire)
      BY DEF Trails
    <2>4. ASSUME ~p.wire[i].dup, NEW b \in B PROVE b < p.wire[i].seq
      <3>1. Until(Head(p.wire)) <= p.wire[i].seq
        BY <1>2, <2>2, <2>3, <2>4
      <3>2. b \in Nat /\ p.wire[i].seq \in Nat /\ Until(Head(p.wire)) \in Int
        BY <1>2, <1>3
      <3> QED  BY <2>3, <2>4, <3>1, <3>2
    <2>5. \A j \in 1 .. k - 1 : j + 1 \in 1 .. i - 1 /\ w[j] = p.wire[j + 1]
      BY <1>2, <2>2
    <2> QED  BY <1>2, <2>1, <2>2, <2>3, <2>4, <2>5
  <1> QED  BY <1>4 DEF Trails, Taken, w

LEMMA CountBound ==
    ASSUME NEW l \in Nat, NEW A, A \subseteq 1 .. l, IsFiniteSet(A)
    PROVE  Cardinality(A) <= l
  <1>1. l \in Int /\ 1 \in Int
    OBVIOUS
  <1>2. IsFiniteSet(1 .. l) /\ Cardinality(1 .. l) = IF 1 > l THEN 0 ELSE l - 1 + 1
    BY <1>1, FS_Interval
  <1>3. Cardinality(1 .. l) = l
    BY <1>2
  <1>4. Cardinality(A) <= Cardinality(1 .. l)
    BY <1>2, FS_Subset
  <1> QED  BY <1>3, <1>4

\* The session has counted no more messages than the peer has sent.
LEMMA TallyBound ==
    ASSUME NEW p, p.log \in Logs, NEW A, NEW n, NEW r, Tally(p, A, n, r)
    PROVE  n <= Len(p.log)
  <1>1. Len(p.log) \in Nat /\ DOMAIN p.log = 1 .. Len(p.log)
    BY DEF Logs
  <1>2. A \subseteq 1 .. Len(p.log) /\ IsFiniteSet(A) /\ Cardinality(A) = n
    BY <1>1 DEF Tally
  <1> QED  BY <1>1, <1>2, CountBound

LEMMA TallyCounts ==
    ASSUME NEW p \in Peers, NEW q, Taken(p, q), NEW A, NEW n \in Nat, NEW r \in Seq(Types \X Nat),
           Tally(p, A, n, r), Trails(p, A)
    PROVE  LET m == Head(p.wire)
           IN  /\ m \in Message /\ Sane(m, p.log) /\ m.seq \in 1 .. Len(p.log)
               /\ Len(p.log) \in Nat /\ p.log \in Logs
               /\ ~m.dup => n < m.seq /\ \A i \in A : i < m.seq
               /\ m.type = "Logout" => Over(q)
               /\ \A i \in A : i > n => p.log[i] = "App"
               /\ n <= Len(p.log) /\ A \in SUBSET Nat
  <1> DEFINE m == Head(p.wire)
  <1>1. /\ p.wire \in Seq(Message) /\ p.wire # << >> /\ p.log \in Logs
        /\ Len(p.log) \in Nat /\ DOMAIN p.log = 1 .. Len(p.log)
    BY DEF Peers, Taken, Logs
  <1>2. m \in Message /\ m = p.wire[1] /\ 1 \in DOMAIN p.wire /\ m.seq \in Nat
    <2>1. m = p.wire[1] /\ 1 \in DOMAIN p.wire
      BY <1>1, TailFacts
    <2>2. p.wire[1] \in Message
      BY <1>1, <2>1
    <2> QED  BY <2>1, <2>2, UntilType
  <1> HIDE DEF m
  <1>3. Sane(m, p.log)
    BY <1>2 DEF Trails
  <1>4. m.seq \in 1 .. Len(p.log)
    BY <1>1, <1>3 DEF Sane
  <1>5. ASSUME NEW l \in Nat, A \subseteq 1 .. l PROVE n <= l
    BY <1>5, CountBound DEF Tally
  <1>6. A \subseteq 1 .. Len(p.log)
    BY <1>1 DEF Tally
  <1>7. ASSUME ~m.dup PROVE n < m.seq /\ \A i \in A : i < m.seq
    <2>1. \A i \in A : i < m.seq
      BY <1>2, <1>7 DEF Trails
    <2>2. A \subseteq 1 .. m.seq - 1 /\ m.seq - 1 \in Nat
      BY <1>2, <1>4, <1>6, <2>1
    <2>3. n <= m.seq - 1
      BY <1>5, <2>2
    <2> QED  BY <1>2, <2>1, <2>3
  <1>8. ASSUME m.type = "Logout" PROVE Over(q)
    <2>1. ~p.alive /\ Len(p.wire) = 1
      BY <1>2, <1>8 DEF Trails
    <2>2. Tail(p.wire) = << >>
      <3>1. Len(Tail(p.wire)) = 0 /\ Tail(p.wire) \in Seq(Message)
        BY <1>1, <2>1
      <3> QED  BY <3>1, EmptySeq
    <2> QED  BY <2>1, <2>2 DEF Over, Taken
  <1>9. \A i \in A : i > n => p.log[i] = "App"
    BY <1>1 DEF Tally, Over
  <1>10. n <= Len(p.log) /\ A \in SUBSET Nat
    BY <1>1, <1>5, <1>6
  <1> QED  BY <1>1, <1>2, <1>3, <1>4, <1>7, <1>8, <1>9, <1>10 DEF m

\* The session counts the messages m stands for, if it moves on, and none of them twice
\* unless it is an application message that it had counted.
LEMMA TallyTaken ==
    ASSUME NEW p \in Peers, NEW q, Taken(p, q), NEW A, NEW n \in Nat, NEW r \in Seq(Types \X Nat),
           Tally(p, A, n, r), Trails(p, A),
           NEW l \in Nat, Moves(Head(p.wire), n, l),
           ~(Head(p.wire).type = "App" /\ Known(r, Head(p.wire).seq))
    PROVE  \E B \in SUBSET (DOMAIN q.log) :
              /\ Tally(q, B, l, Append(r, <<Head(p.wire).type, Head(p.wire).seq>>))
              /\ Trails(q, B)
  <1> DEFINE m == Head(p.wire)
             e == <<m.type, m.seq>>
             t == Append(r, e)
  <1>1. /\ m \in Message /\ Sane(m, p.log) /\ m.seq \in 1 .. Len(p.log)
        /\ Len(p.log) \in Nat /\ p.log \in Logs
        /\ ~m.dup => n < m.seq /\ \A i \in A : i < m.seq
        /\ m.type = "Logout" => Over(q)
        /\ \A i \in A : i > n => p.log[i] = "App"
        /\ n <= Len(p.log) /\ A \in SUBSET Nat
    BY TallyCounts
  <1>2. ~(m.type = "App" /\ Known(r, m.seq)) /\ Moves(m, n, l)
    OBVIOUS
  <1> HIDE DEF m
  <1>3. /\ m.type \in Types /\ m.seq \in Nat /\ m.ref \in Int /\ m.dup \in BOOLEAN
        /\ Until(m) \in Int /\ DOMAIN p.log = 1 .. Len(p.log)
    BY <1>1, UntilType DEF Logs
  <1>4. e \in Types \X Nat /\ e[1] = m.type /\ e[2] = m.seq
    BY <1>3
  <1> HIDE DEF e
  <1>5. /\ \A i : Known(r, i) => Known(t, i)
        /\ m.type = "App" => Known(t, m.seq)
        /\ m.type = "Reset" => \A i \in Nat : i <= m.seq => Known(t, i)
    BY <1>4, KnownAppend
  <1> HIDE DEF t
  <1>6. /\ IsFiniteSet(A) /\ Cardinality(A) = n /\ A \subseteq 1 .. Len(p.log)
        /\ \A i \in A : p.log[i] = "App" => Known(r, i)
    BY <1>3 DEF Tally
  <1>7. q.log = p.log
    BY DEF Taken
  <1>8. ASSUME NEW B \in SUBSET (1 .. Len(p.log)), IsFiniteSet(B), Cardinality(B) = l,
               \A i \in B : /\ i \in A \/ i < Until(m)
                            /\ p.log[i] = "App" => Known(t, i)
                            /\ i > l => p.log[i] = "App" \/ Over(q)
        PROVE  \E C \in SUBSET (DOMAIN q.log) : Tally(q, C, l, t) /\ Trails(q, C)
    <2>1. Tally(q, B, l, t)
      BY <1>3, <1>7, <1>8 DEF Tally
    <2>2. B \in SUBSET Nat /\ \A i \in B : i \in A \/ i < Until(Head(p.wire))
      BY <1>8 DEF m
    <2>3. Trails(q, B)
      BY <2>2, TrailsTaken
    <2> QED  BY <1>3, <1>7, <2>1, <2>3
  <1> SUFFICES \E B \in SUBSET (DOMAIN q.log) : Tally(q, B, l, t) /\ Trails(q, B)
    BY DEF t, e, m
  <1>9. CASE l = n
    <2>1. \A i \in A : /\ i \in A \/ i < Until(m)
                       /\ p.log[i] = "App" => Known(t, i)
                       /\ i > l => p.log[i] = "App" \/ Over(q)
      BY <1>1, <1>5, <1>6, <1>9
    <2> QED  BY <1>6, <1>8, <1>9, <2>1
  <1>10. CASE /\ m.type \notin {"GapFill", "Reset", "Garbled"}
              /\ m.type \in {"App", "Logon", "Logout"} \/ m.seq = n + 1
              /\ l = n + 1
    <2>1. m.type = "App" <=> p.log[m.seq] = "App"
      BY <1>1, <1>10 DEF Sane
    <2>2. m.seq \notin A
      <3>1. CASE ~m.dup
        BY <1>1, <1>3, <3>1
      <3>2. CASE m.dup
        <4>1. m.type = "App"
          BY <1>1, <1>10, <3>2 DEF Sane
        <4> QED  BY <1>2, <1>6, <2>1, <4>1
      <3> QED  BY <1>3, <3>1, <3>2
    <2> DEFINE B == A \cup {m.seq}
    <2>3. IsFiniteSet(B) /\ Cardinality(B) = l
      BY <1>6, <1>10, <2>2, FS_AddElement
    <2>4. B \in SUBSET (1 .. Len(p.log))
      BY <1>1, <1>6
    <2>5. Until(m) = m.seq + 1
      BY <1>10 DEF Until
    <2>6. m.seq > l => p.log[m.seq] = "App" \/ Over(q)
      <3>1. m.type = "Logon" => m.seq <= l
        BY <1>1, <1>10 DEF Sane
      <3>2. m.seq = n + 1 => ~(m.seq > l)
        BY <1>3, <1>10
      <3> QED  BY <1>1, <1>3, <1>10, <2>1, <3>1, <3>2
    <2>7. ASSUME NEW i \in B
          PROVE  /\ i \in A \/ i < Until(m)
                 /\ p.log[i] = "App" => Known(t, i)
                 /\ i > l => p.log[i] = "App" \/ Over(q)
      <3>1. CASE i \in A
        <4>1. i > l => i > n
          <5>1. i \in Nat
            BY <1>1, <3>1
          <5> QED  BY <1>10, <5>1
        <4> QED  BY <1>1, <1>5, <1>6, <3>1, <4>1
      <3>2. CASE i = m.seq
        BY <1>3, <1>5, <2>1, <2>5, <2>6, <3>2
      <3> QED  BY <3>1, <3>2
    <2> HIDE DEF B
    <2> QED  BY <1>8, <2>3, <2>4, <2>7
  <1>11. CASE m.type = "GapFill" /\ m.seq = n + 1 /\ l = m.ref - 1
    <2> DEFINE C == m.seq .. l
               B == A \cup C
    <2>1. /\ m.ref > m.seq /\ Until(m) = m.ref /\ m.ref <= Len(p.log) + 1
          /\ p.log[m.seq] # "App" /\ \A i \in m.seq + 1 .. m.ref - 1 : p.log[i] # "App"
      BY <1>1, <1>11 DEF Sane, Until
    <2>2. \A i \in C : /\ p.log[i] # "App" /\ i \in 1 .. Len(p.log)
                       /\ i < Until(m) /\ i > n /\ ~(i > l)
      <3> TAKE i \in C
      <3>1. i \in Int /\ i >= m.seq /\ i <= m.ref - 1
        BY <1>3, <1>11
      <3>2. i = m.seq \/ i \in m.seq + 1 .. m.ref - 1
        BY <1>3, <3>1
      <3> QED  BY SMTT(30), <1>1, <1>3, <1>11, <2>1, <3>1, <3>2
    <2>3. A \cap C = {}
      BY <1>1, <2>2
    <2>4. IsFiniteSet(C) /\ Cardinality(C) = l - m.seq + 1
      <3>0. m.seq \in Int /\ l \in Int
        BY <1>3
      <3>1. IsFiniteSet(C) /\ Cardinality(C) = IF m.seq > l THEN 0 ELSE l - m.seq + 1
        BY <3>0, FS_Interval
      <3> QED  BY <1>3, <1>11, <2>1, <3>1
    <2>5. IsFiniteSet(B) /\ Cardinality(B) = n + (l - m.seq + 1) - Cardinality({})
      <3> HIDE DEF C
      <3>1. /\ IsFiniteSet(B)
            /\ Cardinality(B) = Cardinality(A) + Cardinality(C) - Cardinality(A \cap C)
        BY <1>6, <2>4, FS_Union
      <3> QED  BY <1>6, <2>3, <2>4, <3>1
    <2>6. Cardinality(B) = l
      <3>1. Cardinality({}) = 0
        BY FS_EmptySet
      <3> QED  BY SMTT(30), <1>3, <1>11, <2>5, <3>1
    <2>7. ASSUME NEW i \in B
          PROVE  /\ i \in A \/ i < Until(m)
                 /\ p.log[i] = "App" => Known(t, i)
                 /\ i > l => p.log[i] = "App" \/ Over(q)
      <3>1. CASE i \in A
        <4>1. i > l => i > n
          <5>1. i \in Nat
            BY <1>1, <3>1
          <5> QED  BY <1>3, <1>11, <2>1, <5>1
        <4> QED  BY <1>1, <1>5, <1>6, <3>1, <4>1
      <3>2. CASE i \in C
        BY <2>2, <3>2
      <3> QED  BY <3>1, <3>2
    <2>8. B \in SUBSET (1 .. Len(p.log))
      BY <1>6, <2>2
    <2> HIDE DEF B
    <2> QED  BY <1>8, <2>5, <2>6, <2>7, <2>8
  <1>12. CASE m.type = "Reset" /\ l = m.ref - 1
    <2> DEFINE B == 1 .. l
    <2>1. /\ m.ref > m.seq /\ Until(m) = m.ref /\ m.ref <= Len(p.log) + 1
          /\ \A i \in m.seq + 1 .. m.ref - 1 : p.log[i] # "App"
      BY <1>1, <1>12 DEF Sane, Until
    <2>2. \A i \in B : /\ i \in 1 .. Len(p.log) /\ i < Until(m) /\ ~(i > l)
                       /\ i <= m.seq \/ i \in m.seq + 1 .. m.ref - 1
      BY <1>1, <1>3, <1>12, <2>1
    <2>3. IsFiniteSet(B) /\ Cardinality(B) = l
      <3>1. IsFiniteSet(B) /\ Cardinality(B) = IF 1 > l THEN 0 ELSE l - 1 + 1
        BY FS_Interval
      <3> QED  BY <3>1
    <2>4. \A i \in B : p.log[i] = "App" => Known(t, i)
      BY <1>5, <1>12, <2>1, <2>2
    <2>5. B \in SUBSET (1 .. Len(p.log))
      BY <2>2
    <2> HIDE DEF B
    <2> QED  BY <1>8, <2>2, <2>3, <2>4, <2>5
  <1> QED  BY <1>2, <1>9, <1>10, <1>11, <1>12 DEF Moves

-----------------------------------------------------------------------------
(* What the peer sends.                                                    *)

\* Log l goes on from log.
Extends(log, l) == \A i \in DOMAIN log : i \in DOMAIN l /\ l[i] = log[i]

\* What a session has counted of the messages of peer p it has counted of those of q, and
\* the messages of q follow on as well.
Sustains(p, q) ==
    /\ Extends(p.log, q.log)
    /\ Over(p) => Over(q)
    /\ \A A \in SUBSET (DOMAIN p.log) : Trails(p, A) => Trails(q, A)

LEMMA SustainsTally ==
    ASSUME NEW p, NEW q, Sustains(p, q), NEW A, NEW n, NEW r, Tally(p, A, n, r), Trails(p, A)
    PROVE  A \in SUBSET (DOMAIN q.log) /\ Tally(q, A, n, r) /\ Trails(q, A)
  BY DEF Sustains, Extends, Tally

LEMMA SustainsTrans ==
    ASSUME NEW p, NEW q, NEW r, Sustains(p, q), Sustains(q, r)
    PROVE  Sustains(p, r)
  <1>1. \A A \in SUBSET (DOMAIN p.log) : A \in SUBSET (DOMAIN q.log)
    BY DEF Sustains, Extends
  <1>2. Extends(p.log, r.log)
    BY DEF Sustains, Extends
  <1> QED  BY <1>1, <1>2 DEF Sustains

LEMMA SustainsSame ==
    ASSUME NEW p, NEW q, q.wire = p.wire, q.log = p.log, q.alive => p.alive
    PROVE  Sustains(p, q)
  BY DEF Sustains, Extends, Trails, Over

LEMMA SustainsFields ==
    ASSUME NEW p \in Peers
    PROVE  /\ Sustains(p, p)
           /\ Sustains(p, [p EXCEPT !.alive = FALSE])
           /\ \A e : Sustains(p, [p EXCEPT !.resend = e])
           /\ \A e : Sustains(p, [p EXCEPT !.expects = e, !.resend = "none"])
  <1>1. Sustains(p, p)
    BY SustainsSame
  <1>2. Sustains(p, [p EXCEPT !.alive = FALSE])
    <2>1. /\ [p EXCEPT !.alive = FALSE].wire = p.wire
          /\ [p EXCEPT !.alive = FALSE].log = p.log
          /\ ~[p EXCEPT !.alive = FALSE].alive
      BY DEF Peers
    <2> QED  BY <2>1, SustainsSame
  <1>3. ASSUME NEW e PROVE Sustains(p, [p EXCEPT !.resend = e])
    <2>1. /\ [p EXCEPT !.resend = e].wire = p.wire /\ [p EXCEPT !.resend = e].log = p.log
          /\ [p EXCEPT !.resend = e].alive = p.alive
      BY DEF Peers
    <2> QED  BY <2>1, SustainsSame
  <1>4. ASSUME NEW e PROVE Sustains(p, [p EXCEPT !.expects = e, !.resend = "none"])
    <2>1. /\ [p EXCEPT !.expects = e, !.resend = "none"].wire = p.wire
          /\ [p EXCEPT !.expects = e, !.resend = "none"].log = p.log
          /\ [p EXCEPT !.expects = e, !.resend = "none"].alive = p.alive
      BY DEF Peers
    <2> QED  BY <2>1, SustainsSame
  <1> QED  BY <1>1, <1>2, <1>3, <1>4

LEMMA SaneExtends ==
    ASSUME NEW m \in Message, NEW log \in Logs, NEW l \in Logs, Extends(log, l), Sane(m, log)
    PROVE  Sane(m, l)
  <1>1. /\ m.seq \in Nat /\ Until(m) \in Int
        /\ Len(log) \in Nat /\ DOMAIN log = 1 .. Len(log)
        /\ Len(l) \in Nat /\ DOMAIN l = 1 .. Len(l)
    BY UntilType DEF Logs
  <1>2. Len(log) <= Len(l)
    BY <1>1 DEF Extends
  <1>3. m.seq \in DOMAIN l /\ l[m.seq] = log[m.seq] /\ Until(m) <= Len(l) + 1
    BY <1>1, <1>2 DEF Sane, Extends
  <1>4. ASSUME NEW i \in m.seq + 1 .. Until(m) - 1 PROVE l[i] = log[i]
    <2>1. i \in 1 .. Len(log)
      BY <1>1 DEF Sane
    <2> QED  BY <1>1, <2>1 DEF Extends
  <1> QED  BY <1>3, <1>4 DEF Sane

\* The peer sends a new message x, and is gone after it if that is a logout.
LEMMA SustainsNew ==
    ASSUME NEW p \in Peers, p.alive, NEW q, NEW x \in Message,
           x.seq = Len(p.log) + 1, ~x.dup, q.wire = Append(p.wire, x),
           q.log \in Logs, Extends(p.log, q.log), Sane(x, q.log),
           x.type = "Logout" => ~q.alive
    PROVE  Sustains(p, q)
  <1>1. /\ p.wire \in Seq(Message) /\ p.log \in Logs
        /\ Len(p.log) \in Nat /\ DOMAIN p.log = 1 .. Len(p.log)
    BY DEF Peers, Logs
  <1> DEFINE w == Append(p.wire, x)
  <1>2. /\ \A k \in DOMAIN p.wire : k \in DOMAIN w /\ w[k] = p.wire[k]
        /\ \A k \in DOMAIN w : \/ k \in DOMAIN p.wire /\ w[k] = p.wire[k]
                               \/ k = Len(p.wire) + 1 /\ w[k] = x
        /\ \A k \in DOMAIN p.wire : \A j \in 1 .. k - 1 : j \in DOMAIN p.wire
        /\ \A j \in 1 .. Len(p.wire) : j \in DOMAIN p.wire
        /\ Len(w) = Len(p.wire) + 1 /\ Len(p.wire) \in Nat
    BY <1>1, AppendFacts
  <1> HIDE DEF w
  <1>3. \A k \in DOMAIN p.wire : p.wire[k] \in Message
    BY <1>1
  <1>4. ASSUME NEW A \in SUBSET (DOMAIN p.log), Trails(p, A), NEW k \in DOMAIN w
        PROVE  /\ Sane(w[k], q.log)
               /\ ~w[k].dup => /\ \A i \in A : i < w[k].seq
                               /\ \A j \in 1 .. k - 1 : Until(w[j]) <= w[k].seq
               /\ w[k].type = "Logout" => ~q.alive /\ k = Len(w)
    <2>1. CASE k \in DOMAIN p.wire /\ w[k] = p.wire[k]
      <3>1. /\ Sane(p.wire[k], p.log)
            /\ ~p.wire[k].dup => /\ \A i \in A : i < p.wire[k].seq
                                 /\ \A j \in 1 .. k - 1 : Until(p.wire[j]) <= p.wire[k].seq
            /\ p.wire[k].type # "Logout"
        BY <1>4, <2>1 DEF Trails
      <3>2. \A j \in 1 .. k - 1 : w[j] = p.wire[j]
        BY <1>2, <2>1
      <3>3. Sane(p.wire[k], q.log)
        BY <1>1, <1>3, <2>1, <3>1, SaneExtends
      <3> QED  BY <2>1, <3>1, <3>2, <3>3
    <2>2. CASE k = Len(p.wire) + 1 /\ w[k] = x
      <3>1. \A j \in 1 .. k - 1 : j \in DOMAIN p.wire /\ w[j] = p.wire[j]
        BY <1>2, <2>2
      <3>2. \A j \in DOMAIN p.wire : Until(p.wire[j]) <= Len(p.log) + 1
        BY <1>4 DEF Trails, Sane
      <3>3. \A i \in A : i < x.seq
        BY <1>1
      <3> QED  BY <1>2, <2>2, <3>1, <3>2, <3>3
    <2> QED  BY <1>2, <2>1, <2>2
  <1>5. \A A \in SUBSET (DOMAIN p.log) : Trails(p, A) => Trails(q, A)
    BY <1>4 DEF Trails, w
  <1> QED  BY <1>5 DEF Sustains, Over

\* The peer sends messages again.
LEMMA SustainsAgain ==
    ASSUME NEW p \in Peers, p.alive, NEW q, NEW a \in Resends(p.log),
           q.wire = p.wire \o a, q.log = p.log, q.alive = p.alive
    PROVE  Sustains(p, q)
  <1> DEFINE w == p.wire \o a
  <1>1. /\ p.wire \in Seq(Message) /\ p.log \in Logs
        /\ Len(p.log) \in Nat /\ DOMAIN p.log = 1 .. Len(p.log)
        /\ a \in Seq(Message) /\ \A k \in DOMAIN a : ResentFor(p.log, a[k])
    BY DEF Peers, Logs, Resends
  <1>2. w \in Seq(Message) /\ w = p.wire \o a
    BY <1>1
  <1> HIDE DEF w
  <1>3. /\ Len(w) = Len(p.wire) + Len(a) /\ Len(p.wire) \in Nat /\ Len(a) \in Nat
        /\ DOMAIN w = 1 .. Len(w) /\ DOMAIN p.wire = 1 .. Len(p.wire) /\ DOMAIN a = 1 .. Len(a)
    BY <1>1, <1>2
  <1>4. ASSUME NEW k \in DOMAIN p.wire PROVE k \in DOMAIN w /\ w[k] = p.wire[k]
    BY <1>1, <1>2, <1>3
  <1>5. ASSUME NEW k \in DOMAIN w, k \notin DOMAIN p.wire
        PROVE  ResentFor(p.log, w[k]) /\ w[k] \in Message
    <2>1. k - Len(p.wire) \in DOMAIN a
      BY <1>3, <1>5
    <2>2. w[k] = a[k - Len(p.wire)]
      BY <1>1, <1>2, <1>3, <1>5
    <2> QED  BY <1>1, <2>1, <2>2
  <1>6. ASSUME NEW m \in Message, ResentFor(p.log, m)
        PROVE  m.dup /\ Sane(m, p.log) /\ m.type # "Logout"
    <2>1. m.seq \in Nat /\ m.ref \in Int
      BY UntilType
    <2>2. CASE m.type = "App"
      <3>1. m.dup /\ m.seq \in DOMAIN p.log /\ p.log[m.seq] = "App" /\ Until(m) = m.seq + 1
        BY <1>6, <2>2 DEF ResentFor, Until
      <3> QED  BY <1>1, <2>1, <2>2, <3>1 DEF Sane
    <2>3. CASE m.type = "GapFill"
      <3>1. /\ m.dup /\ m.seq \in DOMAIN p.log /\ Until(m) = m.ref
            /\ m.seq < m.ref /\ m.ref <= Len(p.log) + 1
            /\ \A i \in m.seq .. m.ref - 1 : p.log[i] # "App"
        BY <1>6, <2>3 DEF ResentFor, Until, NoApp
      <3>2. p.log[m.seq] # "App" /\ \A i \in m.seq + 1 .. m.ref - 1 : p.log[i] # "App"
        BY <2>1, <3>1
      <3> QED  BY <1>1, <2>1, <2>3, <3>1, <3>2 DEF Sane
    <2> QED  BY <1>6, <2>2, <2>3 DEF ResentFor
  <1>7. ASSUME NEW A \in SUBSET (DOMAIN p.log), Trails(p, A), NEW k \in DOMAIN w
        PROVE  /\ Sane(w[k], p.log)
               /\ ~w[k].dup => /\ \A i \in A : i < w[k].seq
                               /\ \A j \in 1 .. k - 1 : Until(w[j]) <= w[k].seq
               /\ w[k].type # "Logout"
    <2>1. CASE k \in DOMAIN p.wire
      <3>1. \A j \in 1 .. k - 1 : j \in DOMAIN p.wire
        BY <1>3, <2>1
      <3> QED  BY <1>4, <1>7, <2>1, <3>1 DEF Trails
    <2>2. CASE k \notin DOMAIN p.wire
      BY <1>5, <1>6, <1>7, <2>2
    <2> QED  BY <2>1, <2>2
  <1>8. \A A \in SUBSET (DOMAIN p.log) : Trails(p, A) => Trails(q, A)
    BY <1>7 DEF Trails, w
  <1> QED  BY <1>8 DEF Sustains, Over, Extends

\* A message on its way is garbled: it keeps its number.
LEMMA SustainsGarbled ==
    ASSUME NEW p \in Peers, NEW i \in DOMAIN p.wire, NEW q,
           q.wire = [p.wire EXCEPT ![i].type = "Garbled"], q.log = p.log, q.alive = p.alive
    PROVE  Sustains(p, q)
  <1> DEFINE x == [p.wire[i] EXCEPT !.type = "Garbled"]
             w == [p.wire EXCEPT ![i] = x]
  <1>1. /\ p.wire \in Seq(Message) /\ p.log \in Logs /\ Len(p.log) \in Nat
        /\ DOMAIN p.log = 1 .. Len(p.log)
        /\ DOMAIN p.wire = 1 .. Len(p.wire) /\ Len(p.wire) \in Nat
    BY DEF Peers, Logs
  <1>2. \A k \in DOMAIN p.wire : /\ p.wire[k] \in Message /\ p.wire[k].seq \in Nat
                                 /\ Until(p.wire[k]) \in Int /\ p.wire[k].dup \in BOOLEAN
    BY <1>1, UntilType
  <1>3. x.type = "Garbled" /\ x.seq = p.wire[i].seq /\ x.dup = p.wire[i].dup
    BY <1>2 DEF Message
  <1>4. q.wire = w
    OBVIOUS
  <1> HIDE DEF x
  <1>5. /\ DOMAIN w = DOMAIN p.wire /\ Len(w) = Len(p.wire)
        /\ \A k \in DOMAIN p.wire : w[k] = IF k = i THEN x ELSE p.wire[k]
        /\ w # << >>
    BY <1>1
  <1> HIDE DEF w
  <1>6. ASSUME NEW k \in DOMAIN p.wire, Sane(p.wire[k], p.log)
        PROVE  /\ w[k].seq = p.wire[k].seq /\ w[k].dup = p.wire[k].dup
               /\ w[k].type = "Logout" => p.wire[k].type = "Logout"
               /\ Sane(w[k], p.log)
               /\ Until(w[k]) \in Int /\ Until(w[k]) <= Until(p.wire[k])
    <2>1. CASE k = i
      <3>1. Until(x) = p.wire[i].seq + 1
        BY <1>3 DEF Until
      <3>2. Until(p.wire[i]) >= p.wire[i].seq + 1
        <4>1. p.wire[i].ref \in Int
          BY <1>2 DEF Message
        <4> QED  BY <1>2, <1>6, <2>1, <4>1 DEF Until, Sane
      <3>3. Sane(x, p.log)
        BY <1>1, <1>2, <1>3, <1>6, <2>1, <3>1 DEF Sane
      <3> QED  BY <1>2, <1>3, <1>5, <2>1, <3>1, <3>2, <3>3
    <2>2. CASE k # i
      BY <1>2, <1>5, <1>6, <2>2
    <2> QED  BY <2>1, <2>2
  <1>7. ASSUME NEW A \in SUBSET (DOMAIN p.log), Trails(p, A), NEW k \in DOMAIN w
        PROVE  /\ Sane(w[k], p.log)
               /\ ~w[k].dup => /\ \A j \in A : j < w[k].seq
                               /\ \A j \in 1 .. k - 1 : Until(w[j]) <= w[k].seq
               /\ w[k].type = "Logout" => ~p.alive /\ k = Len(w)
    <2>1. /\ Sane(p.wire[k], p.log)
          /\ ~p.wire[k].dup => /\ \A j \in A : j < p.wire[k].seq
                               /\ \A j \in 1 .. k - 1 : Until(p.wire[j]) <= p.wire[k].seq
          /\ p.wire[k].type = "Logout" => ~p.alive /\ k = Len(p.wire)
      BY <1>5, <1>7 DEF Trails
    <2>2. \A j \in 1 .. k - 1 : j \in DOMAIN p.wire /\ Sane(p.wire[j], p.log)
      BY <1>1, <1>5, <1>7 DEF Trails
    <2>3. k \in DOMAIN p.wire
      BY <1>5
    <2>4. ASSUME ~w[k].dup, NEW j \in 1 .. k - 1 PROVE Until(w[j]) <= w[k].seq
      <3>1. ~p.wire[k].dup /\ w[k].seq = p.wire[k].seq
        BY <1>6, <2>1, <2>3, <2>4
      <3>2. Until(p.wire[j]) <= p.wire[k].seq
        BY <2>1, <3>1
      <3>3. Until(w[j]) \in Int /\ Until(w[j]) <= Until(p.wire[j])
        BY <1>6, <2>2
      <3>4. Until(p.wire[j]) \in Int /\ p.wire[k].seq \in Int
        BY <1>2, <2>2, <2>3
      <3> QED  BY <3>1, <3>2, <3>3, <3>4
    <2> QED  BY <1>5, <1>6, <2>1, <2>3, <2>4
  <1>8. \A A \in SUBSET (DOMAIN p.log) : Trails(p, A) => Trails(q, A)
    BY <1>4, <1>7 DEF Trails
  <1>9. p.wire # << >>
    OBVIOUS
  <1> QED  BY <1>8, <1>9 DEF Sustains, Over, Extends

LEMMA SustainsSend ==
    ASSUME NEW p \in Peers, p.alive, NEW x \in Message, ~x.dup,
           x.type \notin {"GapFill", "Reset", "Reject", "Garbled"},
           x.type = "Logon" => p.log = << >>,
           NEW alive, x.type = "Logout" => ~alive
    PROVE  \A q : /\ q.wire = PeerSend(p, x).wire /\ q.log = PeerSend(p, x).log
                  /\ q.alive = alive
                  => Sustains(p, q)
  <1> DEFINE o == PeerSend(p, x)
             y == [x EXCEPT !.seq = Len(p.log) + 1]
  <1>1. /\ y \in Message /\ y.seq = Len(p.log) + 1 /\ y.type = x.type /\ y.dup = x.dup
        /\ o.wire = Append(p.wire, y) /\ o.log \in Logs /\ Len(o.log) = Len(p.log) + 1
        /\ \A i \in DOMAIN o.log :
              i = Len(p.log) + 1 \/ (i \in DOMAIN p.log /\ o.log[i] = p.log[i])
        /\ Len(p.log) \in Nat
    BY PeerSendFields
  <1>2. o.log = Append(p.log, IF x.type = "App" THEN "App" ELSE "Admin")
    BY DEF PeerSend, Peers
  <1> HIDE DEF o, y
  <1>3. p.log \in Logs /\ DOMAIN p.log = 1 .. Len(p.log) /\ DOMAIN o.log = 1 .. Len(o.log)
    BY <1>1 DEF Peers, Logs
  <1>4. Extends(p.log, o.log)
    BY <1>1, <1>3 DEF Extends
  <1>5. y.seq \in DOMAIN o.log /\ (y.type = "App" <=> o.log[y.seq] = "App")
    <2>1. \A v : Append(p.log, v)[Len(p.log) + 1] = v
      BY <1>3 DEF Logs
    <2> QED  BY <1>1, <1>2, <1>3, <2>1
  <1>6. Until(y) = y.seq + 1 /\ Until(y) - 1 = y.seq
    BY <1>1 DEF Until
  <1>7. y.type = "Logon" => y.seq = 1
    BY <1>1
  <1>8. Sane(y, o.log)
    BY <1>1, <1>5, <1>6, <1>7 DEF Sane
  <1> QED  BY <1>1, <1>4, <1>8, SustainsNew DEF o

LEMMA SustainsReset ==
    ASSUME NEW p \in Peers, p.alive, Sound(p)
    PROVE  Sustains(p, [PeerSend(p, Msg("Reset", Len(p.log) + 3)) EXCEPT !.log = Append(@, "Admin")])
  <1> DEFINE x == Msg("Reset", Len(p.log) + 3)
             y == [x EXCEPT !.seq = Len(p.log) + 1]
             q == PeerSend(p, x)
             l == Append(q.log, "Admin")
             o == [q EXCEPT !.log = l]
  <1>1. Len(p.log) \in Nat /\ p.log \in Logs /\ DOMAIN p.log = 1 .. Len(p.log)
    BY DEF Peers, Logs
  <1>2. x \in Message /\ x.type = "Reset" /\ x.ref = Len(p.log) + 3 /\ ~x.dup
    BY <1>1, MsgType DEF Types, AdminTypes
  <1>3. o = [PeerSend(p, Msg("Reset", Len(p.log) + 3)) EXCEPT !.log = Append(@, "Admin")]
    OBVIOUS
  <1> HIDE DEF x
  <1>4. /\ y \in Message /\ y.seq = Len(p.log) + 1
        /\ y.type = "Reset" /\ y.ref = Len(p.log) + 3 /\ ~y.dup
        /\ q.wire = Append(p.wire, y) /\ q.alive = p.alive
        /\ q.log \in Logs /\ Len(q.log) = Len(p.log) + 1
    <2>1. /\ y \in Message /\ y.seq = Len(p.log) + 1
          /\ y.type = x.type /\ y.ref = x.ref /\ y.dup = x.dup
      BY <1>2, PeerSendFields
    <2>2. /\ q.wire = Append(p.wire, y) /\ q.alive = p.alive
          /\ q.log \in Logs /\ Len(q.log) = Len(p.log) + 1
      BY <1>2, PeerSendFields
    <2> HIDE DEF q, y
    <2> QED  BY <1>2, <2>1, <2>2
  <1>5. q \in Peers
    BY <1>2, PeerSendFacts DEF Answerable, Continues
  <1>6. q.log = Append(p.log, "Admin")
    BY <1>2 DEF PeerSend, Peers
  <1> HIDE DEF q, y
  <1>7. ASSUME NEW g \in Logs
        PROVE  /\ Append(g, "Admin") \in Logs /\ Len(Append(g, "Admin")) = Len(g) + 1
               /\ DOMAIN Append(g, "Admin") = 1 .. Len(g) + 1
               /\ Append(g, "Admin")[Len(g) + 1] = "Admin"
               /\ \A i \in 1 .. Len(g) : Append(g, "Admin")[i] = g[i]
    BY DEF Logs
  <1>8. /\ DOMAIN q.log = 1 .. Len(p.log) + 1 /\ q.log[Len(p.log) + 1] = "Admin"
        /\ \A i \in 1 .. Len(p.log) : q.log[i] = p.log[i]
    BY <1>1, <1>6, <1>7
  <1>9. /\ l \in Logs /\ Len(l) = Len(p.log) + 2 /\ DOMAIN l = 1 .. Len(p.log) + 2
        /\ l[Len(p.log) + 2] = "Admin"
        /\ \A i \in 1 .. Len(p.log) + 1 : l[i] = q.log[i]
    <2>1. Len(q.log) + 1 = Len(p.log) + 2
      BY <1>1, <1>4
    <2>2. /\ l \in Logs /\ Len(l) = Len(q.log) + 1 /\ DOMAIN l = 1 .. Len(q.log) + 1
          /\ l[Len(q.log) + 1] = "Admin"
          /\ \A i \in 1 .. Len(q.log) : l[i] = q.log[i]
      BY <1>4, <1>7
    <2> HIDE DEF l
    <2> QED  BY <1>4, <2>1, <2>2
  <1> HIDE DEF l
  <1>10. o.wire = q.wire /\ o.log = l /\ o.alive = p.alive
    BY <1>4, <1>5 DEF Peers
  <1> HIDE DEF o
  <1>11. Extends(p.log, l)
    BY <1>1, <1>8, <1>9 DEF Extends
  <1>12. Sane(y, l)
    <2>1. Until(y) = Len(p.log) + 3
      BY <1>4 DEF Until
    <2>2. y.seq \in DOMAIN l /\ l[y.seq] = "Admin" /\ Until(y) <= Len(l) + 1
      BY <1>1, <1>4, <1>8, <1>9, <2>1
    <2>3. ASSUME NEW i \in y.seq + 1 .. Until(y) - 1 PROVE l[i] # "App"
      <3>1. i = Len(p.log) + 2
        BY <1>1, <1>4, <2>1
      <3> QED  BY <1>9, <3>1
    <2> QED  BY <1>1, <1>4, <2>2, <2>3 DEF Sane
  <1>13. Sustains(p, o)
    BY <1>4, <1>9, <1>10, <1>11, <1>12, SustainsNew
  <1> QED  BY <1>3, <1>13

\* The message m is none that a session sends that stays logged on: a logout, or a logon
\* that is not the first message.
Parts(p, m) == m.type = "Logout" \/ (m.type = "Logon" /\ p.log # << >>)

LEMMA SustainsReply ==
    ASSUME NEW p \in Peers, p.alive, NEW m \in Message, ~Parts(p, m),
           m.type = "ResendRequest" =>
              m.ref \in 1 .. Len(p.log) /\ (m.end = 0 \/ m.end >= m.ref)
    PROVE  Sustains(p, Reply(p, m))
  <1>1. m.ref \in Int /\ m.end \in Nat
    BY DEF Message
  <1>2. ASSUME NEW type \in {"Logon", "Heartbeat"}, type = "Logon" => p.log = << >>, NEW ref \in Int
        PROVE  Sustains(p, PeerSend(p, Msg(type, ref)))
    <2> DEFINE x == Msg(type, ref)
    <2>1. x \in Message /\ x.type = type /\ ~x.dup
      BY MsgType DEF Types, AdminTypes
    <2> HIDE DEF x
    <2>2. PeerSend(p, x).alive = p.alive
      BY <2>1, PeerSendFields
    <2>3. Sustains(p, PeerSend(p, x))
      BY <1>2, <2>1, <2>2, SustainsSend
    <2> QED  BY <2>3 DEF x
  <1>3. CASE m.type = "Logon"
    BY <1>2, <1>3, NoneType DEF Reply, Parts
  <1>4. CASE m.type = "TestRequest"
    BY <1>1, <1>2, <1>4 DEF Reply
  <1>5. CASE m.type = "ResendRequest"
    <2> DEFINE a == Resent(p.log, m.ref, m.end)
               w == p.wire \o a
    <2>1. p.log \in Logs
      BY DEF Peers, Logs
    <2>2. a \in Resends(p.log)
      BY <1>1, <1>5, <2>1, ResentFacts
    <2>3. Reply(p, m) = [p EXCEPT !.wire = w]
      BY <1>5 DEF Reply
    <2> HIDE DEF a
    <2>4. Reply(p, m).wire = w /\ Reply(p, m).log = p.log /\ Reply(p, m).alive = p.alive
      BY <2>3 DEF Peers
    <2> QED  BY <2>2, <2>4, SustainsAgain
  <1>6. CASE m.type \notin {"Logon", "TestRequest", "Logout", "ResendRequest"}
    <2>1. Reply(p, m) = p
      BY <1>6 DEF Reply
    <2> QED  BY <2>1, SustainsSame
  <1> QED  BY <1>3, <1>4, <1>5, <1>6 DEF Parts

LEMMA SustainsReading ==
    ASSUME NEW p \in Peers, Sound(p), NEW m \in Message, NEW end \in Nat, ~Parts(p, m),
           m.type = "ResendRequest" =>
              m.ref \in 1 .. Len(p.log) /\ (m.end = 0 \/ m.end >= m.ref)
    PROVE  Sustains(p, AfterReading(p, m, end))
  <1> DEFINE q == AfterReading(p, m, end)
  <1>0. p.expects \in Nat /\ p.expects \in Int
    BY DEF Peers
  <1>1. CASE Leaves(p, q, m)
    BY <1>1, SustainsSame DEF Leaves
  <1>2. CASE Answers(p, q, m)
    <2> DEFINE o == [p EXCEPT !.expects = p.expects + 1]
    <2>1. p.expects + 1 \in Nat
      BY <1>0
    <2>2. o \in Peers /\ o.log = p.log /\ o.wire = p.wire /\ o.alive = p.alive
      BY <2>1 DEF Peers
    <2>3. q = Reply(o, m) /\ p.alive
      BY <1>2 DEF Answers
    <2> HIDE DEF o
    <2>4. Sustains(p, o)
      BY <2>2, SustainsSame
    <2>5. Sustains(o, Reply(o, m))
      BY <2>2, <2>3, SustainsReply DEF Parts
    <2> QED  BY <2>3, <2>4, <2>5, SustainsTrans
  <1>3. CASE AsksAgain(p, q, m, end)
    <2> DEFINE z == Msg("ResendRequest", p.expects)
               x == [z EXCEPT !.end = end]
               o == PeerSend(p, x)
               e == IF end = 0 THEN "open" ELSE "bounded"
    <2>1. z \in Message /\ z.type = "ResendRequest" /\ ~z.dup
      BY <1>0, MsgType DEF Types, AdminTypes
    <2>2. x \in Message /\ x.type = "ResendRequest" /\ ~x.dup /\ Answerable(x)
      BY <1>0, <2>1, MsgType DEF Message, Answerable, Types, AdminTypes
    <2>3. q = [o EXCEPT !.resend = e] /\ p.alive
      BY <1>3 DEF AsksAgain
    <2> HIDE DEF x, z, e
    <2>4. o.alive = p.alive
      BY <2>2, PeerSendFields
    <2>5. Sustains(p, o)
      BY <2>2, <2>3, <2>4, SustainsSend
    <2>6. o \in Peers
      BY <2>2, PeerSendFacts DEF Continues
    <2> HIDE DEF o
    <2>7. Sustains(o, [o EXCEPT !.resend = e])
      BY <2>6, SustainsFields
    <2> QED  BY <2>3, <2>5, <2>7, SustainsTrans
  <1>4. CASE SkipsGap(p, q, m)
    <2>1. Sustains(p, [p EXCEPT !.expects = m.ref, !.resend = "none"])
      BY SustainsFields
    <2> QED  BY <1>4, <2>1 DEF SkipsGap
  <1>5. CASE SendsAgain(p, q, m)
    BY <1>5, SustainsReply DEF SendsAgain
  <1> QED  BY <1>1, <1>2, <1>3, <1>4, <1>5, ReadingCases

-----------------------------------------------------------------------------
(* What the session sends and counts.                                      *)

\* To a wire v a session that stays logged on has added messages: wire w.
Grows(v, w) ==
    \A k \in DOMAIN w :
       (k \in DOMAIN v /\ w[k] = v[k]) \/ w[k].type \notin {"Logon", "Logout"}

LEMMA GrowsTrans ==
    ASSUME NEW u, NEW v, NEW w, Grows(u, v), Grows(v, w)
    PROVE  Grows(u, w)
  BY DEF Grows

LEMMA GrowsSame == \A w : Grows(w, w)
  BY DEF Grows

LEMMA GrowsAppend ==
    ASSUME NEW w \in Seq(Message), NEW x \in Message, x.type \notin {"Logon", "Logout"}
    PROVE  Grows(w, Append(w, x))
  <1>1. \A k \in DOMAIN Append(w, x) : \/ k \in DOMAIN w /\ Append(w, x)[k] = w[k]
                                       \/ Append(w, x)[k] = x
    BY AppendFacts
  <1> QED  BY <1>1 DEF Grows

\* A session sends one of the other messages.
LEMMA SendKeeps ==
    ASSUME NEW s \in Sessions, NEW x \in Message, x.type \notin {"Logon", "Logout"}
    PROVE  /\ Send(s, x) \in Sessions /\ Send(s, x).inSeq = s.inSeq
           /\ Send(s, x).grace = s.grace /\ Grows(s.wire, Send(s, x).wire)
  <1> DEFINE y == [x EXCEPT !.seq = s.outSeq]
  <1>1. s.wire \in Seq(Message)
    BY DEF Sessions
  <1>2. y.type = x.type
    BY DEF Message
  <1> HIDE DEF y
  <1>3. /\ Send(s, x) \in Sessions /\ Send(s, x).inSeq = s.inSeq
        /\ Send(s, x).grace = s.grace /\ Send(s, x).wire = Append(s.wire, y) /\ y \in Message
    BY SendFacts DEF y
  <1>4. Grows(s.wire, Append(s.wire, y))
    BY <1>1, <1>2, <1>3, GrowsAppend
  <1> QED  BY <1>3, <1>4

LEMMA PolledKeeps ==
    ASSUME session \in Sessions, clock \in Nat, NEW n \in Nat, Requests(session.wire, n)
    PROVE  Grows(session.wire, Polled.wire)
  <1> DEFINE p == IF Asks(session) THEN TestRequest(session) ELSE session
             x == Msg("Heartbeat", NONE)
             s == IF KeepAliveDue THEN KeptAlive(session) ELSE session
  <1>1. p \in Sessions /\ Grows(session.wire, p.wire)
    <2>1. CASE Asks(session)
      <3> DEFINE t == TestRequest(session)
      <3>1. /\ t \in Sessions
            /\ \E y \in Message : t.wire = Append(session.wire, y) /\ y.type = "TestRequest"
        BY TestRequestFacts
      <3> HIDE DEF t
      <3>2. PICK y \in Message : t.wire = Append(session.wire, y) /\ y.type = "TestRequest"
        BY <3>1
      <3>3. session.wire \in Seq(Message)
        BY DEF Sessions
      <3>4. Grows(session.wire, t.wire)
        BY <3>2, <3>3, GrowsAppend
      <3> QED  BY <2>1, <3>1, <3>4 DEF t
    <2>2. CASE ~Asks(session)
      BY <2>2, GrowsSame
    <2> QED  BY <2>1, <2>2
  <1>2. x \in Message /\ x.type = "Heartbeat"
    BY NoneType, MsgType DEF Types, AdminTypes
  <1>3. KeptAlive(session) = IF Beats(p) THEN Send(p, x) ELSE p
    BY DEF KeptAlive
  <1> HIDE DEF p, x
  <1>4. Send(p, x) \in Sessions /\ Grows(p.wire, Send(p, x).wire)
    BY <1>1, <1>2, SendKeeps
  <1>5. KeptAlive(session) \in Sessions /\ Grows(session.wire, KeptAlive(session).wire)
    BY <1>1, <1>3, <1>4, GrowsTrans
  <1>6. s \in Sessions /\ Grows(session.wire, s.wire)
    BY <1>5, GrowsSame
  <1>7. Polled = [s EXCEPT !.now = clock]
    BY DEF Polled
  <1> HIDE DEF s
  <1>8. Polled.wire = s.wire
    BY <1>6, <1>7 DEF Sessions
  <1> QED  BY <1>6, <1>8

\* A message that may come to a session that has counted n: a new one is none of them.
Timely(m, n) ==
    /\ m.type # "Reject"
    /\ IF m.dup THEN m.type \in {"App", "GapFill", "Garbled"} ELSE n < m.seq /\ m.type # "GapFill"
    /\ m.type \in {"GapFill", "Reset"} => m.ref > m.seq

\* What session s, that had counted n messages, has become once it handled message m.
Counts(s, t, m, n) ==
    /\ t.grace = s.grace /\ Grows(s.wire, t.wire)
    /\ t.inSeq \in Nat /\ Moves(m, n, t.inSeq)

LEMMA InSeqSet ==
    ASSUME NEW s \in Sessions, NEW n \in Nat
    PROVE  LET t == [s EXCEPT !.inSeq = n]
           IN  t.inSeq = n /\ t.grace = s.grace /\ t.wire = s.wire
  BY DEF Sessions

LEMMA AsksKeeps ==
    ASSUME NEW s \in Sessions, NEW end \in Nat
    PROVE  LET t == ResendRequest(s, s.inSeq, end)
           IN  /\ t \in Sessions /\ t.inSeq = s.inSeq /\ t.grace = s.grace
               /\ Grows(s.wire, t.wire)
  <1> DEFINE q == Msg("ResendRequest", s.inSeq)
             x == [q EXCEPT !.end = end]
  <1>1. q \in Message /\ q.type = "ResendRequest"
    <2>1. s.inSeq \in Int
      BY DEF Sessions
    <2> QED  BY <2>1, MsgType DEF Types, AdminTypes
  <1>2. x \in Message /\ x.type = "ResendRequest"
    BY <1>1 DEF Message
  <1> HIDE DEF x
  <1>3. /\ Send(s, x) \in Sessions /\ Send(s, x).inSeq = s.inSeq
        /\ Send(s, x).grace = s.grace /\ Grows(s.wire, Send(s, x).wire)
    BY <1>2, SendKeeps
  <1> QED  BY <1>3 DEF ResendRequest, x

LEMMA AsksCounts ==
    ASSUME NEW s \in Sessions, NEW m, NEW n \in Nat, NEW end \in Nat
    PROVE  Counts(s, [ResendRequest(s, s.inSeq, end) EXCEPT !.inSeq = n], m, n)
  <1> DEFINE t == ResendRequest(s, s.inSeq, end)
  <1>1. t \in Sessions /\ t.grace = s.grace /\ Grows(s.wire, t.wire)
    BY AsksKeeps
  <1> HIDE DEF t
  <1>2. /\ [t EXCEPT !.inSeq = n].inSeq = n /\ [t EXCEPT !.inSeq = n].grace = t.grace
        /\ [t EXCEPT !.inSeq = n].wire = t.wire
    BY <1>1, InSeqSet
  <1> QED  BY <1>1, <1>2 DEF Counts, Moves, t

LEMMA SetCounts ==
    ASSUME NEW s \in Sessions, NEW m, NEW n, NEW l \in Nat, Moves(m, n, l)
    PROVE  Counts(s, [s EXCEPT !.inSeq = l], m, n)
  BY InSeqSet, GrowsSame DEF Counts

LEMMA UnexpectedCounts ==
    ASSUME NEW s \in Sessions, NEW m \in Message, NEW n \in Nat,
           s.inSeq = n + 1, Timely(m, n), ~Expected(s, m)
    PROVE  Counts(s, Unexpected(s, m), m, n)
  <1>1. m.seq \in Nat /\ m.seq # n + 1 /\ s.inSeq - 1 = n
    BY DEF Message, Expected
  <1>2. CASE m.seq > s.inSeq
    <2> DEFINE t == ResendRequest(s, s.inSeq, 0)
    <2>1. t.inSeq = s.inSeq
      BY AsksKeeps
    <2>2. Unexpected(s, m) = [t EXCEPT !.inSeq = n]
      BY <1>1, <1>2, <2>1 DEF Unexpected
    <2> QED  BY <2>2, AsksCounts
  <1>3. CASE ~(m.seq > s.inSeq)
    <2>1. m.dup
      BY <1>1, <1>3 DEF Timely
    <2>2. Unexpected(s, m) = [s EXCEPT !.inSeq = n]
      BY <1>1, <1>3, <2>1 DEF Unexpected, TooLow
    <2> QED  BY <2>2, SetCounts DEF Moves
  <1> QED  BY <1>2, <1>3

LEMMA AdminCounts ==
    ASSUME NEW s \in Sessions, NEW m \in Message, NEW n \in Nat,
           s.inSeq = n + 1, Timely(m, n), m.type \in AdminTypes, clock \in Nat
    PROVE  Counts(s, Admin(s, m), m, n)
  <1>1. /\ m.seq \in Nat /\ m.ref \in Int /\ m.dup \in BOOLEAN /\ s.inSeq - 1 = n
        /\ s.wire \in Seq(Message) /\ n + 1 \in Nat
    BY DEF Message, Sessions
  <1>2. CASE ~Expected(s, m)
    BY <1>2, UnexpectedCounts DEF Admin
  <1>3. CASE Expected(s, m) /\ m.type \in {"Heartbeat", "TestRequest", "ResendRequest"}
    <2>1. m.seq = n + 1
      BY <1>3 DEF Expected
    <2>2. Moves(m, n, n + 1)
      BY <1>3, <2>1 DEF Moves
    <2>3. /\ Admin(s, m).inSeq = n + 1 /\ Admin(s, m).grace = s.grace
          /\ Grows(s.wire, Admin(s, m).wire)
      <3>1. CASE m.type = "Heartbeat"
        <4>1. Admin(s, m) = OnHeartbeat(s, m)
          BY <1>3, <3>1 DEF Admin
        <4>2. /\ [s EXCEPT !.trPending = FALSE].inSeq = s.inSeq
              /\ [s EXCEPT !.trPending = FALSE].grace = s.grace
              /\ [s EXCEPT !.trPending = FALSE].wire = s.wire
          BY DEF Sessions
        <4> QED  BY <4>1, <4>2, GrowsSame DEF OnHeartbeat
      <3>2. CASE m.type = "TestRequest"
        <4> DEFINE x == Msg("Heartbeat", m.ref)
        <4>1. Admin(s, m) = Send(s, x)
          BY <1>3, <3>2 DEF Admin
        <4>2. x \in Message /\ x.type = "Heartbeat"
          BY <1>1, MsgType DEF Types, AdminTypes
        <4> HIDE DEF x
        <4>3. /\ Send(s, x).inSeq = s.inSeq /\ Send(s, x).grace = s.grace
              /\ Grows(s.wire, Send(s, x).wire)
          BY <4>2, SendKeeps
        <4> QED  BY <4>1, <4>3
      <3>3. CASE m.type = "ResendRequest"
        <4> DEFINE q == Msg("GapFill", m.end + 1)
                   x == [q EXCEPT !.seq = m.ref]
                   w == Append(s.wire, x)
        <4>1. Admin(s, m) = [s EXCEPT !.wire = w, !.tx = s.now]
          BY <1>3, <3>3 DEF Admin, OnResendRequest, SendAs
        <4>2. x.type = "GapFill"
          BY DEF Msg
        <4> HIDE DEF x
        <4>3. \A k \in DOMAIN w : (k \in DOMAIN s.wire /\ w[k] = s.wire[k]) \/ w[k] = x
          BY <1>1
        <4>4. Grows(s.wire, w)
          BY <4>2, <4>3 DEF Grows
        <4> HIDE DEF w
        <4>5. /\ Admin(s, m).wire = w /\ Admin(s, m).inSeq = s.inSeq
              /\ Admin(s, m).grace = s.grace
          BY <4>1 DEF Sessions
        <4> QED  BY <4>4, <4>5
      <3> QED  BY <1>3, <3>1, <3>2, <3>3
    <2> QED  BY <1>1, <2>2, <2>3 DEF Counts
  <1>4. CASE m.type = "GapFill"
    <2>1. m.dup /\ m.ref > m.seq
      BY <1>1, <1>4 DEF Timely
    <2>2. Admin(s, m) = OnGapFill(s, m)
      BY <1>4 DEF Admin, Expected
    <2>3. CASE m.seq > s.inSeq
      <3> DEFINE t == ResendRequest(s, s.inSeq, m.seq)
      <3>1. t.inSeq = s.inSeq
        BY <1>1, AsksKeeps
      <3>2. Admin(s, m) = [t EXCEPT !.inSeq = n]
        BY <1>1, <2>2, <2>3, <3>1 DEF OnGapFill
      <3> QED  BY <1>1, <3>2, AsksCounts
    <2>4. CASE m.seq < s.inSeq
      <3>1. Admin(s, m) = [s EXCEPT !.inSeq = n]
        BY <1>1, <2>1, <2>2, <2>4 DEF OnGapFill, TooLow
      <3> QED  BY <3>1, SetCounts DEF Moves
    <2>5. CASE m.seq = s.inSeq
      <3>1. Admin(s, m) = [s EXCEPT !.inSeq = m.ref - 1] /\ m.ref - 1 \in Nat
        BY <1>1, <2>1, <2>2, <2>5 DEF OnGapFill
      <3>2. Moves(m, n, m.ref - 1)
        BY <1>4, <2>5 DEF Moves
      <3> QED  BY <3>1, <3>2, SetCounts
    <2> QED  BY <1>1, <2>3, <2>4, <2>5
  <1>5. CASE m.type = "Reset"
    <2>1. m.ref > m.seq /\ m.seq > n
      BY <1>1, <1>5 DEF Timely
    <2>2. Admin(s, m) = OnReset(s, m)
      BY <1>5 DEF Admin, Expected
    <2>3. Admin(s, m) = [s EXCEPT !.inSeq = m.ref - 1] /\ m.ref - 1 \in Nat
      BY <1>1, <2>1, <2>2 DEF OnReset
    <2>4. Moves(m, n, m.ref - 1)
      BY <1>5 DEF Moves
    <2> QED  BY <2>3, <2>4, SetCounts
  <1> QED  BY <1>2, <1>3, <1>4, <1>5 DEF AdminTypes

-----------------------------------------------------------------------------
(* The steps.                                                              *)

Phases == {"new", "logon", "poll", "handler"}

\* The session reads a message.
LEMMA ReadsTracking ==
    ASSUME TypeInv, Tracking, Reads, pc \in Phases,
           (Timely(Incoming, session.inSeq) /\ pc' \in Phases)
              => Counts(session, session', Incoming, session.inSeq)
    PROVE  Tracking'
  <1> DEFINE m == Incoming
             n == session.inSeq
             e == <<m.type, m.seq>>
  <1>1. /\ n \in Nat /\ peer \in Peers /\ peer.wire \in Seq(Message) /\ peer.wire # << >>
        /\ read \in Seq(Types \X Nat) /\ m = Head(peer.wire)
    BY OrderTypes DEF Reads, TypeInv, TypeOK, Incoming
  <1>2. Taken(peer, peer') /\ peer'.log = peer.log
    BY <1>1 DEF Reads, Peers, Taken
  <1>3. read' = Append(read, e)
    BY DEF Reads
  <1>4. /\ \A k \in DOMAIN read : k \in DOMAIN read' /\ read'[k] = read[k]
        /\ Len(read) + 1 \in DOMAIN read' /\ read'[Len(read) + 1] = e
        /\ \A k \in DOMAIN read : k < Len(read) + 1
    BY <1>1, <1>3
  <1>5. AppCounted => AppCounted'
    BY <1>4 DEF AppCounted
  <1>6. SUFFICES ASSUME ~AppCounted', pc' \in Phases
                 PROVE  /\ session'.grace = << >> /\ Civil'
                        /\ \E B \in SUBSET (DOMAIN peer'.log) :
                              Tally(peer', B, session'.inSeq, read') /\ Trails(peer', B)
    BY DEF Tracking, Phases
  <1>7. /\ session.grace = << >> /\ Civil
        /\ \E A \in SUBSET (DOMAIN peer.log) : Tally(peer, A, n, read) /\ Trails(peer, A)
    BY <1>5, <1>6 DEF Tracking, Phases
  <1>8. PICK A \in SUBSET (DOMAIN peer.log) : Tally(peer, A, n, read) /\ Trails(peer, A)
    BY <1>7
  <1>9. /\ m \in Message /\ Sane(m, peer.log) /\ m.seq \in Nat
        /\ ~m.dup => n < m.seq
    BY <1>1, <1>2, <1>8, TallyCounts
  <1>10. Timely(m, n)
    BY <1>9 DEF Timely, Sane
  <1>11. ~(m.type = "App" /\ Known(read, m.seq))
    <2> SUFFICES ASSUME m.type = "App", NEW k \in DOMAIN read,
                        read[k] = <<"App", m.seq>> \/ (read[k][1] = "Reset" /\ m.seq <= read[k][2])
                 PROVE  FALSE
      BY DEF Known
    <2>1. e = <<"App", m.seq>> /\ e[1] = "App" /\ e[2] = m.seq
      OBVIOUS
    <2>2. AppCounted'
      BY <1>4, <2>1 DEF AppCounted
    <2> QED  BY <1>6, <2>2
  <1>12. Counts(session, session', m, n)
    BY <1>6, <1>10
  <1> HIDE DEF n, e
  <1>13. session'.grace = << >>
    BY <1>7, <1>12 DEF Counts
  <1>14. Civil'
    BY <1>2, <1>7, <1>12 DEF Counts, Civil, Grows
  <1>15. session'.inSeq \in Nat /\ Moves(m, n, session'.inSeq)
    BY <1>12 DEF Counts
  <1>16. PICK l \in Nat : l = session'.inSeq
    BY <1>15
  <1>17. PICK q : q = peer'
    OBVIOUS
  <1>18. \E B \in SUBSET (DOMAIN q.log) : Tally(q, B, l, Append(read, e)) /\ Trails(q, B)
    BY <1>1, <1>2, <1>8, <1>11, <1>15, <1>16, <1>17, TallyTaken DEF e
  <1> QED  BY <1>3, <1>13, <1>14, <1>16, <1>17, <1>18

LEMMA LogonMessageTracking ==
    ASSUME TypeInv, Tracking, LogonMessage PROVE Tracking'
  <1> DEFINE s == Parsed(session)
             m == Incoming
             n == session.inSeq
  <1>1. session \in Sessions /\ n \in Nat /\ pc = "logon" /\ Reads
    BY OrderTypes DEF LogonMessage
  <1>2. s \in Sessions /\ s.inSeq = n + 1 /\ s.grace = session.grace /\ s.wire = session.wire
    BY <1>1, ParsedFacts
  <1>3. m \in Message
    BY <1>1, ReadsFacts
  <1>4. ASSUME Timely(m, n), pc' \in Phases
        PROVE  Counts(session, session', m, n)
    <2>1. CASE m.type = "Garbled"
      BY <1>1, <2>1, GrowsSame DEF LogonMessage, Counts, Moves
    <2>2. CASE m.type # "Garbled" /\ ~Expected(s, m)
      <3>1. session' = Unexpected(s, m)
        BY <2>2 DEF LogonMessage
      <3>2. Counts(s, Unexpected(s, m), m, n)
        BY <1>1, <1>2, <1>3, <1>4, <2>2, UnexpectedCounts
      <3> QED  BY <1>2, <3>1, <3>2 DEF Counts
    <2>3. CASE m.type = "Logon" /\ Expected(s, m)
      <3>1. session' = s
        BY <2>3 DEF LogonMessage
      <3>2. Moves(m, n, n + 1)
        BY <2>3 DEF Moves
      <3> QED  BY <1>1, <1>2, <3>1, <3>2, GrowsSame DEF Counts
    <2>4. CASE m.type \notin {"Garbled", "Logon"} /\ Expected(s, m)
      BY <1>4, <2>4 DEF LogonMessage, Phases
    <2> QED  BY <2>1, <2>2, <2>3, <2>4
  <1> HIDE DEF s, m, n
  <1>5. pc \in Phases
    BY <1>1 DEF Phases
  <1> QED  BY <1>1, <1>4, <1>5, ReadsTracking DEF m, n

LEMMA PollMessageTracking ==
    ASSUME TypeInv, Tracking, PollMessage PROVE Tracking'
  <1> DEFINE o == Polled
             s == Parsed(o)
             m == Incoming
             n == session.inSeq
  <1>1. /\ session \in Sessions /\ n \in Nat /\ pc = "poll" /\ Reads /\ clock \in Nat
        /\ Len(peer.log) \in Nat /\ Requests(session.wire, Len(peer.log))
    BY OrderTypes DEF PollMessage, PollBegins, Polls
  <1>2. /\ o \in Sessions /\ o.inSeq = n /\ o.grace = session.grace
        /\ Grows(session.wire, o.wire)
    BY <1>1, PolledFacts, PolledKeeps
  <1>3. /\ s \in Sessions /\ s.inSeq = n + 1 /\ s.grace = session.grace
        /\ Grows(session.wire, s.wire)
    BY <1>2, ParsedFacts
  <1>4. m \in Message
    BY <1>1, ReadsFacts
  <1>5. ASSUME Timely(m, n)
        PROVE  Counts(session, session', m, n)
    <2>1. CASE m.type = "Garbled"
      <3>1. session' = o
        BY <2>1, PollMessageFacts
      <3> QED  BY <1>1, <1>2, <3>1 DEF Counts, Moves
    <2>2. CASE m.type # "Garbled" /\ m.type \in AdminTypes
      <3>1. session' = Admin(s, m)
        <4>1. "App" \notin AdminTypes
          BY DEF AdminTypes
        <4> QED  BY <2>2, <4>1 DEF PollMessage
      <3>2. Counts(s, Admin(s, m), m, n)
        BY <1>1, <1>3, <1>4, <1>5, <2>2, AdminCounts
      <3>3. Grows(session.wire, Admin(s, m).wire)
        BY <1>3, <3>2, GrowsTrans DEF Counts
      <3> QED  BY <1>3, <3>1, <3>2, <3>3 DEF Counts
    <2>3. CASE m.type # "Garbled" /\ m.type \notin AdminTypes
      <3>1. session' = s
        BY <2>3 DEF PollMessage
      <3>2. Moves(m, n, n + 1)
        BY <1>4, <1>5, <2>3 DEF Moves, Timely, Message, Types, AdminTypes
      <3> QED  BY <1>1, <1>3, <3>1, <3>2 DEF Counts
    <2> QED  BY <2>1, <2>2, <2>3
  <1> HIDE DEF o, s, m, n
  <1>6. pc \in Phases
    BY <1>1 DEF Phases
  <1> QED  BY <1>1, <1>5, <1>6, ReadsTracking DEF m, n

\* The peer takes a step, and the session has read and counted what it had.
LEMMA TrackingPeer ==
    ASSUME TypeInv, Tracking, pc' = pc, read' = read,
           session'.grace = session.grace, session'.inSeq = session.inSeq,
           (Civil /\ pc \in Phases) => Sustains(peer, peer') /\ Civil'
    PROVE  Tracking'
  <1>1. AppCounted' <=> AppCounted
    BY DEF AppCounted
  <1>2. SUFFICES ASSUME ~AppCounted, pc \in Phases
                 PROVE  /\ session'.grace = << >> /\ Civil'
                        /\ \E B \in SUBSET (DOMAIN peer'.log) :
                              Tally(peer', B, session'.inSeq, read') /\ Trails(peer', B)
    BY <1>1 DEF Tracking, Phases
  <1>3. /\ session.grace = << >> /\ Civil
        /\ \E A \in SUBSET (DOMAIN peer.log) :
              Tally(peer, A, session.inSeq, read) /\ Trails(peer, A)
    BY <1>2 DEF Tracking, Phases
  <1>4. Sustains(peer, peer') /\ Civil'
    BY <1>2, <1>3
  <1>5. PICK A \in SUBSET (DOMAIN peer.log) :
           Tally(peer, A, session.inSeq, read) /\ Trails(peer, A)
    BY <1>3
  <1>6. PICK q : q = peer'
    OBVIOUS
  <1>7. A \in SUBSET (DOMAIN q.log) /\ Tally(q, A, session.inSeq, read) /\ Trails(q, A)
    BY <1>4, <1>5, <1>6, SustainsTally
  <1> QED  BY <1>3, <1>4, <1>6, <1>7

LEMMA PeerReadsTracking ==
    ASSUME TypeInv, Tracking, PeerReads PROVE Tracking'
  <1> DEFINE m == Head(session.wire)
             w == Tail(session.wire)
  <1>1. /\ session.wire \in Seq(Message) /\ session.wire # << >> /\ session \in Sessions
        /\ peer \in Peers /\ Sound(peer) /\ Requests(session.wire, Len(peer.log))
    BY OrderTypes DEF TypeInv, PeerReads
  <1>2. m \in Message /\ m = session.wire[1] /\ 1 \in DOMAIN session.wire
    BY <1>1
  <1>3. /\ m.type = "ResendRequest" =>
              m.ref \in 1 .. Len(peer.log) /\ (m.end = 0 \/ m.end >= m.ref)
        /\ m.seq \in Nat
    BY <1>1, <1>2 DEF Requests, Message
  <1>4. PICK end \in Nat : peer' = AfterReading(peer, m, end)
    BY <1>3 DEF PeerReads
  <1>5. pc' = pc /\ read' = read
    BY DEF PeerReads
  <1>6. session'.inSeq = session.inSeq /\ session'.grace = session.grace
    BY PeerReadsFacts
  <1>7. session' = [session EXCEPT !.wire = w]
    BY DEF PeerReads
  <1>8. \A k \in DOMAIN w : k + 1 \in DOMAIN session.wire /\ w[k] = session.wire[k + 1] /\ k + 1 # 1
    BY <1>1, TailFacts
  <1> HIDE DEF m, w
  <1>9. session'.wire = w
    BY <1>1, <1>7 DEF Sessions
  <1>10. ASSUME Civil PROVE Sustains(peer, peer') /\ Civil'
    <2>1. ~Parts(peer, m)
      BY <1>2, <1>10 DEF Civil, Parts
    <2>2. Civil'
      BY <1>8, <1>9, <1>10 DEF Civil
    <2> QED  BY <1>1, <1>2, <1>3, <1>4, <2>1, <2>2, SustainsReading
  <1> QED  BY <1>5, <1>6, <1>10, TrackingPeer

LEMMA PeerTalksTracking ==
    ASSUME TypeInv, Tracking, NEW type \in PeerTypes \cup {"App"}, PeerTalks(type)
    PROVE  Tracking'
  <1>1. /\ peer \in Peers /\ clock \in Int /\ peer.alive /\ peer.log # << >>
        /\ session' = session /\ pc' = pc /\ read' = read
    BY OrderTypes DEF PeerTalks
  <1>2. Civil => Civil'
    BY <1>1 DEF Civil
  <1>3. ASSUME NEW t \in {"Heartbeat", "TestRequest", "Logout", "App"}, NEW ref \in Int
        PROVE  LET x == Msg(t, ref)
               IN  x \in Message /\ x.type = t /\ ~x.dup /\ Answerable(x)
    BY MsgType DEF Types, AdminTypes, Answerable
  <1>4. type \in {"Heartbeat", "TestRequest", "Reset", "Logout", "App"}
    BY SessionAssumption
  <1>5. CASE type = "Reset"
    <2>1. Sustains(peer, peer')
      BY <1>1, <1>5, SustainsReset DEF TypeInv, PeerTalks
    <2> QED  BY <1>1, <1>2, <2>1, TrackingPeer
  <1>6. CASE type = "Logout"
    <2> DEFINE x == Msg("Logout", NONE)
               q == PeerSend(peer, x)
    <2>1. x \in Message /\ x.type = "Logout" /\ ~x.dup /\ Answerable(x)
      BY <1>3, NoneType
    <2>2. peer' = [q EXCEPT !.alive = FALSE]
      BY <1>6 DEF PeerTalks
    <2> HIDE DEF x
    <2>3. q \in Peers
      BY <1>1, <2>1, PeerSendFacts DEF TypeInv, Continues
    <2>4. \A o : o.wire = q.wire /\ o.log = q.log /\ o.alive = FALSE => Sustains(peer, o)
      BY <1>1, <2>1, SustainsSend
    <2> HIDE DEF q
    <2>5. peer'.wire = q.wire /\ peer'.log = q.log /\ peer'.alive = FALSE
      BY <2>2, <2>3 DEF Peers
    <2>6. Sustains(peer, peer')
      BY <2>4, <2>5
    <2> QED  BY <1>1, <1>2, <2>6, TrackingPeer
  <1>7. CASE type \in {"TestRequest", "Heartbeat", "App"}
    <2>1. PICK ref \in Int : peer' = PeerSend(peer, Msg(type, ref))
      BY <1>1, <1>7, NoneType DEF PeerTalks
    <2> DEFINE x == Msg(type, ref)
    <2>2. x \in Message /\ x.type = type /\ ~x.dup
      BY <1>3, <1>7
    <2> HIDE DEF x
    <2>3. PeerSend(peer, x).alive = peer.alive
      BY <1>1, <2>2, PeerSendFields
    <2>4. Sustains(peer, PeerSend(peer, x))
      BY <1>1, <1>7, <2>2, <2>3, SustainsSend
    <2> QED  BY <1>1, <1>2, <2>1, <2>4, TrackingPeer DEF x
  <1> QED  BY <1>4, <1>5, <1>6, <1>7

LEMMA GarbleTracking ==
    ASSUME TypeInv, Tracking, Garble PROVE Tracking'
  <1>1. peer \in Peers /\ session' = session /\ pc' = pc /\ read' = read
    BY OrderTypes DEF Garble
  <1>2. PICK k \in DOMAIN peer.wire : peer' = [peer EXCEPT !.wire[k].type = "Garbled"]
    BY DEF Garble
  <1> DEFINE w == [peer.wire EXCEPT ![k].type = "Garbled"]
  <1>3. peer' = [peer EXCEPT !.wire = w]
    BY <1>1, <1>2 DEF Peers
  <1>4. \A q : q.wire = w /\ q.log = peer.log /\ q.alive = peer.alive => Sustains(peer, q)
    BY <1>1, SustainsGarbled
  <1> HIDE DEF w
  <1>5. peer'.wire = w /\ peer'.log = peer.log /\ peer'.alive = peer.alive
    BY <1>1, <1>3 DEF Peers
  <1>6. Sustains(peer, peer') /\ (Civil => Civil')
    BY <1>1, <1>4, <1>5 DEF Civil
  <1> QED  BY <1>1, <1>6, TrackingPeer

LEMMA PeerDiesTracking ==
    ASSUME TypeInv, Tracking, PeerDies PROVE Tracking'
  <1>1. /\ peer \in Peers /\ peer' = [peer EXCEPT !.alive = FALSE]
        /\ session' = session /\ pc' = pc /\ read' = read
    BY OrderTypes DEF PeerDies
  <1>2. peer'.log = peer.log
    BY <1>1 DEF Peers
  <1>3. Sustains(peer, peer') /\ (Civil => Civil')
    BY <1>1, <1>2, SustainsFields DEF Civil
  <1> QED  BY <1>1, <1>3, TrackingPeer

\* The session reads nothing: it counts what it had, and may have sent messages.
LEMMA TrackingKept ==
    ASSUME TypeInv, Tracking, peer' = peer, read' = read, pc \in Phases,
           session'.grace = session.grace, session'.inSeq = session.inSeq,
           Grows(session.wire, session'.wire)
    PROVE  Tracking'
  <1>1. AppCounted' <=> AppCounted
    BY DEF AppCounted
  <1>2. Civil => Civil'
    BY DEF Civil, Grows
  <1> QED  BY <1>1, <1>2 DEF Tracking, Phases

LEMMA NothingCounted ==
    ASSUME NEW p, p.wire = << >>, p.log = << >>, NEW r
    PROVE  \E A \in SUBSET (DOMAIN p.log) : Tally(p, A, 0, r) /\ Trails(p, A)
  <1>1. {} \in SUBSET (DOMAIN p.log)
    OBVIOUS
  <1>2. Tally(p, {}, 0, r)
    BY FS_EmptySet DEF Tally
  <1>3. Trails(p, {})
    BY DEF Trails
  <1> QED  BY <1>1, <1>2, <1>3

LEMMA InitiateTracking ==
    ASSUME TypeInv, OrderInv, Initiate PROVE Tracking'
  <1> DEFINE s == NewSession
             x == Msg("Logon", NONE)
             t == Send(s, x)
             y == [x EXCEPT !.seq = s.outSeq]
  <1>1. s \in Sessions /\ s.grace = << >> /\ s.inSeq = 0 /\ s.wire = << >>
    BY OrderTypes, NewSessionFacts DEF NewSession
  <1>2. x \in Message /\ x.type = "Logon"
    BY NoneType, MsgType DEF Types
  <1>3. session' = [t EXCEPT !.active = TRUE]
    BY DEF Initiate
  <1>4. y.type = "Logon"
    BY <1>2 DEF Message
  <1> HIDE DEF s, x
  <1>5. /\ t \in Sessions /\ t.grace = << >> /\ t.inSeq = 0
        /\ t.wire = Append(s.wire, y)
    BY <1>1, <1>2, SendFacts
  <1> HIDE DEF t, y
  <1>6. session'.grace = << >> /\ session'.inSeq = 0 /\ session'.wire = <<y>>
    BY <1>1, <1>3, <1>5 DEF Sessions
  <1>7. peer'.wire = << >> /\ peer'.log = << >>
    BY DEF OrderInv, Bounded, Untouched, Initiate
  <1>8. Civil'
    BY <1>4, <1>6, <1>7 DEF Civil
  <1>9. PICK q : q = peer'
    OBVIOUS
  <1>10. \E A \in SUBSET (DOMAIN q.log) : Tally(q, A, 0, read) /\ Trails(q, A)
    BY <1>7, <1>9, NothingCounted
  <1>11. read' = read
    BY DEF Initiate
  <1> QED  BY <1>6, <1>8, <1>9, <1>10, <1>11 DEF Tracking

\* A session that waits for a logout has counted an application message again.
LEMMA GraceTracking ==
    ASSUME TypeInv, Tracking, GraceOver \/ GraceMessage PROVE Tracking'
  <1>1. session.grace # << >> /\ pc' = pc
    BY DEF GraceOver, GraceMessage, InGrace
  <1>2. AppCounted => AppCounted'
    <2>1. CASE GraceOver
      BY <2>1 DEF GraceOver, AppCounted
    <2>2. CASE GraceMessage
      <3>1. read \in Seq(Types \X Nat) /\ read' = Append(read, <<Incoming.type, Incoming.seq>>)
        BY <2>2 DEF TypeInv, TypeOK, GraceMessage, Reads
      <3>2. \A k \in DOMAIN read : k \in DOMAIN read' /\ read'[k] = read[k]
        BY <3>1
      <3> QED  BY <3>2 DEF AppCounted
    <2> QED  BY <2>1, <2>2
  <1> QED  BY <1>1, <1>2 DEF Tracking

LEMMA SendAppTracking ==
    ASSUME TypeInv, Tracking, SendApp PROVE Tracking'
  <1> DEFINE x == Msg("App", NONE)
             t == Send(session, x)
  <1>1. session \in Sessions
    BY OrderTypes
  <1>2. x \in Message /\ x.type = "App"
    BY NoneType, MsgType DEF Types
  <1>3. session' = t /\ peer' = peer /\ read' = read /\ pc = "poll"
    BY DEF SendApp, Polls
  <1> HIDE DEF x
  <1>4. /\ t \in Sessions /\ t.inSeq = session.inSeq /\ t.grace = session.grace
        /\ Grows(session.wire, t.wire)
    BY <1>1, <1>2, SendKeeps
  <1> HIDE DEF t
  <1> QED  BY <1>3, <1>4, TrackingKept DEF Phases

\* A send that failed leaves a Logon where it was, or takes it away.
LEMMA SendFailsTracking ==
    ASSUME TypeInv, Tracking, SendFails PROVE Tracking'
  <1>1. /\ peer' = peer /\ read' = read /\ pc' = pc
        /\ session'.grace = session.grace /\ session'.inSeq = session.inSeq
    BY SendFailsFacts DEF SendFails
  <1>2. PICK k \in DOMAIN session.wire : Thinned(session.wire, k, session'.wire)
    BY SendFailsFacts
  <1>3. session.wire \in Seq(Message)
    BY OrderTypes DEF Sessions
  <1>4. AppCounted' <=> AppCounted
    BY <1>1 DEF AppCounted
  <1>5. ASSUME Civil PROVE Civil'
    <2> SUFFICES ASSUME NEW j \in DOMAIN session'.wire
                 PROVE  /\ session'.wire[j].type # "Logout"
                        /\ session'.wire[j].type = "Logon" => j = 1 /\ peer'.log = << >>
      BY DEF Civil
    <2>1. CASE j < k
      BY <1>1, <1>2, <1>5, <2>1 DEF Thinned, Civil
    <2>2. CASE ~(j < k)
      <3>1. j \in Nat /\ j >= 1 /\ j + 1 \in DOMAIN session.wire
            /\ session'.wire[j] = session.wire[j + 1]
        BY <1>2, <2>2 DEF Thinned
      <3>2. j + 1 # 1
        BY <3>1
      <3> QED  BY <1>5, <3>1, <3>2 DEF Civil
    <2> QED  BY <2>1, <2>2
  <1> QED  BY <1>1, <1>4, <1>5 DEF Tracking

LEMMA TrackingInit ==
    ASSUME Init PROVE Tracking
  <1>1. session = NewSession /\ peer.wire = << >> /\ peer.log = << >> /\ clock = 0
    BY DEF Init
  <1>2. session.grace = << >> /\ session.inSeq = 0 /\ session.wire = << >>
    BY <1>1, NewSessionFacts DEF NewSession
  <1>3. Civil
    BY <1>2 DEF Civil
  <1>4. \E A \in SUBSET (DOMAIN peer.log) : Tally(peer, A, 0, read) /\ Trails(peer, A)
    BY <1>1, NothingCounted
  <1> QED  BY <1>2, <1>3, <1>4 DEF Tracking

LEMMA TrackingStep ==
    ASSUME TypeInv, OrderInv, Tracking, [Next]_vars PROVE Tracking'
  <1>1. ASSUME UNCHANGED <<pc, session, peer, read>> PROVE Tracking'
    <2>1. AppCounted' <=> AppCounted
      BY <1>1 DEF AppCounted
    <2>2. Civil' <=> Civil
      BY <1>1 DEF Civil
    <2> QED  BY <1>1, <2>1, <2>2 DEF Tracking
  <1>2. ASSUME pc' \in {"failed", "closed"} PROVE Tracking'
    BY <1>2 DEF Tracking
  <1>3. CASE UNCHANGED vars
    BY <1>1, <1>3 DEF vars
  <1>4. CASE Initiate
    BY <1>4, InitiateTracking
  <1>5. CASE LogonMessage
    BY <1>5, LogonMessageTracking
  <1>6. CASE PollInactive \/ KeepAliveFails \/ Terminate
    BY <1>2, <1>6 DEF PollInactive, KeepAliveFails, Terminate
  <1>7. CASE PollNothing
    <2>1. /\ session \in Sessions /\ clock \in Nat /\ Len(peer.log) \in Nat
          /\ Requests(session.wire, Len(peer.log))
      BY OrderTypes
    <2>2. Polled.inSeq = session.inSeq /\ Polled.grace = session.grace
      BY <2>1, PolledFacts
    <2>3. Grows(session.wire, Polled.wire)
      BY <2>1, PolledKeeps
    <2>4. session' = Polled /\ peer' = peer /\ read' = read /\ pc \in Phases
      BY <1>7 DEF PollNothing, PollBegins, Polls, Phases
    <2> QED  BY <2>2, <2>3, <2>4, TrackingKept
  <1>8. CASE PollMessage
    BY <1>8, PollMessageTracking
  <1>9. CASE HandlerReturns
    BY <1>9, TrackingKept, GrowsSame DEF HandlerReturns, Phases
  <1>10. CASE SendApp
    BY <1>10, SendAppTracking
  <1>18. CASE SendFails
    BY <1>18, SendFailsTracking
  <1>11. CASE GraceOver \/ GraceMessage
    BY <1>11, GraceTracking
  <1>12. CASE PeerReads
    BY <1>12, PeerReadsTracking
  <1>13. CASE PeerDies
    BY <1>13, PeerDiesTracking
  <1>14. CASE Garble
    BY <1>14, GarbleTracking
  <1>15. ASSUME NEW type \in PeerTypes \cup {"App"}, PeerTalks(type) PROVE Tracking'
    BY <1>15, PeerTalksTracking
  <1>16. CASE Tick
    BY <1>1, <1>16 DEF Tick
  <1>17. CASE Ended
    BY <1>1, <1>17 DEF Ended, vars
  <1> QED  BY <1>3, <1>4, <1>5, <1>6, <1>7, <1>8, <1>9, <1>10, <1>11, <1>12, <1>13, <1>14,
              <1>15, <1>16, <1>17, <1>18 DEF Next

\* A session counts no message of its peer that was not sent, and takes none for one that is
\* too low, whatever was garbled, so that fix_session_admin does not log out by itself, up to
\* the first application message that it counts again.
THEOREM NoneLoggedOut == Spec => []NoFalseLogout
  <1>1. TypeInv /\ OrderInv /\ Tracking /\ [Next]_vars => Tracking'
    BY TrackingStep
  <1>2. Init => Tracking
    BY TrackingInit
  <1>3. TypeInv /\ Tracking => NoFalseLogout
    <2> SUFFICES ASSUME TypeInv, Tracking, pc = "poll", ~AppCounted
                 PROVE  session.grace = << >> /\ session.inSeq <= Len(peer.log)
      BY DEF NoFalseLogout, InGrace
    <2>1. session.grace = << >>
      BY DEF Tracking
    <2>2. PICK A \in SUBSET (DOMAIN peer.log) : Tally(peer, A, session.inSeq, read)
      BY DEF Tracking
    <2>3. Len(peer.log) \in Nat /\ peer.log \in Logs
      BY OrderTypes
    <2>4. session.inSeq <= Len(peer.log)
      BY <2>2, <2>3, TallyBound
    <2> QED  BY <2>1, <2>4
  <1> QED  BY <1>1, <1>2, <1>3, OrderInvariant, PTL DEF Spec

-----------------------------------------------------------------------------
(* How a gap closes: one message of the peer was garbled.  w is what is on *)
(* its way from the peer, log what it has sent, r what the session has     *)
(* read, n how many messages it has counted, and Q are the resend requests *)
(* on their way to the peer.                                               *)

Fresh(w) == \A k \in DOMAIN w : ~w[k].dup
Bare(log, from, to) == \A i \in from .. to : log[i] # "App"

\* The messages from a number to another are on their way for the first time, but for
\* lost ones.
Carried(w, from, to, lost) ==
    /\ from <= to + 1
    /\ \A k \in DOMAIN w : ~w[k].dup => from <= w[k].seq
    /\ \A i \in from .. to :
          \/ i \in lost
          \/ \E k \in DOMAIN w : /\ ~w[k].dup /\ w[k].type # "Garbled"
                                 /\ w[k].seq <= i /\ i < Until(w[k])

Complete(log, n, r) == \A i \in 1 .. n : log[i] = "App" => Known(r, i)

Pending(v) == {v[k] : k \in {j \in DOMAIN v : v[j].type = "ResendRequest"}}

\* What Trails says of the wire of a peer that did not log out.
Proper(w, log) ==
    \A k \in DOMAIN w :
       /\ Sane(w[k], log) /\ w[k].type # "Logout"
       /\ ~w[k].dup => \A j \in 1 .. k - 1 : Until(w[j]) <= w[k].seq

\* The garbled message, of the numbers from its own up to f, is still on its way.
Damaged(w, log, n, r, Q) ==
    /\ Q = {} /\ Fresh(w) /\ Complete(log, n, r)
    /\ \E g \in DOMAIN w, f \in 1 .. Len(log) + 1 :
          /\ w[g].type = "Garbled" /\ \A k \in DOMAIN w : w[k].type = "Garbled" => k = g
          /\ w[g].seq < f
          /\ \A k \in DOMAIN w : g < k => f <= w[k].seq
          /\ Carried(w, n + 1, Len(log), w[g].seq .. f - 1)
          /\ Bare(log, w[g].seq + 1, f - 1)

\* Since it was passed over, application messages were read at most.
Unnoticed(w, log, n, r, Q) ==
    /\ Q = {} /\ Fresh(w) /\ NoneOf("Garbled", w)
    /\ r # << >> /\ r[Len(r)][1] \notin AdminTypes
    /\ \E f \in n + 2 .. Len(log) + 1 :
          /\ Carried(w, f, Len(log), {})
          /\ \/ Complete(log, n, r) /\ Bare(log, n + 2, f - 1)
             \/ log[f - 1] = "App" /\ Known(r, f - 1)

\* An admin message showed the gap: what is from there on was asked for.
Noticed(w, log, n, r, Q) ==
    /\ Q # {} /\ Fresh(w) /\ NoneOf("Garbled", w)
    /\ \A x \in Q : x.ref = n + 1 /\ x.end = 0
    /\ Complete(log, n, r)
    /\ \E f \in n + 3 .. Len(log) + 1 :
          Carried(w, f, Len(log), {}) /\ Bare(log, n + 2, f - 1)

Fills(m, from, to) == m.dup /\ m.type = "GapFill" /\ m.seq = from /\ m.ref = to

\* The first answer is on its way: at d the garbled message or a gap fill, in the first
\* case followed by a gap fill, and both up to t.  Other answers come too late.
Answered(w, log, n, r, Q) ==
    /\ NoneOf("Garbled", w)
    /\ \A x \in Q : x.ref <= n + 1 /\ x.end = 0
    /\ Complete(log, n, r)
    /\ \E d \in DOMAIN w, t \in n + 2 .. Len(log) + 1, f \in n + 2 .. Len(log) + 1 :
          /\ f <= t /\ Carried(w, f, Len(log), {})
          /\ \A k \in 1 .. d - 1 : ~w[k].dup /\ Until(w[k]) <= t
          /\ \/ Fills(w[d], n + 1, t)
             \/ /\ w[d].dup /\ w[d].type = "App" /\ w[d].seq = n + 1
                /\ d + 1 \in DOMAIN w /\ Fills(w[d + 1], n + 2, t)
          /\ \A k \in DOMAIN w :
                d < k /\ w[k].dup => \/ w[k].type = "GapFill" /\ w[k].seq <= n + 1
                                     \/ k = d + 1 /\ w[d].type = "App"

\* The gap is closed, and what is still sent again comes too late.
Closed(w, log, n, r, Q) ==
    /\ NoneOf("Garbled", w)
    /\ \A x \in Q : x.ref <= n /\ x.end = 0
    /\ Complete(log, n, r) /\ Carried(w, n + 1, Len(log), {})
    /\ \A k \in DOMAIN w : w[k].dup => w[k].type = "GapFill" /\ w[k].seq <= n

\* Nothing was garbled.
Whole(w, log, n, r, Q) == Q = {} /\ Fresh(w) /\ Closed(w, log, n, r, Q)

\* An application message that was counted, or will be before, is sent again, or will be.
OnWay(w, i, k) == \E j \in 1 .. k : w[j].type = "App" /\ w[j].seq = i
Doomed(w, log, r, Q) ==
    \/ \E k \in DOMAIN w : /\ w[k].dup /\ w[k].type = "App"
                           /\ Known(r, w[k].seq) \/ OnWay(w, w[k].seq, k - 1)
    \/ \E x \in Q : \E i \in x.ref .. ResendEnd(log, x.end) :
          log[i] = "App" /\ (Known(r, i) \/ OnWay(w, i, Len(w)))


\* clean says that nothing was garbled, on that the logon was answered.
Recovers(clean, on, w, log, n, r, Q) ==
    IF clean THEN Whole(w, log, n, r, Q)
    ELSE \/ Damaged(w, log, n, r, Q) \/ Closed(w, log, n, r, Q)
         \/ ~on /\ log # << >> /\ NoneOf("Logon", w)
         \/ on /\ \/ Unnoticed(w, log, n, r, Q) \/ Noticed(w, log, n, r, Q)
                  \/ Answered(w, log, n, r, Q) \/ Doomed(w, log, r, Q)

Beyond(wire, next, n) ==
    n <= next /\ \A k \in DOMAIN wire : wire[k].type # "GapFill" => n <= wire[k].seq
Ahead(n) == Beyond(session.wire, session.outSeq, n)

Attended ==
    /\ Ahead(peer.expects) /\ Ahead(1)
    /\ \A k \in DOMAIN session.wire : session.wire[k].type = "GapFill" => Ahead(session.wire[k].ref)
    /\ \A k \in DOMAIN peer.wire : peer.wire[k].type = "ResendRequest" => Ahead(peer.wire[k].end + 1)

Mending ==
    /\ peer.alive /\ session.active /\ ~AppCounted
    /\ pc \in {"logon", "poll", "handler"}
    /\ MaxGarbled - budget.garbled <= 1

Mended ==
    /\ pc = "logon" => session.inSeq = 0
    /\ Recovers(NothingGarbled, pc # "logon",
                peer.wire, peer.log, session.inSeq, read, Pending(session.wire))

Heals == Mending => Mended

\* No request of ours was lost.
AllAsked == \A m \in session.lost : m.type # "ResendRequest"

-----------------------------------------------------------------------------
(* What is on its way.                                                     *)

LEMMA ProperFacts ==
    ASSUME NEW w \in Seq(Message), NEW log \in Logs, Proper(w, log)
    PROVE  /\ Len(log) \in Nat /\ DOMAIN log = 1 .. Len(log)
           /\ \A k \in DOMAIN w :
                 /\ w[k] \in Message /\ w[k].seq \in Nat /\ w[k].ref \in Int
                 /\ Until(w[k]) \in Int /\ w[k].dup \in BOOLEAN /\ w[k].type \in Types
                 /\ 1 <= w[k].seq /\ w[k].seq <= Len(log)
                 /\ w[k].seq < Until(w[k]) /\ Until(w[k]) <= Len(log) + 1
                 /\ k \in Nat /\ 1 <= k
  <1>1. Len(log) \in Nat /\ DOMAIN log = 1 .. Len(log)
    BY DEF Logs
  <1>2. ASSUME NEW k \in DOMAIN w
        PROVE  /\ w[k] \in Message /\ w[k].seq \in Nat /\ w[k].ref \in Int
               /\ Until(w[k]) \in Int /\ w[k].dup \in BOOLEAN /\ w[k].type \in Types
               /\ 1 <= w[k].seq /\ w[k].seq <= Len(log)
               /\ w[k].seq < Until(w[k]) /\ Until(w[k]) <= Len(log) + 1
               /\ k \in Nat /\ 1 <= k
    <2>1. w[k] \in Message /\ k \in Nat /\ 1 <= k
      OBVIOUS
    <2>2. /\ w[k].seq \in Nat /\ w[k].ref \in Int
          /\ Until(w[k]) \in Int /\ w[k].dup \in BOOLEAN /\ w[k].type \in Types
      BY <2>1, UntilType
    <2>3. Sane(w[k], log)
      BY DEF Proper
    <2>4. w[k].seq < Until(w[k])
      BY <2>2, <2>3 DEF Sane, Until
    <2> QED  BY <1>1, <2>1, <2>2, <2>3, <2>4 DEF Sane
  <1> QED  BY <1>1, <1>2

\* The new message that comes first is the first one that was not read, ...
LEMMA CarriedHead ==
    ASSUME NEW w \in Seq(Message), NEW log \in Logs, Proper(w, log), w # << >>,
           NEW from \in Nat, NEW lost, Carried(w, from, Len(log), lost), ~w[1].dup
    PROVE  /\ w[1].type # "Garbled" /\ (\A i \in lost : w[1].seq < i)
                => w[1].seq = from /\ Carried(Tail(w), Until(w[1]), Len(log), lost)
           /\ \A f \in Nat :
                 /\ w[1].type = "Garbled" /\ lost = w[1].seq .. f - 1
                 /\ f <= Len(log) + 1 /\ \A k \in DOMAIN w : 1 < k => f <= w[k].seq
                 => w[1].seq = from /\ Carried(Tail(w), f, Len(log), {})
  <1> DEFINE L == Len(log)
             u == Tail(w)
             m == w[1]
  <1>1. /\ L \in Nat
        /\ \A k \in DOMAIN w : /\ w[k].seq \in Nat /\ Until(w[k]) \in Int /\ k \in Nat /\ 1 <= k
                               /\ w[k].seq <= L
                               /\ w[k].seq < Until(w[k]) /\ Until(w[k]) <= L + 1
    BY ProperFacts
  <1>2. /\ 1 \in DOMAIN w
        /\ \A k \in DOMAIN u : /\ k \in Nat /\ k >= 1 /\ k + 1 \in DOMAIN w
                               /\ u[k] = w[k + 1]
        /\ \A k \in DOMAIN w : k # 1 => k - 1 \in DOMAIN u /\ u[k - 1] = w[k]
    BY TailFacts
  <1>3. ASSUME NEW k \in DOMAIN w, k # 1, ~w[k].dup PROVE Until(m) <= w[k].seq
    <2>1. 1 \in 1 .. k - 1
      BY <1>1, <1>3
    <2> QED  BY <1>3, <2>1 DEF Proper
  <1>4. from <= m.seq /\ m.seq \in Nat /\ m.seq <= L /\ m.seq < Until(m) /\ Until(m) <= L + 1 /\ Until(m) \in Int
    BY <1>1, <1>2 DEF Carried
  <1>5. from \in lost \/ (m.type # "Garbled" /\ m.seq = from)
    <2>1. from \in from .. L
      BY <1>1, <1>4
    <2>2. CASE from \in lost
      BY <2>2
    <2>3. ASSUME NEW k \in DOMAIN w, ~w[k].dup, w[k].type # "Garbled",
                 w[k].seq <= from, from < Until(w[k])
          PROVE  m.type # "Garbled" /\ m.seq = from
      <3>1. k = 1
        BY <1>1, <1>3, <1>4, <2>3
      <3> QED  BY <1>4, <2>3, <3>1
    <2> QED  BY <2>1, <2>2, <2>3 DEF Carried
  <1> HIDE DEF u, m
  <1>6. ASSUME m.type # "Garbled", \A i \in lost : m.seq < i
        PROVE  m.seq = from /\ Carried(u, Until(m), L, lost)
    <2>1. m.seq = from
      <3>1. from \notin lost
        BY <1>4, <1>6
      <3> QED  BY <1>5, <3>1
    <2>2. \A k \in DOMAIN u : ~u[k].dup => Until(m) <= u[k].seq
      <3> SUFFICES ASSUME NEW k \in DOMAIN u, ~u[k].dup PROVE Until(m) <= u[k].seq
        OBVIOUS
      <3>1. k + 1 \in DOMAIN w /\ k + 1 # 1 /\ u[k] = w[k + 1]
        BY <1>2
      <3> QED  BY <1>3, <3>1
    <2>3. ASSUME NEW i \in Until(m) .. L, i \notin lost
          PROVE  \E k \in DOMAIN u : /\ ~u[k].dup /\ u[k].type # "Garbled"
                                     /\ u[k].seq <= i /\ i < Until(u[k])
      <3>1. i \in from .. L
        BY <1>1, <1>4, <2>1
      <3>2. PICK k \in DOMAIN w : /\ ~w[k].dup /\ w[k].type # "Garbled"
                                  /\ w[k].seq <= i /\ i < Until(w[k])
        BY <2>3, <3>1 DEF Carried
      <3>3. k # 1
        BY <1>4, <3>2 DEF m
      <3> QED  BY <1>2, <3>2, <3>3
    <2> QED  BY <1>4, <2>1, <2>2, <2>3 DEF Carried
  <1>7. ASSUME NEW f \in Nat, m.type = "Garbled", lost = m.seq .. f - 1,
               f <= L + 1, \A k \in DOMAIN w : 1 < k => f <= w[k].seq
        PROVE  m.seq = from /\ Carried(u, f, L, {})
    <2>1. m.seq = from
      <3>1. from \in m.seq .. f - 1
        BY <1>5, <1>7
      <3> QED  BY <1>4, <3>1
    <2>2. \A k \in DOMAIN u : f <= u[k].seq
      <3> SUFFICES ASSUME NEW k \in DOMAIN u PROVE f <= u[k].seq
        OBVIOUS
      <3>1. k + 1 \in DOMAIN w /\ 1 < k + 1 /\ u[k] = w[k + 1]
        BY <1>2
      <3> QED  BY <1>7, <3>1
    <2>3. ASSUME NEW i \in f .. L
          PROVE  \E k \in DOMAIN u : /\ ~u[k].dup /\ u[k].type # "Garbled"
                                     /\ u[k].seq <= i /\ i < Until(u[k])
      <3>1. from <= f - 1
        BY <1>4, <1>5, <1>7, <2>1
      <3>2. i \in from .. L /\ i \notin lost
        BY <1>1, <1>4, <1>7, <2>1, <3>1
      <3>3. PICK k \in DOMAIN w : /\ ~w[k].dup /\ w[k].type # "Garbled"
                                  /\ w[k].seq <= i /\ i < Until(w[k])
        BY <3>2 DEF Carried
      <3>4. k # 1
        BY <1>7, <3>3 DEF m
      <3> QED  BY <1>2, <3>3, <3>4
    <2> QED  BY <1>7, <2>1, <2>2, <2>3 DEF Carried
  <1> QED  BY <1>6, <1>7 DEF u, m

LEMMA CarriedFirst ==
    ASSUME NEW w \in Seq(Message), NEW log \in Logs, Proper(w, log), w # << >>,
           NEW from \in Nat, Carried(w, from, Len(log), {}), ~w[1].dup, w[1].type # "Garbled"
    PROVE  w[1].seq = from /\ Carried(Tail(w), Until(w[1]), Len(log), {})
  <1> DEFINE lost == {}
  <1>1. Carried(w, from, Len(log), lost) /\ \A i \in lost : w[1].seq < i
    OBVIOUS
  <1> HIDE DEF lost
  <1>2. w[1].type # "Garbled" /\ (\A i \in lost : w[1].seq < i)
          => w[1].seq = from /\ Carried(Tail(w), Until(w[1]), Len(log), lost)
    BY <1>1, CarriedHead
  <1> QED  BY <1>1, <1>2 DEF lost

\* A message that is sent again carries none.
LEMMA CarriedDup ==
    ASSUME NEW w \in Seq(Message), w # << >>, NEW from, NEW to, NEW lost,
           Carried(w, from, to, lost), w[1].dup
    PROVE  Carried(Tail(w), from, to, lost)
  <1> DEFINE u == Tail(w)
  <1>1. /\ \A k \in DOMAIN u : k + 1 \in DOMAIN w /\ u[k] = w[k + 1]
        /\ \A k \in DOMAIN w : k # 1 => k - 1 \in DOMAIN u /\ u[k - 1] = w[k]
    BY TailFacts
  <1> HIDE DEF u
  <1>2. \A k \in DOMAIN u : ~u[k].dup => from <= u[k].seq
    BY <1>1 DEF Carried
  <1>3. ASSUME NEW i \in from .. to, i \notin lost
        PROVE  \E k \in DOMAIN u : /\ ~u[k].dup /\ u[k].type # "Garbled"
                                   /\ u[k].seq <= i /\ i < Until(u[k])
    <2>1. PICK k \in DOMAIN w : /\ ~w[k].dup /\ w[k].type # "Garbled"
                                /\ w[k].seq <= i /\ i < Until(w[k])
      BY <1>3 DEF Carried
    <2>2. k - 1 \in DOMAIN u /\ u[k - 1] = w[k]
      BY <1>1, <2>1
    <2> QED  BY <2>1, <2>2
  <1> QED  BY <1>2, <1>3 DEF Carried, u

\* After a message of the wire the new ones start from the number that follows it, ...
LEMMA CarriedFrom ==
    ASSUME NEW w \in Seq(Message), NEW log \in Logs, Proper(w, log), w # << >>,
           NEW from \in Nat, Carried(w, from, Len(log), {}), w[1].dup, from <= Until(w[1])
    PROVE  Carried(w, Until(w[1]), Len(log), {})
  <1> DEFINE t == Until(w[1])
  <1>1. 1 \in DOMAIN w
    BY TailFacts
  <1>2. /\ Len(log) \in Nat
        /\ \A k \in DOMAIN w : /\ w[k].seq \in Nat /\ Until(w[k]) \in Int
                               /\ Until(w[k]) <= Len(log) + 1 /\ k \in Nat /\ 1 <= k
    BY ProperFacts
  <1>3. ASSUME NEW k \in DOMAIN w, ~w[k].dup PROVE t <= w[k].seq
    <2>1. 1 \in 1 .. k - 1
      BY <1>2, <1>3
    <2> QED  BY <1>3, <2>1 DEF Proper
  <1>4. t \in Int /\ t <= Len(log) + 1 /\ \A i \in t .. Len(log) : i \in from .. Len(log)
    BY <1>1, <1>2
  <1> HIDE DEF t
  <1> QED  BY <1>3, <1>4 DEF Carried, t

\* An application message that is carried is on its way.
LEMMA CarriedApp ==
    ASSUME NEW w \in Seq(Message), NEW log \in Logs, Proper(w, log),
           NEW from \in Nat, Carried(w, from, Len(log), {}),
           NEW i \in from .. Len(log), log[i] = "App"
    PROVE  OnWay(w, i, Len(w))
  <1>1. PICK k \in DOMAIN w : /\ ~w[k].dup /\ w[k].type # "Garbled"
                              /\ w[k].seq <= i /\ i < Until(w[k])
    BY DEF Carried
  <1>2. /\ w[k].seq \in Nat /\ Until(w[k]) \in Int /\ Len(log) \in Nat
    BY ProperFacts
  <1>3. Sane(w[k], log)
    BY DEF Proper
  <1>4. i \in Int
    BY <1>2
  <1>5. i = w[k].seq
    <2> SUFFICES ASSUME i # w[k].seq PROVE FALSE
      OBVIOUS
    <2>1. i \in w[k].seq + 1 .. Until(w[k]) - 1
      BY <1>1, <1>2, <1>4
    <2> QED  BY <1>1, <1>3, <2>1 DEF Sane
  <1>6. w[k].type = "App"
    BY <1>1, <1>3, <1>5 DEF Sane
  <1>7. k \in 1 .. Len(w)
    OBVIOUS
  <1> QED  BY <1>5, <1>6, <1>7 DEF OnWay

\* The peer sends a new message, which goes up to number l.
LEMMA CarriedAppend ==
    ASSUME NEW w \in Seq(Message), NEW from \in Nat, NEW to \in Nat, NEW l \in Nat, NEW lost,
           Carried(w, from, to, lost), NEW x \in Message, ~x.dup, x.type # "Garbled",
           x.seq = to + 1, Until(x) = l + 1, to < l
    PROVE  Carried(Append(w, x), from, l, lost)
  <1> DEFINE u == Append(w, x)
  <1>1. /\ \A k \in DOMAIN w : k \in DOMAIN u /\ u[k] = w[k]
        /\ \A k \in DOMAIN u : u[k] = x \/ (k \in DOMAIN w /\ u[k] = w[k])
        /\ Len(w) + 1 \in DOMAIN u /\ u[Len(w) + 1] = x
    BY AppendFacts
  <1> HIDE DEF u
  <1>2. from <= to + 1
    BY DEF Carried
  <1>3. \A k \in DOMAIN u : ~u[k].dup => from <= u[k].seq
    BY <1>1, <1>2 DEF Carried
  <1>4. ASSUME NEW i \in from .. l, i \notin lost
        PROVE  \E k \in DOMAIN u : /\ ~u[k].dup /\ u[k].type # "Garbled"
                                   /\ u[k].seq <= i /\ i < Until(u[k])
    <2>1. CASE i <= to
      <3>1. i \in from .. to
        BY <2>1
      <3>2. PICK k \in DOMAIN w : /\ ~w[k].dup /\ w[k].type # "Garbled"
                                  /\ w[k].seq <= i /\ i < Until(w[k])
        BY <1>4, <3>1 DEF Carried
      <3> QED  BY <1>1, <3>2
    <2>2. CASE ~(i <= to)
      <3>1. x.seq <= i /\ i < Until(x)
        BY <2>2
      <3> QED  BY <1>1, <3>1
    <2> QED  BY <2>1, <2>2
  <1> QED  BY <1>2, <1>3, <1>4 DEF Carried, u

\* The peer sends messages again.
LEMMA CarriedAgain ==
    ASSUME NEW w, NEW u, NEW from, NEW to, NEW lost, Carried(w, from, to, lost),
           \A k \in DOMAIN w : k \in DOMAIN u /\ u[k] = w[k],
           \A k \in DOMAIN u : k \in DOMAIN w \/ u[k].dup
    PROVE  Carried(u, from, to, lost)
  BY DEF Carried

\* The session has counted the message that comes next.
LEMMA CompleteNext ==
    ASSUME NEW log \in Logs, NEW r \in Seq(Types \X Nat), NEW n \in Nat, Complete(log, n, r),
           NEW m \in Message, Sane(m, log), m.type # "Garbled", m.seq = n + 1
    PROVE  Complete(log, Until(m) - 1, Append(r, <<m.type, m.seq>>))
  <1> DEFINE e == <<m.type, m.seq>>
             q == Append(r, e)
  <1>1. Until(m) \in Int /\ e \in Types \X Nat /\ e[1] = m.type /\ e[2] = n + 1
    BY UntilType
  <1> HIDE DEF e
  <1>2. (\A i : Known(r, i) => Known(q, i)) /\ (m.type = "App" => Known(q, n + 1))
    <2>1. (\A i : Known(r, i) => Known(q, i)) /\ (e[1] = "App" => Known(q, e[2]))
      BY <1>1, KnownAppend
    <2> QED  BY <1>1, <2>1
  <1> HIDE DEF q
  <1>3. ASSUME NEW i \in 1 .. Until(m) - 1, log[i] = "App" PROVE Known(q, i)
    <2>1. CASE i <= n
      <3>1. i \in 1 .. n
        BY <1>1, <2>1
      <3> QED  BY <1>2, <1>3, <3>1 DEF Complete
    <2>2. CASE i = n + 1
      BY <1>2, <1>3, <2>2 DEF Sane
    <2>3. CASE i > n + 1
      <3>1. i \in m.seq + 1 .. Until(m) - 1
        BY <1>1, <2>3
      <3> QED  BY <1>3, <3>1 DEF Sane
    <2> QED  BY <1>1, <2>1, <2>2, <2>3
  <1> QED  BY <1>3 DEF Complete, q, e

\* A sequence reset counts for all that is before it.
LEMMA CompleteReset ==
    ASSUME NEW log \in Logs, NEW r \in Seq(Types \X Nat),
           NEW m \in Message, Sane(m, log), m.type = "Reset"
    PROVE  Complete(log, m.ref - 1, Append(r, <<m.type, m.seq>>))
  <1> DEFINE e == <<m.type, m.seq>>
             q == Append(r, e)
  <1>1. m.seq \in Nat /\ m.ref \in Int /\ Until(m) = m.ref /\ e \in Types \X Nat /\ e[1] = "Reset" /\ e[2] = m.seq
    BY UntilType DEF Until
  <1> HIDE DEF e
  <1>2. \A i \in Nat : i <= m.seq => Known(q, i)
    BY <1>1, KnownAppend
  <1> HIDE DEF q
  <1>3. ASSUME NEW i \in 1 .. m.ref - 1, log[i] = "App" PROVE Known(q, i)
    <2>1. CASE i <= m.seq
      BY <1>1, <1>2, <2>1
    <2>2. CASE ~(i <= m.seq)
      <3>1. i \in m.seq + 1 .. Until(m) - 1
        BY <1>1, <2>2
      <3> QED  BY <1>3, <3>1 DEF Sane
    <2> QED  BY <2>1, <2>2
  <1> QED  BY <1>3 DEF Complete, q, e

\* What was counted is counted still once another message was read.
LEMMA KnownStill ==
    ASSUME NEW r \in Seq(Types \X Nat), NEW m \in Message
    PROVE  LET q == Append(r, <<m.type, m.seq>>)
           IN  /\ \A log, n : Complete(log, n, r) => Complete(log, n, q)
               /\ \A i : Known(r, i) => Known(q, i)
               /\ m.type = "App" => Known(q, m.seq)
               /\ m.type = "Reset" => \A i \in Nat : i <= m.seq => Known(q, i)
               /\ q # << >> /\ q[Len(q)][1] = m.type
  <1> DEFINE e == <<m.type, m.seq>>
  <1>1. e \in Types \X Nat /\ e[1] = m.type /\ e[2] = m.seq
    BY UntilType
  <1> HIDE DEF e
  <1>2. /\ \A i : Known(r, i) => Known(Append(r, e), i)
        /\ e[1] = "App" => Known(Append(r, e), e[2])
        /\ e[1] = "Reset" => \A i \in Nat : i <= e[2] => Known(Append(r, e), i)
    BY <1>1, KnownAppend
  <1>3. \A log, n : Complete(log, n, r) => Complete(log, n, Append(r, e))
    BY <1>2 DEF Complete
  <1>4. Append(r, e) # << >> /\ Append(r, e)[Len(Append(r, e))] = e
    BY <1>1
  <1>5. /\ m.type = "App" => Known(Append(r, e), m.seq)
        /\ m.type = "Reset" => \A i \in Nat : i <= m.seq => Known(Append(r, e), i)
        /\ Append(r, e)[Len(Append(r, e))][1] = m.type
    BY <1>1, <1>2, <1>4
  <1> QED  BY <1>2, <1>3, <1>4, <1>5 DEF e

-----------------------------------------------------------------------------
(* The session reads a message.                                            *)

\* The messages that have no effect when their number is not the expected one.
AskTypes == {"Heartbeat", "TestRequest", "ResendRequest"}

\* A session that has counted n messages and asked Q reads m: it has counted l then, and
\* asked R.
Hears(m, n, l, Q, R) ==
    /\ Q \subseteq R
    /\ m.type = "Garbled" => l = n /\ R = Q
    /\ m.type \in {"App", "Logon"} => l = n + 1 /\ R = Q
    /\ m.type = "Reset" /\ m.ref > n + 1 => l = m.ref - 1 /\ R = Q
    /\ m.type = "GapFill" /\ m.seq <= n + 1
         => R = Q /\ l = IF m.seq = n + 1 THEN m.ref - 1 ELSE n
    /\ m.type \in AskTypes /\ m.seq = n + 1 => l = n + 1 /\ R = Q
    /\ m.type \in AskTypes /\ m.seq > n + 1
         => l = n /\ \E y : y.ref = n + 1 /\ y.end = 0 /\ R = Q \cup {y}

LEMMA FirstFacts ==
    ASSUME NEW w \in Seq(Message), NEW log \in Logs, Proper(w, log), w # << >>
    PROVE  LET m == w[1]
           IN  /\ m \in Message /\ Sane(m, log) /\ 1 \in DOMAIN w
               /\ m.seq \in Nat /\ m.ref \in Int /\ Until(m) \in Int /\ Len(log) \in Nat
               /\ 1 <= m.seq /\ m.seq <= Len(log) /\ m.seq < Until(m) /\ Until(m) <= Len(log) + 1
               /\ ~m.dup => m.type \in AskTypes \cup {"App", "Logon", "Reset", "Garbled"}
               /\ m.dup => m.type \in {"App", "GapFill", "Garbled"}
               /\ m.type = "Logon" => m.seq = 1
               /\ m.type \in AskTypes \cup {"App", "Logon"} => Until(m) = m.seq + 1
               /\ m.type \in {"Reset", "GapFill"} => Until(m) = m.ref
               /\ Fresh(w) => ~m.dup /\ Fresh(Tail(w))
               /\ NoneOf("Garbled", w) => m.type # "Garbled" /\ NoneOf("Garbled", Tail(w))
  <1> DEFINE m == w[1]
             u == Tail(w)
  <1>1. 1 \in DOMAIN w /\ \A k \in DOMAIN u : k + 1 \in DOMAIN w /\ u[k] = w[k + 1]
    BY TailFacts
  <1>2. /\ m \in Message
        /\ m.seq \in Nat /\ m.ref \in Int /\ Until(m) \in Int /\ Len(log) \in Nat
        /\ 1 <= m.seq /\ m.seq <= Len(log) /\ m.seq < Until(m) /\ Until(m) <= Len(log) + 1
        /\ m.dup \in BOOLEAN /\ m.type \in Types
    BY <1>1, ProperFacts
  <1>3. Sane(m, log) /\ m.type # "Logout"
    BY <1>1 DEF Proper
  <1> HIDE DEF u
  <1>4. /\ Fresh(w) => ~m.dup /\ Fresh(u)
        /\ NoneOf("Garbled", w) => m.type # "Garbled" /\ NoneOf("Garbled", u)
    BY <1>1 DEF Fresh, NoneOf
  <1> HIDE DEF m
  <1>5. /\ ~m.dup => m.type \in AskTypes \cup {"App", "Logon", "Reset", "Garbled"}
        /\ m.dup => m.type \in {"App", "GapFill", "Garbled"}
        /\ m.type = "Logon" => m.seq = 1
    BY <1>2, <1>3 DEF Sane, Types, AdminTypes, AskTypes
  <1>6. /\ m.type \in AskTypes \cup {"App", "Logon"} => Until(m) = m.seq + 1
        /\ m.type \in {"Reset", "GapFill"} => Until(m) = m.ref
    BY DEF AskTypes, Until
  <1> QED  BY <1>1, <1>2, <1>3, <1>4, <1>5, <1>6 DEF m, u

\* A new message that is the next one is counted with what it stands for.
LEMMA HearsNext ==
    ASSUME NEW m \in Message, NEW log \in Logs, Sane(m, log), ~m.dup, m.type # "Logout",
           NEW n \in Nat, m.seq = n + 1, m.type # "Garbled", NEW l, NEW Q, NEW R, Hears(m, n, l, Q, R)
    PROVE  l = Until(m) - 1 /\ R = Q
  <1>1. m.seq \in Nat /\ m.ref \in Int /\ m.type \in Types
    BY UntilType
  <1>2. m.type \in AskTypes \cup {"App", "Logon", "Reset"}
    BY <1>1 DEF Sane, Types, AdminTypes, AskTypes
  <1>3. CASE m.type \in AskTypes \cup {"App", "Logon"}
    <2>1. Until(m) = m.seq + 1
      BY <1>3 DEF AskTypes, Until
    <2>2. l = n + 1 /\ R = Q
      BY <1>3 DEF Hears
    <2> QED  BY <2>1, <2>2
  <1>4. CASE m.type = "Reset"
    <2>1. Until(m) = m.ref /\ m.ref > n + 1
      BY <1>1, <1>4 DEF Until, Sane
    <2>2. l = m.ref - 1 /\ R = Q
      BY <1>4, <2>1 DEF Hears
    <2> QED  BY <2>1, <2>2
  <1> QED  BY <1>2, <1>3, <1>4

\* Once the gap is closed it stays so.
LEMMA ClosedRead ==
    ASSUME NEW w \in Seq(Message), NEW log \in Logs, Proper(w, log), w # << >>,
           NEW n \in Nat, NEW l, NEW r \in Seq(Types \X Nat), NEW Q, NEW R,
           \A x \in Q : x.ref \in Int,
           Hears(w[1], n, l, Q, R), Closed(w, log, n, r, Q)
    PROVE  /\ Closed(Tail(w), log, l, Append(r, <<w[1].type, w[1].seq>>), R)
           /\ ~w[1].dup => w[1].seq = n + 1 /\ R = Q
  <1> DEFINE m == w[1]
             u == Tail(w)
             q == Append(r, <<m.type, m.seq>>)
  <1>1. /\ m \in Message /\ Sane(m, log) /\ 1 \in DOMAIN w
        /\ m.seq \in Nat /\ Until(m) \in Int /\ Len(log) \in Nat
        /\ m.seq < Until(m)
        /\ m.type # "Garbled" /\ NoneOf("Garbled", u)
    BY FirstFacts DEF Closed
  <1>2. \A k \in DOMAIN u : k + 1 \in DOMAIN w /\ u[k] = w[k + 1]
    BY TailFacts
  <1>3. /\ \A x \in Q : x.ref <= n /\ x.end = 0
        /\ Complete(log, n, r) /\ Carried(w, n + 1, Len(log), {})
        /\ \A k \in DOMAIN w : w[k].dup => w[k].type = "GapFill" /\ w[k].seq <= n
    BY DEF Closed
  <1>4. \A k \in DOMAIN u : u[k].dup => u[k].type = "GapFill" /\ u[k].seq <= n
    BY <1>2, <1>3
  <1>5. m.type # "Logout"
    BY <1>1 DEF Proper
  <1>6. \A k \in DOMAIN u : u[k].seq \in Nat
    BY <1>2, ProperFacts
  <1>7. CASE m.dup
    <2>1. m.type = "GapFill" /\ m.seq <= n
      BY <1>1, <1>3, <1>7
    <2>2. R = Q /\ l = n
      BY <1>1, <2>1 DEF Hears
    <2>3. Carried(u, n + 1, Len(log), {})
      BY <1>3, <1>7, CarriedDup
    <2>4. Complete(log, n, q)
      BY <1>1, <1>3, KnownStill
    <2> HIDE DEF q, u
    <2> QED  BY <1>1, <1>3, <1>4, <1>7, <2>2, <2>3, <2>4 DEF Closed, u, q
  <1>8. CASE ~m.dup
    <2>1. m.seq = n + 1 /\ Carried(u, Until(m), Len(log), {})
      BY <1>1, <1>3, <1>8, CarriedFirst
    <2>2. l = Until(m) - 1 /\ R = Q
      BY <1>1, <1>5, <1>8, <2>1, HearsNext
    <2>3. Complete(log, Until(m) - 1, q)
      BY <1>1, <1>3, <2>1, CompleteNext
    <2>4. n <= l /\ l + 1 = Until(m)
      BY <1>1, <2>1, <2>2
    <2> HIDE DEF q, u, m
    <2>5. \A x \in R : x.ref <= l /\ x.end = 0
      BY <1>1, <1>3, <2>2, <2>4
    <2>6. \A k \in DOMAIN u : u[k].dup => u[k].type = "GapFill" /\ u[k].seq <= l
      BY <1>1, <1>4, <1>6, <2>2, <2>4
    <2>7. Closed(u, log, l, q, R)
      BY <1>1, <2>1, <2>2, <2>3, <2>4, <2>5, <2>6 DEF Closed
    <2> QED  BY <2>1, <2>2, <2>7 DEF u, q, m
  <1> QED  BY <1>7, <1>8

\* The garbled message is passed over, or stays where it is.
LEMMA DamagedRead ==
    ASSUME NEW w \in Seq(Message), NEW log \in Logs, Proper(w, log), w # << >>,
           NEW n \in Nat, NEW l, NEW r \in Seq(Types \X Nat), NEW Q, NEW R,
           Hears(w[1], n, l, Q, R), Damaged(w, log, n, r, Q)
    PROVE  LET u == Tail(w)
               q == Append(r, <<w[1].type, w[1].seq>>)
           IN  /\ w[1].seq = n + 1 /\ R = {}
               /\ w[1].type # "Garbled" => Damaged(u, log, l, q, R)
               /\ w[1].type = "Garbled" =>
                     /\ Unnoticed(u, log, l, q, R)
                     /\ \A k \in DOMAIN u : 1 < u[k].seq
  <1> DEFINE m == w[1]
             u == Tail(w)
             L == Len(log)
             q == Append(r, <<m.type, m.seq>>)
  <1>1. /\ m \in Message /\ Sane(m, log) /\ 1 \in DOMAIN w
        /\ m.seq \in Nat /\ Until(m) \in Int /\ L \in Nat
        /\ m.seq < Until(m) /\ ~m.dup /\ Fresh(u)
    BY FirstFacts DEF Damaged
  <1>2. /\ \A k \in DOMAIN u : k + 1 \in DOMAIN w /\ u[k] = w[k + 1] /\ k \in Nat /\ k >= 1
        /\ \A k \in DOMAIN w : k # 1 => k - 1 \in DOMAIN u /\ u[k - 1] = w[k]
    BY TailFacts
  <1>3. Q = {} /\ Fresh(w) /\ Complete(log, n, r)
    BY DEF Damaged
  <1>4. PICK g \in DOMAIN w, f \in 1 .. L + 1 :
          /\ w[g].type = "Garbled" /\ \A k \in DOMAIN w : w[k].type = "Garbled" => k = g
          /\ w[g].seq < f
          /\ \A k \in DOMAIN w : g < k => f <= w[k].seq
          /\ Carried(w, n + 1, L, w[g].seq .. f - 1)
          /\ Bare(log, w[g].seq + 1, f - 1)
    BY DEF Damaged
  <1>5. /\ g \in Nat /\ f \in Nat /\ f <= L + 1
        /\ \A k \in DOMAIN w : k \in Nat /\ 1 <= k /\ w[k].seq \in Nat /\ 1 <= w[k].seq
    BY <1>1, ProperFacts
  <1>6. m.type # "Logout"
    BY <1>1 DEF Proper
  <1> HIDE DEF u
  <1>7. CASE g = 1
    <2>1. /\ m.type = "Garbled" /\ \A k \in DOMAIN w : 1 < k => f <= w[k].seq
          /\ m.seq < f /\ Bare(log, m.seq + 1, f - 1)
      BY <1>4, <1>7
    <2>2. Carried(w, n + 1, L, m.seq .. f - 1)
      BY <1>4, <1>7
    <2>3. m.seq = n + 1 /\ Carried(u, f, L, {})
      <3>1. n + 1 \in Nat
        OBVIOUS
      <3> DEFINE lost == m.seq .. f - 1
      <3>2. Carried(w, n + 1, L, lost)
        BY <2>2
      <3> HIDE DEF lost
      <3>3. \A i \in Nat :
               /\ m.type = "Garbled" /\ lost = m.seq .. i - 1
               /\ i <= L + 1 /\ \A k \in DOMAIN w : 1 < k => i <= w[k].seq
               => m.seq = n + 1 /\ Carried(u, i, L, {})
        BY <1>1, <3>1, <3>2, CarriedHead DEF u
      <3> QED  BY <1>5, <2>1, <3>3 DEF lost
    <2>4. l = n /\ R = {}
      BY <1>3, <2>1 DEF Hears
    <2>5. Complete(log, n, q)
      BY <1>1, <1>3, KnownStill
    <2>6. q # << >> /\ q[Len(q)][1] = "Garbled"
      BY <1>1, <1>3, <2>1, KnownStill
    <2>7. "Garbled" \notin AdminTypes
      BY DEF AdminTypes
    <2>8. f \in n + 2 .. L + 1
      BY <1>5, <2>1, <2>3
    <2>9. n + 1 + 1 = n + 2
      OBVIOUS
    <2>10. NoneOf("Garbled", u)
      <3> SUFFICES ASSUME NEW k \in DOMAIN u, u[k].type = "Garbled" PROVE FALSE
        BY DEF NoneOf
      <3>1. k + 1 \in DOMAIN w /\ w[k + 1].type = "Garbled" /\ k + 1 # 1
        BY <1>2
      <3> QED  BY <1>4, <1>7, <3>1
    <2>11. \A k \in DOMAIN u : 1 < u[k].seq
      <3> SUFFICES ASSUME NEW k \in DOMAIN u PROVE 1 < u[k].seq
        OBVIOUS
      <3>1. k + 1 \in DOMAIN w /\ u[k] = w[k + 1] /\ 1 < k + 1
        BY <1>2
      <3>2. f <= w[k + 1].seq /\ w[k + 1].seq \in Nat
        BY <1>5, <2>1, <3>1
      <3> QED  BY <1>5, <2>3, <2>8, <3>1, <3>2
    <2>12. Unnoticed(u, log, n, q, {})
      <3> HIDE DEF q, L
      <3> QED  BY <1>1, <2>1, <2>3, <2>5, <2>6, <2>7, <2>8, <2>9, <2>10 DEF Unnoticed, L
    <2> QED  BY <2>1, <2>3, <2>4, <2>11, <2>12 DEF u
  <1>8. CASE g # 1
    <2>1. m.type # "Garbled"
      BY <1>1, <1>4, <1>8
    <2>2. Until(m) <= w[g].seq
      <3>1. 1 \in 1 .. g - 1
        BY <1>5, <1>8
      <3>2. ~w[g].dup
        BY <1>3 DEF Fresh
      <3> QED  BY <3>1, <3>2 DEF Proper
    <2> DEFINE lost == w[g].seq .. f - 1
    <2>3. \A i \in lost : m.seq < i
      BY <1>1, <1>5, <2>2
    <2>4. Carried(w, n + 1, L, lost)
      BY <1>4
    <2> HIDE DEF lost
    <2>5. m.seq = n + 1 /\ Carried(u, Until(m), L, lost)
      <3>1. n + 1 \in Nat
        OBVIOUS
      <3>2. m.type # "Garbled" /\ (\A i \in lost : m.seq < i)
              => m.seq = n + 1 /\ Carried(u, Until(m), L, lost)
        BY <1>1, <2>4, <3>1, CarriedHead DEF u
      <3> QED  BY <2>1, <2>3, <3>2
    <2>6. l = Until(m) - 1 /\ R = {}
      BY <1>1, <1>3, <1>6, <2>1, <2>5, HearsNext
    <2>7. Complete(log, Until(m) - 1, q)
      BY <1>1, <1>3, <2>1, <2>5, CompleteNext
    <2>8. g - 1 \in DOMAIN u /\ u[g - 1] = w[g]
      BY <1>2, <1>8
    <2>9. \A k \in DOMAIN u : u[k].type = "Garbled" => k = g - 1
      <3> SUFFICES ASSUME NEW k \in DOMAIN u, u[k].type = "Garbled" PROVE k = g - 1
        OBVIOUS
      <3>1. k + 1 \in DOMAIN w /\ w[k + 1].type = "Garbled" /\ k \in Nat
        BY <1>2
      <3>2. k + 1 = g
        BY <1>4, <3>1
      <3> QED  BY <1>5, <3>1, <3>2
    <2>10. \A k \in DOMAIN u : g - 1 < k => f <= u[k].seq
      <3> SUFFICES ASSUME NEW k \in DOMAIN u, g - 1 < k PROVE f <= u[k].seq
        OBVIOUS
      <3>1. k + 1 \in DOMAIN w /\ u[k] = w[k + 1] /\ g < k + 1
        BY <1>2, <1>5
      <3> QED  BY <1>4, <3>1
    <2>11. l + 1 = Until(m)
      BY <1>1, <2>6
    <2>12. Damaged(u, log, l, q, {})
      <3> HIDE DEF q, L, m
      <3> QED  BY <1>1, <1>4, <2>5, <2>6, <2>7, <2>8, <2>9, <2>10, <2>11 DEF Damaged, L, lost
    <2> QED  BY <2>1, <2>5, <2>6, <2>12 DEF u
  <1> QED  BY <1>7, <1>8

\* An admin message shows the gap, unless an application message was counted in place of one
\* that is to be sent again; a sequence reset closes it.
LEMMA UnnoticedRead ==
    ASSUME NEW w \in Seq(Message), NEW log \in Logs, Proper(w, log), w # << >>,
           NEW n \in Nat, NEW l, NEW r \in Seq(Types \X Nat), NEW Q, NEW R,
           Hears(w[1], n, l, Q, R), Unnoticed(w, log, n, r, Q)
    PROVE  LET u == Tail(w)
               q == Append(r, <<w[1].type, w[1].seq>>)
           IN  \/ Unnoticed(u, log, l, q, R) \/ Noticed(u, log, l, q, R)
               \/ Closed(u, log, l, q, R) \/ Doomed(u, log, q, R)
  <1> DEFINE m == w[1]
             u == Tail(w)
             L == Len(log)
             q == Append(r, <<m.type, m.seq>>)
  <1>1. /\ m \in Message /\ Sane(m, log) /\ 1 \in DOMAIN w
        /\ m.seq \in Nat /\ m.ref \in Int /\ Until(m) \in Int /\ L \in Nat
        /\ m.seq < Until(m) /\ Until(m) <= L + 1 /\ m.seq <= L /\ ~m.dup /\ Fresh(u)
        /\ m.type \in AskTypes \cup {"App", "Logon", "Reset"}
        /\ m.type = "Logon" => m.seq = 1
        /\ m.type \in AskTypes \cup {"App", "Logon"} => Until(m) = m.seq + 1
        /\ m.type = "Reset" => Until(m) = m.ref
        /\ NoneOf("Garbled", u)
    BY FirstFacts DEF Unnoticed
  <1>2. Q = {} /\ Fresh(w)
    BY DEF Unnoticed
  <1>3. PICK f \in n + 2 .. L + 1 :
          /\ Carried(w, f, L, {})
          /\ \/ Complete(log, n, r) /\ Bare(log, n + 2, f - 1)
             \/ log[f - 1] = "App" /\ Known(r, f - 1)
    BY DEF Unnoticed
  <1>4. f \in Nat /\ n + 2 <= f
    BY <1>1
  <1>5. m.seq = f /\ Carried(u, Until(m), L, {})
    BY <1>1, <1>3, <1>4, CarriedFirst DEF AskTypes
  <1>6. /\ \A i : Known(r, i) => Known(q, i)
        /\ m.type = "App" => Known(q, m.seq)
        /\ q # << >> /\ q[Len(q)][1] = m.type
        /\ Complete(log, n, r) => Complete(log, n, q)
    BY <1>1, KnownStill
  <1> HIDE DEF u, q, m, L
  <1>7. m.type # "Logon"
    BY <1>1, <1>4, <1>5
  <1>8. CASE m.type = "App"
    <2>1. l = n + 1 /\ R = {} /\ Until(m) = f + 1
      BY <1>1, <1>2, <1>5, <1>8 DEF Hears, m
    <2>2. f + 1 \in l + 2 .. L + 1
      BY <1>1, <1>4, <1>5, <2>1
    <2>3. log[f + 1 - 1] = "App" /\ Known(q, f + 1 - 1)
      <3>1. f + 1 - 1 = f
        BY <1>4
      <3> QED  BY <1>1, <1>5, <1>6, <1>8, <3>1 DEF Sane
    <2>4. q[Len(q)][1] \notin AdminTypes
      BY <1>6, <1>8 DEF AdminTypes
    <2>5. Unnoticed(u, log, l, q, R)
      BY <1>1, <1>5, <1>6, <2>1, <2>2, <2>3, <2>4 DEF Unnoticed, L
    <2> QED  BY <2>5 DEF u, q, m
  <1>9. CASE m.type = "Reset"
    <2>1. m.ref > n + 1
      BY <1>1, <1>4, <1>5, <1>9
    <2>2. l = m.ref - 1 /\ R = {} /\ Until(m) = l + 1
      BY <1>1, <1>2, <1>9, <2>1 DEF Hears, m
    <2>3. Complete(log, l, q)
      BY <1>1, <1>9, <2>2, CompleteReset DEF q
    <2>4. Closed(u, log, l, q, R)
      BY <1>1, <1>5, <2>2, <2>3 DEF Closed, Fresh, L
    <2> QED  BY <2>4 DEF u, q, m
  <1>10. CASE m.type \in AskTypes
    <2>1. m.seq > n + 1
      BY <1>4, <1>5
    <2>2. l = n /\ \E y : y.ref = n + 1 /\ y.end = 0 /\ R = Q \cup {y}
      BY <1>10, <2>1 DEF Hears, m
    <2>3. PICK y : y.ref = n + 1 /\ y.end = 0 /\ R = {y}
      BY <1>2, <2>2
    <2>4. log[f] # "App" /\ Until(m) = f + 1
      BY <1>1, <1>5, <1>10 DEF Sane, AskTypes
    <2>5. CASE Complete(log, n, r) /\ Bare(log, n + 2, f - 1)
      <3>1. f + 1 \in n + 3 .. L + 1
        BY <1>1, <1>4, <1>5, <2>4
      <3>2. Bare(log, n + 2, f + 1 - 1)
        <4>1. \A i \in n + 2 .. f + 1 - 1 : i = f \/ i \in n + 2 .. f - 1
          BY <1>4
        <4> QED  BY <2>4, <2>5, <4>1 DEF Bare
      <3>3. Noticed(u, log, l, q, R)
        BY <1>1, <1>5, <1>6, <2>2, <2>3, <2>4, <2>5, <3>1, <3>2 DEF Noticed, L
      <3> QED  BY <3>3 DEF u, q, m
    <2>6. CASE log[f - 1] = "App" /\ Known(r, f - 1)
      <3>1. f - 1 \in y.ref .. ResendEnd(log, y.end)
        BY <1>1, <1>4, <1>5, <2>3 DEF ResendEnd, L
      <3>2. Doomed(u, log, q, R)
        BY <1>6, <2>3, <2>6, <3>1 DEF Doomed
      <3> QED  BY <3>2 DEF u, q, m
    <2> QED  BY <1>3, <2>5, <2>6
  <1> QED  BY <1>1, <1>7, <1>8, <1>9, <1>10

\* Until the first answer comes, a sequence reset closes the gap, and an application message
\* is among what was asked for.
LEMMA NoticedRead ==
    ASSUME NEW w \in Seq(Message), NEW log \in Logs, Proper(w, log), w # << >>,
           NEW n \in Nat, NEW l, NEW r \in Seq(Types \X Nat), NEW Q, NEW R,
           Hears(w[1], n, l, Q, R), Noticed(w, log, n, r, Q)
    PROVE  LET u == Tail(w)
               q == Append(r, <<w[1].type, w[1].seq>>)
           IN  \/ Noticed(u, log, l, q, R)
               \/ Closed(u, log, l, q, R) \/ Doomed(u, log, q, R)
  <1> DEFINE m == w[1]
             u == Tail(w)
             L == Len(log)
             q == Append(r, <<m.type, m.seq>>)
  <1>1. /\ m \in Message /\ Sane(m, log) /\ 1 \in DOMAIN w
        /\ m.seq \in Nat /\ m.ref \in Int /\ Until(m) \in Int /\ L \in Nat
        /\ m.seq < Until(m) /\ Until(m) <= L + 1 /\ m.seq <= L /\ ~m.dup /\ Fresh(u)
        /\ m.type \in AskTypes \cup {"App", "Logon", "Reset"}
        /\ m.type = "Logon" => m.seq = 1
        /\ m.type \in AskTypes \cup {"App", "Logon"} => Until(m) = m.seq + 1
        /\ m.type = "Reset" => Until(m) = m.ref
        /\ NoneOf("Garbled", u)
    BY FirstFacts DEF Noticed
  <1>2. /\ Q # {} /\ Fresh(w) /\ Complete(log, n, r)
        /\ \A x \in Q : x.ref = n + 1 /\ x.end = 0
    BY DEF Noticed
  <1>3. PICK f \in n + 3 .. L + 1 : Carried(w, f, L, {}) /\ Bare(log, n + 2, f - 1)
    BY DEF Noticed
  <1>4. f \in Nat /\ n + 3 <= f
    BY <1>1
  <1>5. m.seq = f /\ Carried(u, Until(m), L, {})
    BY <1>1, <1>3, <1>4, CarriedFirst DEF AskTypes
  <1>6. /\ m.type = "App" => Known(q, m.seq)
        /\ Complete(log, n, q)
    BY <1>1, <1>2, KnownStill
  <1> HIDE DEF u, q, m, L
  <1>7. m.type # "Logon"
    BY <1>1, <1>4, <1>5
  <1>8. CASE m.type = "App"
    <2>1. R = Q
      BY <1>8 DEF Hears, m
    <2>2. PICK x \in Q : x.ref = n + 1 /\ x.end = 0
      BY <1>2
    <2>3. f \in x.ref .. ResendEnd(log, x.end)
      BY <1>1, <1>4, <1>5, <2>2 DEF ResendEnd, L
    <2>4. log[f] = "App" /\ Known(q, f)
      BY <1>1, <1>5, <1>6, <1>8 DEF Sane
    <2>5. Doomed(u, log, q, R)
      BY <2>1, <2>2, <2>3, <2>4 DEF Doomed
    <2> QED  BY <2>5 DEF u, q, m
  <1>9. CASE m.type = "Reset"
    <2>1. m.ref > n + 1
      BY <1>1, <1>4, <1>5, <1>9
    <2>2. l = m.ref - 1 /\ R = Q /\ Until(m) = l + 1
      BY <1>1, <1>9, <2>1 DEF Hears, m
    <2>3. Complete(log, l, q)
      BY <1>1, <1>9, <2>2, CompleteReset DEF q
    <2>4. \A x \in R : x.ref <= l /\ x.end = 0
      <3>1. n + 1 <= l
        BY <1>1, <2>1, <2>2
      <3> QED  BY <1>2, <2>2, <3>1
    <2>5. Closed(u, log, l, q, R)
      BY <1>1, <1>5, <2>2, <2>3, <2>4 DEF Closed, Fresh, L
    <2> QED  BY <2>5 DEF u, q, m
  <1>10. CASE m.type \in AskTypes
    <2>1. m.seq > n + 1
      BY <1>4, <1>5
    <2>2. l = n /\ \E y : y.ref = n + 1 /\ y.end = 0 /\ R = Q \cup {y}
      BY <1>10, <2>1 DEF Hears, m
    <2>3. PICK y : y.ref = n + 1 /\ y.end = 0 /\ R = Q \cup {y}
      BY <2>2
    <2>4. log[f] # "App" /\ Until(m) = f + 1
      BY <1>1, <1>5, <1>10 DEF Sane, AskTypes
    <2>5. f + 1 \in n + 3 .. L + 1
      BY <1>1, <1>4, <1>5, <2>4
    <2>6. Bare(log, n + 2, f + 1 - 1)
      <3>1. \A i \in n + 2 .. f + 1 - 1 : i = f \/ i \in n + 2 .. f - 1
        BY <1>4
      <3> QED  BY <1>3, <2>4, <3>1 DEF Bare
    <2>7. R # {} /\ \A x \in R : x.ref = n + 1 /\ x.end = 0
      BY <1>2, <2>3
    <2>8. Noticed(u, log, l, q, R)
      BY <1>1, <1>5, <1>6, <2>2, <2>4, <2>5, <2>6, <2>7 DEF Noticed, L
    <2> QED  BY <2>8 DEF u, q, m
  <1> QED  BY <1>1, <1>7, <1>8, <1>9, <1>10

LEMMA ProperTail ==
    ASSUME NEW w \in Seq(Message), NEW log, Proper(w, log), w # << >>
    PROVE  Proper(Tail(w), log)
  <1> DEFINE u == Tail(w)
  <1>1. \A k \in DOMAIN u : /\ k \in Nat /\ k >= 1 /\ k + 1 \in DOMAIN w /\ u[k] = w[k + 1]
                            /\ \A j \in 1 .. k - 1 : j + 1 \in 1 .. k /\ u[j] = w[j + 1]
    BY TailFacts
  <1> HIDE DEF u
  <1>2. ASSUME NEW k \in DOMAIN u
        PROVE  /\ Sane(u[k], log) /\ u[k].type # "Logout"
               /\ ~u[k].dup => \A j \in 1 .. k - 1 : Until(u[j]) <= u[k].seq
    <2>1. PICK i \in DOMAIN w : i = k + 1 /\ u[k] = w[i]
      BY <1>1
    <2>2. \A j \in 1 .. k - 1 : j + 1 \in 1 .. i - 1 /\ u[j] = w[j + 1]
      BY <1>1, <2>1
    <2> QED  BY <2>1, <2>2 DEF Proper
  <1> QED  BY <1>2 DEF Proper, u

LEMMA FillsBare ==
    ASSUME NEW m \in Message, NEW log \in Logs, Sane(m, log), NEW from \in Int, NEW to \in Int,
           Fills(m, from, to)
    PROVE  from < to /\ Until(m) = to /\ Bare(log, from, to - 1)
  <1>1. m.seq = from /\ m.ref = to /\ m.type = "GapFill" /\ from < to /\ Until(m) = to
    BY DEF Fills, Sane, Until
  <1>2. ASSUME NEW i \in from .. to - 1 PROVE log[i] # "App"
    <2>1. CASE i = from
      BY <1>1, <2>1 DEF Sane
    <2>2. CASE i # from
      <3>1. i \in m.seq + 1 .. Until(m) - 1
        BY <1>1, <2>2
      <3> QED  BY <1>1, <3>1 DEF Sane
    <2> QED  BY <2>1, <2>2
  <1> QED  BY <1>1, <1>2 DEF Bare

\* What is new is read first; then the garbled message, or a gap fill, comes, ...
LEMMA AnsweredRead ==
    ASSUME NEW w \in Seq(Message), NEW log \in Logs, Proper(w, log), w # << >>,
           NEW n \in Nat, NEW l, NEW r \in Seq(Types \X Nat), NEW Q, NEW R,
           \A x \in Q : x.ref \in Int,
           Hears(w[1], n, l, Q, R), Answered(w, log, n, r, Q), ~w[1].dup
    PROVE  LET u == Tail(w)
               q == Append(r, <<w[1].type, w[1].seq>>)
           IN  \/ Answered(u, log, l, q, R)
               \/ Closed(u, log, l, q, R) \/ Doomed(u, log, q, R)
  <1> DEFINE m == w[1]
             u == Tail(w)
             L == Len(log)
             q == Append(r, <<m.type, m.seq>>)
  <1>1. /\ m \in Message /\ Sane(m, log) /\ 1 \in DOMAIN w
        /\ m.seq \in Nat /\ m.ref \in Int /\ Until(m) \in Int /\ L \in Nat
        /\ m.seq < Until(m) /\ Until(m) <= L + 1 /\ m.seq <= L
        /\ m.type \in AskTypes \cup {"App", "Logon", "Reset"} /\ m.type # "Garbled"
        /\ m.type = "Logon" => m.seq = 1
        /\ m.type \in AskTypes \cup {"App", "Logon"} => Until(m) = m.seq + 1
        /\ m.type = "Reset" => Until(m) = m.ref
        /\ NoneOf("Garbled", u)
    BY FirstFacts DEF Answered
  <1>2. /\ Complete(log, n, r)
        /\ \A x \in Q : x.ref <= n + 1 /\ x.end = 0
    BY DEF Answered
  <1>3. PICK d \in DOMAIN w, t \in n + 2 .. L + 1, f \in n + 2 .. L + 1 :
          /\ f <= t /\ Carried(w, f, L, {})
          /\ \A k \in 1 .. d - 1 : ~w[k].dup /\ Until(w[k]) <= t
          /\ \/ Fills(w[d], n + 1, t)
             \/ /\ w[d].dup /\ w[d].type = "App" /\ w[d].seq = n + 1
                /\ d + 1 \in DOMAIN w /\ Fills(w[d + 1], n + 2, t)
          /\ \A k \in DOMAIN w :
                d < k /\ w[k].dup => \/ w[k].type = "GapFill" /\ w[k].seq <= n + 1
                                     \/ k = d + 1 /\ w[d].type = "App"
    BY DEF Answered
  <1>4. f \in Nat /\ n + 2 <= f /\ t \in Nat /\ t <= L + 1 /\ d \in Nat /\ 1 <= d
    BY SMTT(30), <1>1
  <1>5. d # 1
    BY <1>3 DEF Fills
  <1>6. Until(m) <= t
    <2>1. 1 \in 1 .. d - 1
      BY <1>4, <1>5
    <2> QED  BY <1>3, <2>1
  <1>7. m.seq = f /\ Carried(u, Until(m), L, {})
    BY <1>1, <1>3, <1>4, CarriedFirst
  <1>8. /\ \A k \in DOMAIN u : k + 1 \in DOMAIN w /\ u[k] = w[k + 1] /\ k \in Nat /\ k >= 1
        /\ \A k \in DOMAIN w : k # 1 => k - 1 \in DOMAIN u /\ u[k - 1] = w[k]
    BY TailFacts
  <1>9. /\ m.type = "Reset" => \A i \in Nat : i <= m.seq => Known(q, i)
        /\ Complete(log, n, q)
    BY <1>1, <1>2, KnownStill
  <1>10. \A k \in DOMAIN w : w[k] \in Message /\ Sane(w[k], log) /\ w[k].seq \in Nat
    BY ProperFacts DEF Proper
  <1> DEFINE c == d - 1
  <1>11. c \in DOMAIN u /\ u[c] = w[d] /\ c \in Nat /\ c + 1 = d
    BY <1>4, <1>5, <1>8
  <1>12. \A k \in 1 .. c - 1 : ~u[k].dup /\ Until(u[k]) <= t
    <2> SUFFICES ASSUME NEW k \in 1 .. c - 1 PROVE ~u[k].dup /\ Until(u[k]) <= t
      OBVIOUS
    <2>0. u \in Seq(Message) /\ c <= Len(u)
      BY <1>11
    <2> HIDE DEF u
    <2>1. k \in DOMAIN u
      BY <1>11, <2>0
    <2>2. u[k] = w[k + 1] /\ k + 1 \in 1 .. d - 1
      BY SMTT(30), <1>4, <1>8, <2>1
    <2> QED  BY <1>3, <2>2
  <1> HIDE DEF u, q, m, L, c
  <1>13. m.type # "Logon"
    BY <1>1, <1>4, <1>7
  <1>14. m.type # "App"
    <2> SUFFICES ASSUME m.type = "App" PROVE FALSE
      OBVIOUS
    <2>1. log[f] = "App" /\ f < t
      BY <1>1, <1>4, <1>6, <1>7 DEF Sane
    <2>2. CASE Fills(w[d], n + 1, t)
      <3>1. Bare(log, n + 1, t - 1)
        BY <1>4, <1>10, <2>2, FillsBare
      <3>2. f \in n + 1 .. t - 1
        BY <1>4, <2>1
      <3> QED  BY <2>1, <3>1, <3>2 DEF Bare
    <2>3. CASE d + 1 \in DOMAIN w /\ Fills(w[d + 1], n + 2, t)
      <3>1. Bare(log, n + 2, t - 1)
        BY <1>4, <1>10, <2>3, FillsBare
      <3>2. f \in n + 2 .. t - 1
        BY <1>4, <2>1
      <3> QED  BY <2>1, <3>1, <3>2 DEF Bare
    <2> QED  BY <1>3, <2>2, <2>3
  <1>15. CASE m.type = "Reset"
    <2>1. m.ref > n + 1 /\ n + 1 <= m.seq
      BY <1>1, <1>4, <1>7, <1>15
    <2>2. l = m.ref - 1 /\ R = Q /\ Until(m) = l + 1 /\ n + 1 <= l /\ l \in Int
      BY <1>1, <1>15, <2>1 DEF Hears, m
    <2>3. CASE Fills(w[d], n + 1, t)
      <3>1. Complete(log, l, q)
        BY <1>1, <1>15, <2>2, CompleteReset DEF q
      <3>2. \A x \in R : x.ref <= l /\ x.end = 0
        BY <1>2, <2>2
      <3>3. ASSUME NEW k \in DOMAIN u, u[k].dup
            PROVE  u[k].type = "GapFill" /\ u[k].seq <= l
        <4>1. PICK i \in DOMAIN w : i = k + 1 /\ u[k] = w[i] /\ i \in Nat /\ i >= 1
          BY <1>8
        <4>2. w[i].type = "GapFill" /\ w[i].seq <= n + 1
          <5>1. ~(i \in 1 .. d - 1)
            BY <1>3, <3>3, <4>1
          <5>2. i = d \/ d < i
            BY <1>4, <4>1, <5>1
          <5> QED  BY <1>3, <2>3, <3>3, <4>1, <5>2 DEF Fills
        <4>3. w[i].seq \in Nat
          BY <1>10
        <4> QED  BY <2>2, <4>1, <4>2, <4>3
      <3>4. Closed(u, log, l, q, R)
        BY <1>1, <1>7, <2>2, <3>1, <3>2, <3>3 DEF Closed, L
      <3> QED  BY <3>4 DEF u, q, m
    <2>4. CASE w[d].dup /\ w[d].type = "App" /\ w[d].seq = n + 1
      <3>1. Known(q, n + 1)
        BY <1>9, <1>15, <2>1
      <3>2. Doomed(u, log, q, R)
        BY <1>11, <2>4, <3>1 DEF Doomed
      <3> QED  BY <3>2 DEF u, q, m
    <2> QED  BY <1>3, <2>3, <2>4
  <1>16. CASE m.type \in AskTypes
    <2>1. m.seq > n + 1
      BY <1>4, <1>7
    <2>2. l = n /\ \E y : y.ref = n + 1 /\ y.end = 0 /\ R = Q \cup {y}
      BY <1>16, <2>1 DEF Hears, m
    <2>3. \A x \in R : x.ref <= n + 1 /\ x.end = 0
      BY <1>2, <2>2
    <2>4. Until(m) \in n + 2 .. L + 1 /\ Until(m) <= t
      BY <1>1, <1>4, <1>6, <1>7
    <2>5. \/ Fills(u[c], n + 1, t)
          \/ /\ u[c].dup /\ u[c].type = "App" /\ u[c].seq = n + 1
             /\ c + 1 \in DOMAIN u /\ Fills(u[c + 1], n + 2, t)
      <3>1. CASE d + 1 \in DOMAIN w
        <4>1. d + 1 # 1 /\ d + 1 - 1 = c + 1
          BY <1>4, <1>11
        <4>2. c + 1 \in DOMAIN u /\ u[c + 1] = w[d + 1]
          BY <1>8, <3>1, <4>1
        <4> QED  BY <1>3, <1>11, <4>2
      <3>2. CASE d + 1 \notin DOMAIN w
        BY <1>3, <1>11, <3>2
      <3> QED  BY <3>1, <3>2
    <2>6. ASSUME NEW k \in DOMAIN u, c < k, u[k].dup
          PROVE  \/ u[k].type = "GapFill" /\ u[k].seq <= n + 1
                 \/ k = c + 1 /\ u[c].type = "App"
      <3>1. k + 1 \in DOMAIN w /\ u[k] = w[k + 1] /\ k \in Nat
        BY <1>8
      <3>2. d < k + 1 /\ (k + 1 = d + 1 => k = c + 1)
        BY <1>11, <2>6, <3>1
      <3> QED  BY <1>3, <1>11, <2>6, <3>1, <3>2
    <2>7. Answered(u, log, n, q, R)
      BY <1>1, <1>3, <1>7, <1>9, <1>11, <1>12, <2>3, <2>4, <2>5, <2>6 DEF Answered, L
    <2> QED  BY <2>2, <2>7 DEF u, q, m
  <1> QED  BY <1>1, <1>13, <1>14, <1>15, <1>16

\* ... and closes the gap, or is followed by one that does.
LEMMA AnsweredAgain ==
    ASSUME NEW w \in Seq(Message), NEW log \in Logs, Proper(w, log), w # << >>,
           NEW n \in Nat, NEW l, NEW r \in Seq(Types \X Nat), NEW Q, NEW R,
           \A x \in Q : x.ref \in Int,
           Hears(w[1], n, l, Q, R), Answered(w, log, n, r, Q), w[1].dup
    PROVE  LET u == Tail(w)
               q == Append(r, <<w[1].type, w[1].seq>>)
           IN  Answered(u, log, l, q, R) \/ Closed(u, log, l, q, R)
  <1> DEFINE m == w[1]
             u == Tail(w)
             L == Len(log)
             q == Append(r, <<m.type, m.seq>>)
  <1>1. /\ m \in Message /\ Sane(m, log) /\ 1 \in DOMAIN w
        /\ m.seq \in Nat /\ m.ref \in Int /\ Until(m) \in Int /\ L \in Nat
        /\ m.seq < Until(m) /\ Until(m) <= L + 1 /\ m.seq <= L
        /\ m.type # "Garbled" /\ NoneOf("Garbled", u)
    BY FirstFacts DEF Answered
  <1>2. /\ Complete(log, n, r)
        /\ \A x \in Q : x.ref <= n + 1 /\ x.end = 0
    BY DEF Answered
  <1>3. PICK d \in DOMAIN w, t \in n + 2 .. L + 1, f \in n + 2 .. L + 1 :
          /\ f <= t /\ Carried(w, f, L, {})
          /\ \A k \in 1 .. d - 1 : ~w[k].dup /\ Until(w[k]) <= t
          /\ \/ Fills(w[d], n + 1, t)
             \/ /\ w[d].dup /\ w[d].type = "App" /\ w[d].seq = n + 1
                /\ d + 1 \in DOMAIN w /\ Fills(w[d + 1], n + 2, t)
          /\ \A k \in DOMAIN w :
                d < k /\ w[k].dup => \/ w[k].type = "GapFill" /\ w[k].seq <= n + 1
                                     \/ k = d + 1 /\ w[d].type = "App"
    BY DEF Answered
  <1>4. f \in Nat /\ n + 2 <= f /\ t \in Nat /\ t <= L + 1 /\ d \in Nat /\ 1 <= d /\ n + 2 <= t
    BY <1>1
  <1>5. d = 1
    <2> SUFFICES ASSUME d # 1 PROVE FALSE
      OBVIOUS
    <2>1. 1 \in 1 .. d - 1
      BY <1>4
    <2> QED  BY <1>3, <2>1
  <1>6. \A k \in DOMAIN w : w[k] \in Message /\ Sane(w[k], log) /\ w[k].seq \in Nat
    BY ProperFacts DEF Proper
  <1>7. /\ \A k \in DOMAIN u : k + 1 \in DOMAIN w /\ u[k] = w[k + 1] /\ k \in Nat /\ k >= 1
        /\ \A k \in DOMAIN w : k # 1 => k - 1 \in DOMAIN u /\ u[k - 1] = w[k]
    BY TailFacts
  <1>8. Carried(u, f, L, {})
    BY <1>3, CarriedDup
  <1>9. CASE Fills(m, n + 1, t)
    <2>1. Until(m) = t /\ m.type = "GapFill" /\ m.seq = n + 1 /\ m.ref = t /\ Bare(log, n + 1, t - 1)
      <3>1. n + 1 \in Int
        OBVIOUS
      <3> QED  BY <1>1, <1>4, <1>9, <3>1, FillsBare DEF Fills
    <2>2. l = t - 1 /\ R = Q
      BY <1>1, <2>1 DEF Hears
    <2>3. Carried(u, t, L, {})
      <3>1. Carried(w, t, L, {})
        BY <1>3, <1>4, <2>1, CarriedFrom
      <3> QED  BY <3>1, CarriedDup
    <2>4. Complete(log, t - 1, q)
      BY <1>1, <1>2, <2>1, CompleteNext
    <2>5. n + 1 <= l /\ l + 1 = t /\ l \in Int
      BY <1>4, <2>2
    <2>6. \A x \in R : x.ref <= l /\ x.end = 0
      BY <1>2, <2>2, <2>5
    <2>7. ASSUME NEW k \in DOMAIN u, u[k].dup
          PROVE  u[k].type = "GapFill" /\ u[k].seq <= l
      <3>1. PICK i \in DOMAIN w : i = k + 1 /\ u[k] = w[i] /\ i \in Nat /\ 1 < i
        BY <1>7
      <3>2. w[i].type = "GapFill" /\ w[i].seq <= n + 1 /\ w[i].seq \in Nat
        BY <1>3, <1>5, <1>6, <2>1, <2>7, <3>1
      <3> QED  BY <2>5, <3>1, <3>2
    <2> HIDE DEF u, q, m, L
    <2>8. Closed(u, log, l, q, R)
      BY <1>1, <2>2, <2>3, <2>4, <2>5, <2>6, <2>7 DEF Closed, L
    <2> QED  BY <2>8 DEF u, q, m
  <1>10. CASE m.type = "App" /\ m.seq = n + 1 /\ 2 \in DOMAIN w /\ Fills(w[2], n + 2, t)
    <2>1. l = n + 1 /\ R = Q
      BY <1>10 DEF Hears
    <2>2. 1 \in DOMAIN u /\ u[1] = w[2] /\ u \in Seq(Message) /\ u # << >>
      <3>1. 2 # 1 /\ 2 - 1 = 1
        OBVIOUS
      <3>2. 1 \in DOMAIN u /\ u[1] = w[2]
        BY <1>7, <1>10, <3>1
      <3>3. u \in Seq(Message)
        OBVIOUS
      <3> HIDE DEF u
      <3>4. u # << >>
        BY <3>2
      <3> QED  BY <3>2, <3>3, <3>4
    <2>3. Proper(u, log)
      BY ProperTail
    <2>4. Fills(u[1], l + 1, t)
      <3>1. l + 1 = n + 2
        BY <2>1
      <3> QED  BY <1>10, <2>2, <3>1
    <2>5. n + 2 < t /\ Until(u[1]) = t /\ u[1].dup
      <3>1. n + 2 \in Int
        OBVIOUS
      <3>2. w[2] \in Message /\ Sane(w[2], log)
        BY <1>6, <1>10
      <3>3. n + 2 < t /\ Until(w[2]) = t
        BY <1>4, <1>10, <3>1, <3>2, FillsBare
      <3> QED  BY <2>2, <1>10, <3>3 DEF Fills
    <2>6. Carried(u, t, L, {})
      <3> HIDE DEF u
      <3> QED  BY <1>3, <1>4, <1>8, <2>2, <2>3, <2>5, CarriedFrom
    <2>7. Complete(log, n + 1, q)
      <3>1. Until(m) - 1 = n + 1
        BY <1>10 DEF Until
      <3>2. Complete(log, Until(m) - 1, q)
        BY <1>1, <1>2, <1>10, CompleteNext
      <3> QED  BY <3>1, <3>2
    <2>8. \A x \in R : x.ref <= l + 1 /\ x.end = 0
      <3>1. \A x \in Q : x.ref <= n + 1 + 1
        BY <1>2
      <3> QED  BY <1>2, <2>1, <3>1
    <2>9. t \in l + 2 .. L + 1 /\ t <= t
      BY <1>4, <2>1, <2>5
    <2>10. ASSUME NEW k \in DOMAIN u, 1 < k, u[k].dup
           PROVE  u[k].type = "GapFill" /\ u[k].seq <= l + 1
      <3>1. PICK i \in DOMAIN w : i = k + 1 /\ u[k] = w[i] /\ i \in Nat /\ 2 < i
        BY <1>7, <2>10
      <3>2. w[i].type = "GapFill" /\ w[i].seq <= n + 1 /\ w[i].seq \in Nat
        BY SMTT(30), <1>3, <1>5, <1>6, <2>10, <3>1
      <3> QED  BY <2>1, <3>1, <3>2
    <2>11. \A k \in 1 .. 1 - 1 : ~u[k].dup /\ Until(u[k]) <= t
      OBVIOUS
    <2> HIDE DEF u, q, m, L
    <2>12. Answered(u, log, l, q, R)
      BY <1>1, <2>1, <2>2, <2>4, <2>6, <2>7, <2>8, <2>9, <2>10, <2>11 DEF Answered, L
    <2> QED  BY <2>12 DEF u, q, m
  <1>11. Fills(m, n + 1, t) \/ (m.type = "App" /\ m.seq = n + 1 /\ 2 \in DOMAIN w /\ Fills(w[2], n + 2, t))
    BY <1>3, <1>5
  <1> QED  BY <1>9, <1>10, <1>11

\* An application message that was counted already is sent again, or will be.
LEMMA DoomedRead ==
    ASSUME NEW w \in Seq(Message), NEW log \in Logs, Proper(w, log), w # << >>,
           NEW n \in Nat, NEW l, NEW r \in Seq(Types \X Nat), NEW Q, NEW R,
           Hears(w[1], n, l, Q, R), Doomed(w, log, r, Q),
           ~(w[1].type = "App" /\ Known(r, w[1].seq))
    PROVE  Doomed(Tail(w), log, Append(r, <<w[1].type, w[1].seq>>), R)
  <1> DEFINE m == w[1]
             u == Tail(w)
             q == Append(r, <<m.type, m.seq>>)
  <1>1. /\ 1 \in DOMAIN w /\ m \in Message /\ u \in Seq(Message)
        /\ \A k \in DOMAIN w : k \in Nat /\ 1 <= k /\ k <= Len(w)
        /\ \A k \in DOMAIN w : k # 1 => k - 1 \in DOMAIN u /\ u[k - 1] = w[k]
        /\ \A k \in 1 .. Len(w) : k \in DOMAIN w
        /\ Len(w) \in Nat /\ Len(u) = Len(w) - 1
    BY TailFacts
  <1>2. /\ \A i : Known(r, i) => Known(q, i)
        /\ m.type = "App" => Known(q, m.seq)
    BY <1>1, KnownStill
  <1>3. Q \subseteq R
    BY DEF Hears
  <1> HIDE DEF u, q, m
  <1>4. ASSUME NEW i, NEW k \in 0 .. Len(w), OnWay(w, i, k)
        PROVE  Known(q, i) \/ OnWay(u, i, k - 1)
    <2>1. PICK j \in 1 .. k : w[j].type = "App" /\ w[j].seq = i
      BY <1>4 DEF OnWay
    <2>2. CASE j = 1
      BY <1>2, <2>1, <2>2 DEF m
    <2>3. CASE j # 1
      <3>1. j \in DOMAIN w /\ j - 1 \in 1 .. k - 1
        BY <1>1, <2>3
      <3>2. u[j - 1] = w[j]
        BY <1>1, <2>3, <3>1
      <3> QED  BY <2>1, <3>1, <3>2 DEF OnWay
    <2> QED  BY <2>2, <2>3
  <1>5. ASSUME NEW k \in DOMAIN w, w[k].dup, w[k].type = "App",
               Known(r, w[k].seq) \/ OnWay(w, w[k].seq, k - 1)
        PROVE  Doomed(u, log, q, R)
    <2>1. k # 1
      BY <1>5 DEF OnWay
    <2>2. k - 1 \in DOMAIN u /\ u[k - 1] = w[k] /\ k - 1 \in 0 .. Len(w)
      BY <1>1, <2>1
    <2>3. Known(q, w[k].seq) \/ OnWay(u, w[k].seq, k - 1 - 1)
      BY <1>2, <1>4, <1>5, <2>2
    <2> QED  BY <1>5, <2>2, <2>3 DEF Doomed
  <1>6. ASSUME NEW x \in Q, NEW i \in x.ref .. ResendEnd(log, x.end), log[i] = "App",
               Known(r, i) \/ OnWay(w, i, Len(w))
        PROVE  Doomed(u, log, q, R)
    <2>1. Len(w) \in 0 .. Len(w)
      BY <1>1
    <2>2. Known(q, i) \/ OnWay(u, i, Len(u))
      BY <1>1, <1>2, <1>4, <1>6, <2>1
    <2> QED  BY <1>3, <1>6, <2>2 DEF Doomed
  <1> QED  BY <1>5, <1>6 DEF Doomed, u, q, m

LEMMA WholeRead ==
    ASSUME NEW w \in Seq(Message), NEW log \in Logs, Proper(w, log), w # << >>,
           NEW n \in Nat, NEW l, NEW r \in Seq(Types \X Nat), NEW Q, NEW R,
           Hears(w[1], n, l, Q, R), Whole(w, log, n, r, Q)
    PROVE  Whole(Tail(w), log, l, Append(r, <<w[1].type, w[1].seq>>), R)
  <1>1. Q = {} /\ Fresh(w) /\ Closed(w, log, n, r, Q)
    BY DEF Whole
  <1>2. ~w[1].dup /\ Fresh(Tail(w))
    BY <1>1, FirstFacts
  <1>3. \A x \in Q : x.ref \in Int
    BY <1>1
  <1>4. Closed(Tail(w), log, l, Append(r, <<w[1].type, w[1].seq>>), R) /\ R = Q
    BY <1>1, <1>2, <1>3, ClosedRead
  <1> QED  BY <1>1, <1>2, <1>4 DEF Whole

\* The session reads a message while it is polled.
LEMMA RecoversRead ==
    ASSUME NEW w \in Seq(Message), NEW log \in Logs, Proper(w, log), w # << >>,
           NEW n \in Nat, NEW l, NEW r \in Seq(Types \X Nat), NEW Q, NEW R,
           \A x \in Q : x.ref \in Int, NEW clean \in BOOLEAN,
           Hears(w[1], n, l, Q, R), Recovers(clean, TRUE, w, log, n, r, Q),
           ~(w[1].type = "App" /\ Known(r, w[1].seq))
    PROVE  Recovers(clean, TRUE, Tail(w), log, l, Append(r, <<w[1].type, w[1].seq>>), R)
  <1> DEFINE m == w[1]
             u == Tail(w)
             q == Append(r, <<m.type, m.seq>>)
  <1>1. ASSUME Whole(w, log, n, r, Q) PROVE Whole(u, log, l, q, R)
    BY <1>1, WholeRead
  <1>2. ASSUME Closed(w, log, n, r, Q) PROVE Closed(u, log, l, q, R)
    BY <1>2, ClosedRead
  <1>3. ASSUME Damaged(w, log, n, r, Q)
        PROVE  Damaged(u, log, l, q, R) \/ Unnoticed(u, log, l, q, R)
    BY <1>3, DamagedRead
  <1>4. ASSUME Unnoticed(w, log, n, r, Q)
        PROVE  \/ Unnoticed(u, log, l, q, R) \/ Noticed(u, log, l, q, R)
               \/ Closed(u, log, l, q, R) \/ Doomed(u, log, q, R)
    BY <1>4, UnnoticedRead
  <1>5. ASSUME Noticed(w, log, n, r, Q)
        PROVE  \/ Noticed(u, log, l, q, R)
               \/ Closed(u, log, l, q, R) \/ Doomed(u, log, q, R)
    BY <1>5, NoticedRead
  <1>6. ASSUME Answered(w, log, n, r, Q)
        PROVE  \/ Answered(u, log, l, q, R)
               \/ Closed(u, log, l, q, R) \/ Doomed(u, log, q, R)
    BY <1>6, AnsweredRead, AnsweredAgain
  <1>7. ASSUME Doomed(w, log, r, Q) PROVE Doomed(u, log, q, R)
    BY <1>7, DoomedRead
  <1> HIDE DEF u, q, m
  <1>8. Recovers(clean, TRUE, u, log, l, q, R)
    BY <1>1, <1>2, <1>3, <1>4, <1>5, <1>6, <1>7 DEF Recovers
  <1> QED  BY <1>8 DEF u, q, m

\* The session reads a message before its logon was answered.  Where the answer was garbled
\* there is no other.
LEMMA RecoversLogon ==
    ASSUME NEW w \in Seq(Message), NEW log \in Logs, Proper(w, log), w # << >>,
           NEW n \in Nat, NEW r \in Seq(Types \X Nat), NEW Q,
           \A x \in Q : x.ref \in Int, NEW clean \in BOOLEAN,
           Recovers(clean, FALSE, w, log, n, r, Q)
    PROVE  LET m == w[1]
               u == Tail(w)
               q == Append(r, <<m.type, m.seq>>)
           IN  /\ m.type = "Garbled" => Recovers(clean, FALSE, u, log, n, q, Q)
               /\ m.type \notin {"Garbled", "GapFill"} /\ m.seq # n + 1
                    => \A l, R : Recovers(clean, FALSE, u, log, l, q, R)
               /\ m.type = "Logon" => Recovers(clean, TRUE, u, log, n + 1, q, Q)
  <1> DEFINE m == w[1]
             u == Tail(w)
             q == Append(r, <<m.type, m.seq>>)
  <1>1. /\ m \in Message /\ Sane(m, log) /\ m.seq \in Nat /\ 1 \in DOMAIN w
        /\ m.dup \in BOOLEAN /\ m.type \in Types
    BY FirstFacts, UntilType
  <1>2. Hears(m, n, n, Q, Q) \/ m.type # "Garbled"
    BY DEF Hears, AskTypes
  <1>3. Hears(m, n, n + 1, Q, Q) \/ m.type # "Logon"
    BY DEF Hears, AskTypes
  <1>4. log # << >>
    BY <1>1 DEF Sane
  <1>5. \A k \in DOMAIN u : k + 1 \in DOMAIN w /\ u[k] = w[k + 1]
    BY TailFacts
  <1>6. ASSUME NoneOf("Logon", w)
        PROVE  m.type # "Logon" /\ NoneOf("Logon", u)
    BY <1>1, <1>5, <1>6 DEF NoneOf
  <1>7. ASSUME Closed(w, log, n, r, Q)
        PROVE  /\ m.type # "Garbled"
               /\ m.type \notin {"Garbled", "GapFill"} => m.seq = n + 1
               /\ m.type = "Logon" => Closed(u, log, n + 1, q, Q)
    <2>1. m.type # "Garbled"
      BY <1>1, <1>7 DEF Closed, NoneOf
    <2>2. m.dup => m.type = "GapFill"
      BY <1>1, <1>7 DEF Closed
    <2>3. \A x \in Q : x.ref <= n /\ x.end = 0
      BY <1>7 DEF Closed
    <2>4. ~m.dup => m.seq = n + 1
      <3>1. n + 1 \in Nat /\ Carried(w, n + 1, Len(log), {})
        BY <1>7 DEF Closed
      <3> QED  BY <2>1, <3>1, CarriedFirst
    <2>5. m.type = "Logon" => Closed(u, log, n + 1, q, Q)
      BY <1>3, <1>7, ClosedRead
    <2> QED  BY <1>1, <2>1, <2>2, <2>4, <2>5
  <1>8. ASSUME Damaged(w, log, n, r, Q)
        PROVE  /\ m.seq = n + 1
               /\ m.type = "Garbled" => NoneOf("Logon", u)
               /\ m.type = "Logon" => Damaged(u, log, n + 1, q, Q)
    <2>1. CASE m.type = "Garbled"
      <3>1. m.seq = n + 1 /\ \A k \in DOMAIN u : 1 < u[k].seq
        BY <1>2, <1>8, <2>1, DamagedRead
      <3>2. ASSUME NEW k \in DOMAIN u PROVE u[k].type # "Logon"
        <4>1. Sane(u[k], log) /\ 1 < u[k].seq
          BY <1>5, <3>1 DEF Proper
        <4> QED  BY <4>1 DEF Sane
      <3> QED  BY <2>1, <3>1, <3>2 DEF NoneOf
    <2>2. CASE m.type = "Logon"
      <3>1. Hears(m, n, n + 1, Q, Q)
        BY <1>3, <2>2
      <3>2. m.seq = n + 1 /\ (m.type # "Garbled" => Damaged(u, log, n + 1, q, Q))
        BY <1>8, <3>1, DamagedRead
      <3> QED  BY <2>2, <3>2
    <2>3. CASE m.type \notin {"Garbled", "Logon"}
      <3>1. PICK g \in DOMAIN w, f \in 1 .. Len(log) + 1 :
               /\ w[g].type = "Garbled" /\ w[g].seq < f
               /\ Carried(w, n + 1, Len(log), w[g].seq .. f - 1)
        BY <1>8 DEF Damaged
      <3>2. g # 1 /\ ~w[g].dup /\ ~m.dup
        BY <1>1, <1>8, <2>3, <3>1 DEF Damaged, Fresh
      <3>3. Until(m) <= w[g].seq /\ m.seq < Until(m) /\ Until(m) \in Int /\ w[g].seq \in Nat
        <4>1. 1 \in 1 .. g - 1
          BY <3>2
        <4> QED  BY <3>2, <4>1, FirstFacts, ProperFacts DEF Proper
      <3> DEFINE lost == w[g].seq .. f - 1
      <3>4. (\A i \in lost : m.seq < i) /\ Carried(w, n + 1, Len(log), lost) /\ n + 1 \in Nat
        BY <1>1, <3>1, <3>3
      <3> HIDE DEF lost
      <3>5. m.type # "Garbled" /\ (\A i \in lost : m.seq < i) => m.seq = n + 1
        BY <3>2, <3>4, CarriedHead
      <3> QED  BY <2>3, <3>4, <3>5
    <2> QED  BY <2>1, <2>2, <2>3
  <1>9. ASSUME Whole(w, log, n, r, Q)
        PROVE  /\ m.type # "Garbled"
               /\ m.type \notin {"Garbled", "GapFill"} => m.seq = n + 1
               /\ m.type = "Logon" => Whole(u, log, n + 1, q, Q)
    <2>1. Closed(w, log, n, r, Q)
      BY <1>9 DEF Whole
    <2>2. m.type = "Logon" => Whole(u, log, n + 1, q, Q)
      BY <1>3, <1>9, WholeRead
    <2> QED  BY <1>7, <2>1, <2>2
  <1> HIDE DEF u, q, m
  <1>10. m.type = "Garbled" => Recovers(clean, FALSE, u, log, n, q, Q)
    BY <1>4, <1>6, <1>7, <1>8, <1>9 DEF Recovers
  <1>11. m.type \notin {"Garbled", "GapFill"} /\ m.seq # n + 1
           => \A l, R : Recovers(clean, FALSE, u, log, l, q, R)
    BY <1>4, <1>6, <1>7, <1>8, <1>9 DEF Recovers
  <1>12. m.type = "Logon" => Recovers(clean, TRUE, u, log, n + 1, q, Q)
    BY <1>6, <1>7, <1>8, <1>9 DEF Recovers
  <1> QED  BY <1>10, <1>11, <1>12 DEF u, q, m

-----------------------------------------------------------------------------
(* The peer sends a new message, x.                                        *)

\* Wire v and log l are w and log once x was sent.
Adds(w, log, x, v, l) ==
    /\ x \in Message /\ ~x.dup /\ x.type # "Garbled" /\ (x.type = "Logon" => log = << >>)
    /\ x.seq = Len(log) + 1 /\ Until(x) = Len(l) + 1 /\ Len(log) < Len(l)
    /\ l \in Logs /\ Extends(log, l) /\ v = Append(w, x)

LEMMA AddsFacts ==
    ASSUME NEW w \in Seq(Message), NEW log \in Logs, NEW x, NEW v, NEW l, Adds(w, log, x, v, l)
    PROVE  /\ v \in Seq(Message)
           /\ Len(log) \in Nat /\ Len(l) \in Nat /\ Len(log) < Len(l)
           /\ Len(w) \in Nat /\ Len(v) = Len(w) + 1
           /\ \A i \in Int : 1 <= i /\ i <= Len(log) => l[i] = log[i]
           /\ \A k \in DOMAIN w : /\ k \in DOMAIN v /\ v[k] = w[k] /\ k \in Nat /\ 1 <= k /\ k <= Len(w)
                                  /\ w[k] \in Message
           /\ \A k \in DOMAIN v : v[k] = x \/ (k \in DOMAIN w /\ v[k] = w[k])
           /\ \A k \in DOMAIN v : k \in Nat /\ 1 <= k
           /\ Fresh(w) => Fresh(v)
           /\ NoneOf("Garbled", w) => NoneOf("Garbled", v)
           /\ x \in Message /\ ~x.dup /\ x.type # "Garbled" /\ x.seq = Len(log) + 1 /\ x.seq \in Nat
  <1>1. /\ Len(log) \in Nat /\ DOMAIN log = 1 .. Len(log) /\ Len(l) \in Nat /\ x \in Message
        /\ v = Append(w, x)
    BY DEF Logs, Adds
  <1>2. /\ v \in Seq(Message)
        /\ \A k \in DOMAIN w : /\ k \in DOMAIN v /\ v[k] = w[k] /\ k \in Nat /\ 1 <= k /\ k <= Len(w)
                               /\ w[k] \in Message
        /\ \A k \in DOMAIN v : v[k] = x \/ (k \in DOMAIN w /\ v[k] = w[k])
        /\ \A k \in DOMAIN v : k \in Nat /\ 1 <= k
        /\ Len(w) \in Nat /\ Len(v) = Len(w) + 1
    <2>1. /\ \A k \in DOMAIN w : k \in DOMAIN v /\ v[k] = w[k]
          /\ \A k \in DOMAIN v : v[k] = x \/ (k \in DOMAIN w /\ v[k] = w[k])
      BY <1>1, AppendFacts
    <2>2. v \in Seq(Message) /\ Len(w) \in Nat /\ Len(v) = Len(w) + 1
      BY <1>1
    <2>3. \A k \in DOMAIN w : k \in Nat /\ 1 <= k /\ k <= Len(w) /\ w[k] \in Message
      OBVIOUS
    <2>4. \A k \in DOMAIN v : k \in Nat /\ 1 <= k
      BY <2>2
    <2> QED  BY <2>1, <2>2, <2>3, <2>4
  <1>3. ASSUME NEW i \in Int, 1 <= i, i <= Len(log) PROVE l[i] = log[i]
    <2>1. i \in DOMAIN log
      BY <1>1, <1>3
    <2> QED  BY <2>1 DEF Adds, Extends
  <1>4. ~x.dup /\ x.type # "Garbled" /\ x.seq = Len(log) + 1 /\ Len(log) < Len(l)
    BY DEF Adds
  <1>5. /\ Fresh(w) => Fresh(v)
        /\ NoneOf("Garbled", w) => NoneOf("Garbled", v)
    BY <1>2, <1>4 DEF Fresh, NoneOf
  <1> QED  BY <1>1, <1>2, <1>3, <1>4, <1>5

LEMMA AddsCarried ==
    ASSUME NEW w \in Seq(Message), NEW log \in Logs, NEW x, NEW v, NEW l, Adds(w, log, x, v, l),
           NEW from \in Nat, NEW lost, Carried(w, from, Len(log), lost)
    PROVE  /\ Carried(v, from, Len(l), lost)
           /\ from <= Len(log) + 1
           /\ \A r : \A n \in Nat : n <= Len(log) /\ Complete(log, n, r) => Complete(l, n, r)
           /\ \A i, j \in Nat : 1 <= i /\ j <= Len(log) + 1 /\ Bare(log, i, j - 1) => Bare(l, i, j - 1)
  <1>1. /\ Len(log) \in Nat /\ Len(l) \in Nat /\ Len(log) < Len(l)
        /\ \A i \in Int : 1 <= i /\ i <= Len(log) => l[i] = log[i]
        /\ x \in Message /\ ~x.dup /\ x.type # "Garbled" /\ x.seq = Len(log) + 1
        /\ Until(x) = Len(l) + 1 /\ v = Append(w, x)
    BY AddsFacts DEF Adds
  <1>2. Carried(v, from, Len(l), lost)
    BY <1>1, CarriedAppend
  <1>3. from <= Len(log) + 1
    BY DEF Carried
  <1>4. ASSUME NEW n \in Nat, NEW r, n <= Len(log), Complete(log, n, r) PROVE Complete(l, n, r)
    <2> SUFFICES ASSUME NEW i \in 1 .. n, l[i] = "App" PROVE Known(r, i)
      BY DEF Complete
    <2>1. l[i] = log[i]
      BY SMTT(30), <1>1, <1>4
    <2> QED  BY <1>4, <2>1 DEF Complete
  <1>5. ASSUME NEW i \in Nat, NEW j \in Nat, 1 <= i, j <= Len(log) + 1, Bare(log, i, j - 1)
        PROVE  Bare(l, i, j - 1)
    <2> SUFFICES ASSUME NEW k \in i .. j - 1 PROVE l[k] # "App"
      BY DEF Bare
    <2>1. l[k] = log[k]
      BY <1>1, <1>5
    <2> QED  BY <1>5, <2>1 DEF Bare
  <1> QED  BY <1>2, <1>3, <1>4, <1>5

LEMMA ClosedAdds ==
    ASSUME NEW w \in Seq(Message), NEW log \in Logs, NEW x, NEW v, NEW l, Adds(w, log, x, v, l),
           NEW n \in Nat, NEW r, NEW Q, Closed(w, log, n, r, Q)
    PROVE  Closed(v, l, n, r, Q)
  <1>1. n + 1 \in Nat /\ Carried(w, n + 1, Len(log), {}) /\ Complete(log, n, r) /\ Len(log) \in Nat
    BY AddsFacts DEF Closed
  <1>2. Carried(v, n + 1, Len(l), {}) /\ n + 1 <= Len(log) + 1
    BY <1>1, AddsCarried
  <1>3. Complete(l, n, r)
    <2>1. n <= Len(log)
      BY <1>1, <1>2
    <2> QED  BY <1>1, <2>1, AddsCarried
  <1>4. NoneOf("Garbled", v) /\ ~x.dup /\ \A k \in DOMAIN v : v[k] = x \/ (k \in DOMAIN w /\ v[k] = w[k])
    BY AddsFacts DEF Closed
  <1> QED  BY <1>2, <1>3, <1>4 DEF Closed

LEMMA DamagedAdds ==
    ASSUME NEW w \in Seq(Message), NEW log \in Logs, NEW x, NEW v, NEW l, Adds(w, log, x, v, l),
           Proper(w, log), NEW n \in Nat, NEW r, NEW Q, Damaged(w, log, n, r, Q)
    PROVE  Damaged(v, l, n, r, Q)
  <1>1. PICK g \in DOMAIN w, f \in 1 .. Len(log) + 1 :
          /\ w[g].type = "Garbled" /\ \A k \in DOMAIN w : w[k].type = "Garbled" => k = g
          /\ w[g].seq < f
          /\ \A k \in DOMAIN w : g < k => f <= w[k].seq
          /\ Carried(w, n + 1, Len(log), w[g].seq .. f - 1)
          /\ Bare(log, w[g].seq + 1, f - 1)
    BY DEF Damaged
  <1>2. Q = {} /\ Fresh(w) /\ Complete(log, n, r)
    BY DEF Damaged
  <1>3. /\ Len(log) \in Nat /\ Len(l) \in Nat /\ Len(log) < Len(l) /\ Fresh(v)
        /\ \A k \in DOMAIN v : v[k] = x \/ (k \in DOMAIN w /\ v[k] = w[k])
        /\ g \in DOMAIN v /\ v[g] = w[g]
        /\ x.type # "Garbled" /\ x.seq = Len(log) + 1
    BY <1>2, AddsFacts
  <1>4. w[g].seq \in Nat /\ f \in Nat /\ f <= Len(log) + 1 /\ 1 <= w[g].seq /\ n + 1 \in Nat
    BY <1>3, ProperFacts
  <1> DEFINE lost == w[g].seq .. f - 1
  <1>5. Carried(w, n + 1, Len(log), lost)
    BY <1>1
  <1> HIDE DEF lost
  <1>6. Carried(v, n + 1, Len(l), lost) /\ n + 1 <= Len(log) + 1
    BY <1>4, <1>5, AddsCarried
  <1>7. Complete(l, n, r)
    <2>1. n <= Len(log)
      BY <1>3, <1>6
    <2> QED  BY <1>2, <1>4, <1>5, <2>1, AddsCarried
  <1>8. Bare(l, w[g].seq + 1, f - 1)
    <2>1. w[g].seq + 1 \in Nat /\ 1 <= w[g].seq + 1
      BY <1>4
    <2> QED  BY <1>1, <1>4, <1>5, <2>1, AddsCarried
  <1>9. \A k \in DOMAIN v : v[k].type = "Garbled" => k = g
    BY <1>1, <1>3
  <1>10. \A k \in DOMAIN v : g < k => f <= v[k].seq
    BY <1>1, <1>3, <1>4
  <1>11. f \in 1 .. Len(l) + 1
    BY <1>3, <1>4
  <1>12. Damaged(v, l, n, r, {})
    BY <1>1, <1>3, <1>6, <1>7, <1>8, <1>9, <1>10, <1>11 DEF Damaged, lost
  <1> QED  BY <1>2, <1>12

LEMMA UnnoticedAdds ==
    ASSUME NEW w \in Seq(Message), NEW log \in Logs, NEW x, NEW v, NEW l, Adds(w, log, x, v, l),
           NEW n \in Nat, NEW r, NEW Q, Unnoticed(w, log, n, r, Q)
    PROVE  Unnoticed(v, l, n, r, Q)
  <1>1. PICK f \in n + 2 .. Len(log) + 1 :
          /\ Carried(w, f, Len(log), {})
          /\ \/ Complete(log, n, r) /\ Bare(log, n + 2, f - 1)
             \/ log[f - 1] = "App" /\ Known(r, f - 1)
    BY DEF Unnoticed
  <1>2. /\ Q = {} /\ Fresh(v) /\ NoneOf("Garbled", v)
        /\ r # << >> /\ r[Len(r)][1] \notin AdminTypes
    BY AddsFacts DEF Unnoticed
  <1>3. /\ Len(log) \in Nat /\ Len(l) \in Nat /\ Len(log) < Len(l)
        /\ \A i \in Int : 1 <= i /\ i <= Len(log) => l[i] = log[i]
    BY AddsFacts
  <1>4. f \in Nat /\ f <= Len(log) + 1 /\ n + 2 \in Nat /\ 1 <= n + 2 /\ n <= Len(log)
        /\ f \in n + 2 .. Len(l) + 1
    BY <1>3
  <1>5. l[f - 1] = log[f - 1]
    BY <1>3, <1>4
  <1>6. Carried(v, f, Len(l), {})
    BY <1>1, <1>4, AddsCarried
  <1>7. Complete(log, n, r) /\ Bare(log, n + 2, f - 1) => Complete(l, n, r) /\ Bare(l, n + 2, f - 1)
    BY <1>1, <1>4, AddsCarried
  <1> QED  BY <1>1, <1>2, <1>4, <1>5, <1>6, <1>7 DEF Unnoticed

LEMMA NoticedAdds ==
    ASSUME NEW w \in Seq(Message), NEW log \in Logs, NEW x, NEW v, NEW l, Adds(w, log, x, v, l),
           NEW n \in Nat, NEW r, NEW Q, Noticed(w, log, n, r, Q)
    PROVE  Noticed(v, l, n, r, Q)
  <1>1. PICK f \in n + 3 .. Len(log) + 1 : Carried(w, f, Len(log), {}) /\ Bare(log, n + 2, f - 1)
    BY DEF Noticed
  <1>2. /\ Q # {} /\ Fresh(v) /\ NoneOf("Garbled", v) /\ Complete(log, n, r)
        /\ \A y \in Q : y.ref = n + 1 /\ y.end = 0
    BY AddsFacts DEF Noticed
  <1>3. Len(log) \in Nat /\ Len(l) \in Nat /\ Len(log) < Len(l)
    BY AddsFacts
  <1>4. f \in Nat /\ f <= Len(log) + 1 /\ n + 2 \in Nat /\ 1 <= n + 2 /\ n <= Len(log)
        /\ f \in n + 3 .. Len(l) + 1
    BY <1>3
  <1>5. Carried(v, f, Len(l), {})
    BY <1>1, <1>4, AddsCarried
  <1>6. Complete(l, n, r) /\ Bare(l, n + 2, f - 1)
    BY <1>1, <1>2, <1>4, AddsCarried
  <1> QED  BY <1>2, <1>4, <1>5, <1>6 DEF Noticed

LEMMA AnsweredAdds ==
    ASSUME NEW w \in Seq(Message), NEW log \in Logs, NEW x, NEW v, NEW l, Adds(w, log, x, v, l),
           NEW n \in Nat, NEW r, NEW Q, Answered(w, log, n, r, Q)
    PROVE  Answered(v, l, n, r, Q)
  <1>1. PICK d \in DOMAIN w, t \in n + 2 .. Len(log) + 1, f \in n + 2 .. Len(log) + 1 :
          /\ f <= t /\ Carried(w, f, Len(log), {})
          /\ \A k \in 1 .. d - 1 : ~w[k].dup /\ Until(w[k]) <= t
          /\ \/ Fills(w[d], n + 1, t)
             \/ /\ w[d].dup /\ w[d].type = "App" /\ w[d].seq = n + 1
                /\ d + 1 \in DOMAIN w /\ Fills(w[d + 1], n + 2, t)
          /\ \A k \in DOMAIN w :
                d < k /\ w[k].dup => \/ w[k].type = "GapFill" /\ w[k].seq <= n + 1
                                     \/ k = d + 1 /\ w[d].type = "App"
    BY DEF Answered
  <1>2. /\ NoneOf("Garbled", v) /\ Complete(log, n, r)
        /\ \A y \in Q : y.ref <= n + 1 /\ y.end = 0
    BY AddsFacts DEF Answered
  <1>3. /\ Len(log) \in Nat /\ Len(l) \in Nat /\ Len(log) < Len(l) /\ ~x.dup
        /\ \A k \in DOMAIN w : k \in DOMAIN v /\ v[k] = w[k]
        /\ \A k \in DOMAIN v : v[k] = x \/ (k \in DOMAIN w /\ v[k] = w[k])
        /\ \A k \in 1 .. d - 1 : k \in DOMAIN w
    BY AddsFacts
  <1>4. f \in Nat /\ f <= Len(log) + 1 /\ n <= Len(log)
        /\ f \in n + 2 .. Len(l) + 1 /\ t \in n + 2 .. Len(l) + 1
    BY <1>3
  <1>5. Carried(v, f, Len(l), {})
    BY <1>1, <1>4, AddsCarried
  <1>6. Complete(l, n, r)
    BY <1>1, <1>2, <1>4, AddsCarried
  <1>7. \A k \in 1 .. d - 1 : ~v[k].dup /\ Until(v[k]) <= t
    BY <1>1, <1>3
  <1>8. \/ Fills(v[d], n + 1, t)
        \/ /\ v[d].dup /\ v[d].type = "App" /\ v[d].seq = n + 1
           /\ d + 1 \in DOMAIN v /\ Fills(v[d + 1], n + 2, t)
    BY <1>1, <1>3
  <1>9. \A k \in DOMAIN v :
           d < k /\ v[k].dup => \/ v[k].type = "GapFill" /\ v[k].seq <= n + 1
                                \/ k = d + 1 /\ v[d].type = "App"
    BY <1>1, <1>3
  <1>10. d \in DOMAIN v /\ f <= t
    BY <1>1, <1>3
  <1> QED  BY <1>2, <1>4, <1>5, <1>6, <1>7, <1>8, <1>9, <1>10 DEF Answered

LEMMA DoomedAdds ==
    ASSUME NEW w \in Seq(Message), NEW log \in Logs, NEW x, NEW v, NEW l, Adds(w, log, x, v, l),
           NEW r, NEW Q, \A y \in Q : y.ref \in 1 .. Len(log) /\ y.end \in Nat, Doomed(w, log, r, Q)
    PROVE  Doomed(v, l, r, Q)
  <1>1. /\ Len(log) \in Nat /\ Len(l) \in Nat /\ Len(log) < Len(l)
        /\ \A i \in Int : 1 <= i /\ i <= Len(log) => l[i] = log[i]
        /\ \A k \in DOMAIN w : k \in DOMAIN v /\ v[k] = w[k] /\ k \in Nat /\ 1 <= k
        /\ Len(w) \in Nat /\ Len(v) = Len(w) + 1
    BY AddsFacts
  <1>2. ASSUME NEW i, NEW k \in Nat, NEW j \in Nat, k <= j, k <= Len(w), OnWay(w, i, k) PROVE OnWay(v, i, j)
    <2>1. PICK a \in 1 .. k : w[a].type = "App" /\ w[a].seq = i
      BY <1>2 DEF OnWay
    <2>2. a \in DOMAIN w /\ a \in 1 .. j
      BY <1>1, <1>2
    <2> QED  BY <1>1, <2>1, <2>2 DEF OnWay
  <1>3. ASSUME NEW k \in DOMAIN w, w[k].dup, w[k].type = "App",
               Known(r, w[k].seq) \/ OnWay(w, w[k].seq, k - 1)
        PROVE  Doomed(v, l, r, Q)
    <2>1. k - 1 \in Nat /\ k - 1 <= k - 1 /\ k - 1 <= Len(w)
      BY <1>1
    <2>2. Known(r, w[k].seq) \/ OnWay(v, w[k].seq, k - 1)
      BY <1>2, <1>3, <2>1
    <2> QED  BY <1>1, <1>3, <2>2 DEF Doomed
  <1>4. ASSUME NEW y \in Q, NEW i \in y.ref .. ResendEnd(log, y.end), log[i] = "App",
               Known(r, i) \/ OnWay(w, i, Len(w))
        PROVE  Doomed(v, l, r, Q)
    <2>1. Known(r, i) \/ OnWay(v, i, Len(v))
      BY <1>1, <1>2, <1>4
    <2>2. i \in y.ref .. ResendEnd(l, y.end) /\ l[i] = log[i]
      BY <1>1 DEF ResendEnd
    <2> QED  BY <1>4, <2>1, <2>2 DEF Doomed
  <1> QED  BY <1>3, <1>4 DEF Doomed

LEMMA RecoversAdds ==
    ASSUME NEW w \in Seq(Message), NEW log \in Logs, NEW x, NEW v, NEW l, Adds(w, log, x, v, l),
           Proper(w, log), NEW n \in Nat, NEW r, NEW Q,
           \A y \in Q : y.ref \in 1 .. Len(log) /\ y.end \in Nat,
           NEW clean \in BOOLEAN, NEW on \in BOOLEAN, Recovers(clean, on, w, log, n, r, Q)
    PROVE  Recovers(clean, on, v, l, n, r, Q)
  <1>1. Whole(w, log, n, r, Q) => Whole(v, l, n, r, Q)
    BY AddsFacts, ClosedAdds DEF Whole
  <1>2. Closed(w, log, n, r, Q) => Closed(v, l, n, r, Q)
    BY ClosedAdds
  <1>3. Damaged(w, log, n, r, Q) => Damaged(v, l, n, r, Q)
    BY DamagedAdds
  <1>4. Unnoticed(w, log, n, r, Q) => Unnoticed(v, l, n, r, Q)
    BY UnnoticedAdds
  <1>5. Noticed(w, log, n, r, Q) => Noticed(v, l, n, r, Q)
    BY NoticedAdds
  <1>6. Answered(w, log, n, r, Q) => Answered(v, l, n, r, Q)
    BY AnsweredAdds
  <1>7. Doomed(w, log, r, Q) => Doomed(v, l, r, Q)
    BY DoomedAdds
  <1>8. log # << >> /\ NoneOf("Logon", w) => l # << >> /\ NoneOf("Logon", v)
    <2>1. /\ Len(log) \in Nat /\ Len(log) < Len(l)
          /\ \A k \in DOMAIN v : v[k] = x \/ (k \in DOMAIN w /\ v[k] = w[k])
      BY AddsFacts
    <2>2. l # << >>
      BY <2>1
    <2> QED  BY <2>1, <2>2 DEF NoneOf, Adds
  <1> QED  BY <1>1, <1>2, <1>3, <1>4, <1>5, <1>6, <1>7, <1>8 DEF Recovers

-----------------------------------------------------------------------------
(* What the peer sends again.                                              *)

\* What is sent again for message n, q, is what the recursion says.
Restarts(log, to, g, n, q) ==
    \/ /\ log[n] = "App"
       /\ \E x \in Message : x.dup /\ x.type = "App" /\ x.seq = n /\ q = <<x>> \o g[n + 1]
    \/ \E k \in n + 1 .. to + 1 :
          /\ k = to + 1 \/ log[k] = "App"
          /\ Bare(log, n, k - 1)
          /\ \E x \in Message : Fills(x, n, k) /\ q = <<x>> \o g[k]

LEMMA ResentStep ==
    ASSUME NEW log \in Logs, NEW to \in 0 .. Len(log), NEW n \in 1 .. to, NEW g
    PROVE  Restarts(log, to, g, n, ResentFrom(log, to, g, n))
  <1> DEFINE next == NextApp(log, to, n)
  <1>1. Len(log) \in Nat /\ to \in Nat /\ n \in Nat /\ n # to + 1 /\ n <= to
    BY DEF Logs
  <1>2. /\ next \in n .. to + 1 /\ (next = to + 1 \/ log[next] = "App")
        /\ \A j \in n .. next - 1 : log[j] # "App"
    BY <1>1, NextAppFacts
  <1>3. ASSUME NEW m \in Message
        PROVE  \E x \in Message : /\ x.dup /\ x.type = m.type /\ x.seq = n /\ x.ref = m.ref
                                  /\ Again(m, n) = <<x>>
    <2> DEFINE x == [m EXCEPT !.seq = n, !.dup = TRUE]
    <2>1. x \in Message /\ x.dup /\ x.type = m.type /\ x.seq = n /\ x.ref = m.ref
      BY <1>1 DEF Message
    <2>2. Again(m, n) = <<x>>
      BY DEF Again
    <2> QED  BY <2>1, <2>2
  <1>4. CASE next = n
    <2> DEFINE m == Msg("App", NONE)
    <2>1. ResentFrom(log, to, g, n) = Again(m, n) \o g[n + 1]
      BY SMTT(30), <1>1, <1>2, <1>4 DEF ResentFrom
    <2>2. m \in Message /\ m.type = "App"
      BY NoneType, MsgType DEF Types
    <2> HIDE DEF m
    <2>3. PICK x \in Message : x.dup /\ x.type = "App" /\ x.seq = n /\ Again(m, n) = <<x>>
      BY <1>3, <2>2
    <2>4. log[n] = "App"
      BY <1>1, <1>2, <1>4
    <2> QED  BY <2>1, <2>3, <2>4 DEF Restarts
  <1>5. CASE next # n
    <2> DEFINE m == Msg("GapFill", next)
    <2> HIDE DEF next
    <2>1. ResentFrom(log, to, g, n) = Again(m, n) \o g[next]
      BY <1>1, <1>2, <1>5 DEF ResentFrom, next
    <2>2. next \in n + 1 .. to + 1 /\ next \in Int
      BY <1>1, <1>2, <1>5
    <2>3. m \in Message /\ m.type = "GapFill" /\ m.ref = next
      BY <2>2, MsgType DEF Types, AdminTypes
    <2> HIDE DEF m
    <2>4. PICK x \in Message : /\ x.dup /\ x.type = "GapFill" /\ x.seq = n /\ x.ref = next
                               /\ Again(m, n) = <<x>>
      BY <1>3, <2>3
    <2>5. Fills(x, n, next)
      BY <2>4 DEF Fills
    <2> QED  BY <1>2, <2>1, <2>2, <2>4, <2>5 DEF Bare, Restarts
  <1> QED  BY <1>4, <1>5

\* Messages b are x and then a.
Leads(x, a, b) ==
    /\ 1 \in DOMAIN b /\ b[1] = x
    /\ \A k \in DOMAIN a : k + 1 \in DOMAIN b /\ b[k + 1] = a[k]
    /\ a = << >> => b = <<x>>
    /\ b \in Seq(Message) /\ Len(b) = Len(a) + 1

LEMMA FirstMore ==
    ASSUME NEW x \in Message, NEW a \in Seq(Message)
    PROVE  Leads(x, a, <<x>> \o a)
  <1> DEFINE c == <<x>>
             b == c \o a
  <1>1. c \in Seq(Message) /\ Len(c) = 1 /\ c[1] = x
    OBVIOUS
  <1>2. a = << >> => b = <<x>>
    OBVIOUS
  <1> HIDE DEF c
  <1>3. Len(a) \in Nat
    OBVIOUS
  <1>4. b \in Seq(Message) /\ Len(b) = Len(a) + 1 /\ Len(a) \in Nat
    <2>1. c \o a \in Seq(Message) /\ Len(c \o a) = Len(c) + Len(a)
      BY <1>1, ConcatProperties
    <2> QED  BY <1>1, <1>3, <2>1
  <1>5. 1 \in DOMAIN b /\ b[1] = x
    BY <1>1, <1>4
  <1>6. \A k \in DOMAIN a : k + 1 \in DOMAIN b /\ b[k + 1] = a[k]
    BY <1>1, <1>4
  <1>7. Leads(x, a, b)
    BY <1>2, <1>3, <1>4, <1>5, <1>6 DEF c, Leads
  <1> QED  BY <1>7 DEF c

LEMMA ResentNone ==
    ASSUME NEW log \in Logs, NEW to \in Nat, NEW g
    PROVE  ResentFrom(log, to, g, to + 1) = << >>
  BY DEF ResentFrom

\* Every application message that was asked for is sent again.
LEMMA ResentApps ==
    ASSUME NEW log \in Logs, NEW bgn \in 1 .. Len(log), NEW end \in Nat, end = 0 \/ end >= bgn,
           NEW i \in bgn .. ResendEnd(log, end), log[i] = "App"
    PROVE  \E k \in DOMAIN Resent(log, bgn, end) :
              LET x == Resent(log, bgn, end)[k] IN x.dup /\ x.type = "App" /\ x.seq = i
  <1> DEFINE to == ResendEnd(log, end)
  <1>1. PICK f : /\ Resent(log, bgn, end) = f[bgn]
                 /\ \A n \in bgn .. to + 1 : f[n] = ResentFrom(log, to, f, n) /\ f[n] \in Resends(log)
    BY ResentSolved
  <1>2. to \in bgn .. Len(log) /\ Len(log) \in Nat /\ to \in 0 .. Len(log) /\ bgn \in Nat /\ to \in Nat
    BY DEF ResendEnd, Logs
  <1> HIDE DEF to
  <1> DEFINE Sent(n) == \E k \in DOMAIN f[n] : f[n][k].dup /\ f[n][k].type = "App" /\ f[n][k].seq = i
             Missing == {j \in 0 .. i - bgn : ~Sent(i - j)}
  <1>3. i \in Nat /\ bgn <= i /\ i <= to
    BY <1>2 DEF to
  <1>4. ASSUME NEW j \in Missing, \A h \in Missing : j <= h PROVE FALSE
    <2> DEFINE n == i - j
    <2>1. n \in bgn .. i /\ n \in 1 .. to /\ n \in bgn .. to + 1 /\ j \in Nat
      BY <1>2, <1>3
    <2>2. \A h \in n + 1 .. i : Sent(h)
      <3> SUFFICES ASSUME NEW h \in n + 1 .. i PROVE Sent(h)
        OBVIOUS
      <3>1. i - h \in 0 .. i - bgn /\ ~(j <= i - h) /\ i - (i - h) = h
        BY <1>2, <1>3, <2>1
      <3> HIDE DEF Sent
      <3> QED  BY <1>4, <3>1
    <2>3. ~Sent(n)
      OBVIOUS
    <2> HIDE DEF n
    <2>4. f[n] = ResentFrom(log, to, f, n) /\ \A h \in n + 1 .. to + 1 : f[h] \in Seq(Message)
      <3>1. \A h \in n + 1 .. to + 1 : h \in bgn .. to + 1
        BY <1>2, <2>1
      <3> QED  BY <1>1, <2>1, <3>1 DEF Resends
    <2>5. CASE \E x \in Message : x.dup /\ x.type = "App" /\ x.seq = n /\ f[n] = <<x>> \o f[n + 1]
      <3>1. PICK x \in Message : x.dup /\ x.type = "App" /\ x.seq = n /\ f[n] = <<x>> \o f[n + 1]
        BY <2>5
      <3>2. f[n + 1] \in Seq(Message)
        <4>1. n + 1 \in n + 1 .. to + 1
          BY <1>2, <2>1
        <4> QED  BY <2>4, <4>1
      <3>3. /\ 1 \in DOMAIN f[n] /\ f[n][1] = x
            /\ \A k \in DOMAIN f[n + 1] : k + 1 \in DOMAIN f[n] /\ f[n][k + 1] = f[n + 1][k]
        <4>1. Leads(x, f[n + 1], f[n])
          BY <3>1, <3>2, FirstMore
        <4> QED  BY <4>1 DEF Leads
      <3>4. CASE n = i
        BY <2>3, <3>1, <3>3, <3>4
      <3>5. CASE n # i
        <4>1. n + 1 \in n + 1 .. i
          BY <1>3, <2>1, <3>5
        <4>2. Sent(n + 1)
          BY <2>2, <4>1
        <4> QED  BY <2>3, <3>3, <4>2
      <3> QED  BY <3>4, <3>5
    <2>6. CASE \E h \in n + 1 .. to + 1 : Bare(log, n, h - 1) /\ \E x \in Message : f[n] = <<x>> \o f[h]
      <3>1. PICK h \in n + 1 .. to + 1, x \in Message : Bare(log, n, h - 1) /\ f[n] = <<x>> \o f[h]
        BY <2>6
      <3>2. \A k \in DOMAIN f[h] : k + 1 \in DOMAIN f[n] /\ f[n][k + 1] = f[h][k]
        <4>1. Leads(x, f[h], f[n])
          BY <2>4, <3>1, FirstMore
        <4> QED  BY <4>1 DEF Leads
      <3>3. h \in n + 1 .. i
        <4>1. ~(i \in n .. h - 1)
          BY <3>1 DEF Bare
        <4> QED  BY <1>2, <1>3, <2>1, <4>1
      <3>4. Sent(h)
        BY <2>2, <3>3
      <3> QED  BY <2>3, <3>2, <3>4
    <2>7. Restarts(log, to, f, n, f[n])
      BY <1>2, <2>1, <2>4, ResentStep
    <2> QED  BY <2>5, <2>6, <2>7 DEF Restarts
  <1>5. Missing = {}
    <2> HIDE DEF Sent
    <2>1. Missing \in SUBSET Nat
      BY <1>2, <1>3
    <2> QED  BY <1>4, <2>1, LeastNumber
  <1>6. i - bgn \in 0 .. i - bgn /\ i - (i - bgn) = bgn
    BY <1>2, <1>3
  <1>7. Sent(bgn)
    <2> HIDE DEF Sent
    <2> QED  BY <1>5, <1>6
  <1> QED  BY <1>1, <1>7

\* What has no application message is sent again as one gap fill, ...
LEMMA ResentFill ==
    ASSUME NEW log \in Logs, NEW bgn \in 1 .. Len(log), Bare(log, bgn, Len(log))
    PROVE  \E x \in Message : Fills(x, bgn, Len(log) + 1) /\ Resent(log, bgn, 0) = <<x>>
  <1> DEFINE L == Len(log)
  <1>1. L \in Nat /\ bgn \in Nat /\ bgn <= L /\ 0 \in Nat /\ ResendEnd(log, 0) = L /\ L \in 0 .. Len(log)
        /\ Len(log) \in Nat
    BY DEF Logs, ResendEnd
  <1>2. PICK f : /\ Resent(log, bgn, 0) = f[bgn]
                 /\ \A n \in bgn .. L + 1 : f[n] = ResentFrom(log, L, f, n) /\ f[n] \in Resends(log)
    BY <1>1, ResentSolved
  <1> HIDE DEF L
  <1>3. /\ bgn \in 1 .. L /\ bgn \in bgn .. L /\ bgn \in bgn .. L + 1 /\ L + 1 \in bgn .. L + 1
        /\ \A k \in bgn + 1 .. L + 1 : k = L + 1 \/ k \in bgn .. L
    BY <1>1
  <1>4. log[bgn] # "App" /\ \A k \in bgn + 1 .. L + 1 : k = L + 1 \/ log[k] # "App"
    BY <1>3 DEF Bare, L
  <1>5. PICK x \in Message : Fills(x, bgn, L + 1) /\ f[bgn] = <<x>> \o f[L + 1]
    <2>1. Restarts(log, L, f, bgn, f[bgn])
      BY <1>1, <1>2, <1>3, ResentStep
    <2> QED  BY <1>4, <2>1 DEF Restarts
  <1>6. f[L + 1] = << >>
    <2>1. ResentFrom(log, L, f, L + 1) = << >>
      BY <1>1, ResentNone
    <2> QED  BY <1>2, <1>3, <2>1
  <1>7. f[bgn] = <<x>>
    BY <1>5, <1>6
  <1> QED  BY <1>2, <1>5, <1>7 DEF L

\* ... and after an application message as one gap fill as well.
LEMMA ResentOne ==
    ASSUME NEW log \in Logs, NEW bgn \in 1 .. Len(log) - 1, log[bgn] = "App",
           Bare(log, bgn + 1, Len(log))
    PROVE  \E x \in Message, y \in Message :
              /\ x.dup /\ x.type = "App" /\ x.seq = bgn
              /\ Fills(y, bgn + 1, Len(log) + 1)
              /\ Resent(log, bgn, 0) \in Seq(Message) /\ Len(Resent(log, bgn, 0)) = 2
              /\ Resent(log, bgn, 0)[1] = x /\ Resent(log, bgn, 0)[2] = y
  <1> DEFINE L == Len(log)
  <1>1. /\ L \in Nat /\ bgn \in Nat /\ bgn < L /\ 0 \in Nat /\ ResendEnd(log, 0) = L /\ L \in 0 .. Len(log)
        /\ bgn \in 1 .. Len(log) /\ Len(log) \in Nat
    BY DEF Logs, ResendEnd
  <1>2. PICK f : /\ Resent(log, bgn, 0) = f[bgn]
                 /\ \A n \in bgn .. L + 1 : f[n] = ResentFrom(log, L, f, n) /\ f[n] \in Resends(log)
    BY <1>1, ResentSolved
  <1> HIDE DEF L
  <1>3. /\ bgn \in 1 .. L /\ bgn + 1 \in 1 .. L /\ bgn + 1 \in bgn + 1 .. L /\ bgn \in bgn .. L + 1
        /\ bgn + 1 \in bgn .. L + 1 /\ L + 1 \in bgn .. L + 1 /\ bgn \in Int
        /\ \A k \in bgn + 1 + 1 .. L + 1 : k = L + 1 \/ k \in bgn + 1 .. L
        /\ \A k \in bgn + 1 .. L + 1 : bgn \in bgn .. k - 1
    BY <1>1
  <1>4. /\ log[bgn + 1] # "App"
        /\ \A k \in bgn + 1 + 1 .. L + 1 : k = L + 1 \/ log[k] # "App"
        /\ \A k \in bgn + 1 .. L + 1 : ~Bare(log, bgn, k - 1)
    BY <1>3 DEF Bare, L
  <1>5. PICK x \in Message : x.dup /\ x.type = "App" /\ x.seq = bgn /\ f[bgn] = <<x>> \o f[bgn + 1]
    <2>1. Restarts(log, L, f, bgn, f[bgn])
      BY <1>1, <1>2, <1>3, ResentStep
    <2> QED  BY <1>4, <2>1 DEF Restarts
  <1> DEFINE c == bgn + 1
  <1>6. c \in 1 .. L /\ f[c] = ResentFrom(log, L, f, c)
    BY <1>2, <1>3
  <1>7. log[c] # "App" /\ \A k \in c + 1 .. L + 1 : k = L + 1 \/ log[k] # "App"
    BY <1>4
  <1> HIDE DEF c
  <1>8. PICK y \in Message : Fills(y, c, L + 1) /\ f[c] = <<y>> \o f[L + 1]
    <2>1. Restarts(log, L, f, c, f[c])
      BY <1>1, <1>6, ResentStep
    <2> QED  BY <1>7, <2>1 DEF Restarts
  <1>9. f[L + 1] = << >>
    <2>1. ResentFrom(log, L, f, L + 1) = << >>
      BY <1>1, ResentNone
    <2> QED  BY <1>2, <1>3, <2>1
  <1>10. f[bgn] \in Seq(Message) /\ Len(f[bgn]) = 2 /\ f[bgn][1] = x /\ f[bgn][2] = y
    <2>1. f[c] = <<y>>
      BY <1>8, <1>9
    <2> DEFINE g == <<y>>
               u == f[bgn]
    <2>2. g \in Seq(Message) /\ Len(g) = 1 /\ g[1] = y /\ 1 \in DOMAIN g
      OBVIOUS
    <2>3. u = <<x>> \o g
      BY <1>5, <2>1 DEF c
    <2> HIDE DEF g, u
    <2>4. Leads(x, g, u)
      BY <2>2, <2>3, FirstMore
    <2>5. u[1 + 1] = g[1]
      BY <2>2, <2>4 DEF Leads
    <2>6. u \in Seq(Message) /\ Len(u) = 2 /\ u[1] = x /\ u[2] = y
      BY <2>2, <2>4, <2>5 DEF Leads
    <2> QED  BY <2>6 DEF u
  <1> QED  BY <1>2, <1>5, <1>8, <1>10 DEF L, c

-----------------------------------------------------------------------------
(* The peer answers a resend request, x.                                   *)

\* Q are the requests, R those that are left, and v is wire w once x was answered.
Resolves(w, log, x, v, Q, R) ==
    /\ x \in Q /\ R \subseteq Q /\ Q \subseteq R \cup {x}
    /\ x.ref \in 1 .. Len(log) /\ x.end \in Nat /\ (x.end = 0 \/ x.end >= x.ref)
    /\ v = w \o Resent(log, x.ref, x.end)

LEMMA ConcatFacts ==
    ASSUME NEW w \in Seq(Message), NEW z \in Seq(Message)
    PROVE  LET v == w \o z
           IN  /\ \A k \in DOMAIN w : k \in DOMAIN v /\ v[k] = w[k] /\ k \in Nat /\ 1 <= k /\ k <= Len(w)
               /\ \A k \in DOMAIN v : \/ k \in DOMAIN w /\ v[k] = w[k]
                                      \/ \E j \in DOMAIN z : k = Len(w) + j /\ v[k] = z[j]
               /\ \A j \in DOMAIN z : Len(w) + j \in DOMAIN v /\ v[Len(w) + j] = z[j] /\ j \in Nat /\ 1 <= j
               /\ Len(v) = Len(w) + Len(z) /\ v \in Seq(Message) /\ Len(w) \in Nat /\ Len(z) \in Nat
  <1> DEFINE v == w \o z
  <1>1. /\ Len(w) \in Nat /\ Len(z) \in Nat
        /\ DOMAIN w = 1 .. Len(w) /\ DOMAIN z = 1 .. Len(z)
    OBVIOUS
  <1>2. /\ v \in Seq(Message) /\ Len(v) = Len(w) + Len(z)
        /\ \A i \in 1 .. Len(w) + Len(z) : v[i] = IF i <= Len(w) THEN w[i] ELSE z[i - Len(w)]
    BY ConcatProperties
  <1> HIDE DEF v
  <1>3. DOMAIN v = 1 .. Len(v)
    BY <1>2
  <1>4. \A k \in DOMAIN w : k \in DOMAIN v /\ v[k] = w[k] /\ k \in Nat /\ 1 <= k /\ k <= Len(w)
    BY <1>1, <1>2, <1>3
  <1>5. \A j \in DOMAIN z : Len(w) + j \in DOMAIN v /\ v[Len(w) + j] = z[j] /\ j \in Nat /\ 1 <= j
    BY <1>1, <1>2, <1>3
  <1>6. ASSUME NEW k \in DOMAIN v
        PROVE  \/ k \in DOMAIN w /\ v[k] = w[k]
               \/ \E j \in DOMAIN z : k = Len(w) + j /\ v[k] = z[j]
    <2>1. CASE k <= Len(w)
      BY <1>1, <1>2, <1>3, <2>1
    <2>2. CASE ~(k <= Len(w))
      <3>1. k - Len(w) \in DOMAIN z /\ k = Len(w) + (k - Len(w)) /\ v[k] = z[k - Len(w)]
        BY <1>1, <1>2, <1>3, <2>2
      <3> QED  BY <3>1
    <2> QED  BY <2>1, <2>2
  <1> QED  BY <1>1, <1>2, <1>4, <1>5, <1>6 DEF v

LEMMA ResolvesFacts ==
    ASSUME NEW w \in Seq(Message), NEW log \in Logs, NEW x, NEW v, NEW Q, NEW R,
           Resolves(w, log, x, v, Q, R)
    PROVE  /\ v \in Seq(Message)
           /\ \A k \in DOMAIN w : k \in DOMAIN v /\ v[k] = w[k]
           /\ \A k \in DOMAIN v : \/ k \in DOMAIN w
                                  \/ v[k].dup /\ v[k].type \in {"App", "GapFill"}
           /\ \A type : type \notin {"App", "GapFill"} /\ NoneOf(type, w) => NoneOf(type, v)
           /\ \A from, to, lost : Carried(w, from, to, lost) => Carried(v, from, to, lost)
  <1> DEFINE z == Resent(log, x.ref, x.end)
  <1>1. z \in Resends(log) /\ v = w \o z
    BY ResentFacts DEF Resolves
  <1> HIDE DEF z
  <1>2. z \in Seq(Message) /\ \A k \in DOMAIN z : z[k].dup /\ z[k].type \in {"App", "GapFill"}
    BY <1>1 DEF Resends, ResentFor
  <1> DEFINE c == w \o z
  <1>3. /\ v \in Seq(Message)
        /\ \A k \in DOMAIN w : k \in DOMAIN v /\ v[k] = w[k]
        /\ \A k \in DOMAIN v : \/ k \in DOMAIN w /\ v[k] = w[k]
                               \/ \E j \in DOMAIN z : v[k] = z[j]
    <2>1. /\ c \in Seq(Message)
          /\ \A k \in DOMAIN w : k \in DOMAIN c /\ c[k] = w[k]
          /\ \A k \in DOMAIN c : \/ k \in DOMAIN w /\ c[k] = w[k]
                                 \/ \E j \in DOMAIN z : k = Len(w) + j /\ c[k] = z[j]
      BY <1>2, ConcatFacts
    <2>2. v = c
      BY <1>1
    <2> HIDE DEF c
    <2> QED  BY <2>1, <2>2
  <1> HIDE DEF c
  <1>4. \A k \in DOMAIN v : k \in DOMAIN w \/ (v[k].dup /\ v[k].type \in {"App", "GapFill"})
    BY <1>2, <1>3
  <1>5. \A type : type \notin {"App", "GapFill"} /\ NoneOf(type, w) => NoneOf(type, v)
    BY <1>3, <1>4 DEF NoneOf
  <1>6. \A from, to, lost : Carried(w, from, to, lost) => Carried(v, from, to, lost)
    BY <1>3, <1>4, CarriedAgain
  <1> QED  BY <1>3, <1>4, <1>5, <1>6

LEMMA DoomedAnswers ==
    ASSUME NEW w \in Seq(Message), NEW log \in Logs, NEW x, NEW v, NEW Q, NEW R,
           Resolves(w, log, x, v, Q, R), NEW r, Doomed(w, log, r, Q)
    PROVE  Doomed(v, log, r, R)
  <1> DEFINE z == Resent(log, x.ref, x.end)
  <1>1. z \in Resends(log) /\ v = w \o z
    BY ResentFacts DEF Resolves
  <1>2. \A i \in x.ref .. ResendEnd(log, x.end) : log[i] = "App" =>
           \E k \in DOMAIN z : z[k].dup /\ z[k].type = "App" /\ z[k].seq = i
    BY ResentApps DEF Resolves
  <1> HIDE DEF z
  <1>3. z \in Seq(Message)
    BY <1>1 DEF Resends
  <1>4. /\ \A k \in DOMAIN w : k \in DOMAIN v /\ v[k] = w[k] /\ k \in Nat /\ 1 <= k /\ k <= Len(w)
        /\ \A j \in DOMAIN z : Len(w) + j \in DOMAIN v /\ v[Len(w) + j] = z[j] /\ j \in Nat /\ 1 <= j
        /\ Len(v) = Len(w) + Len(z) /\ Len(w) \in Nat /\ Len(z) \in Nat
    BY <1>1, <1>3, ConcatFacts
  <1>5. ASSUME NEW i, NEW k \in Nat, NEW j \in Nat, k <= j, k <= Len(w), OnWay(w, i, k) PROVE OnWay(v, i, j)
    <2>1. PICK a \in 1 .. k : w[a].type = "App" /\ w[a].seq = i
      BY <1>5 DEF OnWay
    <2>2. a \in DOMAIN w /\ a \in 1 .. j
      BY <1>4, <1>5
    <2> QED  BY <1>4, <2>1, <2>2 DEF OnWay
  <1>6. ASSUME NEW k \in DOMAIN w, w[k].dup, w[k].type = "App",
               Known(r, w[k].seq) \/ OnWay(w, w[k].seq, k - 1)
        PROVE  Doomed(v, log, r, R)
    <2>1. k - 1 \in Nat /\ k - 1 <= k - 1 /\ k - 1 <= Len(w)
      BY <1>4
    <2>2. Known(r, w[k].seq) \/ OnWay(v, w[k].seq, k - 1)
      BY <1>5, <1>6, <2>1
    <2> QED  BY <1>4, <1>6, <2>2 DEF Doomed
  <1>7. ASSUME NEW y \in Q, NEW i \in y.ref .. ResendEnd(log, y.end), log[i] = "App",
               Known(r, i) \/ OnWay(w, i, Len(w))
        PROVE  Doomed(v, log, r, R)
    <2>1. CASE y \in R
      <3>1. Known(r, i) \/ OnWay(v, i, Len(v))
        BY <1>4, <1>5, <1>7
      <3> QED  BY <1>7, <2>1, <3>1 DEF Doomed
    <2>2. CASE y = x
      <3>1. PICK k \in DOMAIN z : z[k].dup /\ z[k].type = "App" /\ z[k].seq = i
        BY <1>2, <1>7, <2>2
      <3> DEFINE a == Len(w) + k
      <3>2. a \in DOMAIN v /\ v[a] = z[k] /\ a - 1 \in Nat /\ Len(w) <= a - 1
        BY <1>4
      <3>3. Known(r, i) \/ OnWay(v, i, a - 1)
        BY <1>4, <1>5, <1>7, <3>2
      <3> QED  BY <3>1, <3>2, <3>3 DEF Doomed
    <2> QED  BY <2>1, <2>2 DEF Resolves
  <1> QED  BY <1>6, <1>7 DEF Doomed

\* Unless an application message that the session counts otherwise is sent again, the answer
\* is a gap fill up to the end.
LEMMA SpareAnswer ==
    ASSUME NEW w \in Seq(Message), NEW log \in Logs, NEW x, NEW v, NEW Q, NEW R,
           Resolves(w, log, x, v, Q, R), x.end = 0, NEW r, ~Doomed(w, log, r, Q),
           \A i \in x.ref .. Len(log) : log[i] = "App" => Known(r, i) \/ OnWay(w, i, Len(w))
    PROVE  \E y \in Message : Fills(y, x.ref, Len(log) + 1) /\ v = Append(w, y)
  <1>1. x \in Q /\ ResendEnd(log, x.end) = Len(log)
    BY DEF Resolves, ResendEnd
  <1>2. Bare(log, x.ref, Len(log))
    BY <1>1 DEF Doomed, Bare
  <1>3. PICK y \in Message : Fills(y, x.ref, Len(log) + 1) /\ Resent(log, x.ref, 0) = <<y>>
    BY <1>2, ResentFill DEF Resolves
  <1>4. v = w \o <<y>>
    BY <1>3 DEF Resolves
  <1>5. v = Append(w, y)
    BY <1>4, AppendIsConcat
  <1> QED  BY <1>3, <1>5

LEMMA ClosedAnswers ==
    ASSUME NEW w \in Seq(Message), NEW log \in Logs, Proper(w, log), NEW x, NEW v, NEW Q, NEW R,
           Resolves(w, log, x, v, Q, R), NEW n \in Nat, NEW r,
           Closed(w, log, n, r, Q), ~Doomed(w, log, r, Q)
    PROVE  Closed(v, log, n, r, R)
  <1> DEFINE L == Len(log)
  <1>1. /\ NoneOf("Garbled", w)
        /\ \A y \in Q : y.ref <= n /\ y.end = 0
        /\ Complete(log, n, r) /\ Carried(w, n + 1, L, {})
        /\ \A k \in DOMAIN w : w[k].dup => w[k].type = "GapFill" /\ w[k].seq <= n
    BY DEF Closed
  <1>2. x \in Q /\ R \subseteq Q /\ x.ref \in 1 .. L /\ x.ref <= n /\ x.end = 0 /\ L \in Nat /\ n + 1 \in Nat
    BY <1>1 DEF Resolves, Logs
  <1>3. ASSUME NEW i \in x.ref .. L, log[i] = "App" PROVE Known(r, i) \/ OnWay(w, i, Len(w))
    <2>1. CASE i <= n
      <3>1. i \in 1 .. n
        BY <1>2, <2>1
      <3> QED  BY <1>1, <1>3, <3>1 DEF Complete
    <2>2. CASE ~(i <= n)
      <3>1. i \in n + 1 .. L
        BY <1>2, <2>2
      <3> QED  BY <1>1, <1>2, <1>3, <3>1, CarriedApp
    <2> QED  BY <2>1, <2>2
  <1>4. PICK y \in Message : Fills(y, x.ref, L + 1) /\ v = Append(w, y)
    BY <1>2, <1>3, SpareAnswer
  <1>5. y.dup /\ y.type = "GapFill" /\ y.seq <= n
    BY <1>2, <1>4 DEF Fills
  <1>6. \A k \in DOMAIN v : v[k] = y \/ (k \in DOMAIN w /\ v[k] = w[k])
    BY <1>4, AppendFacts
  <1>7. NoneOf("Garbled", v) /\ Carried(v, n + 1, L, {})
    BY <1>1, ResolvesFacts
  <1>8. \A k \in DOMAIN v : v[k].dup => v[k].type = "GapFill" /\ v[k].seq <= n
    BY <1>1, <1>5, <1>6
  <1> QED  BY <1>1, <1>2, <1>7, <1>8 DEF Closed

LEMMA AnsweredAnswers ==
    ASSUME NEW w \in Seq(Message), NEW log \in Logs, Proper(w, log), NEW x, NEW v, NEW Q, NEW R,
           Resolves(w, log, x, v, Q, R), NEW n \in Nat, NEW r,
           Answered(w, log, n, r, Q), ~Doomed(w, log, r, Q)
    PROVE  Answered(v, log, n, r, R)
  <1> DEFINE L == Len(log)
  <1>1. /\ NoneOf("Garbled", w)
        /\ \A y \in Q : y.ref <= n + 1 /\ y.end = 0
        /\ Complete(log, n, r)
    BY DEF Answered
  <1>2. x \in Q /\ R \subseteq Q /\ x.ref \in 1 .. L /\ x.ref <= n + 1 /\ x.end = 0 /\ L \in Nat
    BY <1>1 DEF Resolves, Logs
  <1>3. PICK d \in DOMAIN w, t \in n + 2 .. L + 1, f \in n + 2 .. L + 1 :
          /\ f <= t /\ Carried(w, f, L, {})
          /\ \A k \in 1 .. d - 1 : ~w[k].dup /\ Until(w[k]) <= t
          /\ \/ Fills(w[d], n + 1, t)
             \/ /\ w[d].dup /\ w[d].type = "App" /\ w[d].seq = n + 1
                /\ d + 1 \in DOMAIN w /\ Fills(w[d + 1], n + 2, t)
          /\ \A k \in DOMAIN w :
                d < k /\ w[k].dup => \/ w[k].type = "GapFill" /\ w[k].seq <= n + 1
                                     \/ k = d + 1 /\ w[d].type = "App"
    BY DEF Answered
  <1>4. f \in Nat /\ t \in Nat /\ d \in 1 .. Len(w) /\ Len(w) \in Nat /\ n + 1 \in Int /\ n + 2 \in Int
    BY <1>2
  <1>5. \A k \in DOMAIN w : w[k] \in Message /\ Sane(w[k], log)
    BY ProperFacts DEF Proper
  <1>6. ASSUME NEW i \in x.ref .. L, log[i] = "App" PROVE Known(r, i) \/ OnWay(w, i, Len(w))
    <2>1. CASE i <= n
      <3>1. i \in 1 .. n
        BY <1>2, <2>1
      <3> QED  BY <1>1, <1>6, <3>1 DEF Complete
    <2>2. CASE i >= t
      <3>1. i \in f .. L
        BY <1>2, <1>3, <1>4, <2>2
      <3> QED  BY <1>3, <1>4, <1>6, <3>1, CarriedApp
    <2>3. CASE n < i /\ i < t
      <3>1. CASE Fills(w[d], n + 1, t)
        <4>1. Bare(log, n + 1, t - 1)
          BY <1>3, <1>4, <1>5, <3>1, FillsBare
        <4>2. i \in n + 1 .. t - 1
          BY <1>2, <1>4, <2>3
        <4> QED  BY <1>6, <4>1, <4>2 DEF Bare
      <3>2. CASE /\ w[d].type = "App" /\ w[d].seq = n + 1
                 /\ d + 1 \in DOMAIN w /\ Fills(w[d + 1], n + 2, t)
        <4>1. CASE i = n + 1
          BY <1>4, <3>2, <4>1 DEF OnWay
        <4>2. CASE i # n + 1
          <5>1. Bare(log, n + 2, t - 1)
            BY SMTT(30), <1>3, <1>4, <1>5, <3>2, FillsBare
          <5>2. i \in n + 2 .. t - 1
            BY <1>2, <1>4, <2>3, <4>2
          <5> QED  BY <1>6, <5>1, <5>2 DEF Bare
        <4> QED  BY <4>1, <4>2
      <3> QED  BY <1>3, <3>1, <3>2
    <2> QED  BY <1>2, <1>4, <2>1, <2>2, <2>3
  <1>7. PICK y \in Message : Fills(y, x.ref, L + 1) /\ v = Append(w, y)
    BY <1>2, <1>6, SpareAnswer
  <1>8. y.dup /\ y.type = "GapFill" /\ y.seq <= n + 1
    BY <1>2, <1>7 DEF Fills
  <1>9. /\ \A k \in DOMAIN w : k \in DOMAIN v /\ v[k] = w[k]
        /\ \A k \in DOMAIN v : v[k] = y \/ (k \in DOMAIN w /\ v[k] = w[k])
        /\ \A k \in 1 .. d - 1 : k \in DOMAIN w
    <2>1. /\ \A k \in DOMAIN w : k \in DOMAIN v /\ v[k] = w[k]
          /\ \A k \in DOMAIN v : v[k] = y \/ (k \in DOMAIN w /\ v[k] = w[k])
      BY <1>7, AppendFacts
    <2>2. \A k \in 1 .. d - 1 : k \in DOMAIN w
      BY <1>4
    <2> QED  BY <2>1, <2>2
  <1>10. NoneOf("Garbled", v) /\ Carried(v, f, L, {})
    BY <1>1, <1>3, ResolvesFacts
  <1>11. \A k \in 1 .. d - 1 : ~v[k].dup /\ Until(v[k]) <= t
    BY <1>3, <1>9
  <1>12. \/ Fills(v[d], n + 1, t)
         \/ /\ v[d].dup /\ v[d].type = "App" /\ v[d].seq = n + 1
            /\ d + 1 \in DOMAIN v /\ Fills(v[d + 1], n + 2, t)
    BY <1>3, <1>9
  <1>13. \A k \in DOMAIN v :
            d < k /\ v[k].dup => \/ v[k].type = "GapFill" /\ v[k].seq <= n + 1
                                 \/ k = d + 1 /\ v[d].type = "App"
    BY <1>3, <1>8, <1>9
  <1>14. \A b \in R : b.ref <= n + 1 /\ b.end = 0
    BY <1>1, <1>2
  <1>15. d \in DOMAIN v
    BY <1>9
  <1> HIDE DEF L
  <1>16. Answered(v, log, n, r, R)
    BY <1>1, <1>3, <1>10, <1>11, <1>12, <1>13, <1>14, <1>15 DEF Answered, L
  <1> QED  BY <1>16

LEMMA NoticedAnswers ==
    ASSUME NEW w \in Seq(Message), NEW log \in Logs, Proper(w, log), NEW x, NEW v, NEW Q, NEW R,
           Resolves(w, log, x, v, Q, R), NEW n \in Nat, NEW r,
           Noticed(w, log, n, r, Q), ~Doomed(w, log, r, Q)
    PROVE  Answered(v, log, n, r, R)
  <1> DEFINE L == Len(log)
             d == Len(w) + 1
             t == L + 1
  <1>1. /\ Fresh(w) /\ NoneOf("Garbled", w)
        /\ \A y \in Q : y.ref = n + 1 /\ y.end = 0
        /\ Complete(log, n, r)
    BY DEF Noticed
  <1>2. PICK f \in n + 3 .. L + 1 : Carried(w, f, L, {}) /\ Bare(log, n + 2, f - 1)
    BY DEF Noticed
  <1>3. /\ x \in Q /\ R \subseteq Q /\ x.ref = n + 1 /\ x.end = 0 /\ L \in Nat /\ f \in Nat
        /\ n + 1 \in 1 .. L /\ n + 1 \in 1 .. L - 1 /\ Len(w) \in Nat /\ f <= t /\ f <= L + 1
    BY <1>1 DEF Resolves, Logs
  <1>4. ASSUME NEW i \in n + 2 .. L, log[i] = "App" PROVE Known(r, i) \/ OnWay(w, i, Len(w))
    <2>1. ~(i \in n + 2 .. f - 1)
      BY <1>2, <1>4 DEF Bare
    <2>2. i \in f .. L
      BY <1>3, <2>1
    <2> QED  BY <1>2, <1>3, <1>4, <2>2, CarriedApp
  <1>5. Bare(log, n + 2, L)
    <2> SUFFICES ASSUME NEW i \in n + 2 .. L, log[i] = "App" PROVE FALSE
      BY DEF Bare
    <2>1. i \in x.ref .. ResendEnd(log, x.end)
      BY <1>3 DEF ResendEnd
    <2> QED  BY <1>3, <1>4, <2>1 DEF Doomed
  <1>6. NoneOf("Garbled", v) /\ Carried(v, f, L, {})
    BY <1>1, <1>2, ResolvesFacts
  <1>7. \A y \in R : y.ref <= n + 1 /\ y.end = 0
    BY <1>1, <1>3
  <1>8. t \in n + 2 .. L + 1 /\ f \in n + 2 .. L + 1
    BY <1>3
  <1>9. ASSUME NEW z \in Seq(Message), v = w \o z
        PROVE  /\ \A k \in 1 .. d - 1 : ~v[k].dup /\ Until(v[k]) <= t
               /\ \A j \in DOMAIN z : Len(w) + j \in DOMAIN v /\ v[Len(w) + j] = z[j]
               /\ Len(v) = Len(w) + Len(z) /\ DOMAIN v = 1 .. Len(v)
    <2>1. /\ \A k \in DOMAIN w : k \in DOMAIN v /\ v[k] = w[k]
          /\ \A j \in DOMAIN z : Len(w) + j \in DOMAIN v /\ v[Len(w) + j] = z[j]
          /\ Len(v) = Len(w) + Len(z) /\ v \in Seq(Message)
      BY <1>9, ConcatFacts
    <2>2. \A k \in DOMAIN w : ~w[k].dup /\ Until(w[k]) <= t
      BY <1>1, ProperFacts DEF Fresh
    <2>3. \A k \in 1 .. d - 1 : k \in DOMAIN w
      BY <1>3
    <2>4. DOMAIN v = 1 .. Len(v)
      BY <2>1
    <2> QED  BY <2>1, <2>2, <2>3, <2>4
  <1>10. v = w \o Resent(log, n + 1, 0)
    BY <1>3 DEF Resolves
  <1>11. CASE log[n + 1] # "App"
    <2>1. \A i \in n + 1 .. L : i = n + 1 \/ i \in n + 2 .. L
      BY <1>3
    <2>2. Bare(log, n + 1, L)
      BY <1>5, <1>11, <2>1 DEF Bare
    <2>3. PICK y \in Message : Fills(y, n + 1, L + 1) /\ Resent(log, n + 1, 0) = <<y>>
      BY <1>3, <2>2, ResentFill
    <2> DEFINE z == <<y>>
    <2>4. z \in Seq(Message) /\ 1 \in DOMAIN z /\ z[1] = y /\ Len(z) = 1
      OBVIOUS
    <2>5. v = w \o z
      BY <1>10, <2>3
    <2> HIDE DEF z
    <2>6. d \in DOMAIN v /\ v[d] = y /\ (\A k \in 1 .. d - 1 : ~v[k].dup /\ Until(v[k]) <= t)
      BY <1>9, <2>4, <2>5
    <2>7. \A k \in DOMAIN v : ~(d < k)
      <3>1. Len(v) = Len(w) + Len(z) /\ DOMAIN v = 1 .. Len(v)
        BY <1>9, <2>4, <2>5
      <3>2. Len(v) = d
        BY <2>4, <3>1
      <3> QED  BY <1>3, <3>1, <3>2
    <2> HIDE DEF L, d, t
    <2>8. Fills(v[d], n + 1, t)
      BY <2>3, <2>6 DEF t
    <2> QED  BY <1>1, <1>3, <1>6, <1>7, <1>8, <2>6, <2>7, <2>8 DEF Answered, L
  <1>12. CASE log[n + 1] = "App"
    <2>1. n + 1 + 1 = n + 2
      OBVIOUS
    <2>2. PICK p \in Message, y \in Message :
              /\ p.dup /\ p.type = "App" /\ p.seq = n + 1
              /\ Fills(y, n + 2, L + 1)
              /\ Resent(log, n + 1, 0) \in Seq(Message) /\ Len(Resent(log, n + 1, 0)) = 2
              /\ Resent(log, n + 1, 0)[1] = p /\ Resent(log, n + 1, 0)[2] = y
      BY <1>3, <1>5, <1>12, <2>1, ResentOne
    <2> DEFINE z == Resent(log, n + 1, 0)
    <2>3. z \in Seq(Message) /\ 1 \in DOMAIN z /\ 2 \in DOMAIN z /\ z[1] = p /\ z[2] = y /\ Len(z) = 2
      BY <2>2
    <2>4. v = w \o z
      BY <1>10
    <2> HIDE DEF z
    <2>5. /\ d \in DOMAIN v /\ v[d] = p /\ (\A k \in 1 .. d - 1 : ~v[k].dup /\ Until(v[k]) <= t)
          /\ Len(w) + 2 \in DOMAIN v /\ v[Len(w) + 2] = y
      BY <1>9, <2>3, <2>4
    <2>6. d + 1 \in DOMAIN v /\ v[d + 1] = y
      <3>1. d + 1 = Len(w) + 2
        BY <1>3
      <3> QED  BY <2>5, <3>1
    <2>7. \A k \in DOMAIN v : d < k => k = d + 1
      <3>1. Len(v) = Len(w) + Len(z) /\ DOMAIN v = 1 .. Len(v)
        BY <1>9, <2>3, <2>4
      <3>2. Len(v) = d + 1
        BY <1>3, <2>3, <3>1
      <3> QED  BY <1>3, <3>1, <3>2
    <2> HIDE DEF L, d, t
    <2>8. Fills(v[d + 1], n + 2, t)
      BY <2>2, <2>6 DEF t
    <2> QED  BY <1>1, <1>3, <1>6, <1>7, <1>8, <2>2, <2>5, <2>6, <2>7, <2>8 DEF Answered, L
  <1> QED  BY <1>11, <1>12

\* The peer answers a resend request.
LEMMA RecoversAnswers ==
    ASSUME NEW w \in Seq(Message), NEW log \in Logs, Proper(w, log), NEW x, NEW v, NEW Q, NEW R,
           Resolves(w, log, x, v, Q, R), NEW n \in Nat, NEW r,
           NEW clean \in BOOLEAN, NEW on \in BOOLEAN, on \/ n = 0,
           Recovers(clean, on, w, log, n, r, Q)
    PROVE  Recovers(clean, on, v, log, n, r, R)
  <1>1. Q # {}
    BY DEF Resolves
  <1>8. on \/ ~Closed(w, log, n, r, Q)
    <2>1. x \in Q /\ x.ref \in Nat /\ 1 <= x.ref
      BY DEF Resolves, Logs
    <2>2. on \/ ~(x.ref <= n)
      BY <2>1
    <2> QED  BY <2>1, <2>2 DEF Closed
  <1>2. ~Whole(w, log, n, r, Q) /\ ~Damaged(w, log, n, r, Q) /\ ~Unnoticed(w, log, n, r, Q)
    BY <1>1 DEF Whole, Damaged, Unnoticed
  <1>3. Doomed(w, log, r, Q) => Doomed(v, log, r, R)
    BY DoomedAnswers
  <1>4. Closed(w, log, n, r, Q) /\ ~Doomed(w, log, r, Q) => Closed(v, log, n, r, R)
    BY ClosedAnswers
  <1>5. Noticed(w, log, n, r, Q) /\ ~Doomed(w, log, r, Q) => Answered(v, log, n, r, R)
    BY NoticedAnswers
  <1>6. Answered(w, log, n, r, Q) /\ ~Doomed(w, log, r, Q) => Answered(v, log, n, r, R)
    BY AnsweredAnswers
  <1>7. NoneOf("Logon", w) => NoneOf("Logon", v)
    BY ResolvesFacts
  <1> QED  BY <1>2, <1>3, <1>4, <1>5, <1>6, <1>7, <1>8 DEF Recovers

-----------------------------------------------------------------------------
(* What the session sends: the requests among it, and the numbers.         *)

LEMMA PendingAppend ==
    ASSUME NEW v \in Seq(Message), NEW x \in Message
    PROVE  /\ x.type # "ResendRequest" => Pending(Append(v, x)) = Pending(v)
           /\ x.type = "ResendRequest" => Pending(Append(v, x)) = Pending(v) \cup {x}
  <1> DEFINE w == Append(v, x)
  <1>1. /\ \A k \in DOMAIN v : k \in DOMAIN w /\ w[k] = v[k]
        /\ \A k \in DOMAIN w : (k \in DOMAIN v /\ w[k] = v[k]) \/ w[k] = x
        /\ \E k \in DOMAIN w : w[k] = x
    BY AppendFacts
  <1> HIDE DEF w
  <1>2. \A y : y \in Pending(v) <=> \E k \in DOMAIN v : v[k].type = "ResendRequest" /\ y = v[k]
    BY DEF Pending
  <1>3. \A y : y \in Pending(w) <=> \E k \in DOMAIN w : w[k].type = "ResendRequest" /\ y = w[k]
    BY DEF Pending
  <1>4. \A y : y \in Pending(w) <=> y \in Pending(v) \/ (x.type = "ResendRequest" /\ y = x)
    BY <1>1, <1>2, <1>3
  <1> QED  BY <1>4 DEF w

LEMMA PendingTail ==
    ASSUME NEW v \in Seq(Message), v # << >>
    PROVE  /\ Pending(Tail(v)) \subseteq Pending(v) /\ Pending(v) \subseteq Pending(Tail(v)) \cup {v[1]}
           /\ v[1].type = "ResendRequest" => v[1] \in Pending(v)
           /\ v[1].type # "ResendRequest" => Pending(Tail(v)) = Pending(v)
  <1> DEFINE u == Tail(v)
  <1>1. /\ 1 \in DOMAIN v /\ \A k \in DOMAIN u : k + 1 \in DOMAIN v /\ u[k] = v[k + 1]
        /\ \A k \in DOMAIN v : k # 1 => k - 1 \in DOMAIN u /\ u[k - 1] = v[k]
    BY TailFacts
  <1> HIDE DEF u
  <1>2. \A y : y \in Pending(v) <=> \E k \in DOMAIN v : v[k].type = "ResendRequest" /\ y = v[k]
    BY DEF Pending
  <1>3. \A y : y \in Pending(u) <=> \E k \in DOMAIN u : u[k].type = "ResendRequest" /\ y = u[k]
    BY DEF Pending
  <1>4. ASSUME NEW y \in Pending(u) PROVE y \in Pending(v)
    BY <1>1, <1>2, <1>3
  <1>5. ASSUME NEW y \in Pending(v)
        PROVE  y \in Pending(u) \/ (y = v[1] /\ v[1].type = "ResendRequest")
    <2>1. PICK k \in DOMAIN v : v[k].type = "ResendRequest" /\ y = v[k]
      BY <1>2
    <2>2. k # 1 => y \in Pending(u)
      BY <1>1, <1>3, <2>1
    <2> QED  BY <2>1, <2>2
  <1> QED  BY <1>1, <1>2, <1>4, <1>5 DEF u

LEMMA PendingType ==
    ASSUME NEW v \in Seq(Message), NEW n \in Nat, Requests(v, n)
    PROVE  \A x \in Pending(v) : /\ x \in Message /\ x.ref \in 1 .. n /\ x.end \in Nat
                                 /\ x.end = 0 \/ x.end >= x.ref
  <1> SUFFICES ASSUME NEW x \in Pending(v)
               PROVE  /\ x \in Message /\ x.ref \in 1 .. n /\ x.end \in Nat
                      /\ x.end = 0 \/ x.end >= x.ref
    OBVIOUS
  <1>1. PICK k \in DOMAIN v : v[k].type = "ResendRequest" /\ x = v[k]
    BY DEF Pending
  <1>2. x \in Message
    BY <1>1
  <1> QED  BY <1>1, <1>2 DEF Requests, Message

\* Session t has sent, after what session s had, messages that ask for nothing and answer
\* no request.
Chats(s, t) ==
    /\ Pending(t.wire) = Pending(s.wire)
    /\ \A n \in Int : Beyond(s.wire, s.outSeq, n) => Beyond(t.wire, t.outSeq, n)
    /\ \A k \in DOMAIN t.wire :
          t.wire[k].type = "GapFill" => k \in DOMAIN s.wire /\ t.wire[k] = s.wire[k]

LEMMA ChatsTrans ==
    ASSUME NEW s, NEW t, NEW u, Chats(s, t), Chats(t, u)
    PROVE  Chats(s, u)
  BY DEF Chats

LEMMA ChatsSame ==
    ASSUME NEW s, NEW t, t.wire = s.wire, t.outSeq = s.outSeq
    PROVE  Chats(s, t)
  BY DEF Chats

LEMMA BeyondAppend ==
    ASSUME NEW v \in Seq(Message), NEW next \in Nat, NEW x \in Message, NEW n \in Int,
           Beyond(v, next, n)
    PROVE  /\ x.seq = next => Beyond(Append(v, x), next + 1, n)
           /\ x.type = "GapFill" => Beyond(Append(v, x), next, n)
           /\ Beyond(v, next + 1, n)
  <1> DEFINE w == Append(v, x)
  <1>1. \A k \in DOMAIN w : (k \in DOMAIN v /\ w[k] = v[k]) \/ w[k] = x
    BY AppendFacts
  <1> HIDE DEF w
  <1>2. n <= next /\ n <= next + 1
    BY DEF Beyond
  <1>3. x.seq = next => Beyond(w, next + 1, n)
    BY <1>1, <1>2 DEF Beyond
  <1>4. x.type = "GapFill" => Beyond(w, next, n)
    BY <1>1, <1>2 DEF Beyond
  <1> QED  BY <1>2, <1>3, <1>4 DEF w, Beyond

LEMMA ChatsAppend ==
    ASSUME NEW s \in Sessions, NEW t, NEW x \in Message,
           x.type \notin {"GapFill", "ResendRequest"}, x.seq = s.outSeq,
           t.wire = Append(s.wire, x), t.outSeq = s.outSeq + 1
    PROVE  Chats(s, t)
  <1>1. s.wire \in Seq(Message) /\ s.outSeq \in Nat
    BY DEF Sessions
  <1>2. Pending(t.wire) = Pending(s.wire)
    BY <1>1, PendingAppend
  <1>3. \A n \in Int : Beyond(s.wire, s.outSeq, n) => Beyond(t.wire, t.outSeq, n)
    BY <1>1, BeyondAppend
  <1>4. \A k \in DOMAIN t.wire : (k \in DOMAIN s.wire /\ t.wire[k] = s.wire[k]) \/ t.wire[k] = x
    BY <1>1, AppendFacts
  <1> QED  BY <1>2, <1>3, <1>4 DEF Chats

LEMMA ChatsSend ==
    ASSUME NEW s \in Sessions, NEW x \in Message, x.type \notin {"GapFill", "ResendRequest"}
    PROVE  Chats(s, Send(s, x))
  <1> DEFINE y == [x EXCEPT !.seq = s.outSeq]
             t == Send(s, x)
  <1>1. y.type = x.type /\ y.seq = s.outSeq
    BY DEF Message, Sessions
  <1> HIDE DEF y
  <1>2. y \in Message /\ t.wire = Append(s.wire, y) /\ t.outSeq = s.outSeq + 1
    BY SendFacts DEF y
  <1> HIDE DEF t
  <1> QED  BY <1>1, <1>2, ChatsAppend DEF t

LEMMA PolledChats ==
    ASSUME session \in Sessions, clock \in Nat, NEW n \in Nat, Requests(session.wire, n)
    PROVE  Chats(session, Polled)
  <1> DEFINE p == IF Asks(session) THEN TestRequest(session) ELSE session
             x == Msg("Heartbeat", NONE)
             s == IF KeepAliveDue THEN KeptAlive(session) ELSE session
  <1>1. p \in Sessions /\ Chats(session, p)
    <2>1. CASE Asks(session)
      <3> DEFINE t == TestRequest(session)
      <3>1. /\ t \in Sessions /\ t.outSeq = session.outSeq + 1
            /\ \E y \in Message : /\ t.wire = Append(session.wire, y)
                                  /\ y.type = "TestRequest" /\ y.seq = session.outSeq
        BY TestRequestFacts
      <3> HIDE DEF t
      <3>2. PICK y \in Message : /\ t.wire = Append(session.wire, y)
                                 /\ y.type = "TestRequest" /\ y.seq = session.outSeq
        BY <3>1
      <3>3. Chats(session, t)
        BY <3>1, <3>2, ChatsAppend
      <3> QED  BY <2>1, <3>1, <3>3 DEF t
    <2>2. CASE ~Asks(session)
      BY <2>2, ChatsSame
    <2> QED  BY <2>1, <2>2
  <1>2. x \in Message /\ x.type = "Heartbeat"
    BY NoneType, MsgType DEF Types, AdminTypes
  <1>3. KeptAlive(session) = IF Beats(p) THEN Send(p, x) ELSE p
    BY DEF KeptAlive
  <1> HIDE DEF p, x
  <1>4. Send(p, x) \in Sessions /\ Chats(p, Send(p, x))
    BY <1>1, <1>2, SendFacts, ChatsSend
  <1>5. KeptAlive(session) \in Sessions /\ Chats(session, KeptAlive(session))
    BY <1>1, <1>3, <1>4, ChatsTrans
  <1>6. s \in Sessions /\ Chats(session, s)
    BY <1>5, ChatsSame
  <1>7. Polled = [s EXCEPT !.now = clock]
    BY DEF Polled
  <1> HIDE DEF s
  <1>8. Polled.wire = s.wire /\ Polled.outSeq = s.outSeq
    BY <1>6, <1>7 DEF Sessions
  <1>9. Chats(s, Polled)
    BY <1>8, ChatsSame
  <1> QED  BY <1>6, <1>9, ChatsTrans

\* What session t asks, when it has counted as many messages as session s.
LEMMA AsksPending ==
    ASSUME NEW s \in Sessions
    PROVE  LET t == ResendRequest(s, s.inSeq, 0)
           IN  /\ t \in Sessions /\ t.inSeq = s.inSeq
               /\ \E y : y.ref = s.inSeq /\ y.end = 0 /\ Pending(t.wire) = Pending(s.wire) \cup {y}
  <1> DEFINE q == Msg("ResendRequest", s.inSeq)
             x == [q EXCEPT !.end = 0]
             y == [x EXCEPT !.seq = s.outSeq]
  <1>1. q \in Message /\ q.type = "ResendRequest" /\ q.ref = s.inSeq
    <2>1. s.inSeq \in Int
      BY DEF Sessions
    <2> QED  BY <2>1, MsgType DEF Types, AdminTypes
  <1> HIDE DEF q
  <1>2. x \in Message /\ x.type = "ResendRequest" /\ x.ref = s.inSeq /\ x.end = 0
    BY <1>1 DEF Message
  <1> HIDE DEF x
  <1>3. y.type = "ResendRequest" /\ y.ref = s.inSeq /\ y.end = 0
    BY <1>2 DEF Message
  <1> HIDE DEF y
  <1>4. /\ Send(s, x) \in Sessions /\ Send(s, x).inSeq = s.inSeq
        /\ Send(s, x).wire = Append(s.wire, y) /\ y \in Message
    BY <1>2, SendFacts DEF y
  <1>5. s.wire \in Seq(Message)
    BY DEF Sessions
  <1>6. Pending(Append(s.wire, y)) = Pending(s.wire) \cup {y}
    BY <1>3, <1>4, <1>5, PendingAppend
  <1>7. ResendRequest(s, s.inSeq, 0) = Send(s, x)
    BY DEF ResendRequest, x, q
  <1> QED  BY <1>3, <1>4, <1>6, <1>7

\* A message of another number than the next one, in session s that has counted n messages
\* and this one.
LEMMA UnexpectedHears ==
    ASSUME NEW s \in Sessions, NEW m \in Message, NEW n \in Nat, s.inSeq = n + 1,
           m.seq > n + 1
    PROVE  LET t == Unexpected(s, m)
           IN  /\ t.inSeq = n
               /\ \E y : y.ref = n + 1 /\ y.end = 0 /\ Pending(t.wire) = Pending(s.wire) \cup {y}
  <1> DEFINE t == ResendRequest(s, s.inSeq, 0)
  <1>1. /\ t \in Sessions /\ t.inSeq = s.inSeq
        /\ \E y : y.ref = s.inSeq /\ y.end = 0 /\ Pending(t.wire) = Pending(s.wire) \cup {y}
    BY AsksPending
  <1>2. Unexpected(s, m) = [t EXCEPT !.inSeq = @ - 1]
    BY DEF Unexpected
  <1> HIDE DEF t
  <1>3. Unexpected(s, m) = [t EXCEPT !.inSeq = n]
    BY <1>1, <1>2
  <1>4. [t EXCEPT !.inSeq = n].inSeq = n /\ [t EXCEPT !.inSeq = n].wire = t.wire
    BY <1>1, InSeqSet
  <1> QED  BY <1>1, <1>3, <1>4

LEMMA AdminHears ==
    ASSUME NEW s \in Sessions, NEW m \in Message, NEW n \in Nat, s.inSeq = n + 1,
           m.type \in AdminTypes, m.type # "GapFill" => m.seq > n, m.type = "GapFill" => m.dup,
           m.type \in {"GapFill", "Reset"} => m.ref > m.seq
    PROVE  Hears(m, n, Admin(s, m).inSeq, Pending(s.wire), Pending(Admin(s, m).wire))
  <1> DEFINE t == Admin(s, m)
             Q == Pending(s.wire)
  <1>1. /\ m.seq \in Nat /\ m.ref \in Int /\ m.end \in Nat /\ s.inSeq \in Nat /\ s.inSeq - 1 = n
        /\ s.wire \in Seq(Message)
    BY DEF Message, Sessions
  <1>2. CASE m.type \in AskTypes /\ m.seq > n + 1
    <2>1. t = Unexpected(s, m)
      BY <1>1, <1>2 DEF Admin, Expected, AskTypes
    <2>2. /\ Unexpected(s, m).inSeq = n
          /\ \E y : y.ref = n + 1 /\ y.end = 0 /\ Pending(Unexpected(s, m).wire) = Q \cup {y}
      BY <1>2, UnexpectedHears
    <2> HIDE DEF t, Q
    <2>3. t.inSeq = n /\ \E y : y.ref = n + 1 /\ y.end = 0 /\ Pending(t.wire) = Q \cup {y}
      BY <2>1, <2>2
    <2>4. m.seq # n + 1
      BY <1>1, <1>2
    <2>5. Hears(m, n, t.inSeq, Q, Pending(t.wire))
      BY <1>2, <2>3, <2>4 DEF Hears, AskTypes
    <2> QED  BY <2>5 DEF t, Q
  <1>3. CASE m.type \in AskTypes /\ m.seq = n + 1
    <2>1. t.inSeq = n + 1 /\ Pending(t.wire) = Q
      <3>1. Expected(s, m)
        BY <1>3 DEF Expected
      <3>2. CASE m.type = "Heartbeat"
        <4>1. t = OnHeartbeat(s, m)
          BY <3>1, <3>2 DEF Admin
        <4>2. /\ [s EXCEPT !.trPending = FALSE].inSeq = s.inSeq
              /\ [s EXCEPT !.trPending = FALSE].wire = s.wire
          BY DEF Sessions
        <4> QED  BY <4>1, <4>2 DEF OnHeartbeat
      <3>3. CASE m.type = "TestRequest"
        <4> DEFINE x == Msg("Heartbeat", m.ref)
        <4>1. t = Send(s, x)
          BY <3>1, <3>3 DEF Admin
        <4>2. x \in Message /\ x.type = "Heartbeat"
          BY <1>1, MsgType DEF Types, AdminTypes
        <4> HIDE DEF x
        <4>3. Send(s, x).inSeq = s.inSeq /\ Chats(s, Send(s, x))
          BY <4>2, SendFacts, ChatsSend
        <4> QED  BY <4>1, <4>3 DEF Chats
      <3>4. CASE m.type = "ResendRequest"
        <4> DEFINE q == Msg("GapFill", m.end + 1)
                   x == [q EXCEPT !.seq = m.ref]
                   w == Append(s.wire, x)
        <4>1. t = [s EXCEPT !.wire = w, !.tx = s.now]
          BY <3>1, <3>4 DEF Admin, OnResendRequest, SendAs
        <4>2. x.type = "GapFill"
          BY DEF Msg
        <4> HIDE DEF x
        <4>3. /\ \A k \in DOMAIN w : (k \in DOMAIN s.wire /\ w[k] = s.wire[k]) \/ w[k] = x
              /\ \A k \in DOMAIN s.wire : k \in DOMAIN w /\ w[k] = s.wire[k]
          BY <1>1
        <4> HIDE DEF w
        <4>4. t.wire = w /\ t.inSeq = s.inSeq
          BY <4>1 DEF Sessions
        <4>5. \A y : y \in Pending(s.wire) <=> \E k \in DOMAIN s.wire : s.wire[k].type = "ResendRequest" /\ y = s.wire[k]
          BY DEF Pending
        <4>6. \A y : y \in Pending(w) <=> \E k \in DOMAIN w : w[k].type = "ResendRequest" /\ y = w[k]
          BY DEF Pending
        <4>7. \A y : y \in Pending(w) <=> y \in Pending(s.wire)
          BY <4>2, <4>3, <4>5, <4>6
        <4> QED  BY <4>4, <4>7
      <3> QED  BY <1>3, <3>2, <3>3, <3>4 DEF AskTypes
    <2> HIDE DEF t, Q
    <2>2. ~(m.seq > n + 1)
      BY <1>1, <1>3
    <2>3. Hears(m, n, t.inSeq, Q, Pending(t.wire))
      BY <1>3, <2>1, <2>2 DEF Hears, AskTypes
    <2> QED  BY <2>3 DEF t, Q
  <1>4. CASE m.type = "Reset"
    <2>1. m.ref > n + 1 /\ m.ref - 1 \in Nat
      BY <1>1, <1>4
    <2>2. t = [s EXCEPT !.inSeq = m.ref - 1]
      <3>1. t = OnReset(s, m)
        BY <1>4 DEF Admin, Expected
      <3>2. m.ref > s.inSeq /\ ~(m.ref < s.inSeq)
        BY <1>1, <2>1
      <3> QED  BY <3>1, <3>2 DEF OnReset
    <2>3. t.inSeq = m.ref - 1 /\ t.wire = s.wire
      BY <2>1, <2>2, InSeqSet
    <2> HIDE DEF t
    <2> QED  BY <1>4, <2>3 DEF Hears, AskTypes, t
  <1>5. CASE m.type = "GapFill"
    <2>1. t = OnGapFill(s, m)
      BY <1>5 DEF Admin, Expected
    <2>2. m.dup /\ m.ref > m.seq
      BY <1>5
    <2>3. CASE m.seq > n + 1
      <3>1. Q \subseteq Pending(t.wire)
        <4> DEFINE o == ResendRequest(s, s.inSeq, m.seq)
                   q == Msg("ResendRequest", s.inSeq)
                   x == [q EXCEPT !.end = m.seq]
                   y == [x EXCEPT !.seq = s.outSeq]
        <4>1. t = [o EXCEPT !.inSeq = @ - 1]
          BY <1>1, <2>1, <2>3 DEF OnGapFill
        <4>2. q \in Message
          <5>1. s.inSeq \in Int
            BY <1>1
          <5> QED  BY <5>1, MsgType DEF Types, AdminTypes
        <4> HIDE DEF q
        <4>3. x \in Message
          BY <1>1, <4>2 DEF Message
        <4> HIDE DEF x
        <4> HIDE DEF y
        <4>4. Send(s, x) \in Sessions /\ Send(s, x).wire = Append(s.wire, y) /\ y \in Message
          BY <4>3, SendFacts DEF y
        <4>5. o = Send(s, x)
          BY DEF ResendRequest, x, q
        <4> HIDE DEF o
        <4>6. t.wire = Append(s.wire, y)
          BY <4>1, <4>4, <4>5 DEF Sessions
        <4>7. Q \subseteq Pending(Append(s.wire, y))
          BY <1>1, <4>4, PendingAppend
        <4> QED  BY <4>6, <4>7
      <3> HIDE DEF t, Q
      <3>2. ~(m.seq <= n + 1)
        BY <1>1, <2>3
      <3> QED  BY <1>5, <3>1, <3>2 DEF Hears, AskTypes, t, Q
    <2>4. CASE m.seq < n + 1
      <3>1. t = [s EXCEPT !.inSeq = n]
        BY <1>1, <2>1, <2>2, <2>4 DEF OnGapFill, TooLow
      <3>2. t.inSeq = n /\ t.wire = s.wire
        BY <3>1, InSeqSet
      <3> HIDE DEF t
      <3>3. m.seq # n + 1
        BY <1>1, <2>4
      <3> QED  BY <1>5, <3>2, <3>3 DEF Hears, AskTypes, t
    <2>5. CASE m.seq = n + 1
      <3>1. t = [s EXCEPT !.inSeq = m.ref - 1] /\ m.ref - 1 \in Nat
        BY <1>1, <2>1, <2>2, <2>5 DEF OnGapFill
      <3>2. t.inSeq = m.ref - 1 /\ t.wire = s.wire
        BY <3>1, InSeqSet
      <3> HIDE DEF t
      <3> QED  BY <1>5, <2>5, <3>2 DEF Hears, AskTypes, t
    <2> QED  BY <1>1, <2>3, <2>4, <2>5
  <1>6. m.type \in AskTypes => m.seq > n
    BY DEF AskTypes
  <1>7. m.seq > n => m.seq = n + 1 \/ m.seq > n + 1
    BY <1>1
  <1>8. m.type \in AskTypes \cup {"Reset", "GapFill"}
    BY DEF AdminTypes, AskTypes
  <1> QED  BY <1>2, <1>3, <1>4, <1>5, <1>6, <1>7, <1>8

-----------------------------------------------------------------------------
(* A request of the peer is never older than the messages the peer expects *)
(* next, so that it is answered and not passed over.                       *)

LEMMA HandledBeyond ==
    ASSUME NEW s \in Sessions, NEW m, NEW t, Handled(s, m, t)
    PROVE  /\ \A n \in Int : Beyond(s.wire, s.outSeq, n) => Beyond(t.wire, t.outSeq, n)
           /\ \A k \in DOMAIN t.wire :
                 t.wire[k].type = "GapFill" =>
                    \/ k \in DOMAIN s.wire /\ t.wire[k] = s.wire[k]
                    \/ m.type = "ResendRequest" /\ t.wire[k].ref = m.end + 1
  <1>1. s.wire \in Seq(Message) /\ s.outSeq \in Nat
    BY DEF Sessions
  <1>2. CASE t.wire = s.wire /\ t.outSeq = s.outSeq
    BY <1>2
  <1>3. ASSUME NEW x \in Message, t.wire = Append(s.wire, x), Numbered(s, m, x, t)
        PROVE  /\ \A n \in Int : Beyond(s.wire, s.outSeq, n) => Beyond(t.wire, t.outSeq, n)
               /\ \A k \in DOMAIN t.wire :
                     t.wire[k].type = "GapFill" =>
                        \/ k \in DOMAIN s.wire /\ t.wire[k] = s.wire[k]
                        \/ m.type = "ResendRequest" /\ t.wire[k].ref = m.end + 1
    <2>1. \A k \in DOMAIN t.wire : (k \in DOMAIN s.wire /\ t.wire[k] = s.wire[k]) \/ t.wire[k] = x
      BY <1>1, <1>3, AppendFacts
    <2>2. x.type = "GapFill" => m.type = "ResendRequest" /\ x.ref = m.end + 1
      BY <1>3 DEF Numbered
    <2>3. ASSUME NEW n \in Int, Beyond(s.wire, s.outSeq, n) PROVE Beyond(t.wire, t.outSeq, n)
      <3>1. CASE x.type # "GapFill" /\ x.seq = s.outSeq /\ t.outSeq = s.outSeq + 1
        BY <1>1, <1>3, <2>3, <3>1, BeyondAppend
      <3>2. CASE x.type = "GapFill" /\ t.outSeq = s.outSeq
        BY <1>1, <1>3, <2>3, <3>2, BeyondAppend
      <3> QED  BY <1>3, <3>1, <3>2 DEF Numbered
    <2> QED  BY <2>1, <2>2, <2>3
  <1> QED  BY <1>2, <1>3 DEF Handled

\* Every number that Attended is about is one.
LEMMA AttendedTypes ==
    ASSUME TypeInv
    PROVE  /\ session \in Sessions /\ peer.expects \in Int
           /\ \A k \in DOMAIN session.wire : session.wire[k].ref \in Int
           /\ \A k \in DOMAIN peer.wire : peer.wire[k].end + 1 \in Int
  <1>1. /\ session \in Sessions /\ session.wire \in Seq(Message)
        /\ peer.expects \in Int /\ peer.wire \in Seq(Message)
    BY OrderTypes
  <1>2. /\ \A k \in DOMAIN session.wire : session.wire[k] \in Message
        /\ \A k \in DOMAIN peer.wire : peer.wire[k] \in Message
    BY <1>1
  <1> QED  BY <1>1, <1>2 DEF Message

\* The session sends, and may have read a message and answered it.
LEMMA SendsAttended ==
    ASSUME TypeInv, Attended,
           \A n \in Int : Ahead(n) => Beyond(session'.wire, session'.outSeq, n),
           peer'.expects = peer.expects,
           \A k \in DOMAIN session'.wire :
              session'.wire[k].type = "GapFill" =>
                 \/ k \in DOMAIN session.wire /\ session'.wire[k] = session.wire[k]
                 \/ \E j \in DOMAIN peer.wire : /\ peer.wire[j].type = "ResendRequest"
                                                /\ session'.wire[k].ref = peer.wire[j].end + 1,
           \A k \in DOMAIN peer'.wire :
              peer'.wire[k].type = "ResendRequest" =>
                 \E j \in DOMAIN peer.wire : peer'.wire[k] = peer.wire[j]
    PROVE  Attended'
  <1>1. /\ peer.expects \in Int
        /\ \A k \in DOMAIN session.wire : session.wire[k].ref \in Int
        /\ \A k \in DOMAIN peer.wire : peer.wire[k].end + 1 \in Int
    BY AttendedTypes
  <1>2. Beyond(session'.wire, session'.outSeq, peer.expects) /\ Beyond(session'.wire, session'.outSeq, 1)
    BY <1>1 DEF Attended
  <1>3. ASSUME NEW k \in DOMAIN session'.wire, session'.wire[k].type = "GapFill"
        PROVE  Beyond(session'.wire, session'.outSeq, session'.wire[k].ref)
    BY <1>1, <1>3 DEF Attended
  <1>4. ASSUME NEW k \in DOMAIN peer'.wire, peer'.wire[k].type = "ResendRequest"
        PROVE  Beyond(session'.wire, session'.outSeq, peer'.wire[k].end + 1)
    BY <1>1, <1>4 DEF Attended
  <1> QED  BY <1>2, <1>3, <1>4 DEF Attended, Ahead

LEMMA ChatsAttended ==
    ASSUME TypeInv, Attended, Chats(session, session'), peer' = peer
    PROVE  Attended'
  <1>1. \A n \in Int : Ahead(n) => Beyond(session'.wire, session'.outSeq, n)
    BY DEF Chats, Ahead
  <1>2. \A k \in DOMAIN session'.wire :
           session'.wire[k].type = "GapFill" =>
              k \in DOMAIN session.wire /\ session'.wire[k] = session.wire[k]
    BY DEF Chats
  <1> QED  BY <1>1, <1>2, SendsAttended

LEMMA ReadsAttended ==
    ASSUME TypeInv, Attended, Reads, NEW s \in Sessions, Chats(session, s),
           NEW t, t = s \/ Handled(Parsed(s), Incoming, t),
           session'.wire = t.wire, session'.outSeq = t.outSeq
    PROVE  Attended'
  <1> DEFINE S == Parsed(s)
             m == Incoming
  <1>1. peer.wire \in Seq(Message) /\ peer.wire # << >> /\ peer \in Peers
    BY OrderTypes DEF Reads
  <1>2. /\ m = peer.wire[1] /\ 1 \in DOMAIN peer.wire
        /\ \A k \in DOMAIN Tail(peer.wire) :
              k + 1 \in DOMAIN peer.wire /\ Tail(peer.wire)[k] = peer.wire[k + 1]
    BY <1>1, TailFacts DEF Incoming
  <1>3. peer'.wire = Tail(peer.wire) /\ peer'.expects = peer.expects
    BY <1>1 DEF Reads, Peers
  <1> HIDE DEF S, m
  <1>4. /\ \A n \in Int : Beyond(s.wire, s.outSeq, n) => Beyond(t.wire, t.outSeq, n)
        /\ \A k \in DOMAIN t.wire :
              t.wire[k].type = "GapFill" =>
                 \/ k \in DOMAIN s.wire /\ t.wire[k] = s.wire[k]
                 \/ m.type = "ResendRequest" /\ t.wire[k].ref = m.end + 1
    <2>1. CASE t = s
      BY <2>1
    <2>2. CASE Handled(S, m, t)
      <3>1. S \in Sessions /\ S.wire = s.wire /\ S.outSeq = s.outSeq
        BY ParsedFacts DEF S
      <3> QED  BY <2>2, <3>1, HandledBeyond
    <2> QED  BY <2>1, <2>2 DEF S, m
  <1>5. \A n \in Int : Ahead(n) => Beyond(session'.wire, session'.outSeq, n)
    BY <1>4 DEF Chats, Ahead
  <1>6. \A k \in DOMAIN session'.wire :
           session'.wire[k].type = "GapFill" =>
              \/ k \in DOMAIN session.wire /\ session'.wire[k] = session.wire[k]
              \/ \E j \in DOMAIN peer.wire : /\ peer.wire[j].type = "ResendRequest"
                                             /\ session'.wire[k].ref = peer.wire[j].end + 1
    BY <1>2, <1>4 DEF Chats
  <1>7. \A k \in DOMAIN peer'.wire : \E j \in DOMAIN peer.wire : peer'.wire[k] = peer.wire[j]
    BY <1>2, <1>3
  <1> QED  BY <1>3, <1>5, <1>6, <1>7, SendsAttended

\* The peer sends, and no request.
LEMMA FollowsAttended ==
    ASSUME TypeInv, Attended, Follows(peer, peer'), session' = session
    PROVE  Attended'
  <1>1. \A n \in Int : Ahead(n) => Beyond(session'.wire, session'.outSeq, n)
    BY DEF Ahead
  <1>2. /\ peer'.expects = peer.expects
        /\ \A k \in DOMAIN peer'.wire :
              peer'.wire[k].type = "ResendRequest" =>
                 k \in DOMAIN peer.wire /\ peer'.wire[k] = peer.wire[k]
    BY DEF Follows
  <1> QED  BY <1>1, <1>2, SendsAttended

LEMMA PeerReadsAttended ==
    ASSUME TypeInv, OrderInv, Attended, PeerReads PROVE Attended'
  <1> DEFINE m == Head(session.wire)
             v == session'.wire
             o == session.outSeq
             e == peer.expects
  <1>1. /\ session.wire \in Seq(Message) /\ session.wire # << >> /\ peer \in Peers /\ e \in Nat
        /\ session.outSeq \in Nat
    BY OrderTypes DEF PeerReads
  <1>2. /\ m \in Message /\ m = session.wire[1] /\ 1 \in DOMAIN session.wire
        /\ m.type = "ResendRequest" =>
              m.ref \in 1 .. Len(peer.log) /\ (m.end = 0 \/ m.end >= m.ref)
        /\ v = Tail(session.wire) /\ session'.outSeq = o
    BY PeerReadsTail
  <1>3. m.seq \in Nat /\ m.ref \in Int
    BY <1>2 DEF Message
  <1>4. PICK end \in {0, m.seq} : peer' = AfterReading(peer, m, end)
    BY DEF PeerReads
  <1>5. /\ \A k \in DOMAIN v : k + 1 \in DOMAIN session.wire /\ v[k] = session.wire[k + 1]
    BY <1>1, <1>2, TailFacts
  <1>6. /\ m.type = "GapFill" => m.seq <= e
        /\ m.type # "GapFill" => m.seq < o
        /\ m.type # "GapFill" => \A k \in DOMAIN v : v[k].type # "GapFill" => m.seq < v[k].seq
    <2>1. Rising(session.wire, session.outSeq, e, peer.resend # "none")
      BY DEF OrderInv, Ranked
    <2>2. m.type # "GapFill" => \A k \in DOMAIN v : v[k].type # "GapFill" => m.seq < v[k].seq
      BY <1>1, <1>2, <2>1, RisingTail
    <2> QED  BY <1>2, <2>1, <2>2 DEF Rising
  <1> HIDE DEF m, v
  <1>7. \A n \in Int : Ahead(n) => Beyond(v, o, n)
    BY <1>5 DEF Ahead, Beyond
  <1>8. m.type # "GapFill" => Beyond(v, o, m.seq + 1)
    <2> SUFFICES ASSUME m.type # "GapFill" PROVE Beyond(v, o, m.seq + 1)
      OBVIOUS
    <2>1. \A k \in DOMAIN v : v[k].type # "GapFill" => m.seq + 1 <= v[k].seq
      <3> SUFFICES ASSUME NEW k \in DOMAIN v, v[k].type # "GapFill" PROVE m.seq + 1 <= v[k].seq
        OBVIOUS
      <3>1. v[k] \in Message
        BY <1>1, <1>5
      <3>2. v[k].seq \in Nat
        BY <3>1 DEF Message
      <3> QED  BY <1>3, <1>6, <3>2
    <2>2. m.seq + 1 <= o
      BY <1>1, <1>3, <1>6
    <2> QED  BY <2>1, <2>2 DEF Beyond
  <1>9. /\ e \in Int
        /\ \A k \in DOMAIN session.wire : session.wire[k].ref \in Int
        /\ \A k \in DOMAIN peer.wire : peer.wire[k].end + 1 \in Int
    BY AttendedTypes
  <1>10. /\ Beyond(v, o, e) /\ Beyond(v, o, 1)
         /\ m.type = "GapFill" => Beyond(v, o, m.ref)
         /\ \A k \in DOMAIN v : v[k].type = "GapFill" => Beyond(v, o, v[k].ref)
         /\ \A k \in DOMAIN peer.wire :
               peer.wire[k].type = "ResendRequest" => Beyond(v, o, peer.wire[k].end + 1)
    BY <1>2, <1>5, <1>7, <1>9 DEF Attended
  <1>11. ASSUME Beyond(v, o, peer'.expects),
                \A k \in DOMAIN peer'.wire :
                   peer'.wire[k].type = "ResendRequest" =>
                      \/ k \in DOMAIN peer.wire /\ peer'.wire[k] = peer.wire[k]
                      \/ Beyond(v, o, peer'.wire[k].end + 1)
         PROVE  Attended'
    <2>1. \A k \in DOMAIN peer'.wire :
             peer'.wire[k].type = "ResendRequest" => Beyond(v, o, peer'.wire[k].end + 1)
      BY <1>10, <1>11
    <2> QED  BY <1>2, <1>10, <1>11, <2>1 DEF Attended, Ahead, v
  <1>12. CASE Leaves(peer, peer', m)
    BY <1>10, <1>11, <1>12 DEF Leaves
  <1>13. CASE Answers(peer, peer', m)
    <2> DEFINE q == [peer EXCEPT !.expects = peer.expects + 1]
    <2>1. q \in Peers /\ q.expects = e + 1 /\ q.wire = peer.wire /\ q.log = peer.log
      BY <1>1 DEF Peers
    <2>2. m.seq = e /\ m.type # "GapFill" /\ peer' = Reply(q, m)
      BY <1>13 DEF Answers
    <2> HIDE DEF q
    <2>3. Follows(q, peer')
      BY <1>2, <2>1, <2>2, ReplyFollows, ResendFollows
    <2>4. /\ peer'.expects = e + 1
          /\ \A k \in DOMAIN peer'.wire :
                peer'.wire[k].type = "ResendRequest" =>
                   k \in DOMAIN peer.wire /\ peer'.wire[k] = peer.wire[k]
      BY <2>1, <2>3 DEF Follows
    <2>5. Beyond(v, o, peer'.expects)
      BY <1>8, <2>2, <2>4
    <2> QED  BY <1>11, <2>4, <2>5
  <1>14. CASE AsksAgain(peer, peer', m, end)
    <2> DEFINE z == Msg("ResendRequest", e)
               x == [z EXCEPT !.end = end]
               y == [x EXCEPT !.seq = Len(peer.log) + 1]
               q == PeerSend(peer, x)
               r == IF end = 0 THEN "open" ELSE "bounded"
    <2>1. z \in Message /\ z.type = "ResendRequest" /\ z.ref = e
      BY <1>1, MsgType DEF Types, AdminTypes
    <2>2. end \in Nat
      BY <1>3
    <2>3. x \in Message /\ x.type = "ResendRequest" /\ x.ref = e /\ x.end = end
      BY <2>1, <2>2 DEF Message
    <2>4. peer' = [q EXCEPT !.resend = r] /\ m.seq > e
      BY <1>14 DEF AsksAgain
    <2> HIDE DEF x
    <2>5. /\ q.expects = e /\ y \in Message /\ y.end = end /\ q.wire = Append(peer.wire, y)
          /\ peer.wire \in Seq(Message)
      BY <1>1, <2>3, PeerSendFields
    <2> HIDE DEF y, r
    <2>6. Sound(peer) /\ Answerable(x)
      BY <1>1, <2>3 DEF TypeInv, Answerable
    <2>7. q \in Peers
      BY <1>1, <2>3, <2>6, PeerSendFacts DEF Continues
    <2> HIDE DEF q
    <2>8. peer'.expects = e /\ peer'.wire = Append(peer.wire, y)
      BY <2>4, <2>5, <2>7 DEF Peers
    <2>9. \A k \in DOMAIN peer'.wire :
             (k \in DOMAIN peer.wire /\ peer'.wire[k] = peer.wire[k]) \/ peer'.wire[k] = y
      BY <2>5, <2>8, AppendFacts
    <2>10. Beyond(v, o, end + 1)
      <3>1. CASE end = 0
        BY <1>10, <3>1
      <3>2. CASE end = m.seq
        <4>1. m.type # "GapFill"
          BY <1>1, <1>3, <1>6, <2>4
        <4> QED  BY <1>8, <3>2, <4>1
      <3> QED  BY <3>1, <3>2
    <2> QED  BY <1>10, <1>11, <2>5, <2>8, <2>9, <2>10
  <1>15. CASE SkipsGap(peer, peer', m)
    <2>1. m.type = "GapFill" /\ peer' = [peer EXCEPT !.expects = m.ref, !.resend = "none"]
      BY <1>15 DEF SkipsGap
    <2>2. peer'.expects = m.ref /\ peer'.wire = peer.wire
      BY <1>1, <2>1 DEF Peers
    <2> QED  BY <1>10, <1>11, <2>1, <2>2
  <1>16. CASE SendsAgain(peer, peer', m)
    <2>1. Follows(peer, peer')
      BY <1>1, <1>2, <1>16, ResendFollows DEF SendsAgain
    <2>2. /\ peer'.expects = e
          /\ \A k \in DOMAIN peer'.wire :
                peer'.wire[k].type = "ResendRequest" =>
                   k \in DOMAIN peer.wire /\ peer'.wire[k] = peer.wire[k]
      BY <2>1 DEF Follows
    <2> QED  BY <1>10, <1>11, <2>2
  <1> QED  BY <1>1, <1>2, <1>4, <1>12, <1>13, <1>14, <1>15, <1>16, ReadingCases

LEMMA InitiateAttended ==
    ASSUME TypeInv, OrderInv, Initiate PROVE Attended'
  <1> DEFINE s == NewSession
             z == Msg("Logon", NONE)
             x == [z EXCEPT !.seq = s.outSeq]
             t == Send(s, z)
  <1>1. s \in Sessions /\ s.wire = << >> /\ s.outSeq = 1
    BY OrderTypes, NewSessionFacts
  <1>2. z \in Message /\ z.type = "Logon"
    BY NoneType, MsgType DEF Types
  <1>3. x.type = "Logon" /\ x.seq = 1
    BY <1>1, <1>2 DEF Message
  <1>4. session' = [t EXCEPT !.active = TRUE]
    BY DEF Initiate
  <1> HIDE DEF s, z, x
  <1>5. t \in Sessions /\ t.wire = Append(s.wire, x) /\ t.outSeq = s.outSeq + 1
    BY <1>1, <1>2, SendFacts DEF x
  <1> HIDE DEF t
  <1>6. session'.wire = <<x>> /\ session'.outSeq = 2
    BY <1>1, <1>4, <1>5 DEF Sessions
  <1>7. peer.wire = << >> /\ peer.expects = 1 /\ peer' = peer
    BY DEF OrderInv, Bounded, Untouched, Initiate
  <1>8. DOMAIN <<x>> = 1 .. 1 /\ <<x>>[1] = x
    OBVIOUS
  <1>9. Beyond(<<x>>, 2, 1)
    BY <1>3, <1>8 DEF Beyond
  <1> QED  BY <1>3, <1>6, <1>7, <1>8, <1>9 DEF Attended, Ahead

LEMMA AttendedInit ==
    ASSUME Init PROVE Attended
  <1>1. session.wire = << >> /\ session.outSeq = 1 /\ peer.wire = << >> /\ peer.expects = 1
    BY NewSessionFacts DEF Init
  <1> QED  BY <1>1 DEF Attended, Ahead, Beyond

LEMMA SendAppChats ==
    ASSUME TypeInv, SendApp
    PROVE  /\ Chats(session, session') /\ session'.lost = session.lost
           /\ session'.inSeq = session.inSeq /\ session'.active = session.active
  <1> DEFINE x == Msg("App", NONE)
             t == Send(session, x)
  <1>1. session \in Sessions /\ session.outSeq \in Nat
    BY OrderTypes
  <1>2. x \in Message /\ x.type = "App"
    BY NoneType, MsgType DEF Types
  <1>3. session' = t
    BY DEF SendApp
  <1> HIDE DEF x
  <1>4. /\ Chats(session, t) /\ t.lost = session.lost
        /\ t.inSeq = session.inSeq /\ t.active = session.active
    BY <1>1, <1>2, SendFacts, ChatsSend
  <1> QED  BY <1>3, <1>4

LEMMA SendFailsAttended ==
    ASSUME TypeInv, Attended, SendFails PROVE Attended'
  <1>1. peer' = peer /\ session'.outSeq = session.outSeq
    BY SendFailsFacts DEF SendFails
  <1>2. PICK k \in DOMAIN session.wire : Thinned(session.wire, k, session'.wire)
    BY SendFailsFacts
  <1>3. \A j \in DOMAIN session'.wire :
           \E i \in DOMAIN session.wire : session'.wire[j] = session.wire[i]
    BY <1>2 DEF Thinned
  <1>4. \A n : Ahead(n) => Beyond(session'.wire, session'.outSeq, n)
    BY <1>1, <1>3 DEF Ahead, Beyond
  <1> QED  BY <1>1, <1>3, <1>4 DEF Attended, Ahead

LEMMA AttendedStep ==
    ASSUME TypeInv, OrderInv, Attended, [Next]_vars PROVE Attended'
  <1>1. /\ session \in Sessions /\ peer \in Peers /\ clock \in Nat /\ Len(peer.log) \in Nat
        /\ Requests(session.wire, Len(peer.log)) /\ Chats(session, session)
    BY OrderTypes, ChatsSame
  <1>2. ASSUME session'.wire = session.wire, session'.outSeq = session.outSeq, peer' = peer
        PROVE  Attended'
    BY <1>2, ChatsSame, ChatsAttended
  <1>3. CASE UNCHANGED vars
    BY <1>2, <1>3 DEF vars
  <1>4. CASE Initiate
    BY <1>4, InitiateAttended
  <1>5. CASE LogonMessage
    <2>1. Reads /\ (session' = session \/ Handled(Parsed(session), Incoming, session'))
      BY <1>5, LogonMessageFacts DEF LogonMessage
    <2> QED  BY <1>1, <2>1, ReadsAttended
  <1>6. CASE PollMessage
    <2>1. Reads /\ (session' = Polled \/ Handled(Parsed(Polled), Incoming, session'))
      BY <1>6, PollMessageFacts DEF PollMessage
    <2>2. Polled \in Sessions /\ Chats(session, Polled)
      BY <1>1, PolledFacts, PolledChats
    <2> QED  BY <2>1, <2>2, ReadsAttended
  <1>7. CASE PollNothing
    <2>1. session' = Polled /\ peer' = peer
      BY <1>7 DEF PollNothing
    <2> QED  BY <1>1, <2>1, PolledChats, ChatsAttended
  <1>8. CASE KeepAliveFails
    <2>1. session'.wire = session.wire /\ session'.outSeq = session.outSeq /\ peer' = peer
      BY <1>1, <1>8 DEF KeepAliveFails, Sessions
    <2> QED  BY <1>2, <2>1
  <1>9. CASE PollInactive \/ HandlerReturns \/ Tick \/ Ended
    BY <1>2, <1>9 DEF PollInactive, HandlerReturns, Tick, Ended, vars
  <1>10. CASE SendApp
    BY <1>10, SendAppChats, ChatsAttended DEF SendApp
  <1>18. CASE SendFails
    BY <1>18, SendFailsAttended
  <1>11. CASE GraceOver
    <2>1. session.grace # << >> /\ session' = EndGrace(session) /\ peer' = peer
      BY <1>11 DEF GraceOver, InGrace
    <2>2. session'.wire = session.wire /\ session'.outSeq = session.outSeq
      BY <1>1, <2>1, EndGraceFacts
    <2> QED  BY <1>2, <2>1, <2>2
  <1>12. CASE GraceMessage
    <2>1. PICK t : /\ t = session \/ Handled(Parsed(session), Incoming, t)
                   /\ session' = t \/ (t.grace # << >> /\ session' = EndGrace(t))
      BY <1>12, GraceMessageFacts
    <2>2. t \in Sessions /\ Reads
      BY <1>1, <1>12, <2>1 DEF Handled, GraceMessage
    <2>3. session'.wire = t.wire /\ session'.outSeq = t.outSeq
      BY <2>1, <2>2, EndGraceFacts
    <2> QED  BY <1>1, <2>1, <2>2, <2>3, ReadsAttended
  <1>13. CASE Terminate
    <2>1. session'.wire = << >> /\ session'.outSeq = session.outSeq
      BY <1>1, <1>13 DEF Terminate, Sessions
    <2>2. peer'.wire = << >> /\ peer'.expects = peer.expects
      BY <1>1, <1>13 DEF Terminate, Peers
    <2> QED  BY <2>1, <2>2 DEF Attended, Ahead, Beyond
  <1>14. CASE PeerReads
    BY <1>14, PeerReadsAttended
  <1>15. CASE PeerDies
    <2>1. /\ session' = session /\ peer'.wire = peer.wire
          /\ peer'.expects = peer.expects /\ peer'.resend = peer.resend
      BY <1>1, <1>15 DEF PeerDies, Peers
    <2>2. Follows(peer, peer')
      BY <2>1 DEF Follows
    <2> QED  BY <2>1, <2>2, FollowsAttended
  <1>16. CASE Garble
    <2>1. PICK k \in DOMAIN peer.wire : peer' = [peer EXCEPT !.wire[k].type = "Garbled"]
      BY <1>16 DEF Garble
    <2> DEFINE w == [peer.wire EXCEPT ![k].type = "Garbled"]
    <2>2. peer' = [peer EXCEPT !.wire = w]
      BY <1>1, <2>1 DEF Peers
    <2>3. \A j \in DOMAIN w : j \in DOMAIN peer.wire /\ (w[j] = peer.wire[j] \/ w[j].type = "Garbled")
      <3>1. peer.wire \in Seq(Message)
        BY OrderTypes
      <3>2. \A j \in DOMAIN peer.wire : peer.wire[j] \in Message
        BY <3>1
      <3> QED  BY <3>1, <3>2 DEF Message
    <2> HIDE DEF w
    <2>4. peer'.wire = w /\ peer'.expects = peer.expects
      BY <1>1, <2>2 DEF Peers
    <2>5. session' = session
      BY <1>16 DEF Garble
    <2>6. \A n \in Int : Ahead(n) => Beyond(session'.wire, session'.outSeq, n)
      BY <2>5 DEF Ahead
    <2> QED  BY <2>3, <2>4, <2>5, <2>6, SendsAttended
  <1>17. ASSUME NEW type \in PeerTypes \cup {"App"}, PeerTalks(type) PROVE Attended'
    <2>1. Follows(peer, peer') /\ session' = session
      BY <1>17, PeerTalksFollows DEF PeerTalks
    <2> QED  BY <2>1, FollowsAttended
  <1> QED  BY <1>3, <1>4, <1>5, <1>6, <1>7, <1>8, <1>9, <1>10, <1>11, <1>12, <1>13, <1>14,
              <1>15, <1>16, <1>17, <1>18 DEF Next

-----------------------------------------------------------------------------
(* The steps, and how a gap closes.                                        *)

LEMMA MendingFacts ==
    ASSUME TypeInv, OrderInv, Tracking, Heals, Mending
    PROVE  /\ Mended /\ Civil
           /\ Proper(peer.wire, peer.log)
           /\ peer \in Peers /\ peer.wire \in Seq(Message) /\ peer.log \in Logs
           /\ session \in Sessions /\ session.wire \in Seq(Message) /\ session.inSeq \in Nat
           /\ read \in Seq(Types \X Nat) /\ clock \in Nat /\ Len(peer.log) \in Nat
           /\ Requests(session.wire, Len(peer.log))
           /\ \A x \in Pending(session.wire) :
                 x.ref \in 1 .. Len(peer.log) /\ x.ref \in Int /\ x.end \in Nat
                 /\ (x.end = 0 \/ x.end >= x.ref)
           /\ NothingGarbled \in BOOLEAN /\ (pc # "logon") \in BOOLEAN
           /\ pc \in Phases
  <1>1. /\ peer \in Peers /\ peer.wire \in Seq(Message) /\ peer.log \in Logs
        /\ session \in Sessions /\ session.wire \in Seq(Message) /\ session.inSeq \in Nat
        /\ read \in Seq(Types \X Nat) /\ clock \in Nat /\ Len(peer.log) \in Nat
        /\ Requests(session.wire, Len(peer.log))
    BY OrderTypes DEF TypeInv, TypeOK
  <1>2. Mended /\ peer.alive /\ ~AppCounted /\ pc \in Phases
    BY DEF Heals, Mending, Phases
  <1>3. Civil /\ \E A \in SUBSET (DOMAIN peer.log) : Trails(peer, A)
    BY <1>2 DEF Tracking, Phases
  <1>4. Proper(peer.wire, peer.log)
    BY <1>2, <1>3 DEF Trails, Proper
  <1>5. \A x \in Pending(session.wire) :
           x.ref \in 1 .. Len(peer.log) /\ x.end \in Nat /\ (x.end = 0 \/ x.end >= x.ref)
    BY <1>1, PendingType
  <1> QED  BY <1>1, <1>2, <1>3, <1>4, <1>5 DEF NothingGarbled

\* The same requests are on their way.
LEMMA PendingHeals ==
    ASSUME Heals, Pending(session'.wire) = Pending(session.wire), session'.inSeq = session.inSeq,
           session'.active => session.active, peer' = peer, read' = read,
           budget'.garbled = budget.garbled,
           pc' = pc \/ {pc, pc'} \subseteq {"poll", "handler"}
    PROVE  Heals'
  <1>1. AppCounted' <=> AppCounted
    BY DEF AppCounted
  <1>2. Pending(session'.wire) = Pending(session.wire) /\ (NothingGarbled' <=> NothingGarbled)
    BY DEF NothingGarbled
  <1>3. pc' \in {"logon", "poll", "handler"} => pc \in {"logon", "poll", "handler"}
    OBVIOUS
  <1>4. (pc' = "logon" <=> pc = "logon") \/ pc' \notin {"logon", "poll", "handler"}
    OBVIOUS
  <1>5. Mending' => Mending
    BY <1>1, <1>3 DEF Mending
  <1>6. SUFFICES ASSUME Mending' PROVE Mended'
    BY DEF Heals
  <1>7. Mended /\ (pc' = "logon" <=> pc = "logon")
    BY <1>4, <1>5, <1>6 DEF Heals, Mending
  <1>8. NothingGarbled' = NothingGarbled
    BY DEF NothingGarbled
  <1>9. (pc' # "logon") = (pc # "logon")
    BY <1>7
  <1>10. Recovers(NothingGarbled', pc' # "logon",
                  peer'.wire, peer'.log, session'.inSeq, read', Pending(session'.wire))
    BY <1>2, <1>7, <1>8, <1>9 DEF Mended
  <1> QED  BY <1>7, <1>10 DEF Mended

\* The session may have sent messages that ask for nothing.
LEMMA ChatsHeals ==
    ASSUME Heals, Chats(session, session'), session'.inSeq = session.inSeq,
           session'.active => session.active, peer' = peer, read' = read,
           budget'.garbled = budget.garbled,
           pc' = pc \/ {pc, pc'} \subseteq {"poll", "handler"}
    PROVE  Heals'
  BY PendingHeals DEF Chats

LEMMA InitiateHeals ==
    ASSUME TypeInv, OrderInv, Initiate PROVE Heals'
  <1> DEFINE s == NewSession
             z == Msg("Logon", NONE)
             x == [z EXCEPT !.seq = s.outSeq]
             t == Send(s, z)
  <1>1. s \in Sessions /\ s.wire = << >> /\ s.inSeq = 0
    BY OrderTypes, NewSessionFacts DEF NewSession
  <1>2. z \in Message /\ z.type = "Logon"
    BY NoneType, MsgType DEF Types
  <1>3. x.type = "Logon"
    BY <1>2 DEF Message
  <1>4. session' = [t EXCEPT !.active = TRUE]
    BY DEF Initiate
  <1> HIDE DEF s, z, x
  <1>5. t \in Sessions /\ t.wire = Append(s.wire, x) /\ t.inSeq = 0
    BY <1>1, <1>2, SendFacts DEF x
  <1> HIDE DEF t
  <1>6. session'.wire = <<x>> /\ session'.inSeq = 0
    BY <1>1, <1>4, <1>5 DEF Sessions
  <1>7. peer'.wire = << >> /\ peer'.log = << >> /\ read' = << >> /\ pc' = "logon"
    BY DEF OrderInv, Bounded, Untouched, Initiate
  <1>8. DOMAIN <<x>> = 1 .. 1 /\ <<x>>[1] = x
    OBVIOUS
  <1>9. Pending(<<x>>) = {}
    BY <1>3, <1>8 DEF Pending
  <1>10. ASSUME NEW w, w = << >> PROVE Whole(w, w, 0, w, {})
    <2>1. DOMAIN w = {} /\ Len(w) = 0
      BY <1>10
    <2>2. Carried(w, 1, 0, {})
      BY <2>1 DEF Carried
    <2>3. Complete(w, 0, w)
      BY <2>1 DEF Complete
    <2> QED  BY <2>1, <2>2, <2>3 DEF Whole, Closed, Fresh, NoneOf
  <1>11. Recovers(NothingGarbled', FALSE, << >>, << >>, 0, << >>, {})
    BY <1>10 DEF Recovers, Whole
  <1>12. (pc' # "logon") = FALSE
    BY <1>7
  <1> QED  BY <1>6, <1>7, <1>9, <1>11, <1>12 DEF Heals, Mended

\* What is so when the session reads a message and still counts on its peer.
LEMMA ReadsMending ==
    ASSUME TypeInv, OrderInv, Tracking, Heals, Reads, pc \in {"logon", "poll"},
           session'.active => session.active, budget' = budget, Mending'
    PROVE  LET m == peer.wire[1]
           IN  /\ Mending /\ m = Incoming /\ m \in Message /\ peer.wire # << >>
               /\ Timely(m, session.inSeq) /\ ~(m.type = "App" /\ Known(read, m.seq))
               /\ peer'.wire = Tail(peer.wire) /\ peer'.log = peer.log
               /\ read' = Append(read, <<m.type, m.seq>>)
               /\ NothingGarbled' = NothingGarbled
  <1> DEFINE m == Incoming
             e == <<m.type, m.seq>>
  <1>1. /\ session.inSeq \in Nat /\ peer \in Peers /\ peer.wire \in Seq(Message) /\ peer.wire # << >>
        /\ read \in Seq(Types \X Nat) /\ m = Head(peer.wire) /\ m = peer.wire[1]
    BY OrderTypes DEF Reads, TypeInv, TypeOK, Incoming
  <1>2. Taken(peer, peer') /\ peer'.log = peer.log
    BY <1>1 DEF Reads, Peers, Taken
  <1>3. read' = Append(read, e)
    BY DEF Reads
  <1>4. /\ \A k \in DOMAIN read : k \in DOMAIN read' /\ read'[k] = read[k]
        /\ Len(read) + 1 \in DOMAIN read' /\ read'[Len(read) + 1] = e
        /\ \A k \in DOMAIN read : k < Len(read) + 1
    BY <1>1, <1>3
  <1>5. AppCounted => AppCounted'
    BY <1>4 DEF AppCounted
  <1>6. Mending
    BY <1>2, <1>5 DEF Mending, Taken
  <1>7. PICK A \in SUBSET (DOMAIN peer.log) : Tally(peer, A, session.inSeq, read) /\ Trails(peer, A)
    BY <1>6 DEF Tracking, Mending
  <1>8. m \in Message /\ Sane(m, peer.log) /\ m.seq \in Nat /\ (~m.dup => session.inSeq < m.seq)
    BY <1>1, <1>2, <1>7, TallyCounts
  <1>9. Timely(m, session.inSeq)
    BY <1>8 DEF Timely, Sane
  <1>10. ~(m.type = "App" /\ Known(read, m.seq))
    <2> SUFFICES ASSUME m.type = "App", NEW k \in DOMAIN read,
                        read[k] = <<"App", m.seq>> \/ (read[k][1] = "Reset" /\ m.seq <= read[k][2])
                 PROVE  FALSE
      BY DEF Known
    <2>1. e = <<"App", m.seq>> /\ e[1] = "App" /\ e[2] = m.seq
      OBVIOUS
    <2>2. AppCounted'
      BY <1>4, <2>1 DEF AppCounted
    <2> QED  BY <2>2 DEF Mending
  <1> HIDE DEF m
  <1>11. NothingGarbled' = NothingGarbled
    BY DEF NothingGarbled
  <1>12. peer'.wire = Tail(peer.wire)
    BY <1>2 DEF Taken
  <1> QED  BY <1>1, <1>2, <1>3, <1>6, <1>8, <1>9, <1>10, <1>11, <1>12 DEF m

LEMMA PollMessageHeals ==
    ASSUME TypeInv, OrderInv, Tracking, Heals, PollMessage PROVE Heals'
  <1> DEFINE o == Polled
             s == Parsed(o)
             m == peer.wire[1]
             n == session.inSeq
             Q == Pending(session.wire)
  <1>1. SUFFICES ASSUME Mending' PROVE Mended'
    BY DEF Heals
  <1>2. /\ session \in Sessions /\ n \in Nat /\ pc = "poll" /\ Reads /\ clock \in Nat
        /\ Len(peer.log) \in Nat /\ Requests(session.wire, Len(peer.log)) /\ session.active
        /\ budget' = budget /\ pc' \in {"poll", "handler"}
    BY OrderTypes DEF PollMessage, PollBegins, Polls
  <1>3. /\ Mending /\ m = Incoming /\ m \in Message /\ peer.wire # << >>
        /\ Timely(m, n) /\ ~(m.type = "App" /\ Known(read, m.seq))
        /\ peer'.wire = Tail(peer.wire) /\ peer'.log = peer.log
        /\ read' = Append(read, <<m.type, m.seq>>)
        /\ NothingGarbled' = NothingGarbled
    BY <1>1, <1>2, ReadsMending
  <1>4. o \in Sessions /\ o.inSeq = n /\ Pending(o.wire) = Q
    BY <1>2, PolledFacts, PolledChats DEF Chats
  <1>5. s \in Sessions /\ s.inSeq = n + 1 /\ Pending(s.wire) = Q
    BY <1>4, ParsedFacts
  <1>6. m.seq \in Nat /\ m.type \in Types
    BY <1>3, UntilType
  <1> HIDE DEF o, s, m, n, Q
  <1>7. Hears(m, n, session'.inSeq, Q, Pending(session'.wire))
    <2>1. CASE m.type = "Garbled"
      <3>1. session' = o
        BY <1>3, <2>1, PollMessageFacts DEF o
      <3> QED  BY <1>4, <2>1, <3>1 DEF Hears, AskTypes
    <2>2. CASE m.type \in AdminTypes
      <3>1. session' = Admin(s, m)
        <4>1. "App" \notin AdminTypes /\ "Garbled" \notin AdminTypes
          BY DEF AdminTypes
        <4> QED  BY <1>3, <2>2, <4>1 DEF PollMessage, s, o
      <3>2. m.type # "GapFill" => m.seq > n
        BY <1>3, <2>2 DEF Timely, AdminTypes
      <3>3. m.type = "GapFill" => m.dup
        BY <1>3, <2>2 DEF Timely
      <3>4. m.type \in {"GapFill", "Reset"} => m.ref > m.seq
        BY <1>3 DEF Timely
      <3>5. Hears(m, n, Admin(s, m).inSeq, Pending(s.wire), Pending(Admin(s, m).wire))
        BY <1>2, <1>3, <1>5, <2>2, <3>2, <3>3, <3>4, AdminHears DEF n
      <3> QED  BY <1>5, <3>1, <3>5
    <2>3. CASE m.type # "Garbled" /\ m.type \notin AdminTypes
      <3>1. session' = s
        BY <1>3, <2>3 DEF PollMessage, s, o
      <3> QED  BY <1>5, <2>3, <3>1 DEF Hears, AskTypes, AdminTypes
    <2> QED  BY <2>1, <2>2, <2>3
  <1>8. /\ peer.wire \in Seq(Message) /\ peer.log \in Logs /\ Proper(peer.wire, peer.log)
        /\ n \in Nat /\ read \in Seq(Types \X Nat) /\ \A x \in Q : x.ref \in Int
        /\ NothingGarbled \in BOOLEAN
    BY <1>3, MendingFacts DEF n, Q
  <1>9. Mended
    BY <1>3 DEF Heals
  <1>10. (pc # "logon") = TRUE /\ (pc' # "logon") = TRUE
    BY <1>2
  <1>11. Recovers(NothingGarbled, TRUE, peer.wire, peer.log, n, read, Q)
    BY <1>9, <1>10 DEF Mended, n, Q
  <1>12. PICK l : l = session'.inSeq
    OBVIOUS
  <1>13. PICK R : R = Pending(session'.wire)
    OBVIOUS
  <1>14. Recovers(NothingGarbled, TRUE, Tail(peer.wire), peer.log, l,
                  Append(read, <<m.type, m.seq>>), R)
    BY <1>3, <1>7, <1>8, <1>11, <1>12, <1>13, RecoversRead DEF m
  <1>15. Recovers(NothingGarbled', pc' # "logon",
                  peer'.wire, peer'.log, session'.inSeq, read', Pending(session'.wire))
    BY <1>3, <1>10, <1>12, <1>13, <1>14
  <1> QED  BY <1>2, <1>15 DEF Mended

LEMMA LogonMessageHeals ==
    ASSUME TypeInv, OrderInv, Tracking, Heals, LogonMessage PROVE Heals'
  <1> DEFINE s == Parsed(session)
             m == peer.wire[1]
             n == session.inSeq
             Q == Pending(session.wire)
  <1>1. SUFFICES ASSUME Mending' PROVE Mended'
    BY DEF Heals
  <1>2. session \in Sessions /\ pc = "logon" /\ Reads /\ budget' = budget
    BY OrderTypes DEF LogonMessage
  <1>3. s \in Sessions /\ s.inSeq = n + 1 /\ s.wire = session.wire /\ s.active = session.active
    BY <1>2, OrderTypes, ParsedFacts
  <1>4. session'.active => session.active
    <2>1. session' = session \/ Handled(s, Incoming, session')
      BY LogonMessageFacts
    <2> QED  BY <1>3, <2>1 DEF Handled
  <1>5. /\ Mending /\ m = Incoming /\ m \in Message /\ peer.wire # << >>
        /\ Timely(m, n)
        /\ peer'.wire = Tail(peer.wire) /\ peer'.log = peer.log
        /\ read' = Append(read, <<m.type, m.seq>>)
        /\ NothingGarbled' = NothingGarbled
    BY <1>1, <1>2, <1>4, ReadsMending
  <1>6. /\ peer.wire \in Seq(Message) /\ peer.log \in Logs /\ Proper(peer.wire, peer.log)
        /\ n \in Nat /\ read \in Seq(Types \X Nat) /\ \A x \in Q : x.ref \in Int
        /\ NothingGarbled \in BOOLEAN /\ Mended
    BY <1>5, MendingFacts
  <1>7. (pc # "logon") = FALSE
    BY <1>2
  <1>8. n = 0 /\ Recovers(NothingGarbled, FALSE, peer.wire, peer.log, n, read, Q)
    BY <1>2, <1>6, <1>7 DEF Mended
  <1>9. m.seq \in Nat /\ m.type \in Types /\ Sane(m, peer.log) /\ m.seq >= 1
    BY <1>5, <1>6, FirstFacts, UntilType
  <1> HIDE DEF s, m, n, Q
  <1>10. PICK q : q = Append(read, <<m.type, m.seq>>)
    OBVIOUS
  <1>11. /\ m.type = "Garbled" => Recovers(NothingGarbled, FALSE, Tail(peer.wire), peer.log, n, q, Q)
         /\ m.type \notin {"Garbled", "GapFill"} /\ m.seq # n + 1
              => \A l, R : Recovers(NothingGarbled, FALSE, Tail(peer.wire), peer.log, l, q, R)
         /\ m.type = "Logon" => Recovers(NothingGarbled, TRUE, Tail(peer.wire), peer.log, n + 1, q, Q)
    BY <1>5, <1>6, <1>8, <1>10, RecoversLogon DEF m
  <1>12. ASSUME NEW on \in BOOLEAN, (pc' # "logon") = on, NEW l, l = session'.inSeq,
                NEW R, R = Pending(session'.wire), on \/ l = 0,
                Recovers(NothingGarbled, on, Tail(peer.wire), peer.log, l, q, R)
         PROVE  Mended'
    <2>1. Recovers(NothingGarbled', pc' # "logon",
                   peer'.wire, peer'.log, session'.inSeq, read', Pending(session'.wire))
      BY <1>5, <1>10, <1>12
    <2> QED  BY <1>12, <2>1 DEF Mended
  <1>13. CASE m.type = "Garbled"
    <2>1. session' = session /\ pc' = pc
      BY <1>5, <1>13 DEF LogonMessage
    <2>2. n = session'.inSeq /\ Q = Pending(session'.wire) /\ (pc' # "logon") = FALSE
      BY <1>2, <2>1 DEF n, Q
    <2> QED  BY <1>8, <1>11, <1>12, <1>13, <2>2
  <1>14. CASE m.type # "Garbled" /\ ~Expected(s, m)
    <2>1. session' = Unexpected(s, m) /\ pc' \in {"logon", "failed"}
      BY <1>2, <1>5, <1>14 DEF LogonMessage, s
    <2>2. (pc' # "logon") = FALSE
      BY <1>1, <2>1 DEF Mending
    <2>3. m.seq # n + 1 /\ m.type \notin {"Garbled", "GapFill"}
      BY <1>3, <1>14 DEF Expected
    <2>4. m.seq > n + 1
      BY <1>8, <1>9, <2>3
    <2>5. Unexpected(s, m).inSeq = n
      BY <1>3, <1>5, <1>6, <2>4, UnexpectedHears
    <2>6. PICK R : R = Pending(session'.wire)
      OBVIOUS
    <2>7. n = session'.inSeq
      BY <2>1, <2>5
    <2> QED  BY <1>8, <1>11, <1>12, <2>2, <2>3, <2>6, <2>7
  <1>15. CASE m.type = "Logon" /\ Expected(s, m)
    <2>1. session' = s /\ pc' = "poll"
      BY <1>5, <1>15 DEF LogonMessage, s
    <2>2. n + 1 = session'.inSeq /\ Q = Pending(session'.wire) /\ (pc' # "logon") = TRUE
      BY <1>3, <2>1 DEF Q
    <2> QED  BY <1>11, <1>12, <1>15, <2>2
  <1>16. CASE m.type \notin {"Garbled", "Logon"} /\ Expected(s, m)
    BY <1>1, <1>5, <1>16 DEF LogonMessage, Mending, s
  <1> QED  BY <1>13, <1>14, <1>15, <1>16

\* Peer q is p once it has sent a new message.
Adding(p, q) == \E x : Adds(p.wire, p.log, x, q.wire, q.log)
Untold(p, q) == q.wire = p.wire /\ q.log = p.log

LEMMA SendAdds ==
    ASSUME NEW p \in Peers, NEW x \in Message, ~x.dup,
           x.type \notin {"Garbled", "GapFill", "Reset"}, x.type = "Logon" => p.log = << >>
    PROVE  /\ Adding(p, PeerSend(p, x))
           /\ \A q : Untold(PeerSend(p, x), q) => Adding(p, q)
  <1> DEFINE y == [x EXCEPT !.seq = Len(p.log) + 1]
             q == PeerSend(p, x)
  <1>1. /\ y \in Message /\ y.seq = Len(p.log) + 1
        /\ y.type = x.type /\ y.dup = x.dup
        /\ q.wire = Append(p.wire, y)
        /\ \A i \in DOMAIN q.log : i = Len(p.log) + 1 \/ (i \in DOMAIN p.log /\ q.log[i] = p.log[i])
        /\ q.log \in Logs /\ Len(q.log) = Len(p.log) + 1
        /\ Len(p.log) \in Nat
    BY PeerSendFields
  <1>2. DOMAIN p.log = 1 .. Len(p.log) /\ DOMAIN q.log = 1 .. Len(q.log)
    <2>1. p.log \in Logs /\ q.log \in Logs
      BY <1>1 DEF Peers, Logs
    <2> QED  BY <2>1 DEF Logs
  <1> HIDE DEF y, q
  <1>3. Extends(p.log, q.log)
    BY <1>1, <1>2 DEF Extends
  <1>4. Until(y) = y.seq + 1
    BY <1>1 DEF Until
  <1>5. Adds(p.wire, p.log, y, q.wire, q.log)
    BY <1>1, <1>3, <1>4 DEF Adds
  <1> QED  BY <1>5 DEF Adding, Untold, q

\* A live peer reads a message that is no resend request.
LEMMA ReadingAdds ==
    ASSUME NEW p \in Peers, p.alive, NEW m \in Message, m.type \notin {"Logout", "ResendRequest"},
           m.type = "Logon" => p.log = << >>, NEW end \in Nat
    PROVE  Untold(p, AfterReading(p, m, end)) \/ Adding(p, AfterReading(p, m, end))
  <1> DEFINE q == AfterReading(p, m, end)
  <1>1. p.expects \in Nat /\ m.ref \in Int
    BY DEF Peers, Message
  <1>2. CASE Leaves(p, q, m)
    BY <1>2 DEF Leaves, Untold
  <1>3. CASE Answers(p, q, m)
    <2> DEFINE o == [p EXCEPT !.expects = p.expects + 1]
    <2>1. o \in Peers /\ o.wire = p.wire /\ o.log = p.log
      BY <1>1 DEF Peers
    <2>2. q = Reply(o, m)
      BY <1>3 DEF Answers
    <2>3. ASSUME NEW type \in {"Logon", "Heartbeat"}, NEW ref \in Int, type = "Logon" => p.log = << >>
          PROVE  Adding(p, PeerSend(o, Msg(type, ref)))
      <3> DEFINE x == Msg(type, ref)
      <3>1. x \in Message /\ x.type = type /\ ~x.dup
        BY MsgType DEF Types, AdminTypes
      <3> HIDE DEF x, o
      <3>2. Adding(o, PeerSend(o, x))
        BY <2>1, <2>3, <3>1, SendAdds
      <3> QED  BY <2>1, <3>2 DEF Adding, x
    <2> HIDE DEF o
    <2>4. CASE m.type = "Logon"
      <3>1. Reply(o, m) = PeerSend(o, Msg("Logon", NONE))
        BY <2>4 DEF Reply
      <3> QED  BY <2>2, <2>3, <2>4, <3>1, NoneType
    <2>5. CASE m.type = "TestRequest"
      <3>1. Reply(o, m) = PeerSend(o, Msg("Heartbeat", m.ref))
        BY <2>5 DEF Reply
      <3> QED  BY <1>1, <2>2, <2>3, <3>1
    <2>6. CASE m.type \notin {"Logon", "TestRequest", "Logout", "ResendRequest"}
      <3>1. Reply(o, m) = o
        BY <2>6 DEF Reply
      <3> QED  BY <2>1, <2>2, <3>1 DEF Untold
    <2> QED  BY <2>4, <2>5, <2>6
  <1>4. CASE AsksAgain(p, q, m, end)
    <2> DEFINE z == Msg("ResendRequest", p.expects)
               x == [z EXCEPT !.end = end]
               o == PeerSend(p, x)
               r == IF end = 0 THEN "open" ELSE "bounded"
    <2>1. z \in Message /\ z.type = "ResendRequest" /\ ~z.dup
      BY <1>1, MsgType DEF Types, AdminTypes
    <2> HIDE DEF z
    <2>2. x \in Message /\ x.type = "ResendRequest" /\ ~x.dup
      BY <2>1 DEF Message
    <2>3. q = [o EXCEPT !.resend = r]
      BY <1>4 DEF AsksAgain, z
    <2> HIDE DEF x, r
    <2>4. PICK w, l : o = [p EXCEPT !.wire = w, !.log = l]
      BY Zenon DEF PeerSend
    <2>5. Untold([p EXCEPT !.wire = w, !.log = l],
                 [[p EXCEPT !.wire = w, !.log = l] EXCEPT !.resend = r])
      BY DEF Peers, Untold
    <2> HIDE DEF o
    <2>6. Untold(o, q)
      BY <2>3, <2>4, <2>5
    <2> QED  BY <2>2, <2>6, SendAdds DEF o
  <1>5. CASE SkipsGap(p, q, m)
    <2>1. q = [p EXCEPT !.expects = m.ref, !.resend = "none"]
      BY <1>5 DEF SkipsGap
    <2> QED  BY <2>1 DEF Untold, Peers
  <1>6. ~SendsAgain(p, q, m)
    BY DEF SendsAgain
  <1> QED  BY <1>2, <1>3, <1>4, <1>5, <1>6, ReadingCases

\* A resend request that the peer has not read yet is answered at once.
LEMMA ReadingAnswers ==
    ASSUME NEW p \in Peers, p.alive, NEW m \in Message, m.type = "ResendRequest",
           p.expects <= m.seq, NEW end
    PROVE  LET q == AfterReading(p, m, end)
           IN  q.wire = p.wire \o Resent(p.log, m.ref, m.end) /\ q.log = p.log
  <1> DEFINE w == p.wire \o Resent(p.log, m.ref, m.end)
  <1>1. p.expects \in Nat /\ m.seq \in Nat
    BY DEF Peers, Message
  <1>2. CASE m.seq > p.expects
    <2>1. AfterReading(p, m, end) = [p EXCEPT !.wire = w]
      BY <1>1, <1>2 DEF AfterReading, AfterGap, Reply
    <2> HIDE DEF w
    <2>2. [p EXCEPT !.wire = w].wire = w /\ [p EXCEPT !.wire = w].log = p.log
      BY DEF Peers
    <2> QED  BY <2>1, <2>2 DEF w
  <1>3. CASE m.seq = p.expects
    <2> DEFINE o == [p EXCEPT !.expects = p.expects + 1]
    <2>1. AfterReading(p, m, end) = Reply(o, m)
      BY <1>1, <1>3 DEF AfterReading
    <2>2. o \in Peers /\ o.wire = p.wire /\ o.log = p.log
      BY <1>1 DEF Peers
    <2> HIDE DEF o
    <2>3. Reply(o, m) = [o EXCEPT !.wire = w]
      BY <2>2 DEF Reply
    <2> HIDE DEF w
    <2>4. [o EXCEPT !.wire = w].wire = w /\ [o EXCEPT !.wire = w].log = o.log
      BY <2>2 DEF Peers
    <2> QED  BY <2>1, <2>2, <2>3, <2>4 DEF w
  <1>4. m.seq > p.expects \/ m.seq = p.expects
    BY <1>1
  <1> QED  BY <1>2, <1>3, <1>4
LEMMA PeerHeals ==
    ASSUME TypeInv, OrderInv, Tracking, Heals, pc' = pc, read' = read,
           session'.inSeq = session.inSeq, session'.active => session.active,
           budget'.garbled = budget.garbled, peer'.alive => peer.alive,
           Mending => \/ /\ Untold(peer, peer') \/ Adding(peer, peer')
                         /\ Pending(session'.wire) = Pending(session.wire)
                      \/ /\ peer'.log = peer.log
                         /\ \E x : Resolves(peer.wire, peer.log, x, peer'.wire,
                                            Pending(session.wire), Pending(session'.wire))
    PROVE  Heals'
  <1>1. AppCounted' <=> AppCounted
    BY DEF AppCounted
  <1>2. Mending' => Mending
    BY <1>1 DEF Mending
  <1>3. SUFFICES ASSUME Mending', Mending PROVE Mended'
    BY <1>2 DEF Heals
  <1> DEFINE n == session.inSeq
             on == pc # "logon"
             clean == NothingGarbled
             Q == Pending(session.wire)
  <1>4. /\ Mended
        /\ peer.wire \in Seq(Message) /\ peer.log \in Logs /\ Proper(peer.wire, peer.log)
        /\ n \in Nat /\ clean \in BOOLEAN /\ on \in BOOLEAN
        /\ \A x \in Q : x.ref \in 1 .. Len(peer.log) /\ x.end \in Nat
    BY <1>3, MendingFacts
  <1>5. (on \/ n = 0) /\ Recovers(clean, on, peer.wire, peer.log, n, read, Q)
    BY <1>4 DEF Mended
  <1>6. PICK w, l, R : w = peer'.wire /\ l = peer'.log /\ R = Pending(session'.wire)
    OBVIOUS
  <1> HIDE DEF n, on, clean, Q
  <1>7. ASSUME Recovers(clean, on, w, l, n, read, R) PROVE Mended'
    <2>1. n = session'.inSeq /\ on = (pc' # "logon") /\ clean = NothingGarbled'
      BY DEF n, on, clean, NothingGarbled
    <2>2. Recovers(NothingGarbled', pc' # "logon",
                   peer'.wire, peer'.log, session'.inSeq, read', Pending(session'.wire))
      BY <1>6, <1>7, <2>1
    <2>3. pc' = "logon" => session'.inSeq = 0
      BY <1>5 DEF on, n
    <2> QED  BY <2>2, <2>3 DEF Mended
  <1>8. CASE Untold(peer, peer') /\ R = Q
    <2>1. w = peer.wire /\ l = peer.log
      BY <1>6, <1>8 DEF Untold
    <2> QED  BY <1>5, <1>7, <1>8, <2>1
  <1>9. CASE Adding(peer, peer') /\ R = Q
    <2>1. PICK x : Adds(peer.wire, peer.log, x, w, l)
      BY <1>6, <1>9 DEF Adding
    <2>2. Recovers(clean, on, w, l, n, read, Q)
      BY <1>4, <1>5, <2>1, RecoversAdds
    <2> QED  BY <1>7, <1>9, <2>2
  <1>10. CASE /\ l = peer.log
              /\ \E x : Resolves(peer.wire, peer.log, x, w, Q, R)
    <2>1. PICK x : Resolves(peer.wire, peer.log, x, w, Q, R)
      BY <1>10
    <2>2. Recovers(clean, on, w, peer.log, n, read, R)
      BY <1>4, <1>5, <2>1, RecoversAnswers
    <2> QED  BY <1>7, <1>10, <2>2
  <1> QED  BY <1>3, <1>6, <1>8, <1>9, <1>10 DEF Q

LEMMA PeerReadsHeals ==
    ASSUME TypeInv, OrderInv, Tracking, Attended, Heals, PeerReads PROVE Heals'
  <1> DEFINE m == Head(session.wire)
  <1>1. /\ session.wire \in Seq(Message) /\ session.wire # << >> /\ peer \in Peers
        /\ pc' = pc /\ read' = read /\ budget' = budget
    BY OrderTypes DEF PeerReads
  <1>2. /\ m \in Message /\ m = session.wire[1] /\ 1 \in DOMAIN session.wire
        /\ m.type = "ResendRequest" =>
              m.ref \in 1 .. Len(peer.log) /\ (m.end = 0 \/ m.end >= m.ref)
        /\ session'.wire = Tail(session.wire)
        /\ session'.inSeq = session.inSeq /\ session'.active = session.active
    BY PeerReadsTail
  <1>3. m.seq \in Nat /\ m.end \in Nat
    BY <1>2 DEF Message
  <1>4. PICK end \in Nat : peer' = AfterReading(peer, m, end)
    BY <1>3 DEF PeerReads
  <1>5. peer'.alive => peer.alive
    <2>1. ~peer.alive => peer' = peer
      BY <1>4 DEF AfterReading
    <2> QED  BY <2>1
  <1>6. /\ Pending(session'.wire) \subseteq Pending(session.wire)
        /\ Pending(session.wire) \subseteq Pending(session'.wire) \cup {m}
        /\ m.type = "ResendRequest" => m \in Pending(session.wire)
        /\ m.type # "ResendRequest" => Pending(session'.wire) = Pending(session.wire)
    BY <1>1, <1>2, PendingTail
  <1> HIDE DEF m
  <1>7. ASSUME Mending
        PROVE  \/ /\ Untold(peer, peer') \/ Adding(peer, peer')
                  /\ Pending(session'.wire) = Pending(session.wire)
               \/ /\ peer'.log = peer.log
                  /\ \E x : Resolves(peer.wire, peer.log, x, peer'.wire,
                                     Pending(session.wire), Pending(session'.wire))
    <2>1. Civil /\ peer.alive
      BY <1>7, MendingFacts DEF Mending
    <2>2. m.type # "Logout" /\ (m.type = "Logon" => peer.log = << >>)
      BY <1>2, <2>1 DEF Civil
    <2>3. CASE m.type = "ResendRequest"
      <3>1. peer.expects <= m.seq
        BY <1>2, <2>3 DEF Attended, Ahead, Beyond
      <3>2. /\ peer'.wire = peer.wire \o Resent(peer.log, m.ref, m.end)
            /\ peer'.log = peer.log
        BY <1>1, <1>2, <1>4, <2>1, <2>3, <3>1, ReadingAnswers
      <3>3. Resolves(peer.wire, peer.log, m, peer'.wire,
                     Pending(session.wire), Pending(session'.wire))
        BY <1>2, <1>3, <1>6, <2>3, <3>2 DEF Resolves
      <3> QED  BY <3>2, <3>3
    <2>4. CASE m.type # "ResendRequest"
      <3>1. Untold(peer, peer') \/ Adding(peer, peer')
        BY <1>1, <1>2, <1>4, <2>1, <2>2, <2>4, ReadingAdds
      <3> QED  BY <1>6, <2>4, <3>1
    <2> QED  BY <2>3, <2>4
  <1> QED  BY <1>1, <1>2, <1>5, <1>7, PeerHeals

LEMMA PeerTalksHeals ==
    ASSUME TypeInv, OrderInv, Tracking, Heals, NEW type \in PeerTypes \cup {"App"}, PeerTalks(type)
    PROVE  Heals'
  <1>1. /\ peer \in Peers /\ clock \in Int
        /\ session' = session /\ pc' = pc /\ read' = read
    BY OrderTypes DEF PeerTalks
  <1>2. budget'.garbled = budget.garbled
    <2>1. budget \in [garbled : Nat, lost : Nat, app : Nat, peerApp : Nat, admin : Nat]
      BY DEF TypeInv, TypeOK
    <2> DEFINE kind == IF type = "App" THEN "peerApp" ELSE "admin"
    <2>2. budget' = [budget EXCEPT ![kind] = @ - 1] /\ kind # "garbled"
      BY DEF PeerTalks
    <2> HIDE DEF kind
    <2> QED  BY <2>1, <2>2
  <1>3. peer'.alive => peer.alive
    BY PeerTalksFollows
  <1>4. type \in {"Heartbeat", "TestRequest", "Reset", "Logout", "App"}
    BY SessionAssumption
  <1>5. peer'.alive => Adding(peer, peer')
    <2>1. CASE type = "Reset"
      <3> DEFINE n == Len(peer.log) + 3
                 x == Msg("Reset", n)
                 q == PeerSend(peer, x)
                 l == Append(q.log, "Admin")
                 y == [x EXCEPT !.seq = Len(peer.log) + 1]
      <3>1. Len(peer.log) \in Nat /\ n \in Int /\ peer.log \in Logs
        BY OrderTypes
      <3>2. x \in Message /\ x.type = "Reset" /\ x.ref = n /\ ~x.dup
        <4> HIDE DEF n
        <4> QED  BY <3>1, MsgType DEF Types, AdminTypes
      <3>3. peer' = [q EXCEPT !.log = l]
        BY <2>1 DEF PeerTalks
      <3> HIDE DEF x
      <3>4. /\ y \in Message /\ y.seq = Len(peer.log) + 1
            /\ y.type = x.type /\ y.ref = x.ref /\ y.dup = x.dup
            /\ q.wire = Append(peer.wire, y)
            /\ \A i \in DOMAIN q.log :
                  i = Len(peer.log) + 1 \/ (i \in DOMAIN peer.log /\ q.log[i] = peer.log[i])
            /\ q.log \in Logs /\ Len(q.log) = Len(peer.log) + 1
        BY <1>1, <3>2, PeerSendFields
      <3>5. PICK w, u : q = [peer EXCEPT !.wire = w, !.log = u]
        BY Zenon DEF PeerSend
      <3>6. [q EXCEPT !.log = l].wire = q.wire /\ [q EXCEPT !.log = l].log = l
        <4> HIDE DEF q, l
        <4> QED  BY <1>1, <3>5 DEF Peers
      <3> HIDE DEF q, y
      <3>7. /\ l \in Logs /\ Len(l) = Len(peer.log) + 2 /\ DOMAIN peer.log = 1 .. Len(peer.log)
            /\ \A i \in 1 .. Len(peer.log) : i \in DOMAIN l /\ l[i] = q.log[i] /\ i \in DOMAIN q.log
        BY <3>1, <3>4 DEF Logs
      <3> HIDE DEF l
      <3>8. Extends(peer.log, l)
        BY <3>1, <3>4, <3>7 DEF Extends
      <3>9. Until(y) = y.ref /\ y.type # "Garbled" /\ y.type # "Logon"
        BY <3>2, <3>4 DEF Until
      <3>10. Adds(peer.wire, peer.log, y, q.wire, l)
        BY <3>1, <3>2, <3>4, <3>7, <3>8, <3>9 DEF Adds
      <3> QED  BY <3>3, <3>6, <3>10 DEF Adding
    <2>2. CASE type = "Logout"
      <3> DEFINE q == PeerSend(peer, Msg("Logout", NONE))
      <3>1. peer' = [q EXCEPT !.alive = FALSE]
        BY <2>2 DEF PeerTalks
      <3>2. PICK w, u : q = [peer EXCEPT !.wire = w, !.log = u]
        BY Zenon DEF PeerSend
      <3> HIDE DEF q
      <3>3. [q EXCEPT !.alive = FALSE].alive = FALSE
        BY <1>1, <3>2 DEF Peers
      <3> QED  BY <3>1, <3>3
    <2>3. CASE type \in {"TestRequest", "Heartbeat", "App"}
      <3>1. PICK ref \in Int : peer' = PeerSend(peer, Msg(type, ref))
        BY <1>1, <2>3, NoneType DEF PeerTalks
      <3> DEFINE x == Msg(type, ref)
      <3>2. x \in Message /\ x.type = type /\ ~x.dup
        BY <2>3, MsgType DEF Types, AdminTypes
      <3> HIDE DEF x
      <3>3. Adding(peer, PeerSend(peer, x))
        BY <1>1, <2>3, <3>2, SendAdds
      <3> QED  BY <3>1, <3>3 DEF x
    <2> QED  BY <1>4, <2>1, <2>2, <2>3
  <1>6. CASE peer'.alive
    BY <1>1, <1>2, <1>3, <1>5, <1>6, PeerHeals
  <1>7. CASE ~peer'.alive
    BY <1>7 DEF Heals, Mending
  <1> QED  BY <1>6, <1>7

\* The first message that is garbled: it and what it stands for are lost.
LEMMA WholeGarbled ==
    ASSUME NEW w \in Seq(Message), NEW log \in Logs, Proper(w, log), NEW n \in Nat, NEW r, NEW Q,
           Whole(w, log, n, r, Q), NEW g \in DOMAIN w
    PROVE  Damaged([w EXCEPT ![g].type = "Garbled"], log, n, r, Q)
  <1> DEFINE v == [w EXCEPT ![g].type = "Garbled"]
             m == w[g]
             f == Until(m)
  <1>1. /\ m \in Message /\ m.seq \in Nat /\ 1 <= m.seq /\ m.seq < f /\ f <= Len(log) + 1
        /\ Len(log) \in Nat /\ f \in Int
    BY ProperFacts
  <1>2. /\ DOMAIN v = DOMAIN w
        /\ \A k \in DOMAIN w : /\ v[k].seq = w[k].seq /\ v[k].dup = w[k].dup
                               /\ v[k].type = IF k = g THEN "Garbled" ELSE w[k].type
                               /\ k # g => v[k] = w[k]
    <2>1. \A k \in DOMAIN w : w[k] \in Message
      OBVIOUS
    <2> QED  BY <2>1 DEF Message
  <1>3. /\ Q = {} /\ Fresh(w) /\ NoneOf("Garbled", w) /\ Complete(log, n, r)
        /\ Carried(w, n + 1, Len(log), {})
    BY DEF Whole, Closed
  <1>4. /\ Sane(m, log) /\ m.type # "Garbled" /\ ~m.dup
        /\ \A k \in DOMAIN w : g < k => f <= w[k].seq
    <2>1. Sane(m, log) /\ m.type # "Garbled" /\ ~m.dup
      BY <1>3 DEF Proper, NoneOf, Fresh
    <2>2. ASSUME NEW k \in DOMAIN w, g < k PROVE f <= w[k].seq
      <3>1. ~w[k].dup /\ g \in 1 .. k - 1
        BY <1>3, <2>2 DEF Fresh
      <3> QED  BY <3>1 DEF Proper
    <2> QED  BY <2>1, <2>2
  <1> HIDE DEF f, m, v
  <1>5. Bare(log, m.seq + 1, f - 1)
    BY <1>4 DEF Sane, Bare, f
  <1> DEFINE lost == m.seq .. f - 1
  <1>6. \A i \in Int : m.seq <= i /\ i < f => i \in lost
    BY <1>1
  <1> HIDE DEF lost
  <1>7. Carried(v, n + 1, Len(log), lost)
    <2>1. n + 1 <= Len(log) + 1 /\ \A k \in DOMAIN v : ~v[k].dup => n + 1 <= v[k].seq
      BY <1>2, <1>3 DEF Carried
    <2>2. ASSUME NEW i \in n + 1 .. Len(log)
          PROVE  \/ i \in lost
                 \/ \E k \in DOMAIN v : /\ ~v[k].dup /\ v[k].type # "Garbled"
                                        /\ v[k].seq <= i /\ i < Until(v[k])
      <3>1. PICK k \in DOMAIN w : /\ ~w[k].dup /\ w[k].type # "Garbled"
                                  /\ w[k].seq <= i /\ i < Until(w[k])
        BY <1>3 DEF Carried
      <3>2. CASE k = g
        BY <1>6, <3>1, <3>2 DEF f, m
      <3>3. CASE k # g
        BY <1>2, <3>1, <3>3
      <3> QED  BY <3>2, <3>3
    <2> QED  BY <2>1, <2>2 DEF Carried
  <1>8. Fresh(v)
    BY <1>2, <1>3 DEF Fresh
  <1>9. g \in DOMAIN v /\ v[g].type = "Garbled" /\ v[g].seq = m.seq
    BY <1>2 DEF m
  <1>10. /\ \A k \in DOMAIN v : v[k].type = "Garbled" => k = g
         /\ \A k \in DOMAIN v : g < k => f <= v[k].seq
    BY <1>2, <1>3, <1>4 DEF NoneOf
  <1>11. f \in 1 .. Len(log) + 1
    BY <1>1
  <1>12. Damaged(v, log, n, r, Q)
    BY <1>1, <1>3, <1>5, <1>7, <1>8, <1>9, <1>10, <1>11 DEF Damaged, lost
  <1> QED  BY <1>12 DEF v

LEMMA GarbleHeals ==
    ASSUME TypeInv, OrderInv, Tracking, Heals, Garble PROVE Heals'
  <1> SUFFICES ASSUME Mending' PROVE Mended'
    BY DEF Heals
  <1>1. /\ peer \in Peers /\ session' = session /\ pc' = pc /\ read' = read
        /\ budget.garbled \in Nat /\ MaxGarbled \in Nat /\ budget.garbled > 0
    BY OrderTypes, SessionAssumption DEF Garble
  <1>2. budget'.garbled = budget.garbled - 1
    <2>1. budget \in [garbled : Nat, lost : Nat, app : Nat, peerApp : Nat, admin : Nat]
      BY DEF TypeInv, TypeOK
    <2> QED  BY <2>1 DEF Garble
  <1>3. budget.garbled = MaxGarbled
    BY <1>1, <1>2 DEF Mending, OrderInv, Bounded
  <1>4. NothingGarbled = TRUE /\ NothingGarbled' = FALSE
    BY <1>1, <1>2, <1>3 DEF NothingGarbled
  <1>5. PICK k \in DOMAIN peer.wire : peer' = [peer EXCEPT !.wire[k].type = "Garbled"]
    BY DEF Garble
  <1> DEFINE w == [peer.wire EXCEPT ![k].type = "Garbled"]
  <1>6. peer' = [peer EXCEPT !.wire = w]
    BY <1>1, <1>5 DEF Peers
  <1> HIDE DEF w
  <1>7. peer'.wire = w /\ peer'.log = peer.log /\ peer'.alive = peer.alive
    BY <1>1, <1>6 DEF Peers
  <1>8. Mending
    BY <1>1, <1>2, <1>7 DEF Mending, AppCounted
  <1>9. /\ Mended /\ peer.wire \in Seq(Message) /\ peer.log \in Logs
        /\ Proper(peer.wire, peer.log) /\ session.inSeq \in Nat
    BY <1>8, MendingFacts
  <1>10. Whole(peer.wire, peer.log, session.inSeq, read, Pending(session.wire))
    BY <1>4, <1>9 DEF Mended, Recovers
  <1>11. Damaged(w, peer.log, session.inSeq, read, Pending(session.wire))
    BY <1>9, <1>10, WholeGarbled DEF w
  <1>12. \A on : Recovers(FALSE, on, w, peer.log, session.inSeq, read, Pending(session.wire))
    BY <1>11 DEF Recovers
  <1>13. Recovers(NothingGarbled', pc' # "logon",
                  peer'.wire, peer'.log, session'.inSeq, read', Pending(session'.wire))
    BY <1>1, <1>4, <1>7, <1>12
  <1> QED  BY <1>1, <1>9, <1>13 DEF Mended

\* A send that fails takes no request away.
LEMMA SendFailsHeals ==
    ASSUME TypeInv, Heals, SendFails, AllAsked' PROVE Heals'
  <1>1. /\ session'.inSeq = session.inSeq /\ session'.active = session.active
        /\ peer' = peer /\ read' = read /\ pc' = pc
    BY SendFailsFacts DEF SendFails
  <1>2. budget'.garbled = budget.garbled
    <2>1. budget \in [garbled : Nat, lost : Nat, app : Nat, peerApp : Nat, admin : Nat]
      BY DEF TypeInv, TypeOK
    <2> QED  BY <2>1 DEF SendFails
  <1>3. PICK k \in DOMAIN session.wire : /\ Thinned(session.wire, k, session'.wire)
                                       /\ session'.lost = session.lost \cup {session.wire[k]}
    BY SendFailsFacts
  <1>4. session.wire[k].type # "ResendRequest"
    BY <1>3 DEF AllAsked
  <1>5. Pending(session'.wire) = Pending(session.wire)
    <2>1. session.wire \in Seq(Message)
      BY OrderTypes DEF Sessions
    <2>2. ASSUME NEW x \in Pending(session'.wire) PROVE x \in Pending(session.wire)
      <3>1. PICK j \in DOMAIN session'.wire :
               session'.wire[j].type = "ResendRequest" /\ x = session'.wire[j]
        BY <2>2 DEF Pending
      <3>2. \E i \in DOMAIN session.wire : session'.wire[j] = session.wire[i]
        BY <1>3 DEF Thinned
      <3> QED  BY <3>1, <3>2 DEF Pending
    <2>3. ASSUME NEW x \in Pending(session.wire) PROVE x \in Pending(session'.wire)
      <3>1. PICK j \in DOMAIN session.wire :
               session.wire[j].type = "ResendRequest" /\ x = session.wire[j]
        BY <2>3 DEF Pending
      <3>2. j # k /\ j \in Nat /\ k \in Nat
        BY <1>4, <2>1, <3>1
      <3>3. j < k \/ j > k
        BY <3>2
      <3>4. \E i \in DOMAIN session'.wire : session'.wire[i] = session.wire[j]
        BY <1>3, <3>3 DEF Thinned
      <3> QED  BY <3>1, <3>4 DEF Pending
    <2> QED  BY <2>2, <2>3
  <1> QED  BY <1>1, <1>2, <1>5, PendingHeals

LEMMA HealsStep ==
    ASSUME TypeInv, OrderInv, Tracking, Attended, Heals, [Next]_vars, AllAsked' PROVE Heals'
  <1>1. /\ session \in Sessions /\ peer \in Peers /\ clock \in Nat /\ Len(peer.log) \in Nat
        /\ Requests(session.wire, Len(peer.log)) /\ Chats(session, session)
    BY OrderTypes, ChatsSame
  <1>2. ASSUME ~Mending' PROVE Heals'
    BY <1>2 DEF Heals
  <1>3. ASSUME UNCHANGED <<session, peer, read, budget>>,
               pc' = pc \/ {pc, pc'} \subseteq {"poll", "handler"}
        PROVE  Heals'
    BY <1>1, <1>3, ChatsHeals
  <1>4. CASE UNCHANGED vars
    BY <1>3, <1>4 DEF vars
  <1>5. CASE Initiate
    BY <1>5, InitiateHeals
  <1>6. CASE LogonMessage
    BY <1>6, LogonMessageHeals
  <1>7. CASE PollInactive \/ KeepAliveFails \/ Terminate
    BY <1>2, <1>7 DEF PollInactive, KeepAliveFails, Terminate, Mending
  <1>8. CASE PollNothing
    <2>1. session' = Polled /\ peer' = peer /\ read' = read /\ budget' = budget /\ pc' = pc
      BY <1>8 DEF PollNothing
    <2>2. /\ Polled.inSeq = session.inSeq /\ Polled.active = session.active
          /\ Chats(session, Polled)
      BY <1>1, PolledFacts, PolledChats
    <2> QED  BY <2>1, <2>2, ChatsHeals
  <1>9. CASE PollMessage
    BY <1>9, PollMessageHeals
  <1>10. CASE HandlerReturns
    BY <1>3, <1>10 DEF HandlerReturns
  <1>11. CASE SendApp
    <2>1. budget'.garbled = budget.garbled
      <3>1. budget \in [garbled : Nat, lost : Nat, app : Nat, peerApp : Nat, admin : Nat]
        BY DEF TypeInv, TypeOK
      <3> QED  BY <1>11, <3>1 DEF SendApp
    <2>2. peer' = peer /\ read' = read /\ pc' = pc
      BY <1>11 DEF SendApp
    <2> QED  BY <1>11, <2>1, <2>2, SendAppChats, ChatsHeals
  <1>18. CASE SendFails
    BY <1>18, SendFailsHeals
  <1>12. CASE GraceOver \/ GraceMessage
    <2>1. ~session.active
      BY <1>12 DEF GraceOver, GraceMessage, InGrace, OrderInv, Bounded
    <2>2. ~session'.active
      <3>1. CASE GraceOver
        BY <1>1, <2>1, <3>1, EndGraceFacts DEF GraceOver, InGrace
      <3>2. CASE GraceMessage
        <4>1. PICK t : /\ t = session \/ Handled(Parsed(session), Incoming, t)
                       /\ session' = t \/ (t.grace # << >> /\ session' = EndGrace(t))
          BY <3>2, GraceMessageFacts
        <4>2. t \in Sessions /\ ~t.active
          BY <1>1, <2>1, <4>1, ParsedFacts DEF Handled
        <4> QED  BY <4>1, <4>2, EndGraceFacts
      <3> QED  BY <1>12, <3>1, <3>2
    <2> QED  BY <1>2, <2>2 DEF Mending
  <1>13. CASE PeerReads
    BY <1>13, PeerReadsHeals
  <1>14. CASE PeerDies
    <2>1. ~peer'.alive
      BY <1>1, <1>14 DEF PeerDies, Peers
    <2> QED  BY <1>2, <2>1 DEF Mending
  <1>15. CASE Garble
    BY <1>15, GarbleHeals
  <1>16. ASSUME NEW type \in PeerTypes \cup {"App"}, PeerTalks(type) PROVE Heals'
    BY <1>16, PeerTalksHeals
  <1>17. CASE Tick \/ Ended
    BY <1>3, <1>17 DEF Tick, Ended, vars
  <1> QED  BY <1>4, <1>5, <1>6, <1>7, <1>8, <1>9, <1>10, <1>11, <1>12, <1>13, <1>14,
              <1>15, <1>16, <1>17, <1>18 DEF Next

\* Nothing is on its way, and an admin message was the last one read: the gap is closed.
LEMMA NothingMissing ==
    ASSUME NEW log \in Logs, NEW n \in Nat, NEW r \in Seq(Types \X Nat), NEW clean,
           r # << >>, r[Len(r)][1] \in AdminTypes, n <= Len(log),
           Recovers(clean, TRUE, << >>, log, n, r, {})
    PROVE  n = Len(log)
  <1>1. Len(log) \in Nat
    BY DEF Logs
  <1> DEFINE w == << >>
  <1>2. DOMAIN w = {}
    OBVIOUS
  <1> HIDE DEF w
  <1>3. /\ ~Damaged(w, log, n, r, {}) /\ ~Unnoticed(w, log, n, r, {})
        /\ ~Noticed(w, log, n, r, {}) /\ ~Answered(w, log, n, r, {}) /\ ~Doomed(w, log, r, {})
    BY <1>2 DEF Damaged, Unnoticed, Noticed, Answered, Doomed
  <1>4. Closed(w, log, n, r, {})
    BY <1>3 DEF Recovers, Whole, w
  <1>5. Carried(w, n + 1, Len(log), {})
    BY <1>4 DEF Closed
  <1>6. n + 1 \notin n + 1 .. Len(log)
    BY <1>2, <1>5 DEF Carried
  <1> QED  BY <1>1, <1>6

\* What a send lost is never forgotten.
LEMMA LostStays ==
    ASSUME TypeInv, OrderInv, [Next]_vars, ~Initiate PROVE session.lost \subseteq session'.lost
  <1>1. /\ session \in Sessions /\ clock \in Nat /\ Len(peer.log) \in Nat
        /\ Requests(session.wire, Len(peer.log))
    BY OrderTypes
  <1>2. Polled \in Sessions /\ Polled.lost = session.lost
    BY <1>1, PolledFacts
  <1>3. ASSUME NEW t, NEW s \in Sessions, s.lost = session.lost,
               t = s \/ Handled(Parsed(s), Incoming, t)
        PROVE  t \in Sessions /\ t.lost = session.lost
    BY <1>3, ParsedFacts DEF Handled
  <1>4. CASE UNCHANGED vars \/ Tick \/ Ended \/ HandlerReturns \/ PollInactive
             \/ (\E type \in PeerTypes \cup {"App"} : PeerTalks(type)) \/ PeerDies \/ Garble
    BY <1>4 DEF vars, Tick, Ended, HandlerReturns, PollInactive, PeerTalks, PeerDies, Garble
  <1>6. CASE LogonMessage
    BY <1>1, <1>3, <1>6, LogonMessageFacts
  <1>7. CASE PollMessage
    BY <1>2, <1>3, <1>7, PollMessageFacts
  <1>8. CASE PollNothing
    BY <1>2, <1>8 DEF PollNothing
  <1>9. CASE KeepAliveFails \/ Terminate
    <2>1. session'.lost = session.lost
      BY <1>1, <1>9 DEF KeepAliveFails, Terminate, Sessions
    <2> QED  BY <2>1
  <1>10. CASE SendApp
    BY <1>10, SendAppChats
  <1>11. CASE SendFails
    BY <1>11, SendFailsFacts
  <1>12. CASE GraceOver
    BY <1>1, <1>12, EndGraceFacts DEF GraceOver, InGrace
  <1>13. CASE GraceMessage
    <2>1. PICK t : /\ t = session \/ Handled(Parsed(session), Incoming, t)
                   /\ session' = t \/ (t.grace # << >> /\ session' = EndGrace(t))
      BY <1>13, GraceMessageFacts
    <2>2. t \in Sessions /\ t.lost = session.lost
      BY <1>1, <1>3, <2>1
    <2> QED  BY <2>1, <2>2, EndGraceFacts
  <1>14. CASE PeerReads
    BY <1>14, PeerReadsFacts
  <1> QED  BY <1>4, <1>6, <1>7, <1>8, <1>9, <1>10, <1>11, <1>12, <1>13, <1>14 DEF Next

\* A session that passed over a garbled message asks for the gap when it reads the next admin
\* message, and what its peer sends again closes it: once both wires are empty the two agree,
\* up to the first application message that is counted again, provided that no request was
\* lost.
THEOREM GapsClose == Spec => [](AllAsked => GapCloses)
  <1> DEFINE Healing == AllAsked => Heals
  <1>1. TypeInv /\ OrderInv /\ Tracking /\ Attended /\ Healing /\ [Next]_vars
          => Tracking' /\ Attended' /\ Healing'
    <2> SUFFICES ASSUME TypeInv, OrderInv, Tracking, Attended, Healing, [Next]_vars
                 PROVE  Tracking' /\ Attended' /\ Healing'
      OBVIOUS
    <2>1. Tracking' /\ Attended'
      BY TrackingStep, AttendedStep
    <2>2. ASSUME AllAsked' PROVE Heals'
      <3>1. CASE Initiate
        BY <3>1, InitiateHeals
      <3>2. CASE ~Initiate
        <4>1. AllAsked
          BY <2>2, <3>2, LostStays DEF AllAsked
        <4> QED  BY <2>2, <4>1, HealsStep
      <3> QED  BY <3>1, <3>2
    <2> QED  BY <2>1, <2>2
  <1>2. Init => Tracking /\ Attended /\ Healing
    <2>1. Init => pc = "new"
      BY DEF Init
    <2>2. Init => Heals
      BY <2>1 DEF Heals, Mending
    <2> QED  BY <2>2, TrackingInit, AttendedInit
  <1>3. TypeInv /\ OrderInv /\ Tracking /\ Healing => (AllAsked => GapCloses)
    <2> SUFFICES ASSUME TypeInv, OrderInv, Tracking, Heals, Quiet, peer.alive, ~AppCounted,
                        MaxGarbled - budget.garbled <= 1
                 PROVE  session.inSeq = Len(peer.log)
      BY DEF GapCloses
    <2>1. Mending /\ pc = "poll" /\ peer.wire = << >> /\ session.wire = << >>
      BY DEF Mending, Quiet
    <2>2. /\ Mended /\ peer.log \in Logs /\ session.inSeq \in Nat /\ read \in Seq(Types \X Nat)
      BY <2>1, MendingFacts
    <2>3. session.inSeq <= Len(peer.log)
      <3>1. PICK A \in SUBSET (DOMAIN peer.log) : Tally(peer, A, session.inSeq, read)
        BY <2>1 DEF Tracking
      <3> QED  BY <2>2, <3>1, TallyBound
    <2>4. Pending(<< >>) = {}
      BY DEF Pending
    <2>5. (pc # "logon") = TRUE
      BY <2>1
    <2>6. Recovers(NothingGarbled, TRUE, << >>, peer.log, session.inSeq, read, {})
      BY <2>1, <2>2, <2>4, <2>5 DEF Mended
    <2> QED  BY <2>2, <2>3, <2>6, NothingMissing DEF Quiet
  <1> HIDE DEF Healing
  <1> QED  BY <1>1, <1>2, <1>3, OrderInvariant, PTL DEF Spec
=============================================================================
