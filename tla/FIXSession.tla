----------------------------- MODULE FIXSession -----------------------------
(* One FIX session: FIXSession::initiate, poll, send and terminate, the    *)
(* libtrading functions they call, and the counterparty (external) at the  *)
(* other end of a TCP connection that neither loses nor reorders.  Time is *)
(* the tv_sec of CLOCK_MONOTONIC: the code compares nothing finer.         *)
EXTENDS Integers, Sequences, SequencesExt

CONSTANTS HeartBtInt,   \* heartbtint, in seconds
          GracePeriod,  \* of a logout, in seconds: 2 (fix_common.c:259-260)
          AnswerDelay,  \* environment: a live peer answers a test request by then
          MaxStall,     \* environment: the longest a message handler blocks
          PeerMayDie,   \* environment: the peer may go silent for ever
          MaxGarbled,   \* environment: messages the parser drops as garbled
          MaxLost,      \* environment: messages of ours that a send loses
          MaxTime,      \* bound on the clock
          MaxApp,       \* bound on the application messages of the owner,
          MaxPeerApp,   \* of the peer,
          MaxAdmin,     \* and on the unsolicited other messages of the peer,
          PeerTypes,    \* which are of these types
          MaxWire       \* bound on the messages on their way to the peer

ASSUME SessionAssumption ==
    /\ HeartBtInt \in Nat \ {0}
    /\ {GracePeriod, AnswerDelay, MaxStall, MaxGarbled, MaxLost, MaxTime, MaxApp, MaxPeerApp,
         MaxAdmin, MaxWire} \subseteq Nat
    /\ PeerMayDie \in BOOLEAN
    /\ PeerTypes \subseteq {"Heartbeat", "TestRequest", "Reset", "Logout"}

VARIABLES clock,     \* CLOCK_MONOTONIC
          pc,        \* where the owner of the session is
          session,   \* struct fix_session, wire: what it has sent, lost (history):
                     \* what a send lost, and grace: when each logout under way began
          last,      \* m_lastTimespec, the last keepalive
          peer,      \* the counterparty, wire: what it has sent
          budget,    \* what is left of the bounds on the environment
          read,      \* history: the messages read, as <<type, seq>>
          heard,     \* history: when a message was last parsed
          asked,     \* history: when the last test request was sent
          joined     \* history: when the logon was answered

vars == <<clock, pc, session, last, peer, budget, read, heard, asked, joined>>

AdminTypes == {"Heartbeat", "TestRequest", "ResendRequest", "GapFill", "Reset"}
Types == AdminTypes \cup {"Logon", "Logout", "Reject", "App", "Garbled"}

\* ref is the TestReqID (NONE when there is none), BeginSeqNo, NewSeqNo or
\* RefSeqNum; end the EndSeqNo; dup the PossDupFlag.
NONE == -1
Message == [type : Types, seq : Nat, ref : Int, end : Nat, dup : BOOLEAN]

Msg(type, ref) == [type |-> type, seq |-> 0, ref |-> ref, end |-> 0, dup |-> FALSE]

Sessions ==
    [active : BOOLEAN, now : Nat, rx : Nat, tx : Nat, tr : Nat,
     trPending : BOOLEAN, testId : Nat, inSeq : Nat, outSeq : Nat,
     wire : Seq(Message), lost : SUBSET Message, grace : Seq(Nat)]

Peers ==
    [alive : BOOLEAN, log : Seq({"App", "Admin"}), expects : Nat,
     resend : {"none", "bounded", "open"}, wire : Seq(Message)]

TypeOK ==
    /\ clock \in 0 .. MaxTime
    /\ pc \in {"new", "logon", "poll", "handler", "failed", "closed"}
    /\ session \in Sessions
    /\ last \in Nat
    /\ peer \in Peers
    /\ budget \in [garbled : Nat, lost : Nat, app : Nat, peerApp : Nat, admin : Nat]
    /\ read \in Seq(Types \X Nat)
    /\ heard \in Nat /\ asked \in Nat /\ joined \in Nat

\* fix_session_new
NewSession ==
    [active |-> FALSE, now |-> clock, rx |-> clock, tx |-> clock, tr |-> 0,
     trPending |-> FALSE, testId |-> 0, inSeq |-> 0, outSeq |-> 1,
     wire |-> << >>, lost |-> {}, grace |-> << >>]

Init ==
    /\ clock = 0
    /\ pc = "new"
    /\ session = NewSession
    /\ last = 0
    /\ peer = [alive |-> TRUE, log |-> << >>, expects |-> 1, resend |-> "none",
             wire |-> << >>]
    /\ budget = [garbled |-> MaxGarbled, lost |-> MaxLost, app |-> MaxApp,
                 peerApp |-> MaxPeerApp, admin |-> MaxAdmin]
    /\ read = << >> /\ heard = 0 /\ asked = 0 /\ joined = 0

-----------------------------------------------------------------------------
(* fix_session_send and the messages it sends.  Each operator maps the     *)
(* session before to the session after.                                    *)

Send(s, m) ==
    [s EXCEPT !.wire = Append(@, [m EXCEPT !.seq = s.outSeq]),
              !.outSeq = @ + 1, !.tx = s.now]

\* FIX_SEND_FLAG_PRESERVE_MSG_NUM: the sequence number is the caller's.
SendAs(s, m, seq) ==
    [s EXCEPT !.wire = Append(@, [m EXCEPT !.seq = seq]), !.tx = s.now]

MutTestRequest(s) ==
    Send([s EXCEPT !.testId = s.now, !.tr = s.now], Msg("TestRequest", s.now))
TestRequest(s) ==
    Send([s EXCEPT !.testId = s.now, !.tr = s.now, !.trPending = TRUE],
         Msg("TestRequest", s.now))

ResendRequest(s, bgn, end) ==
    Send(s, [Msg("ResendRequest", bgn) EXCEPT !.end = end])

\* fix_session_logout: what it does before it waits for the peer's answer.
Logout(s) ==
    [Send(s, Msg("Logout", NONE)) EXCEPT !.active = FALSE, !.grace = Append(@, clock)]

TooLow(s, m) ==
    IF m.dup THEN [s EXCEPT !.inSeq = @ - 1]
             ELSE Logout([s EXCEPT !.inSeq = @ - 1])

\* fix_do_unexpected
MutUnexpected(s, m) ==
    IF m.seq > s.inSeq THEN ResendRequest(s, s.inSeq, 0) ELSE TooLow(s, m)
Unexpected(s, m) ==
    IF m.seq > s.inSeq
      THEN [ResendRequest(s, s.inSeq, 0) EXCEPT !.inSeq = @ - 1]
      ELSE TooLow(s, m)

Expected(s, m) == m.seq = s.inSeq \/ m.type \in {"GapFill", "Reset"}

MutOnHeartbeat(s, m) == s
OnHeartbeat(s, m) ==
    IF m.ref = s.testId THEN [s EXCEPT !.trPending = FALSE] ELSE s

MutOnResendRequest(s, m) == Send(s, Msg("GapFill", m.end + 1))
OnResendRequest(s, m) == SendAs(s, Msg("GapFill", m.end + 1), m.ref)

MutOnGapFill(s, m) ==
    CASE m.seq > s.inSeq ->
           [ResendRequest(s, s.inSeq, m.seq) EXCEPT !.inSeq = @ - 1]
      [] m.seq < s.inSeq -> TooLow(s, m)
      [] m.seq = s.inSeq /\ m.ref > m.seq -> [s EXCEPT !.inSeq = m.ref]
      [] OTHER -> Send(s, Msg("Reject", m.seq))
OnGapFill(s, m) ==
    CASE m.seq > s.inSeq ->
           [ResendRequest(s, s.inSeq, m.seq) EXCEPT !.inSeq = @ - 1]
      [] m.seq < s.inSeq -> TooLow(s, m)
      [] m.seq = s.inSeq /\ m.ref > m.seq -> [s EXCEPT !.inSeq = m.ref - 1]
      [] OTHER -> Send(s, Msg("Reject", m.seq))

MutOnReset(s, m) == IF m.ref > s.inSeq THEN [s EXCEPT !.inSeq = m.ref] ELSE s
OnReset(s, m) ==
    CASE m.ref > s.inSeq -> [s EXCEPT !.inSeq = m.ref - 1]
      [] m.ref < s.inSeq ->
           Send([s EXCEPT !.inSeq = @ - 1], Msg("Reject", s.inSeq))
      [] OTHER -> s

\* fix_session_admin on a message of an admin type.
Admin(s, m) ==
    IF ~Expected(s, m) THEN Unexpected(s, m)
    ELSE CASE m.type = "Heartbeat"     -> OnHeartbeat(s, m)
           [] m.type = "TestRequest"   -> Send(s, Msg("Heartbeat", m.ref))
           [] m.type = "ResendRequest" -> OnResendRequest(s, m)
           [] m.type = "GapFill"       -> OnGapFill(s, m)
           [] m.type = "Reset"         -> OnReset(s, m)
-----------------------------------------------------------------------------
(* The owner: initiate, poll (keepalive, time update, receive, dispatch),  *)
(* send, terminate.                                                        *)

InGrace == session.grace # << >>

\* Bound: a peer that is alive reads before its wire is full.
WireFree == Len(session.wire) < MaxWire

Initiate ==
    /\ pc = "new"
    /\ pc' = "logon"
    /\ session' = [Send(NewSession, Msg("Logon", NONE)) EXCEPT !.active = TRUE]
    /\ UNCHANGED <<clock, last, peer, budget, read, heard, asked, joined>>

\* fix_session_recv parsed a message.
MutParsed(s) == [s EXCEPT !.rx = s.now]
Parsed(s) == [s EXCEPT !.rx = s.now, !.inSeq = @ + 1]

\* The message at the head of the stream; a garbled one is skipped.
Incoming == Head(peer.wire)
Reads == /\ peer.wire # << >>
         /\ peer' = [peer EXCEPT !.wire = Tail(@)]
         /\ heard' = IF Incoming.type = "Garbled" THEN heard ELSE clock
         /\ read' = Append(read, <<Incoming.type, Incoming.seq>>)

\* fix_session_logon waits, without a limit, for the answer to its Logon.
LogonMessage ==
    /\ pc = "logon" /\ ~InGrace /\ WireFree
    /\ Reads
    /\ LET s == Parsed(session)
       IN  CASE Incoming.type = "Garbled" ->
                  UNCHANGED <<pc, session, last, joined>>
             [] Incoming.type # "Garbled" /\ ~Expected(s, Incoming) ->
                  /\ session' = Unexpected(s, Incoming)
                  /\ pc' = IF session'.active THEN pc ELSE "failed"
                  /\ UNCHANGED <<last, joined>>
             [] Incoming.type = "Logon" /\ Expected(s, Incoming) ->
                  /\ pc' = "poll" /\ session' = s
                  /\ last' = clock /\ joined' = clock
             [] OTHER ->
                  /\ pc' = "failed" /\ session' = Logout(s)
                  /\ UNCHANGED <<last, joined>>
    /\ UNCHANGED <<clock, budget, asked>>

\* fix_session_logout waits for the Logout of the peer.  A message that makes
\* fix_session_admin log out again starts another wait inside this one.
GraceStarted == session.grace[Len(session.grace)]
EndGrace(s) == [s EXCEPT !.grace = SubSeq(@, 1, Len(@) - 1)]

GraceOver ==
    /\ InGrace
    /\ clock - GraceStarted > GracePeriod
    /\ session' = EndGrace(session)
    /\ UNCHANGED <<clock, pc, last, peer, budget, read, heard, asked, joined>>

GraceMessage ==
    /\ InGrace /\ WireFree
    /\ clock - GraceStarted <= GracePeriod
    /\ Reads
    /\ LET s == Parsed(session)
       IN  session' =
             CASE Incoming.type = "Garbled" -> session
               [] /\ Incoming.type # "Garbled"
                  /\ Expected(s, Incoming) => Incoming.type \in AdminTypes -> Admin(s, Incoming)
               [] OTHER -> EndGrace(s)
    /\ UNCHANGED <<clock, pc, last, budget, asked, joined>>

Polls == pc = "poll" /\ ~InGrace

\* poll() throws: the session is no longer active.
PollInactive ==
    /\ Polls
    /\ ~session.active
    /\ pc' = "failed"
    /\ UNCHANGED <<clock, session, last, peer, budget, read, heard, asked, joined>>

KeepAliveDue == 10 * (clock - last) > HeartBtInt

MutUnanswered(s) == s.trPending /\ 2 * (clock - s.rx) > HeartBtInt
Unanswered(s) == s.trPending /\ 2 * (clock - s.tr) > HeartBtInt

\* fix_session_keepalive returns false: poll() throws.
KeepAliveFails ==
    /\ Polls
    /\ session.active /\ KeepAliveDue /\ Unanswered(session)
    /\ session' = [session EXCEPT !.active = FALSE]
    /\ last' = clock
    /\ pc' = "failed"
    /\ UNCHANGED <<clock, peer, budget, read, heard, asked, joined>>

Asks(s) == ~s.trPending /\ 4 * (clock - s.rx) > 5 * HeartBtInt

MutBeats(s) == clock - s.rx > HeartBtInt
Beats(s) == clock - s.tx > HeartBtInt

KeptAlive(s) ==
    LET probed == IF Asks(s) THEN TestRequest(s) ELSE s
    IN  IF Beats(probed) THEN Send(probed, Msg("Heartbeat", NONE)) ELSE probed

\* A poll up to fix_session_recv.
Polled ==
    [(IF KeepAliveDue THEN KeptAlive(session) ELSE session) EXCEPT !.now = clock]

PollBegins ==
    /\ Polls /\ WireFree
    /\ session.active
    /\ KeepAliveDue => ~Unanswered(session)
    /\ last' = IF KeepAliveDue THEN clock ELSE last
    /\ asked' = IF KeepAliveDue /\ Asks(session) THEN clock ELSE asked

PollNothing ==
    /\ PollBegins
    /\ peer.wire = << >>
    /\ session' = Polled
    /\ UNCHANGED <<clock, pc, peer, budget, read, heard, joined>>

\* A message that is not of an admin type goes to the owner's handler, without
\* a look at its sequence number; the handler may block.
PollMessage ==
    /\ PollBegins
    /\ Reads
    /\ LET s == Parsed(Polled)
       IN  CASE Incoming.type = "Garbled" ->
                  session' = Polled /\ pc' = pc
             [] Incoming.type \in AdminTypes ->
                  session' = Admin(s, Incoming) /\ pc' = pc
             [] Incoming.type = "App" ->
                  session' = s /\ pc' = "handler"
             [] OTHER ->
                  session' = s /\ pc' = pc
    /\ UNCHANGED <<clock, budget, joined>>

HandlerReturns ==
    /\ pc = "handler"
    /\ pc' = "poll"
    /\ UNCHANGED <<clock, session, last, peer, budget, read, heard, asked, joined>>

\* send() does not look at active.
SendApp ==
    /\ Polls /\ WireFree
    /\ budget.app > 0
    /\ session' = Send(session, Msg("App", NONE))
    /\ budget' = [budget EXCEPT !.app = @ - 1]
    /\ UNCHANGED <<clock, pc, last, peer, read, heard, asked, joined>>

\* A send failed, of whatever message: it has its number and its tx_timestamp, and no
\* caller looks at the result of fix_session_send.  Until the peer would have read the
\* message nobody can tell that it was not sent.
SendFails ==
    /\ budget.lost > 0
    /\ \E k \in DOMAIN session.wire :
          session' = [session EXCEPT !.wire = RemoveAt(@, k),
                                     !.lost = @ \cup {session.wire[k]}]
    /\ budget' = [budget EXCEPT !.lost = @ - 1]
    /\ UNCHANGED <<clock, pc, last, peer, read, heard, asked, joined>>

Terminate ==
    /\ pc \in {"poll", "failed"} /\ ~InGrace
    /\ pc' = "closed"
    /\ session' = [session EXCEPT !.active = FALSE, !.wire = << >>]
    /\ peer' = [peer EXCEPT !.alive = FALSE, !.wire = << >>]
    /\ UNCHANGED <<clock, last, budget, read, heard, asked, joined>>

-----------------------------------------------------------------------------
(* The counterparty, a conformant FIX engine (external).                   *)

PeerSend(p, m) ==
    [p EXCEPT !.wire = Append(@, [m EXCEPT !.seq = Len(p.log) + 1]),
              !.log = Append(@, IF m.type = "App" THEN "App" ELSE "Admin")]

\* The first application message from number n on, or the one after the last.
NextApp(log, to, n) ==
    CHOOSE k \in n .. to + 1 :
       /\ k = to + 1 \/ log[k] = "App"
       /\ \A j \in n .. k - 1 : log[j] # "App"

Again(m, n) == <<[m EXCEPT !.seq = n, !.dup = TRUE]>>

\* What is sent again for message n and what follows it, given what is for the
\* later ones: application messages as they were, a gap fill for every run of
\* the others.
ResentFrom(log, to, later, n) ==
    CASE n = to + 1 -> << >>
      [] n <= to /\ NextApp(log, to, n) = n -> Again(Msg("App", NONE), n) \o later[n + 1]
      [] OTHER -> Again(Msg("GapFill", NextApp(log, to, n)), n) \o later[NextApp(log, to, n)]

ResendEnd(log, end) == IF end = 0 \/ end > Len(log) THEN Len(log) ELSE end

Resent(log, bgn, end) ==
    LET to == ResendEnd(log, end)
        from[n \in bgn .. to + 1] == ResentFrom(log, to, from, n)
    IN  from[bgn]

Reply(p, m) ==
    CASE m.type = "Logon"         -> PeerSend(p, Msg("Logon", NONE))
      [] m.type = "TestRequest"   -> PeerSend(p, Msg("Heartbeat", m.ref))
      [] m.type = "Logout"        -> PeerSend(p, Msg("Logout", NONE))
      [] m.type = "ResendRequest" ->
           [p EXCEPT !.wire = @ \o Resent(p.log, m.ref, m.end)]
      [] OTHER                    -> p

\* A gap is asked for once; what follows it is dropped and asked for with it.
\* A resend request is answered even when it follows a gap.
AfterGap(p, m, end) ==
    CASE m.type = "ResendRequest" -> Reply(p, m)
      [] m.type # "ResendRequest" /\ p.resend = "none" ->
           [PeerSend(p, [Msg("ResendRequest", p.expects) EXCEPT !.end = end])
              EXCEPT !.resend = IF end = 0 THEN "open" ELSE "bounded"]
      [] OTHER -> p

AfterReading(p, m, end) ==
    CASE p.alive /\ m.seq > p.expects -> AfterGap(p, m, end)
      [] p.alive /\ m.seq = p.expects /\ m.type # "GapFill" ->
           Reply([p EXCEPT !.expects = @ + 1], m)
      [] p.alive /\ m.seq = p.expects /\ m.type = "GapFill" /\ m.ref > m.seq ->
           [p EXCEPT !.expects = m.ref, !.resend = "none"]
      [] OTHER -> p

PeerReads ==
    /\ session.wire # << >>
    /\ LET m == Head(session.wire)
       IN  \E end \in {0, m.seq} : peer' = AfterReading(peer, m, end)
    /\ session' = [session EXCEPT !.wire = Tail(@)]
    /\ UNCHANGED <<clock, pc, last, budget, read, heard, asked, joined>>

PeerTalks(type) ==
    /\ peer.alive /\ peer.log # << >>
    /\ pc # "closed"
    /\ LET kind == IF type = "App" THEN "peerApp" ELSE "admin"
       IN  /\ budget[kind] > 0
           /\ budget' = [budget EXCEPT ![kind] = @ - 1]
    /\ peer' = CASE type = "Reset" ->
                      [PeerSend(peer, Msg("Reset", Len(peer.log) + 3))
                         EXCEPT !.log = Append(@, "Admin")]
                 [] type = "Logout" ->
                      [PeerSend(peer, Msg("Logout", NONE)) EXCEPT !.alive = FALSE]
                 [] type = "TestRequest" -> PeerSend(peer, Msg(type, clock))
                 [] OTHER -> PeerSend(peer, Msg(type, NONE))
    /\ UNCHANGED <<clock, pc, session, last, read, heard, asked, joined>>

PeerDies ==
    /\ PeerMayDie
    /\ peer.alive /\ pc # "closed"
    /\ peer' = [peer EXCEPT !.alive = FALSE]
    /\ UNCHANGED <<clock, pc, session, last, budget, read, heard, asked, joined>>

\* fix_message_parse skips a message it finds garbled.
Garble ==
    /\ budget.garbled > 0
    /\ \E k \in DOMAIN peer.wire :
          /\ peer.wire[k].type # "Garbled"
          /\ peer' = [peer EXCEPT !.wire[k].type = "Garbled"]
    /\ budget' = [budget EXCEPT !.garbled = @ - 1]
    /\ UNCHANGED <<clock, pc, session, last, read, heard, asked, joined>>

-----------------------------------------------------------------------------
(* Time.  poll() runs in a busy loop: within a second it reads all that    *)
(* has arrived.  A handler blocks for MaxStall at most, and a live peer    *)
(* answers a test request within AnswerDelay.                              *)

Tick ==
    /\ clock < MaxTime
    /\ pc \in {"logon", "poll", "handler"} \/ InGrace
    /\ Polls => session.active /\ session.now = clock /\ peer.wire = << >>
    /\ InGrace => clock - GraceStarted <= GracePeriod /\ peer.wire = << >>
    /\ pc = "handler" => clock - session.now < MaxStall
    /\ (peer.alive /\ \E k \in DOMAIN session.wire : session.wire[k].type = "TestRequest")
         => clock - asked < AnswerDelay
    /\ clock' = clock + 1
    /\ UNCHANGED <<pc, session, last, peer, budget, read, heard, asked, joined>>

\* The session was closed, or the clock is at its bound.
Ended == (pc = "closed" \/ clock = MaxTime) /\ UNCHANGED vars

Next ==
    \/ Initiate \/ LogonMessage
    \/ PollInactive \/ KeepAliveFails \/ PollNothing \/ PollMessage \/ HandlerReturns
    \/ SendApp \/ SendFails
    \/ GraceOver \/ GraceMessage \/ Terminate
    \/ PeerReads \/ PeerDies \/ Garble
    \/ \E type \in PeerTypes \cup {"App"} : PeerTalks(type)
    \/ Tick \/ Ended

Spec == Init /\ [][Next]_vars
-----------------------------------------------------------------------------
(* Properties                                                              *)

Interval == HeartBtInt \div 10 + 1          \* seconds between two keepalives

\* A session that is polled hears of its peer, or finds it dead and fails,
\* within a bounded time: the silence before the test request, the time the
\* peer has to answer, and one keepalive interval for each; or, after a handler
\* that blocked for longer than that, one more interval.
ProbeTime == (5 * HeartBtInt) \div 4
AnswerTime == IF HeartBtInt = 1 THEN 1 ELSE HeartBtInt \div 2
SilenceLimit == ProbeTime + AnswerTime + 2 * Interval - 1

DeadPeerDetected ==
    (Polls /\ session.active) =>
       \E limit \in {SilenceLimit, MaxStall + Interval} : clock - heard <= limit

\* A handler blocked just before the test request was sent.
AskedLate == asked - session.tr > 1

\* The answer has come and was not read: the keepalive runs before the receive,
\* and handlers blocked since.
AnswerWaits ==
    \E k \in DOMAIN peer.wire :
       peer.wire[k].type = "Heartbeat" /\ peer.wire[k].ref = session.testId

\* Unless a handler blocked, the keepalive never fails a peer that is alive and
\* answers a test request within half a heartbeat interval, less the second by
\* which the clock of the session may lag, whatever else the peer sends.
ResponsivePeerKept ==
    [][ (2 * (AnswerDelay + 1) <= HeartBtInt /\ MaxGarbled = 0 /\ MaxLost = 0)
          => (KeepAliveFails /\ peer.alive => AskedLate \/ AnswerWaits) ]_vars

\* The peer had half a heartbeat interval to answer the test request, less what
\* the clock of the session lagged when it was sent (tr_timestamp is the time of
\* the poll before): a second, or the time a handler blocked.
FailureJustified ==
    [][ KeepAliveFails =>
          \E lag \in {1, MaxStall} : 2 * (clock - asked + lag) > HeartBtInt ]_vars

\* A live session never leaves its peer without a message for longer than the
\* interval it announced in its Logon, one keepalive, and the time a handler
\* blocked; tx_timestamp may lag by the time another one blocked before.  It is
\* stamped for a send that fails, too.
PeerHearsUs ==
    (Polls /\ session.active /\ session.lost = {}) =>
       \E quiet \in {HeartBtInt, MaxStall}, sent \in {session.tx, joined} :
          clock - sent <= quiet + Interval + MaxStall

NothingGarbled == budget.garbled = MaxGarbled

\* As long as nothing was garbled the messages of the peer are read once and in
\* order, and the session stays in step with the peer.
InStep ==
    (NothingGarbled /\ pc = "poll" /\ session.active)
       => /\ \A j, k \in DOMAIN read : j < k => read[j][2] < read[k][2]
          /\ peer.wire = << >> => session.inSeq = Len(peer.log)

\* The gap fill that the peer needs was not sent; nothing sends it again.
AnswerLost == \E m \in session.lost : m.type = "GapFill" /\ m.seq = peer.expects

\* A peer that noticed a gap and asked for it up to the message that showed the
\* gap is never left waiting: once both wires are empty it is in step again,
\* provided its request was not garbled, nor the answer lost.
PeerUnblocked ==
    (NothingGarbled /\ peer.alive /\ pc = "poll" /\ session.active
       /\ peer.wire = << >> /\ session.wire = << >>)
       => peer.resend # "bounded" \/ AnswerLost

\* Nothing is on its way, and an admin message was the last one read.
Quiet ==
    /\ pc = "poll" /\ session.active
    /\ peer.wire = << >> /\ session.wire = << >>
    /\ read # << >> /\ read[Len(read)][1] \in AdminTypes

\* The peer sent again an application message that the session had counted: it was read,
\* or a sequence reset stood for it.  poll() hands it on like a new one and counts it once
\* more, so the numbers may run ahead of the peer from there on.
AppCounted ==
    \E j, k \in DOMAIN read :
       /\ j < k /\ read[k][1] = "App"
       /\ \/ read[k] = read[j]
          \/ read[j][1] = "Reset" /\ read[k][2] <= read[j][2]

\* A request for the very message that is missing was not sent.
RequestLost ==
    \E m \in session.lost : m.type = "ResendRequest" /\ m.ref = session.inSeq + 1

\* A garbled message is noticed at the next admin message, and once the answer to the
\* resend request was read the two sides agree again; a request that was lost is sent again
\* at the admin message after that one, so the gap is open only if one was.
\* A second garbled message may go unnoticed up to the next new one: every message that
\* showed the gap was answered with a request, and the answer to a late one begins with a
\* number that is too low by then; and a gap fill that comes too early is asked for up to
\* its own number only, not up to what it stands for.
GapCloses ==
    (Quiet /\ peer.alive /\ ~AppCounted /\ MaxGarbled - budget.garbled <= 1)
       => session.inSeq = Len(peer.log) \/ RequestLost

\* The session counts no message that its peer has not sent, and takes none for one that
\* is too low, so that it does not log out by itself, whatever was garbled.
NoFalseLogout ==
    (pc = "poll" /\ ~AppCounted) => ~InGrace /\ session.inSeq <= Len(peer.log)
=============================================================================
