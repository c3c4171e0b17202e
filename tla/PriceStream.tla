---------------------------- MODULE PriceStream ----------------------------
(* The process as main() runs it: one thread (mainThread) initiates the    *)
(* two market offices and the stream office, polls them in turn until one  *)
(* throws, and terminates them; main() itself watches isRunning, joins the *)
(* thread, rests and starts the next round.                                *)
(*                                                                         *)
(* The market offices publish prices into the price ring, the stream       *)
(* office passes them on to NATS.  What a session does inside is module    *)
(* FIXSession; here initiating or polling it may succeed or throw.         *)
EXTENDS FIXMarketOffice, Disruptor

CONSTANTS PriceRingSize,   \* slots of the price ring (32 in main.cpp)
          SslOffices,      \* the market offices with m_sslEnabled
          MaxRounds,       \* bound on the rounds of main()
          MaxPrices,       \* bound on the prices published
          MaxLeaks         \* bound on the descriptors that connects forget

ASSUME StreamAssumption ==
    /\ Offices = 1 .. 2
    /\ PriceRingSize \in Nat /\ PriceRingSize >= 2
    /\ SslOffices \subseteq Offices
    /\ MaxRounds \in Nat /\ MaxPrices \in Nat /\ MaxLeaks \in Nat

VARIABLES mainPc,      \* main(): start, watch, join, rest
          phase,       \* mainThread: none, initiate, test, work, terminate,
                       \* done, or crashed (the whole process)
          at,          \* the office the thread is at
          isRunning,
          priceRing,
          book,        \* m_bid, m_ask of the market offices
          sequence,    \* m_sequence of the market offices
          socket,      \* m_socketFD of the market offices, and whether
                       \* m_ssl is an object
          files,       \* the open descriptors of the process: who opened each
          session,     \* m_session of the market offices: allocated or not
          nats,        \* m_nc: null, live, or dangling after its Destroy
          round,       \* history: the rounds started
          told,        \* history: the last new prices each broker told
          streamed     \* history: what NATS was given

marketVars == <<book, sequence, told>>
threadVars == <<phase, at>>
socketVars == <<socket, files, session>>
vars == <<mainPc, threadVars, isRunning, priceRing, marketVars, socketVars,
          nats, round, streamed>>

STREAM == 3
Readers == {STREAM}

PROCESS == 0        \* owns the standard streams and the file of the logger
LEAKED == 4         \* owns what nobody remembers
Owners == {PROCESS, STREAM, LEAKED} \cup Offices

TypeOK ==
    /\ mainPc \in {"start", "watch", "join", "rest"}
    /\ phase \in {"none", "initiate", "test", "work", "terminate", "done", "crashed"}
    /\ at \in 1 .. 3
    /\ isRunning \in BOOLEAN
    /\ priceRing \in Rings(PriceEvent, Readers)
    /\ book \in [Offices -> Books] /\ told \in [Offices -> Books]
    /\ sequence \in [Offices -> Nat]
    /\ socket \in [Offices -> [fd : Int, ssl : BOOLEAN]]
    /\ DOMAIN files \subseteq Nat
    /\ \A n \in DOMAIN files : files[n] \in Owners
    /\ session \in [Offices -> BOOLEAN]
    /\ nats \in {"null", "live", "dangling"}
    /\ round \in Nat
    /\ streamed \in Seq(PriceEvent)

Init ==
    /\ mainPc = "start" /\ phase = "none" /\ at = 1
    /\ isRunning = TRUE
    /\ priceRing = NewRing(Readers)
    /\ book = [o \in Offices |-> NoBook] /\ told = book
    /\ sequence = [o \in Offices |-> 0]
    /\ socket = [o \in Offices |-> [fd |-> 0, ssl |-> FALSE]]
    /\ files = [n \in 0 .. 3 |-> PROCESS]
    /\ session = [o \in Offices |-> FALSE]
    /\ nats = "null"
    /\ round = 0
    /\ streamed = << >>

-----------------------------------------------------------------------------
(* main().                                                                 *)

\* Bound: main() starts rounds for ever.
StartRound ==
    /\ mainPc = "start" /\ round < MaxRounds
    /\ mainPc' = "watch"
    /\ phase' = "initiate" /\ at' = 1
    /\ round' = round + 1
    /\ UNCHANGED <<isRunning, priceRing, marketVars, socketVars, nats, streamed>>

\* while (isRunning) sleep
Watch ==
    /\ mainPc = "watch"
    /\ mainPc' = IF isRunning THEN mainPc ELSE "join"
    /\ UNCHANGED <<threadVars, isRunning, priceRing, marketVars, socketVars, nats,
                   round, streamed>>

Join ==
    /\ mainPc = "join" /\ phase = "done"
    /\ mainPc' = "rest"
    /\ UNCHANGED <<threadVars, isRunning, priceRing, marketVars, socketVars, nats,
                   round, streamed>>

Rested ==
    /\ mainPc = "rest" /\ round < MaxRounds
    /\ mainPc' = "start"
    /\ UNCHANGED <<threadVars, isRunning, priceRing, marketVars, socketVars, nats,
                   round, streamed>>

-----------------------------------------------------------------------------
(* mainThread.                                                             *)

\* The catch of mainThread: any exception ends the round.
MutThrow == phase' = "terminate" /\ at' = 1 /\ UNCHANGED isRunning
MutThrowHere == phase' = "terminate" /\ at' = at /\ isRunning' = FALSE
Throw == phase' = "terminate" /\ at' = 1 /\ isRunning' = FALSE

Advance(next) ==
    IF at < 3 THEN at' = at + 1 /\ phase' = phase
              ELSE at' = 1 /\ phase' = next

-----------------------------------------------------------------------------
(* Descriptors.  The operating system gives out the lowest free number.    *)

LowestFree == Min((0 .. Cardinality(DOMAIN files)) \ DOMAIN files)

OpenedBy(owner) ==
    [n \in DOMAIN files \cup {LowestFree} |->
       IF n = LowestFree THEN owner ELSE files[n]]

Without(numbers) == [n \in DOMAIN files \ numbers |-> files[n]]
OwnedBy(owner) == {n \in DOMAIN files : files[n] = owner}

\* FIXSocket::initiate of market office o finds no host: m_socketFD stays what it
\* was in an earlier round.
LookupFails(o) ==
    /\ phase = "initiate" /\ at = o
    /\ Throw
    /\ UNCHANGED <<mainPc, priceRing, marketVars, socketVars, nats, round, streamed>>

\* No socket for an address of the host, or no connection on it, which forgets
\* the socket.  The next address is tried, or there is none.
AddressFails(o, isLeaked) ==
    /\ phase = "initiate" /\ at = o
    /\ isLeaked => Cardinality(OwnedBy(LEAKED)) < MaxLeaks
    /\ files' = IF isLeaked THEN OpenedBy(LEAKED) ELSE files
    /\ socket' = [socket EXCEPT ![o].fd = -1]
    /\ Throw \/ UNCHANGED <<threadVars, isRunning>>
    /\ UNCHANGED <<mainPc, priceRing, marketVars, session, nats, round, streamed>>

\* An address is connected: the options, SSL and the logon, for which a session is
\* allocated, may fail on the open socket.
InitiateMarket(o) ==
    /\ phase = "initiate" /\ at = o
    /\ files' = OpenedBy(o)
    /\ \E isSecured, isAllocated \in BOOLEAN :
          /\ socket' = [socket EXCEPT ![o] = [fd |-> LowestFree, ssl |-> isSecured]]
          /\ session' = [session EXCEPT ![o] = isAllocated]
          /\ isSecured => o \in SslOffices
          /\ isAllocated /\ o \in SslOffices => isSecured
          /\ \/ isAllocated /\ Advance("test") /\ UNCHANGED isRunning
             \/ Throw
    /\ UNCHANGED <<mainPc, priceRing, marketVars, nats, round, streamed>>

\* NATSSession::initiate: m_nc is written by a connect that succeeds only.
ConnectNats ==
    \/ /\ nats' = "live" /\ files' = OpenedBy(STREAM)
       /\ Advance("test") /\ UNCHANGED isRunning
    \/ Throw /\ UNCHANGED <<nats, files>>

\* StreamOffice::initiate: the poller gates the ring before NATS connects.
InitiateStream ==
    /\ phase = "initiate" /\ at = STREAM
    /\ priceRing' = AddGate(priceRing, STREAM)
    /\ ConnectNats
    /\ UNCHANGED <<mainPc, marketVars, socket, session, round, streamed>>

\* while (isRunning)
TestRunning ==
    /\ phase = "test"
    /\ phase' = IF isRunning THEN "work" ELSE "terminate"
    /\ at' = 1
    /\ UNCHANGED <<mainPc, isRunning, priceRing, marketVars, socketVars, nats,
                   round, streamed>>

\* A poll of market office o finds no message, or one it only logs.
PollNoPrice(o) ==
    /\ phase = "work" /\ at = o
    /\ Advance("test")
    /\ UNCHANGED <<mainPc, isRunning, priceRing, marketVars, socketVars, nats,
                   round, streamed>>

\* What the broker told, without a look at the fields.
LastTold(old, kind, entries, side) ==
    LET counts == {n \in DOMAIN entries :
                     /\ entries[n].side = side
                     /\ kind = "snapshot" \/ entries[n].action = NEW_ENTRY}
    IN  IF counts = {} THEN old ELSE entries[Max(counts)].px

\* A poll of market office o finds a market data message.
PollPrice(o, kind, entries) ==
    /\ phase = "work" /\ at = o
    /\ Len(priceRing.log) < MaxPrices
    /\ HasRoom(priceRing, PriceRingSize)
    /\ book' = [book EXCEPT ![o] = BookAfter(@, kind, entries)]
    /\ told' = [told EXCEPT ![o] =
                  [bid |-> LastTold(@.bid, kind, entries, BID),
                   ask |-> LastTold(@.ask, kind, entries, ASK)]]
    /\ sequence' = [sequence EXCEPT ![o] = @ + 1]
    /\ priceRing' = Publish(priceRing,
                      [broker |-> o, bid |-> book'[o].bid, ask |-> book'[o].ask,
                       sequence |-> sequence'[o]])
    /\ Advance("test")
    /\ UNCHANGED <<mainPc, isRunning, socketVars, nats, round, streamed>>

\* The session of market office o is found dead.
PollThrows(o) ==
    /\ phase = "work" /\ at = o
    /\ Throw
    /\ UNCHANGED <<mainPc, priceRing, marketVars, socketVars, nats, round, streamed>>

\* The events up to n are handed to NATS (m_priceEventHandler), which throws at
\* the next one if it refuses it.
PassOn(n) ==
    /\ streamed' = streamed \o SubSeq(priceRing.log, priceRing.seq[STREAM] + 1, n)
    /\ IF n = Len(priceRing.log) THEN Advance("test") /\ UNCHANGED isRunning
                                 ELSE Throw

\* StreamOffice::doWork handles all that is unread.
MutPollStream(n) ==
    /\ phase = "work" /\ at = STREAM
    /\ n >= priceRing.seq[STREAM]
    /\ IF Len(priceRing.log) > priceRing.seq[STREAM] + 1
         THEN PassOn(n) /\ priceRing' = ConsumeTo(priceRing, STREAM, n)
         ELSE Advance("test") /\ UNCHANGED <<isRunning, streamed, priceRing>>
    /\ UNCHANGED <<mainPc, marketVars, socketVars, nats, round>>
PollStream(n) ==
    /\ phase = "work" /\ at = STREAM
    /\ n >= priceRing.seq[STREAM]
    /\ PassOn(n)
    /\ priceRing' = ConsumeTo(priceRing, STREAM, n)
    /\ UNCHANGED <<mainPc, marketVars, socketVars, nats, round>>

\* FIXSession::terminate closes the number it remembers, whoever has it by now,
\* and frees the SSL object and the session if there are any.
TerminateMarket(o) ==
    /\ phase = "terminate" /\ at = o
    /\ files' = Without({socket[o].fd})
    /\ socket' = [socket EXCEPT ![o].ssl = FALSE]
    /\ session' = [session EXCEPT ![o] = FALSE]
    /\ Advance("done")
    /\ UNCHANGED <<mainPc, isRunning, priceRing, marketVars, nats, round, streamed>>

\* NATSSession::terminate leaves m_nc as it is.  Closing and destroying no
\* connection does nothing.
DestroyNats ==
    /\ nats' = IF nats = "null" THEN "null" ELSE "dangling"
    /\ files' = Without(OwnedBy(STREAM))

\* StreamOffice::terminate.  Destroying a connection that was destroyed before is
\* undefined, and may crash the process.
MutTerminateStream ==
    /\ phase = "terminate" /\ at = STREAM
    /\ DestroyNats
    /\ \/ /\ Advance("done")
          /\ UNCHANGED priceRing
       \/ /\ nats = "dangling"
          /\ phase' = "crashed"
          /\ UNCHANGED <<at, priceRing>>
    /\ UNCHANGED <<mainPc, isRunning, marketVars, socket, session, round, streamed>>
TerminateStream ==
    /\ phase = "terminate" /\ at = STREAM
    /\ DestroyNats
    /\ \/ /\ Advance("done")
          /\ priceRing' = RemoveGate(priceRing, STREAM)
       \/ /\ nats = "dangling"
          /\ phase' = "crashed"
          /\ UNCHANGED <<at, priceRing>>
    /\ UNCHANGED <<mainPc, isRunning, marketVars, socket, session, round, streamed>>

\* The library connects again on a thread of its own when the connection is lost.
NatsReconnects ==
    /\ nats = "live"
    /\ files' = LET number == Min({LowestFree} \cup OwnedBy(STREAM))
                IN  [n \in (DOMAIN files \ OwnedBy(STREAM)) \cup {number} |->
                       IF n = number THEN STREAM ELSE files[n]]
    /\ UNCHANGED <<mainPc, threadVars, isRunning, priceRing, marketVars, socket,
                   session, nats, round, streamed>>

\* The process has crashed, or the last round is over.
Ended ==
    /\ phase = "crashed" \/ (mainPc = "rest" /\ round = MaxRounds)
    /\ UNCHANGED vars

MainStep == phase # "crashed" /\ (StartRound \/ Watch \/ Join \/ Rested)

ThreadStep ==
    \/ \E o \in Offices :
          \/ LookupFails(o) \/ \E isLeaked \in BOOLEAN : AddressFails(o, isLeaked)
          \/ InitiateMarket(o) \/ PollNoPrice(o) \/ PollThrows(o) \/ TerminateMarket(o)
          \/ \E kind \in {"snapshot", "refresh"}, entries \in EntryLists :
                PollPrice(o, kind, entries)
    \/ InitiateStream \/ TestRunning \/ TerminateStream
    \/ \E n \in 0 .. Len(priceRing.log) : PollStream(n)

Next == MainStep \/ ThreadStep \/ NatsReconnects \/ Ended

Spec == Init /\ [][Next]_vars

\* Two threads that the operating system keeps running; but a logon may wait for
\* its answer for ever (fix_common.c:213-215).
FairSpec == Spec /\ WF_vars(MainStep) /\ WF_vars(phase # "initiate" /\ ThreadStep)
-----------------------------------------------------------------------------
(* Properties                                                              *)

\* mainThread fills the price ring and is the only one that drains it, so it
\* must never have to wait for room (FIXMarketOffice.cpp:113, 142).
NeverWaits == (phase = "work" /\ at \in Offices) => HasRoom(priceRing, PriceRingSize)

\* NATS is given the published prices in their order, none twice, and, until an
\* exception ends the round, at the top of the loop all (StreamOffice::doWork).
StreamedInOrder ==
    /\ streamed = SubSeq(priceRing.log, 1, Len(streamed))
    /\ phase = "test" /\ isRunning => Len(streamed) = Len(priceRing.log)

\* A published price carries the last new bid and the last new ask that its
\* broker told (m_onMessageHandler of the market office).
PublishedAsTold ==
    \A o \in Offices :
       LET own == {n \in DOMAIN priceRing.log : priceRing.log[n].broker = o}
       IN  own # {} => LET last == priceRing.log[Max(own)]
                       IN  /\ last.bid = told[o].bid /\ last.ask = told[o].ask
                           /\ last.sequence = Cardinality(own)

\* A round that is over holds no session, no SSL object, no connection and none of
\* their descriptors, but for those a failed connect forgot, and its consumer does
\* not hold back the ring, however the round failed.
Released ==
    phase = "done" =>
       /\ nats # "live"
       /\ \A o \in Offices : ~session[o] /\ ~socket[o].ssl
       /\ \A n \in DOMAIN files : files[n] \in {PROCESS, LEAKED}
       /\ priceRing.gates = {}

\* The number an office remembers from an earlier round, or from no round, is never
\* that of a connection somebody else has opened since: terminate() closes it
\* without a look (FIXSocket.cpp:79).
ClosesNoOther ==
    \A o \in Offices :
       phase = "terminate" /\ at = o /\ socket[o].fd \in DOMAIN files
          => files[socket[o].fd] \in {o, PROCESS, LEAKED}

\* An exception anywhere in the round brings main() to its rest.
FailureEndsRound == (phase = "terminate") ~> (mainPc = "rest" \/ phase = "crashed")

\* Terminating a NATS session that holds no connection is harmless, as the
\* tests have it (tests/unit/NATSSessionTest.cpp:122, "should terminate session").
TerminateHarmless == phase # "crashed"

\* A round that has initiated its offices works until an exception ends it: main()
\* says "MAIN OK" when it starts the round (main.cpp:118).
RoundsWork == [][ TestRunning => phase' = "work" ]_vars
=============================================================================
