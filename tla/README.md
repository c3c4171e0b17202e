# A verification of Arbito

Arbito is a bot that watches the price of one instrument at two brokers, trades the
difference between them in pairs of opposite orders, and streams the prices to NATS.
This directory holds TLA+ models of its concurrent and protocol core, their TLC
configurations, and proofs checked by TLAPS. Paths below are relative to the repository.

## 1. The system

| Component | State | Operations | Talks to |
|---|---|---|---|
| Event rings (Disruptor, external; created in `src/main.cpp`) | log of events, one sequence per poller, gating sequences | `next`/`publish`, `poll`, `addGatingSequences`, `removeGatingSequence` | price ring: market offices to business and stream office; order ring: business to trade offices; execution ring: trade offices to business office |
| Business office (`BusinessOffice`) | last price per broker, count of filled orders, direction of the open pairs, pending order, delay | price, execution handler, `doWork` (trigger a pair), `initiate`, `terminate` | all three rings |
| Trade office (`FIXTradeOffice`), one per broker | FIX session, order template | order handler (send), message handler (publish an execution), `initiate`, `terminate` | order and execution ring, the broker |
| Market office (`FIXMarketOffice`), one per broker | FIX session, bid and ask, sequence | message handler (publish a price), `initiate` (subscribe), `terminate` | price ring, the broker |
| Stream office (`StreamOffice`, `NATSSession`) | price poller, NATS connection | `initiate`, `doWork`, `publishString`, `terminate` | price ring, NATS |
| FIX session (`FIXSession`, `libtrading/proto/fix_common.c`, `fix_session.c`) | sequence numbers in both directions, time of the last message in and out, pending test request, active flag | logon, logout, keepalive, admin messages, receive, send | the counterparty, through `FIXSocket` |
| Socket (`FIXSocket`) | descriptor, SSL object | `initiate`, `terminate` | TCP |
| Codec (`fix_message.c`, `buffer.c`) | receive and send buffers | parse, unparse, checksum | the FIX session |
| Limit office (`LimitOffice`) | whether its order is placed and may be moved | price handler, message handler | price ring, the broker |
| Number formatting (`itoa.c`, `modp_numtoa.c`) | none | encoders of integers, checksums and floats | the codec |
| Trade records (`MongoDBDriver`) | none; its threads point into the business office | `record`, in detached threads | MongoDB |
| `main()` | `isRunning`, threads | start offices, watch, join, rest, start again | everything |

At this commit `main()` runs one thread, `mainThread`, with the two market offices and
the stream office; the business, trade and market threads of the complete bot are there
but commented out (`main.cpp:120-250`), while their classes are compiled. Both
deployments are modelled: `PriceStream` is the process as it runs, `Arbitrage` composes
the business and trade threads the way the comments have them.

What is hard here: threads that publish into bounded rings with a spinning `next()` and
each depend on another one to drain them; money at stake on one leg when the other leg
was rejected, lost or is late; a FIX session whose two ends may disagree on sequence
numbers and whose only means of noticing a dead peer is a keepalive in a busy loop; and
rounds of `main()` in which any step may throw. `PROJECT.json` lists every hazard at its
line with the properties that cover it, or the reason why none does.

What makes each component correct:

* business and trade offices: every rejected leg is corrected exactly once and at the
  right broker; apart from orders under way or lost the position is flat; a pair is never
  triggered on old quotes or from an open position; the configured limit holds; nobody
  waits for ever; a failure stops everyone; a record says what it was started for.
* codec: what is delivered is what was sent, in order; nothing that has arrived is held
  back; the buffer never fills up; a number is read as it was written.
* FIX session: a dead peer is found in bounded time, a live one is never failed; the
  peer hears of us in time; gaps are found and closed; the two ends stay in step.
* market and stream office: what is streamed is what the brokers told, in order; the
  thread never waits for itself; a round releases all it took, and closes nothing that
  somebody else has opened.
* limit office: one order at a time, whatever is lost or late; it rests where the office
  believes it does; a fill is noticed.

## 2. Modules

| Module | Models | Used by |
|---|---|---|
| `Disruptor` | the ring operations, as operators on a record (log, sequences, gates) | all compositions |
| `TradingRings` | the order and execution ring, `isRunning`, the event types | offices |
| `BusinessOffice` | `BusinessOffice.cpp`, `BusinessOffice.h` | `Arbitrage` |
| `FIXTradeOffice` | `FIXTradeOffice.cpp`, and the brokers (external) | `Arbitrage` |
| `Arbitrage` | the composition, its properties, its fairness | `MCArbitrage`, `ArbitrageProofs` |
| `HedgeLedger` | what the offices promise about the orders they hold (abstract) | `Arbitrage` implements it; `HedgeLedgerProofs` |
| `TradeRecords` | `MongoDBDriver.cpp`, and the threads of `BusinessOffice.h` and `FIXTradeOffice.cpp` that call it | `MCTradeRecords` |
| `FIXSession` | `FIXSession.cpp/.h`, `fix_common.c`, `fix_session.c`, and the counterparty (external) | `MCFIXSession`, `FIXSessionProofs`, `FIXSessionGapProofs` |
| `FIXFraming` | the receive buffer (`buffer.c`, `buffer.h`), `fix_session_recv`, the parser and the encoder of `fix_message.c`; the connection and the peer's encoder (external) | `MCFIXFraming`, `FIXFramingProofs` |
| `NumberText` | `itoa.c`, `modp_dtoa2`, `fix_uatoi`, `fix_atoi64` and the fields they write and read; `sprintf` and `strtod` (external) | `MCNumberText` |
| `MessageChannel` | what a session needs of the channel below it (abstract) | `FIXFraming` implements it |
| `FIXMarketOffice` | the message handler of `FIXMarketOffice.cpp`, as operators on books and fields | `PriceStream` |
| `PriceStream` | `mainThread` and `main()`, market offices, `StreamOffice`, `NATSSession`, `FIXSocket` | `MCPriceStream`, `PriceStreamProofs` |
| `LimitOffice` | `LimitOffice.cpp`, the publisher of its prices, and its broker (external) | `MCLimitOffice`, `LimitOfficeProofs` |
| `DisruptorProofs`, `ArbitrageProofs`, `HedgeLedgerProofs`, `FIXSessionProofs`, `FIXSessionGapProofs`, `PriceStreamProofs`, `LimitOfficeProofs`, `FIXFramingProofs` | theorems | |

An operator whose name starts with `Mut` is the definition after it with a plausible
mistake; putting it in place of that definition must make a run fail
(`PROJECT.json`, "mutants"). Nothing else refers to it.

### How the models correspond to the code

*Rings.* A ring keeps everything that was published, so the size of a ring shows only in
`HasRoom`: `next()` spins while a gating consumer is a whole ring behind. `next()` and
`publish()` are one step. A poller stores its sequence at the end of a batch, as the
library does, so a slot is reused only after the batch.

*Arbitrage.* `businessPc` is where the loop of `doWork` is: `poll` (both pollers and the
trigger), `executions` (inside a batch of executions), `first` and `second` (about to
publish the legs of a pair, each of which may have to wait for room). `tradePc` is the
same for a trade office: `fix` (poll the session), `waiting` (in `next()` of the
execution ring, where it no longer looks at `isRunning`), `orders`. Prices are integers:
the code only subtracts and compares them. The ids of pairs are numbers from 1 and the
correction id is 0. The brokers answer each order they received once, with a fill or a
rejection, in any order; an order may be lost because `send()` ignores errors. History
variables and fields (`fresh`, `label`, `corrects`, `reports`) are marked in the modules.

*HedgeLedger.* The ledger is the list of all orders, each with its side, its broker and
the order it replaces. A first leg opens a pair, the second leg closes it on the opposite
side; a rejected leg may be replaced once, by the same side at the other broker; an order
is filled or rejected once. `Arbitrage!Book` computes the ledger from `orders` and, for a
correction, from the execution it answers; every step of the offices is one of these or
none of them.

*TradeRecords.* The threads of a pair get the addresses of `m_randomIdStrBuff` and of the
local array `orderType`; those of a report get copies. `record` connects first, then reads
both strings, then inserts, three steps of their own. What a dead array holds is any of
the two words or something else. When a pair starts is not modelled: any time after the
last one.

*FIXSession.* `session` has the fields of `struct fix_session`; time is `tv_sec`, the
only part the code compares. The operators from `Send` to `Admin` are the functions of
`fix_common.c` as maps from session to session; the actions are the waits of the code:
one action per iteration of `poll`, of the wait for the logon, and of the wait of a
logout. `session.grace` is the call stack of nested logouts, one start time each. The
peer is a conformant FIX engine: it answers test and resend requests, asks once for what
it misses, and sends application messages again with the possible-duplicate flag. The
connection is TCP, so messages are neither lost nor reordered in it; a message may be
garbled for our parser, the peer may go silent, and a send of ours may fail, whatever it
sends: `SendFails` takes any message that the peer has not read off the wire, which keeps
its number and its time stamp, since no caller looks at the result of `fix_session_send`
(`session.lost` is history). It may fail at any moment up to the peer's reading, which
nobody can tell from a failure at once.

*FIXFraming.* The stream is a sequence of symbols, two for each field: the tag with its
`=`, and the value with its delimiter. It may be cut between any two of them, which is
where the functions of the parser differ; a cut inside a number is the same to them as
one before its end. `Parse` is `fix_message_parse` with its loop over garbled messages as
a recursive function of the position; `Attempt` is one turn of that loop. `rx` is the
buffer as its start and the unread part, `Room` how much is asked of the socket. A
message may be damaged in one symbol: another number, or a delimiter that is lost, and
types the parser does not know are sent too. The sum is the code's, modulo 256, over the
numbers of the symbols. `sent` and `split` are history. The refinement mapping to
`MessageChannel` is the identity on `delivered` and forgets the sizes of what was sent. It
is what `FIXSession` assumes when it takes messages one by one and lets one of them be
dropped; `FIXSession` drops single messages, and does not follow the chains below.

A message that is passed over is passed over up to the end of a field. If the end of the
last field has not come yet, the parser stands in the middle of the field, and takes the rest of it and
the BeginString after it for one field that is no BeginString: the next message
is passed over as well, and, if it was cut in the same way, the one after it. The same
happens to a message after one whose last field lost a delimiter. `Hidden` names these
messages: they are found by the gap in the numbers, as any that was garbled.

*NumberText.* A text is a sequence of digits, sign and point. A float is a number of
quarters of its last decimal: the code tests whether what is left of the decimals is more
than, less than or exactly a half. The product of the decimals with a power of ten is
taken as exact. An int has `Word` values. `WriteInt` to `WriteFloat` are the cases of
`fix_field_unparse`, `ReadField` those of the parser.

*PriceStream.* `phase` and `at` are the position of `mainThread` in its three sequences
of calls (initiate, work, terminate) over the three offices. A poll or an initiate may
throw where the code does; `Throw` is the catch of `mainThread`. A poll of the stream
office handles its whole batch in one step, as nothing else in the process touches the
price ring. The books are computed from the positions of fields in a message, as the
code does, and compared with what the broker told entry by entry. `files` is the table of
open descriptors with the office that opened each; the operating system gives out the
lowest free number. A lookup that fails leaves `m_socketFD` as it was, a connect that fails
forgets its descriptor and goes to the next address, and what fails after that (options,
SSL, logon) leaves it open for `terminate`. The NATS library owns its descriptor and may
change it at any time.

*LimitOffice.* `pc` is where `doWork` is: about to poll the session, or inside a batch of
prices; `closed` is between `terminate` and the next `initiate`, which `main()` would
call as it does for the other offices. A price is the bid; the order's price is a pip
under it. Only the fields the handlers look at are kept of a message: its type, its price, and the ExecType of a
report. The broker answers requests in order and fills or cancels the resting order at
any moment; `spoiled` counts what it refused or cancelled, or what was lost on the way or
with a session.

## 3. Runs

All runs check for deadlock. A system that has stopped, or whose clock is at its bound,
stutters in an action of its own (`Joined`, `Ended`).

| Run | Question | Bounds, and why they are enough |
|---|---|---|
| `arb_pair` | types, sound and complete corrections, a run of the abstract ledger, flat when quiet; rejections answered, orders polled, failures stop all but a logon | one pair, up to four rejections (both legs, both corrections), two quotes, rings of two slots, the smallest that can fill, lost orders, failing sessions: every fate of a pair |
| `arb_delay` | no pair from an open position or on old quotes, no wait for a slot, and no more open pairs than the limit, if the delay outlasts every answer | limit 2 and three pairs, one more than may be held; two rejections and lost orders: enough for a failed correction followed by another pair. Six slots for orders and four for executions, the fewest that `NobodyWaits` speaks of |
| `fix_silence` | types, dead peer found, heartbeats in time, live peer kept, a failure is justified | heartbeat interval 10 s, answers within 4 s, stalls of 2 s, 23 s: longer than the 20 s within which a dead peer must be found; one message of each side and a logout of the peer; no send fails |
| `fix_gaps` | in step with the peer, gaps of either side close, no false logout | one garbled message anywhere, two sends of ours that fail, of any messages (a request and the answer to one, or two of a kind); one second, and a grace period of none (2 s in the code), so that the wait of a logout goes on and ends: nothing else depends on the time here; one application message of each side and three test requests or sequence resets of the peer: a gap, the message that shows it and two on top of the resend. `GapCloses` speaks of one garbled message; two were tried with fewer messages and show what it leaves out |
| `fix_framing` | what is delivered is what was sent (`ChannelSpec`), room to receive, nothing held back | three messages, of a known type and of an unknown one, with bodies of four and six symbols; one of them damaged in one symbol; a buffer of 32 symbols, which two messages fit into and three do not, and bodies of at most 7, so that it holds two of them and 17 symbols, the least that `CanReceive` is proved for: a message before, a damaged one and one after, in pieces of any size |
| `stream_rounds` | types, no waiting for itself, order, books, release, closed descriptors and end of each round | ring of 2, the smallest that works; messages of up to two entries at two prices; two prices published; two rounds, failures anywhere, one descriptor forgotten, SSL at one of the two offices |
| `stream_handle`, `stream_restart` | findings 1 and 2 | two rounds |
| `limit_order` | types, one order, one move, where the order rests, progress | two bids, five prices in a ring of two, the first of which places no order; two fills, two sessions, two requests or reports spoiled: an order, its moves, a fill racing a move, the order after it, and a session lost in between |
| `limit_filled` | finding 3 | the same, one spoiled |
| `numbers` | integers, tags and checksums travel unchanged, floats to the nearest; shortest texts | ints of 13 bits, with every length of text and both limits among the integers, and integers beyond them; all tags and checksums; floats of two decimals with every carry into the whole number, in steps of a quarter |
| `record_reads` | finding 4 | two pairs, two reports |

Timing limits are stated with the constants. `SilenceLimit` is 5/4 of the interval until
a test request is due, half an interval for the answer, and a keepalive period for each,
which is a tenth of the interval; it is tight: the limit less one is violated.
`ResponsivePeerKept` needs a peer that answers within half an interval less a second,
by which the session's clock lags, and no handler that has just blocked; when one has,
`FailureJustified` says how much of the peer's time it may have taken. `InStep` and
`PeerUnblocked` hold until a message is garbled; `GapCloses` says what follows the first
one. Two kinds of sends that fail are excluded by name. The gap fill a peer waits for is sent once:
if that send fails (`AnswerLost`) the peer waits for ever, since it asks once. A resend
request that fails (`RequestLost`) is made up for by the next admin message that shows the
gap, and until that comes the gap is open. `PeerHearsUs` is about a session none of whose
sends failed: `tx_timestamp` is set for those too (`fix_session.c:154-171`). A second one may go unnoticed up to the next new message, in two ways. Each admin message
that shows a gap is answered with a request; when the first request has closed the gap and
another message is garbled before the answer to the second comes, that answer stands for
the garbled message too, but begins with a number that is too low by then and is dropped.
And a gap fill that comes too early, behind one that was garbled, is answered with a
request up to its own number (`fix_common.c:133`), not up to what it stands for.
`PeerUnblocked` is about a peer that asks for a gap up to an explicit end: a request up
to infinity (EndSeqNo 0) is answered with NewSeqNo 1, which the peer cannot use.
`OrderPolled` is about the orders that are published while the office of their broker gates
the ring. Those published before it attached are skipped (`AddGate`), as the code does; the
ledger keeps them as orders that nobody fills.
`FailureStopsAll` excludes an office that waits for the answer to its logon.
`PublishedAsTold` is about messages that fit the parser's array of fields: the assumption
on `MaxEntries` allows six fields for an entry and eight before the entries.
`OpenCapped`, `HedgedTrigger` and `NobodyWaits` need the delay to outlast every answer
(`DelayCovers`): the code only waits `ORDER_DELAY_SEC`, and when the answers take longer
a pair can start from an open position. `OpenCapped` also needs an office that starts
with no fewer than zero open orders (`InitCount`), and that of no pair both legs were
rejected: each correction then takes one from the count. `NobodyWaits` needs an order
ring of six slots, as five orders may be unread and the next is to find a free one, and
an execution ring of four; the code has 16 of each. `NoFalseLogout` and
`GapCloses` speak of behaviours in which no application message is counted twice
(`AppCounted`): `poll` counts one that is sent again like a new one, and if it had been
counted, because it was read before or a sequence reset had stood for it, the numbers of
the session run ahead of its peer from there on. One that is sent again because it was
garbled the first time is counted once, and both properties cover it.

`FIXSession` bounds the clock (`MaxTime`), the messages of both sides (`MaxApp`,
`MaxPeerApp`, `MaxAdmin`), the garbled and lost ones (`MaxGarbled`, `MaxLost`) and the
messages on their way to the peer (`MaxWire`); `Arbitrage` the pairs and rejections
(`MaxPairs`, `MaxRejects`); `PriceStream` rounds, prices and entries (`MaxRounds`,
`MaxPrices`, `MaxEntries`) and the descriptors that connects forget (`MaxLeaks`); `TradeRecords` pairs and reports (`MaxPairs`, `MaxReports`); `FIXFraming` what the peer sends, what is
damaged and the numbers it may be damaged to (`MaxSent`, `MaxGarbled`, `Changes`); `LimitOffice` the prices, fills, sessions and what is spoiled
(`MaxPrices`, `MaxFills`, `MaxRounds`, `MaxSpoils`).

### Fairness

`Arbitrage!FairSpec` has weak fairness per thread: each runs in a loop on a core of its
own. The executions are polled on each turn of the business loop and the session on each
turn of a trade office, whence the two extra conditions. Brokers need not answer and
sessions need not fail. Nothing makes a logon end: `fix_session_logon` waits for its answer
without a limit and without a look at `isRunning` (`fix_common.c:213-215`), so neither
`FairSpec` forces a thread through its initiate. An office whose broker does not answer a
logon keeps the join of `main()` waiting for as long, whatever else has failed; that is why
`FailureStopsAll` lets an office stay `new`, and why `FailureEndsRound` starts where the
thread terminates. `PriceStream!FairSpec` has weak fairness for `mainThread` beyond its
initiates and for `main()`. `LimitOffice!FairSpec` has weak fairness for the loop and for the broker's
answers, and strong fairness for reading a report: the session is polled in every turn,
and what was sent arrives in the end. `FIXFraming` needs none: that nothing is held back is stated of every state in
which all has arrived and the parser asks for more. `FIXSession` states its time limits as safety: `Tick` does not let a second
pass before a polling session has polled, read what has arrived, and a live peer has
answered in its time. That is the busy loop of the code; a handler that blocks is bounded
by `MaxStall`.

### Findings

1. `NATSSession::terminate` keeps the pointer to the connection it destroyed. A round of
   `main()` that fails before NATS is connected again destroys it a second time
   (`stream_handle`); `NATSSessionTest.cpp:122` terminates a session without a connection.
2. `isRunning` is never set to true again: after the first failure each round logs
   "MAIN OK", initiates all offices, and terminates them without a poll
   (`stream_restart`).
3. `LimitOffice.cpp:79` says "restart when order is filled". The handler knows ExecType 2
   only; the trade office takes 2 or F for a fill (`FIXTradeOffice.cpp:178`). After a
   fill reported with F no order is placed any more (`limit_filled`).
4. The thread that records a pair reads its type from an array of `doWork` that is gone
   when `doWork` returns, and its id from a buffer the next pair overwrites
   (`BusinessOffice.h:94,154,187,227`): the document may carry what is not its own
   (`record_reads`). `MongoDBDriverTest.cpp:39` is named "Thread safe record".

Seen while modelling, without a run of their own: the wait of a logout ("Grace period 2
seconds", `fix_common.c:259`) starts again inside itself when a message in it is too low;
`modp_dtoa2` writes 0.99999995 as 0.1 and 1.99999995 as 1.1, for on the half above all
nines the carry of `modp_numtoa.c:235` is not made (`FloatsNearest` excludes it; nothing
the offices send has that many decimals); a connect that fails forgets its descriptor
(`FIXSocket.cpp:30`), and a lookup that fails closes descriptor 0.

## 4. Proofs

All for every value of the constants that the assumptions in the modules allow: any ring
sizes, quotes, limits, delays and bounds.

* `ArbitrageProofs!TypeCorrect`. The invariant is `TypeInv`: `TypeOK` and `Bounded`, which
  says that every position recorded anywhere (reports in an inbox, orders at a broker,
  handled executions, sequences of pollers) is one in the log it refers to. Without
  it an execution built from a report need not have a type.
* `FreshQuotesHold`, from `FreshInv`: a price that is not the reset value was set since
  the last pair. It rests on the assumption that a reset price never makes a spread
  (`BusinessAssumption`): that is what the reset values are for.
* `CorrectionsSound`. `CorrectionSound` relates a correction to the rejection it answers
  through a report; it is inductive only together with the links on the way (`LinkInv`):
  a report in an inbox is of an order its broker answered, an execution is of a reported
  order with the same side, broker and id, an order is reported at most once and is not
  in an inbox any more, and a correction has a handled execution.
* `CorrectionsComplete`, from `CompleteInv`: the same with "nothing is published before
  the office has started".
* `HedgeLedgerProofs!LedgerBalances`: the standing orders of the abstract ledger, those
  nothing has replaced, buy as much as they sell between two pairs, and one more or less
  inside a pair. A replacement has the side of what it replaces, so it changes the set of
  standing orders and not the balance; the counting is done there, once, with the facts
  about cardinalities.
* `ArbitrageProofs!KeepsLedger`: every step of `Arbitrage` is a step of the ledger
  or leaves it alone. It uses `CorrectionsSound` and the links: a correction replaces a
  rejected leg that stands. `ExposureIsConserved` and `QuietIsHedged` follow from it and
  `LedgerBalances`, for any number of pairs that overlap in any way.
* `ArbitrageProofs!TriggersAreHedged`. The office knows of its pairs only a count,
  and triggers when it is even. That an even count means a flat position follows from
  what can have become of the last pair (`SettledInv`): of each side it has one leg and
  at most one correction, of which one at most is filled (`LegInv`, `AnswerInv`); the
  handled fills have added to the count what `Gain` says; everything on its way is of
  that pair, and nothing is when the delay is over (`QuietInv`); the pairs before it are
  hedged and left an even count (`CountInv`).
* `OpenIsCapped`, from `LimitInv`: `SettledInv`, and each open pair but the last has
  added two to the count, so when a pair opens there is room for it below the limit
  (`CapInv`); with no direction nothing is open and nothing is on its way (`IdleInv`).
* `NoneWaits`, from `RoomInv`: what a reader of the orders has not read is of the last pair,
  or of the one before and for the other broker (`LagInv`), and what the business office has
  not read of the executions is of the last pair (`ReadInv`). A pair has a leg and a
  correction at each broker (`PlaceInv`). That makes five unread orders at most: while the
  pair before has a leg and its correction left, the last pair has not four yet, as its leg
  at this office is unread and so uncorrected. `FitsSlots` counts them: it maps each order
  to a slot of its own.
* `FIXSessionProofs!TypeCorrect`, from `TypeInv`: the requests on the wire are for numbers
  the peer has used, and the messages of the peer have numbers of its log; without it the
  answer to a resend request, a recursive function of the number, need not be a sequence.
  What that function returns is proved by taking the largest number for which it fails
  (`ResentFacts`).
* `TimeInvariant`, and from it `SilenceDetected`, `BeatsKept` and `FailureIsJustified`.
  `TimeInv` bounds what each time stamp lags behind the clock at each place of the loop:
  the clock of the session by a second or by what a handler took (`Lag`), the last message
  by what the keepalive allows (`Silence`, `Asked`), the last one sent by the interval
  (`Beaten`). The limits are proved from these with the arithmetic of the code, whose
  products with 10, 4 and 2 stand for its fractions.
* `OrderInvariant`, and from it `SessionInStep`, `GapsAreFilled` and
  `LivePeersAreKept`. While nothing was garbled the wire of the peer holds the numbers the
  session expects, in order (`Ordered`), our own messages have rising numbers but for gap
  fills (`Ranked`), a peer that waits has its request or the gap fill on the way (`Asking`,
  `Filling`), or that gap fill is one of the messages that were lost (`AnswerLost`), and a pending test request, or its answer, is on its way (`Probing`).
* `FIXSessionGapProofs!NoneLoggedOut`, whatever is garbled, from `Tracking`: up to the
  first application message that is counted again, the session has counted a set of
  messages of its peer, as many as its own number says, and each of them once (`Tally`).
  The numbers alone are not inductive: after a gap the session hands on an application
  message with a late number and counts it, so what it has counted need not be the first
  messages of the peer. The set may go beyond the number only with application messages,
  and the session has read each of them or a reset that stood for it; so a gap fill, which
  stands for none, and the message with the next number are never counted twice. New
  messages on their way are beyond the set and follow on, what is sent again is an
  application message or a gap fill (`Trails`), and the session has sent no logout and no
  second logon, so the peer sends none either (`Civil`).
* `FIXSessionGapProofs!GapsClose`, for one garbled message, from `Attended` and `Heals`, and
  provided that none of the session's resend requests was lost (`AllAsked`), whatever else
  was: the theorem is `AllAsked => GapCloses`. The rest of `GapCloses`, that a lost request
  matters only if it asked for the very number that is missing, is checked by `fix_gaps`.
  `Attended` says that the peer expects no number above those of the session's messages on
  their way, gap fills aside, or above the next one, whatever it is told on the way: so it
  finds none of the session's requests too low, and answers each of them. `Heals` follows the hole: the garbled message is on its way (`Damaged`); it was
  passed over, and application messages were read since, which show no gap (`Unnoticed`);
  an admin message showed it, and what starts there was asked for (`Noticed`); the answer
  is on its way (`Answered`); the hole is filled (`Closed`). From each of them the session
  goes on to a later one or to `Doomed`: an application message that it has counted, or
  will have by then, is in the answer, which is where the property ends. `Carried` is the
  part of each that says which numbers the wire has and that none is missing. If it is the
  answer to the logon that was garbled, no other comes and the session passes over
  everything. TLC checked both invariants on the constants of `fix_gaps`
  before they were proved.
* `PriceStreamProofs!NeverWaitsHolds`. At the top of the loop nothing is unread, and at
  office `at` at most `at - 1` events are (`UnreadBound`), so a ring of two slots always
  has room. It holds for every message, every failure and any number of rounds.
* `PriceStreamProofs!StreamedInOrderHolds`. While `isRunning` holds, what NATS was given is
  what the consumer of the ring has passed (`StreamInv`). The first exception clears
  `isRunning` for good, and without it the thread neither publishes nor polls: the price
  that NATS refused is the last one, whatever the later rounds do.
* `PriceStreamProofs!ClosesNoOtherHolds`. The number an office remembers may be out
  of date, and others may have it by then. `OwnerInv` says why that is harmless: offices
  open in their order and are terminated in the same order, so while a later office has
  something open, the earlier one that is about to close its number is connected itself
  (`Chain`). `LowestFreeIsFree` is the fact about descriptors it rests on.
* `ReleasedHolds`, from `OwnerInv`, `Freed` (what was terminated holds no session and no
  SSL object) and `Ungated`.
* `PriceStreamProofs!PublishedAsToldHolds`, from `ToldInv`: the book an office keeps is what
  its broker told, its sequence is the number of prices it published, and the last of them
  is that book, for messages of any number of entries that the array of fields has room for
  (`MarketAssumption`). `TypeCorrect` there collects the
  types these invariants carry.
* `LimitOfficeProofs!OneOrderHolds`. `OneOrder` alone is not inductive: an order that was
  filled must not be followed by another while its report is on the way, or two reports
  could clear `m_orderPlaced` for one order. `OneToken` adds that an order is in one place
  at a time (sent, resting, or filled and its report under way), and that `m_orderPlaced`
  holds while it is. `LimitOfficeProofs!TypeCorrect` proves the types it rests on.
* `LimitOfficeProofs!RestsAtLastPriceHolds`, from `LastTold`: the last request on its way, or
  else the order that rests, has the price the office remembers.
* `LimitOfficeProofs!OneMoveHolds`. `m_canUpdate` is the token of the one request under
  way, but an old move and its refusal may still be on their way when the next order is
  sent, after a fill. `InOrder` keeps them ahead of that order and of its report, so the
  report cannot be read before them.
* `FIXFramingProofs!TypeCorrect` and `NeverFull`, from `Framed`: in what is in the buffer
  and on the wire together, neither two tags nor two ends of values are ever more than
  six symbols apart (`Dense`), and the last of each is near the end (`Closing`). A message
  damaged in one symbol keeps both (`DamagedIsShaped`), and so does what any cut leaves of
  the stream. So the parser asks for more only at a message of which at most
  `MaxMessage + 16` symbols are there (`WantingShort`), and what it leaves, moved to the
  start of the buffer, leaves room. `Parse` is a recursion up to the end of the
  buffer, and `ParseSolved` shows that its equation has a solution from a least
  counterexample. The proof needs a buffer of two messages and 17 symbols, as the
  assumption says; the code's holds more than three messages. (`Full` wants a whole message free
  besides what the parser waits for.)
* `FIXFramingProofs!ImplementsChannel`: `FIXFraming` refines `MessageChannel`, with the
  mapping that `ChannelSpec` gives: each step that delivers is a `Deliver`, each message
  sent a `Send`, and the rest are stutters. The invariant is `Linked`: each message has its place in the
  stream that is left (`Tracks`: what is there of it is a `Copy` of what the peer wrote,
  damaged in one symbol at most), and what is left begins at or after the end of the
  message read last, exactly there as long as neither that one nor the next was damaged
  (`Aligned`, `Sound`). A tag 8 is found only where a message starts (`BeginWhere`), so
  what the parser takes for a message is one that was sent; a damaged one is not taken,
  since one changed symbol always shows in a sum modulo 256 (`ShiftFacts`,
  `SumNotVerified`), whichever field it hides or moves (`HeadOf`, `WholeIsSent`); and a
  sound one that the stream begins with is parsed first (`SoundAttempt`, `SoundFirst`), so
  none is skipped without a cause (`Follows`). That a changed byte must show in the sum is why
  the numbers of `FramingAssumption` stay below 256, and that a tag 8 starts a message
  why none of them becomes an 8. A tag of two digits does not by the change of one byte;
  that the 9 of a BodyLength does is left out.
* `FIXFramingProofs!NothingIsHeldBack`: a message that arrived undamaged is read without
  waiting for another. The invariant is `Held`, which adds to `Linked` what is left of the
  message before an unread one whose start is not hidden: nothing, or its last field at
  least (`Awaited`), because what is read at one time ends inside the last field of a
  message only where `split` says so (`Cuts`). Then a field ends where the unread message
  starts, and whatever the parser looks for from before that point it finds before it
  (`LooksBefore`): it neither passes over the message (`NotPassed`) nor, with the message
  in the buffer, asks for more. Only a changed length could carry it past, and
  `NothingHeldBack` leaves out the messages after one.
* `DisruptorProofs` states what each ring operation preserves; the others use it.

Model-checked only: `NumberText` and `TradeRecords`, and the liveness properties, which
are beyond the prover, as is whatever needs ENABLED. What `NumberText` says of its digits
is an induction over them.
The induction theorems of the library cannot be used; where a fact about a recursive
function was needed it was proved from a least counterexample (`WFMin`), which takes its
place for functions on numbers.

## 5. Not modelled

* The vendored libraries (spdlog, catch2): about 31000 of the 38000 lines under `src/`.
  They are most of what no definition is mapped to; the program's own code is about 6700
  lines, a third of which is mapped.
* In the codec, the table that gives each tag its type (`fix_tag_type`) and those of the
  message types: data, of which the models keep what their handlers read. Two of its
  entries would matter to a broker that uses them: the value of NextExpectedMsgSeqNum
  (789) replaces the number of the message it is in (`fix_message.c:529`), and two message
  types are written otherwise than they are read (`AE` and `CE`, `AQ` and `BQ`).
* The encoders, order helpers, files and compressed streams that nothing calls; messages
  of `test.c`.
* Quantities, symbols, time stamps and the other fields of messages; SSL contexts;
  client order ids that are no numbers; the files of the logger.
* In `FIXSession`, messages that are dropped each time they come (an unknown type, a chain
  of hidden ones).
* Messages of more fields than the parser's array has (`FIX_MAX_FIELD_NUMBER`, 48).
  `rest_of_message` stores them without a look at the size (`fix_message.c:572-582`), so
  what they do is undefined; `MarketAssumption` and `FramingAssumption` exclude them. At
  `FASTMATCH` the market office subscribes to the full book (`MarketDepth` 0,
  `FIXMarketOffice.cpp:70`), so how many entries a message has is up to that broker; at
  `LMAX` it asks for the top of the book only (line 46).
