-------------------------- MODULE FIXMarketOffice --------------------------
(* The market office of a broker: the best bid and ask it keeps (m_bid,    *)
(* m_ask), the number of its last price (m_sequence), and how a market     *)
(* data message changes them.  A message is the list of its fields after   *)
(* the header, as fix_message_parse leaves them.                           *)
EXTENDS Integers, Sequences, FiniteSetsExt

CONSTANTS Offices,      \* the market offices, one per broker
          Prices,       \* the prices of the brokers
          MaxEntries    \* bound on the entries of a message

\* The array rest_of_message stores the fields of a message in, without a look at
\* its size (fix_message.c:572-582): more of them overflow it, which is undefined.
FIX_MAX_FIELD_NUMBER == 48
HEADER_FIELDS == 8                      \* room for what precedes the entries

\* The brokers' messages fit the array.
ASSUME MarketAssumption ==
    /\ Prices \subseteq Nat
    /\ MaxEntries \in Nat \ {0}
    /\ HEADER_FIELDS + 6 * MaxEntries <= FIX_MAX_FIELD_NUMBER

BID == 0                                \* MDEntryType
ASK == 1
NEW_ENTRY == 0                          \* MDUpdateAction
CHANGED == 1
DELETED == 2
SIZE == -1                              \* stands for any quantity

\* The prices of the constructor: no bid reaches the ask.
NoBid == -99
NoAsk == 99
Books == [bid : Prices \cup {NoBid}, ask : Prices \cup {NoAsk}]
NoBook == [bid |-> NoBid, ask |-> NoAsk]

PriceEvent ==
    [broker : Offices, bid : Prices \cup {NoBid}, ask : Prices \cup {NoAsk},
     sequence : Nat \ {0}]

-----------------------------------------------------------------------------
(* What the brokers send (external): snapshots, and refreshes whose entries *)
(* all have the six fields the handler counts on.                          *)

Entries == [action : {NEW_ENTRY, CHANGED, DELETED}, side : {BID, ASK}, px : Prices]
EntryLists == UNION {[1 .. n -> Entries] : n \in 1 .. MaxEntries}

SnapshotEntry(e) ==
    <<<<"MDEntryType", e.side>>, <<"MDEntryPx", e.px>>, <<"MDEntrySize", SIZE>>>>

RefreshEntry(e) ==
    <<<<"MDUpdateAction", e.action>>, <<"MDEntryID", 1>>, <<"MDEntryType", e.side>>,
      <<"Symbol", 1>>, <<"MDEntryPx", e.px>>, <<"MDEntrySize", SIZE>>>>

\* The fields of a message are those of its entries, width for each of them.
Fields(width, parts) ==
    [n \in 1 .. width * Len(parts) |-> parts[(n - 1) \div width + 1][((n - 1) % width) + 1]]

-----------------------------------------------------------------------------
(* The handler.                                                            *)

\* Snapshot: for every entry of the side, the first price from there on; the
\* last entry of the side wins, and without one the price stays.
MutSnapshotPrice(fields, side, old) ==
    LET entries == {i \in DOMAIN fields : fields[i] = <<"MDEntryType", side>>}
        prices == {j \in DOMAIN fields : fields[j][1] = "MDEntryPx"}
    IN  IF entries = {} THEN old ELSE fields[Max(prices)][2]
SnapshotPrice(fields, side, old) ==
    LET entries == {i \in DOMAIN fields : fields[i] = <<"MDEntryType", side>>}
        Price(i) == Min({j \in DOMAIN fields : j >= i /\ fields[j][1] = "MDEntryPx"})
    IN  IF entries = {} THEN old ELSE fields[Price(Max(entries))][2]

OnSnapshot(book, fields) ==
    [bid |-> SnapshotPrice(fields, BID, book.bid),
     ask |-> SnapshotPrice(fields, ASK, book.ask)]

\* Incremental refresh: only new entries count, at fixed offsets.
MutRefreshPrice(fields, side, old) ==
    LET entries == {i \in DOMAIN fields : /\ fields[i] = <<"MDUpdateAction", NEW_ENTRY>>
                                          /\ fields[i + 2][2] = side}
    IN  IF entries = {} THEN old ELSE fields[Max(entries) + 5][2]
RefreshPrice(fields, side, old) ==
    LET entries == {i \in DOMAIN fields : /\ fields[i] = <<"MDUpdateAction", NEW_ENTRY>>
                                          /\ fields[i + 2][2] = side}
    IN  IF entries = {} THEN old ELSE fields[Max(entries) + 4][2]

OnRefresh(book, fields) ==
    [bid |-> RefreshPrice(fields, BID, book.bid),
     ask |-> RefreshPrice(fields, ASK, book.ask)]

BookAfter(book, kind, entries) ==
    IF kind = "snapshot"
      THEN OnSnapshot(book, Fields(3, [n \in DOMAIN entries |-> SnapshotEntry(entries[n])]))
      ELSE OnRefresh(book, Fields(6, [n \in DOMAIN entries |-> RefreshEntry(entries[n])]))
=============================================================================
