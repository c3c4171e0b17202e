---------------------------- MODULE TradeRecords ----------------------------
(* The records of pairs and fills: BusinessOffice and FIXTradeOffice start a *)
(* detached thread for each, which connects to MongoDB, builds the document  *)
(* and inserts it.  What matters is when such a thread reads what it was     *)
(* given a pointer to; the quotes, and when a pair starts, are left out.     *)
EXTENDS Naturals, FiniteSets

CONSTANTS MaxPairs,     \* bound on the pairs,
          MaxReports    \* and on the execution reports

Contents == {"OPEN", "CLOSE"}
Other == "other"        \* what else the bytes of a dead array may hold

VARIABLES office,       \* BusinessOffice::doWork: its pc, pair and orderType
          idBuff,       \* m_randomIdStrBuff, one for all pairs
          reports,      \* the reports that were handled
          threads,      \* the detached threads
          collection,   \* the documents in the database
          process       \* "running", or "ended" by std::terminate

vars == <<office, idBuff, reports, threads, collection, process>>

\* What a thread is to record.
Pair(n, type) == [of |-> "pair", id |-> n, text |-> type]
Fill(n, isFilled) == [of |-> "fill", id |-> n, text |-> isFilled]
Texts == Contents \cup {Other, "filled", "rejected"}
Subjects == [of : {"pair", "fill"}, id : 1 .. MaxPairs, text : Texts]

TypeOK ==
    /\ office \in [pc : {"idle", "published", "recorded"}, pair : 0 .. MaxPairs,
                   orderType : Contents]
    /\ idBuff \in 0 .. MaxPairs
    /\ reports \in 0 .. MaxReports
    /\ threads \subseteq
         [no : Nat, subject : Subjects, at : {"connect", "type", "insert"}, doc : Subjects]
    /\ collection \subseteq [no : Nat, subject : Subjects, doc : Subjects]
    /\ process \in {"running", "ended"}

Init ==
    /\ office = [pc |-> "idle", pair |-> 0, orderType |-> "OPEN"]
    /\ idBuff = 0 /\ reports = 0
    /\ threads = {} /\ collection = {}
    /\ process = "running"

Thread(no, subject) == [no |-> no, subject |-> subject, at |-> "connect", doc |-> subject]
-----------------------------------------------------------------------------
(* The business office                                                      *)

\* A pair is triggered: its type goes to an array of doWork, its id to the
\* buffer of the office, and its legs are published.
Trigger ==
    /\ office.pc = "idle" /\ office.pair < MaxPairs
    /\ \E type \in Contents :
          office' = [pc |-> "published", pair |-> office.pair + 1, orderType |-> type]
    /\ idBuff' = office.pair + 1
    /\ UNCHANGED <<reports, threads, collection, process>>

\* The thread gets the addresses of the two, not what they hold.
RecordPair ==
    /\ office.pc = "published"
    /\ office' = [office EXCEPT !.pc = "recorded"]
    /\ threads' = threads \cup {Thread(office.pair, Pair(office.pair, office.orderType))}
    /\ UNCHANGED <<idBuff, reports, collection, process>>

\* doWork returns, and its array is gone.
Return ==
    /\ office.pc = "recorded"
    /\ office' = [office EXCEPT !.pc = "idle"]
    /\ UNCHANGED <<idBuff, reports, threads, collection, process>>

BusinessStep == Trigger \/ RecordPair \/ Return
-----------------------------------------------------------------------------
(* The trade offices: the thread gets copies.                               *)

RecordFill ==
    /\ reports < MaxReports
    /\ reports' = reports + 1
    /\ \E n \in 1 .. office.pair, isFilled \in {"filled", "rejected"} :
          threads' = threads \cup {Thread(reports', Fill(n, isFilled))}
    /\ UNCHANGED <<office, idBuff, collection, process>>
-----------------------------------------------------------------------------
(* MongoDBDriver::record                                                    *)

\* The connection is made, and the document takes the id from where it is now.
ReadId(t) ==
    /\ t.at = "connect"
    /\ LET id == IF t.subject.of = "pair" THEN idBuff ELSE t.doc.id
       IN  threads' = (threads \ {t}) \cup {[t EXCEPT !.at = "type", !.doc.id = id]}
    /\ UNCHANGED <<office, idBuff, reports, collection, process>>

\* The array of a doWork that is over, or of the one for the next pair, may
\* hold anything.
OrderTypeSeen(t) ==
    IF office.pair = t.subject.id /\ office.pc # "idle"
      THEN {office.orderType} ELSE Contents \cup {Other}

ReadType(t) ==
    /\ t.at = "type"
    /\ \E text \in IF t.subject.of = "pair" THEN OrderTypeSeen(t) ELSE {t.doc.text} :
          threads' = (threads \ {t}) \cup {[t EXCEPT !.at = "insert", !.doc.text = text]}
    /\ UNCHANGED <<office, idBuff, reports, collection, process>>

Insert(t) ==
    /\ t.at = "insert"
    /\ threads' = threads \ {t}
    /\ collection' = collection \cup {[no |-> t.no, subject |-> t.subject, doc |-> t.doc]}
    /\ UNCHANGED <<office, idBuff, reports, process>>

\* The insert fails: nothing catches what record throws in its thread.
InsertFails(t) ==
    /\ t.at = "insert"
    /\ process' = "ended"
    /\ threads' = {}
    /\ UNCHANGED <<office, idBuff, reports, collection>>

Record(t) == ReadId(t) \/ ReadType(t) \/ Insert(t) \/ InsertFails(t)
-----------------------------------------------------------------------------
Ended ==
    /\ process = "ended" \/ (threads = {} /\ office.pc = "idle" /\ office.pair = MaxPairs)
    /\ UNCHANGED vars

Next ==
    \/ process = "running"
         /\ (BusinessStep \/ RecordFill \/ \E t \in threads : Record(t))
    \/ Ended

Spec == Init /\ [][Next]_vars
-----------------------------------------------------------------------------
(* Properties                                                               *)

\* Several threads may record at once, and every document says what it was
\* started for: the id and the type of its pair, the id and the outcome of its
\* report.  (tests/integration/MongoDBDriverTest.cpp:39, "Thread safe record")
RecordsTrue == \A r \in collection : r.doc = r.subject
=============================================================================
