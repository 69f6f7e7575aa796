--------------------------- MODULE QuestDBWriter ---------------------------
(***************************************************************************)
(* QuestDBWriter.write: one transaction per call over a connection that    *)
(* lives as long as the process, with one retry on a dead connection.      *)
(*                                                                         *)
(*   questdb_writer.py   validate_rows, QuestDBWriter                      *)
(*   questdb_schema.sql  DEDUP UPSERT KEYS, or none for cel_ingest_log     *)
(*                                                                         *)
(* Calls are numbered in the order they are made. Each writes either to a  *)
(* table with DEDUP, where a slot keeps the row written last, or to the    *)
(* ingest log, where every row is kept.                                    *)
(***************************************************************************)
EXTENDS Naturals

CONSTANTS Slots,       \* keys of a table with DEDUP
          Calls,       \* the calls ever made (a bound)
          RowsOf,      \* RowsOf[n]: the slots of n's valid rows, maybe none
          LogCalls,    \* the calls that write to cel_ingest_log
          MaxFaults    \* faults of the network or the server (a bound)

ASSUME CallsAssumption == Calls \subseteq Nat \ {0}
ASSUME RowsAssumption == RowsOf \in [Calls -> SUBSET Slots]
ASSUME LogCallsAssumption == LogCalls \subseteq Calls
ASSUME MaxFaultsAssumption == MaxFaults \in Nat

VARIABLES
    \* The server.
    server,     \* QuestDB: up, down, or mute (connected, answering nothing)
    table,      \* table[k]: the call whose row slot k holds, 0 for none
    events,     \* events[n]: rows that call n left in the log
    pending,    \* rows <<call, slot>> of the transaction open on the connection
    \* The writer.
    conn,       \* self._conn: none, live, or stale (dropped by the server)
    pc,         \* idle, execute, send, commit, answer, failed
    calling,    \* the call in progress, 0 for none
    attempt,    \* 1, or 2 for the retry
    error,      \* what failed: "connection" or "query"
    result,     \* result[n]: none, empty, stored or raised
    \* Ghosts.
    applied,    \* the current call has taken effect
    hit,        \* the network or the server failed the current call
    faults      \* faults so far

stores == <<table, events>>
call == <<calling, attempt, result>>
ghosts == <<applied, hit, faults>>
vars == <<server, stores, pending, conn, pc, call, error, ghosts>>

TypeOK ==
    /\ server \in {"up", "down", "mute"}
    /\ table \in [Slots -> Calls \cup {0}]
    /\ events \in [Calls -> Nat]
    /\ pending \subseteq Calls \X Slots
    /\ conn \in {"none", "live", "stale"}
    /\ pc \in {"idle", "execute", "send", "commit", "answer", "failed"}
    /\ calling \in Calls \cup {0}
    /\ attempt \in {1, 2}
    /\ error \in {"connection", "query"}
    /\ result \in [Calls -> {"none", "empty", "stored", "raised"}]
    /\ applied \in BOOLEAN
    /\ hit \in BOOLEAN
    /\ faults \in 0 .. MaxFaults

Init ==
    /\ server = "up"
    /\ table = [k \in Slots |-> 0]
    /\ events = [n \in Calls |-> 0]
    /\ pending = {}
    /\ conn = "none"
    /\ pc = "idle"
    /\ calling = 0
    /\ attempt = 1
    /\ error = "query"
    /\ result = [n \in Calls |-> "none"]
    /\ applied = FALSE
    /\ hit = FALSE
    /\ faults = 0

-----------------------------------------------------------------------------
(* The network and the server, at any time.                                *)

Fault == /\ faults < MaxFaults
         /\ faults' = faults + 1
         /\ hit' = TRUE

\* A socket dropped by the server takes its open transaction with it.
LoseSocket ==
    /\ conn' = IF conn = "live" THEN "stale" ELSE conn
    /\ pending' = {}

\* An idle socket is reaped, the network falters.
Drop ==
    /\ conn = "live"
    /\ Fault
    /\ LoseSocket
    /\ UNCHANGED <<server, stores, pc, call, error, applied>>

ServerStops ==
    /\ server # "down"
    /\ Fault
    /\ LoseSocket
    /\ server' = "down"
    /\ UNCHANGED <<stores, pc, call, error, applied>>

\* QuestDB hangs, or its host is cut off and no packet says so: the connection
\* is there and nothing comes over it.
ServerMutes ==
    /\ server = "up"
    /\ Fault
    /\ server' = "mute"
    /\ UNCHANGED <<stores, pending, conn, pc, call, error, applied>>

\* It is started again, or answers again.
ServerStarts ==
    /\ server # "up"
    /\ server' = "up"
    /\ UNCHANGED <<stores, pending, conn, pc, call, error, ghosts>>

\* A statement of ours reaches QuestDB and is answered. No timeout ends the
\* wait for one: connect_timeout is for connecting.
Answering == conn = "live" /\ server = "up"

-----------------------------------------------------------------------------
(* write(), _execute()                                                     *)

\* The next call to be made.
IsNext(n) == result[n] = "none" /\ \A m \in Calls : m < n => result[m] # "none"

\* validate_rows leaves nothing to write: 0, without a connection.
WriteNothing(n) ==
    /\ pc = "idle"
    /\ IsNext(n) /\ RowsOf[n] = {}
    /\ result' = [result EXCEPT ![n] = "empty"]
    /\ UNCHANGED <<server, stores, pending, conn, pc, calling, attempt, error,
                   ghosts>>

Begin(n) ==
    /\ pc = "idle"
    /\ IsNext(n) /\ RowsOf[n] # {}
    /\ calling' = n
    /\ attempt' = 1
    /\ pc' = "execute"
    /\ hit' = (server # "up")
    /\ UNCHANGED <<server, stores, pending, conn, error, result, applied, faults>>

\* _connect: the cached connection as long as it was not closed on our side.
Connect ==
    /\ pc = "execute"
    /\ conn # "none" \/ server = "up"
    /\ conn' = IF conn = "none" THEN "live" ELSE conn
    /\ pc' = "send"
    /\ UNCHANGED <<server, stores, pending, call, error, ghosts>>

Fail(e) == pc' = "failed" /\ error' = e

\* Refused at once, or not answered within CONNECT_TIMEOUT.
ConnectFails ==
    /\ pc = "execute"
    /\ conn = "none" /\ server # "up"
    /\ Fail("connection")
    /\ UNCHANGED <<server, stores, pending, conn, call, ghosts>>

RowsSent(S) == pending' = pending \cup ({calling} \X S)

\* executemany
Send ==
    /\ pc = "send"
    /\ Answering
    /\ RowsSent(RowsOf[calling])
    /\ pc' = "commit"
    /\ UNCHANGED <<server, stores, conn, call, error, ghosts>>

\* Mutant: every row is its own transaction (autocommit=True).
SendRejected_autocommit ==
    /\ pc = "send"
    /\ Answering
    /\ Fault
    /\ \E S \in SUBSET RowsOf[calling] :
          table' = [k \in Slots |-> IF k \in S THEN calling ELSE table[k]]
    /\ Fail("query")
    /\ UNCHANGED <<server, events, pending, conn, call, applied>>

\* The server rejects a row after taking some: not a connection error.
SendRejected ==
    /\ pc = "send"
    /\ Answering
    /\ Fault
    /\ \E S \in SUBSET RowsOf[calling] : RowsSent(S)
    /\ Fail("query")
    /\ UNCHANGED <<server, stores, conn, call, applied>>

\* Whatever is asked of a dropped socket: an OperationalError. After the
\* transaction took effect, it is the answer that is lost.
StaleFails ==
    /\ pc \in {"send", "commit", "answer"}
    /\ conn = "stale"
    /\ Fail("connection")
    /\ UNCHANGED <<server, stores, pending, conn, call, ghosts>>

\* The calls with a pending row for slot k of a table with DEDUP.
PendingFor(k) == {n \in Calls \ LogCalls : <<n, k>> \in pending}

\* Mutant: commit() is forgotten.
Commit_forgotten ==
    /\ pc = "commit"
    /\ Answering
    /\ pc' = "answer"
    /\ UNCHANGED <<server, stores, pending, conn, call, error, ghosts>>

\* commit() reaches the server and the transaction takes effect, whatever
\* call its rows come from.
Commit ==
    /\ pc = "commit"
    /\ Answering
    /\ table' = [k \in Slots |->
                   IF PendingFor(k) = {} THEN table[k]
                   ELSE CHOOSE n \in PendingFor(k) :
                            \A m \in PendingFor(k) : m =< n]
    /\ events' = [n \in Calls |->
                    IF n \in LogCalls /\ \E k \in Slots : <<n, k>> \in pending
                    THEN events[n] + 1 ELSE events[n]]
    /\ pending' = {}
    /\ applied' = TRUE
    /\ pc' = "answer"
    /\ UNCHANGED <<server, conn, call, error, hit, faults>>

\* The call ends, reported stored or raised.
EndCall(r) ==
    /\ pc' = "idle"
    /\ calling' = 0
    /\ result' = [result EXCEPT ![calling] = r]
    /\ applied' = FALSE
    /\ UNCHANGED <<server, stores, conn, attempt, error, hit, faults>>

Return ==
    /\ pc = "answer"
    /\ Answering
    /\ EndCall("stored")
    /\ UNCHANGED pending

\* Mutant: retried as long as the connection fails.
Retries_always == error = "connection"

\* Only a dead connection is worth a retry, once.
Retries == error = "connection" /\ attempt = 1

Discard == conn' = "none" /\ pending' = {}

Retry ==
    /\ pc = "failed"
    /\ Retries
    /\ Discard
    /\ attempt' = 2
    /\ pc' = "execute"
    /\ UNCHANGED <<server, stores, calling, error, result, ghosts>>

\* Mutant: a failed statement leaves its transaction open.
RollBack_forgotten == (conn = "live" => server = "up") /\ UNCHANGED pending

\* _safe_rollback: a statement too, so it waits for its answer; on a dead
\* socket there is nothing to roll back.
RollBack == (conn = "live" => server = "up") /\ pending' = {}

\* Anything else: the caller hears of it. The connection stays cached, dead
\* or not.
Raise ==
    /\ pc = "failed"
    /\ ~Retries
    /\ RollBack
    /\ EndCall("raised")

-----------------------------------------------------------------------------
WriterStep == \/ Connect \/ ConnectFails \/ Send \/ StaleFails \/ Commit
              \/ Return \/ Retry \/ Raise

Next == \/ Drop \/ ServerStops \/ ServerMutes \/ ServerStarts \/ SendRejected
        \/ WriterStep
        \/ \E n \in Calls : WriteNothing(n) \/ Begin(n)

\* A call in progress proceeds as far as it can: connecting times out, a
\* statement waits for its answer. Nothing obliges QuestDB to come back, or to
\* answer.
Spec == Init /\ [][Next]_vars /\ WF_vars(WriterStep)

-----------------------------------------------------------------------------
(* What the writer promises.                                               *)

\* A call reported stored is in the database: its log row, or in each of its
\* slots its own row or that of a later call.
ReportedIsStored ==
    \A n \in Calls : result[n] = "stored" =>
        IF n \in LogCalls THEN events[n] > 0
                          ELSE \A k \in RowsOf[n] : table[k] >= n

\* A file is never stored in part ("there is no partially-applied state to
\* repair: the insert is one transaction", write).
AllOrNothing ==
    \A n \in Calls \ LogCalls : \A j, k \in RowsOf[n] :
        table[j] = n => table[k] >= n

\* A failed call leaves nothing behind on the connection that the next call's
\* commit would bring to life.
NothingPendingBetweenCalls == pc = "idle" => pending = {}

\* A connection that died while nobody was looking costs no delivery: a call
\* that nothing hit while it ran only ever fails on the stale connection, and
\* will be retried over a fresh one.
IdleDropIsSurvived == pc = "failed" /\ ~hit => error = "connection" /\ attempt = 1

\* "The narrow case of 'commit landed but the ack was lost' can leave a
\* duplicate log event" (write): one duplicate, never more.
LogAtMostTwice == \A n \in Calls : events[n] =< 2

\* What callers are told and what the tables hold agree, call by call and row
\* by row, whatever connections break and answers are lost.
StoreIsWhole == TypeOK /\ ReportedIsStored /\ AllOrNothing /\ LogAtMostTwice

\* No call suffers from what an earlier one, or the time between them, did to
\* the cached connection.
ConnectionIsClean == NothingPendingBetweenCalls /\ IdleDropIsSurvived

\* The call waits for an answer to a statement: executemany, commit, rollback.
Hung == /\ pc \in {"send", "commit", "answer", "failed"}
        /\ conn = "live" /\ server = "mute"

\* A call returns or raises, whether QuestDB comes back or not ("Failing fast
\* leaves the file in incoming for the next run", CONNECT_TIMEOUT): the one that
\* never does was connected already when QuestDB fell silent, and waits for a
\* silence that never ends.
CallsEnd == (pc # "idle" ~> pc = "idle") \/ <>[]Hung

\* The writer is an atomic store, as the daily job relies on.
Store == INSTANCE AtomicStore WITH
             RowsOf <- [n \in Calls |-> IF n \in LogCalls THEN {} ELSE RowsOf[n]],
             stored <- {n \in Calls : result[n] = "stored"}

ImplementsAtomicStore == Store!Spec

=============================================================================
