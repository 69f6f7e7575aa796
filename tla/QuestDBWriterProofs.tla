------------------------- MODULE QuestDBWriterProofs -------------------------
(***************************************************************************)
(* What QuestDBWriter.write promises, for any tables, calls and number of  *)
(* faults, and that it is the atomic store the daily job relies on.        *)
(*                                                                         *)
(* The invariant follows one call: what its transaction holds (Sent), what *)
(* it has already left in the tables (Held, Logged, Answered), and what    *)
(* may have gone wrong so far when nothing hit it (Unhit).                 *)
(***************************************************************************)
EXTENDS QuestDBWriter, TLAPS

USE CallsAssumption, RowsAssumption, LogCallsAssumption, MaxFaultsAssumption
USE DEF Answering

Told(n) == result[n] # "none"

Typed ==
    /\ server \in {"up", "down", "mute"}
    /\ table \in [Slots -> Calls \cup {0}]
    /\ events \in [Calls -> Nat]
    /\ pending \subseteq Calls \X Slots
    /\ conn \in {"none", "live", "stale"}
    /\ pc \in {"idle", "execute", "send", "commit", "answer", "failed"}
    /\ calling \in Calls \cup {0}
    /\ attempt \in {1, 2}
    /\ error \in {"connection", "query"}
    /\ result \in [Calls -> {"none", "empty", "stored", "raised"}]
    /\ faults \in 0 .. MaxFaults

Flags == applied \in BOOLEAN /\ hit \in BOOLEAN

\* Calls are made in order, one at a time.
InCall ==
    /\ calling = 0 <=> pc = "idle"
    /\ calling # 0 => IsNext(calling) /\ RowsOf[calling] # {}
    /\ \A m, n \in Calls : m < n /\ Told(n) => Told(m)

\* The open transaction holds rows of the call in progress and of no other.
Sent ==
    /\ \A n \in Calls, k \in Slots : <<n, k>> \in pending
                                     => n = calling /\ k \in RowsOf[n]
    /\ conn # "live" \/ pc \in {"idle", "execute", "send", "answer"}
          => pending = {}
    /\ pc = "commit" /\ conn = "live"
          => \A k \in RowsOf[calling] : <<calling, k>> \in pending

\* A slot holds a row of a call that was answered, or of the current one.
Held ==
    \A k \in Slots : table[k] # 0 =>
        /\ table[k] \notin LogCalls
        /\ Told(table[k]) \/ table[k] = calling

\* Before its answer is out, a call has already taken effect.
Answered ==
    /\ pc = "answer" => /\ applied = TRUE
                        /\ IF calling \in LogCalls THEN events[calling] > 0
                           ELSE \A k \in RowsOf[calling] : table[k] >= calling
    /\ pc = "idle" => applied = FALSE

\* One row of the log for each attempt that got as far as its commit.
Logged ==
    /\ \A n \in Calls : events[n] =< 2
    /\ \A n \in Calls : ~Told(n) /\ n # calling => events[n] = 0
    /\ calling # 0 =>
          events[calling] =< (IF pc \in {"execute", "send", "commit"}
                              THEN attempt - 1 ELSE attempt)

\* When nothing hit the call, the server is up and a fresh connection lives.
Unhit ==
    pc # "idle" /\ hit = FALSE =>
        /\ server = "up"
        /\ attempt = 2 => conn # "stale"
        /\ pc = "failed" => error = "connection" /\ attempt = 1

IInv == Typed /\ Flags /\ InCall /\ Sent /\ Held /\ Answered /\ Logged /\ Unhit
        /\ AllOrNothing /\ ReportedIsStored

-----------------------------------------------------------------------------
(* A commit: the transaction holds exactly the rows of the call.           *)

LEMMA CommitIs ==
    ASSUME Typed, InCall, Sent, Commit
    PROVE  /\ calling \in Calls /\ calling # 0
           /\ table' = [k \in Slots |->
                          IF calling \notin LogCalls /\ k \in RowsOf[calling]
                          THEN calling ELSE table[k]]
           /\ events' = [n \in Calls |->
                           IF n = calling /\ n \in LogCalls
                           THEN events[n] + 1 ELSE events[n]]
<1>1. /\ calling \in Calls /\ calling # 0
      /\ RowsOf[calling] # {} /\ RowsOf[calling] \subseteq Slots
  BY DEF Commit, Typed, InCall
<1>2. \A n \in Calls, k \in Slots : <<n, k>> \in pending
                                    <=> n = calling /\ k \in RowsOf[n]
  BY DEF Commit, Sent
<1>3. ASSUME NEW k \in Slots
      PROVE  PendingFor(k) =
               IF calling \notin LogCalls /\ k \in RowsOf[calling]
               THEN {calling} ELSE {}
  BY <1>1, <1>2 DEF PendingFor
<1>5. table' = [k \in Slots |->
                  IF calling \notin LogCalls /\ k \in RowsOf[calling]
                  THEN calling ELSE table[k]]
  <2>1. ASSUME NEW k \in Slots
        PROVE  (IF PendingFor(k) = {} THEN table[k]
                ELSE CHOOSE n \in PendingFor(k) :
                         \A m \in PendingFor(k) : m =< n)
               = IF calling \notin LogCalls /\ k \in RowsOf[calling]
                 THEN calling ELSE table[k]
    <3>1. CASE calling \notin LogCalls /\ k \in RowsOf[calling]
      <4> DEFINE newest == CHOOSE n \in PendingFor(k) :
                               \A m \in PendingFor(k) : m =< n
      <4>1. PendingFor(k) = {calling}
        BY <1>3, <3>1
      <4>2. \E n \in PendingFor(k) : \A m \in PendingFor(k) : m =< n
        BY <1>1, <4>1
      <4>3. newest \in PendingFor(k)
        BY <4>2, Zenon
      <4> QED
        BY <3>1, <4>1, <4>3
    <3>2. CASE ~(calling \notin LogCalls /\ k \in RowsOf[calling])
      BY <1>3, <3>2
    <3> QED
      BY <3>1, <3>2
  <2> QED
    BY <2>1 DEF Commit
<1>6. \A n \in Calls :
         (n \in LogCalls /\ \E k \in Slots : <<n, k>> \in pending)
         <=> (n = calling /\ n \in LogCalls)
  BY <1>1, <1>2
<1>7. events' = [n \in Calls |->
                   IF n = calling /\ n \in LogCalls
                   THEN events[n] + 1 ELSE events[n]]
  BY <1>6 DEF Commit
<1> QED
  BY <1>1, <1>5, <1>7

-----------------------------------------------------------------------------
(* The steps.                                                              *)

LEMMA FlagsStep == Flags /\ [Next]_vars => Flags'
<1> SUFFICES ASSUME Flags, [Next]_vars PROVE Flags'
  OBVIOUS
<1> QED
  BY Zenon DEF Flags, Next, vars, stores, call, ghosts, WriterStep, Drop,
     ServerStops, ServerMutes, ServerStarts, SendRejected, Connect, ConnectFails, Send,
     StaleFails, Commit, Return, Retry, Raise, WriteNothing, Begin, Fault,
     EndCall

LEMMA TypedStep ==
    ASSUME Typed, InCall, Sent, [Next]_vars
    PROVE  Typed'
<1> USE DEF Typed, stores, call, ghosts
<1>1. CASE Drop
  BY <1>1 DEF Drop, Fault, LoseSocket
<1>2. CASE ServerStops
  BY <1>2 DEF ServerStops, Fault, LoseSocket
<1>3. CASE ServerStarts \/ ServerMutes
  BY <1>3 DEF ServerStarts, ServerMutes, Fault
<1>4. CASE SendRejected
  <2>1. calling \in Calls /\ RowsOf[calling] \subseteq Slots
    BY <1>4 DEF SendRejected, InCall
  <2>2. PICK S \in SUBSET RowsOf[calling] : RowsSent(S)
    BY <1>4 DEF SendRejected
  <2>3. pending' \subseteq Calls \X Slots
    BY <2>1, <2>2 DEF RowsSent
  <2> QED
    BY <1>4, <2>3 DEF SendRejected, Fault, Fail
<1>5. CASE Connect
  BY <1>5 DEF Connect
<1>6. CASE ConnectFails
  BY <1>6 DEF ConnectFails, Fail
<1>7. CASE Send
  <2>1. calling \in Calls /\ RowsOf[calling] \subseteq Slots
    BY <1>7 DEF Send, InCall
  <2>2. pending' \subseteq Calls \X Slots
    BY <1>7, <2>1 DEF Send, RowsSent
  <2> QED
    BY <1>7, <2>2 DEF Send
<1>8. CASE StaleFails
  BY <1>8 DEF StaleFails, Fail
<1>9. CASE Commit
  <2>1. table' \in [Slots -> Calls \cup {0}] /\ events' \in [Calls -> Nat]
    BY <1>9, CommitIs
  <2> QED
    BY <1>9, <2>1 DEF Commit
<1>10. CASE Return
  BY <1>10 DEF Return, EndCall
<1>11. CASE Retry
  BY <1>11 DEF Retry, Retries, Discard
<1>12. CASE Raise
  BY <1>12 DEF Raise, Retries, RollBack, EndCall
<1>13. ASSUME NEW n \in Calls, WriteNothing(n)
      PROVE  Typed'
  BY <1>13 DEF WriteNothing, IsNext
<1>14. ASSUME NEW n \in Calls, Begin(n)
      PROVE  Typed'
  BY <1>14 DEF Begin, IsNext
<1>u. CASE UNCHANGED vars
  BY <1>u DEF vars
<1> QED
  BY <1>1, <1>2, <1>3, <1>4, <1>5, <1>6, <1>7, <1>8, <1>9, <1>10, <1>11,
     <1>12, <1>13, <1>14, <1>u DEF Next, WriterStep

LEMMA InCallStep ==
    ASSUME Typed, InCall, [Next]_vars
    PROVE  InCall'
<1> USE DEF Typed, InCall, stores, call, ghosts
<1>1. CASE Drop
  BY <1>1 DEF Drop, Fault, LoseSocket, IsNext, Told
<1>2. CASE ServerStops
  BY <1>2 DEF ServerStops, Fault, LoseSocket, IsNext, Told
<1>3. CASE ServerStarts \/ ServerMutes
  BY <1>3 DEF ServerStarts, ServerMutes, Fault, IsNext, Told
<1>4. CASE SendRejected
  BY <1>4 DEF SendRejected, Fault, RowsSent, Fail, IsNext, Told
<1>5. CASE Connect
  BY <1>5 DEF Connect, IsNext, Told
<1>6. CASE ConnectFails
  BY <1>6 DEF ConnectFails, Fail, IsNext, Told
<1>7. CASE Send
  BY <1>7 DEF Send, RowsSent, IsNext, Told
<1>8. CASE StaleFails
  BY <1>8 DEF StaleFails, Fail, IsNext, Told
<1>9. CASE Commit
  BY <1>9 DEF Commit, IsNext, Told
<1>10. CASE Return
  BY <1>10 DEF Return, EndCall, IsNext, Told
<1>11. CASE Retry
  BY <1>11 DEF Retry, Retries, Discard, IsNext, Told
<1>12. CASE Raise
  BY <1>12 DEF Raise, Retries, RollBack, EndCall, IsNext, Told
<1>13. ASSUME NEW n \in Calls, WriteNothing(n)
      PROVE  InCall'
  BY <1>13 DEF WriteNothing, IsNext, Told
<1>14. ASSUME NEW n \in Calls, Begin(n)
      PROVE  InCall'
  BY <1>14 DEF Begin, IsNext, Told
<1>u. CASE UNCHANGED vars
  BY <1>u DEF vars, IsNext, Told
<1> QED
  BY <1>1, <1>2, <1>3, <1>4, <1>5, <1>6, <1>7, <1>8, <1>9, <1>10, <1>11,
     <1>12, <1>13, <1>14, <1>u DEF Next, WriterStep

LEMMA SentStep ==
    ASSUME Typed, InCall, Sent, [Next]_vars
    PROVE  Sent'
<1> USE DEF Typed, Sent, stores, call, ghosts
<1>1. CASE Drop
  BY <1>1 DEF Drop, Fault, LoseSocket, InCall, IsNext
<1>2. CASE ServerStops
  BY <1>2 DEF ServerStops, Fault, LoseSocket, InCall, IsNext
<1>3. CASE ServerStarts \/ ServerMutes
  BY <1>3 DEF ServerStarts, ServerMutes, Fault, InCall, IsNext
<1>4. CASE SendRejected
  BY <1>4 DEF SendRejected, Fault, RowsSent, Fail, InCall, IsNext
<1>5. CASE Connect
  BY <1>5 DEF Connect, InCall, IsNext
<1>6. CASE ConnectFails
  BY <1>6 DEF ConnectFails, Fail, InCall, IsNext
<1>7. CASE Send
  BY <1>7 DEF Send, RowsSent, InCall, IsNext
<1>8. CASE StaleFails
  BY <1>8 DEF StaleFails, Fail, InCall, IsNext
<1>9. CASE Commit
  BY <1>9 DEF Commit, InCall, IsNext
<1>10. CASE Return
  BY <1>10 DEF Return, EndCall, InCall, IsNext
<1>11. CASE Retry
  BY <1>11 DEF Retry, Retries, Discard, InCall, IsNext
<1>12. CASE Raise
  BY <1>12 DEF Raise, Retries, RollBack, EndCall, InCall, IsNext
<1>13. ASSUME NEW n \in Calls, WriteNothing(n)
      PROVE  Sent'
  BY <1>13 DEF WriteNothing, IsNext, InCall
<1>14. ASSUME NEW n \in Calls, Begin(n)
      PROVE  Sent'
  BY <1>14 DEF Begin, IsNext, InCall
<1>u. CASE UNCHANGED vars
  BY <1>u DEF vars, InCall, IsNext
<1> QED
  BY <1>1, <1>2, <1>3, <1>4, <1>5, <1>6, <1>7, <1>8, <1>9, <1>10, <1>11,
     <1>12, <1>13, <1>14, <1>u DEF Next, WriterStep

LEMMA HeldStep ==
    ASSUME Typed, InCall, Sent, Held, [Next]_vars
    PROVE  Held'
<1> USE DEF Typed, Held, stores, call, ghosts
<1>1. CASE Drop
  BY <1>1 DEF Drop, Fault, LoseSocket, InCall, IsNext, Told
<1>2. CASE ServerStops
  BY <1>2 DEF ServerStops, Fault, LoseSocket, InCall, IsNext, Told
<1>3. CASE ServerStarts \/ ServerMutes
  BY <1>3 DEF ServerStarts, ServerMutes, Fault, InCall, IsNext, Told
<1>4. CASE SendRejected
  BY <1>4 DEF SendRejected, Fault, RowsSent, Fail, InCall, IsNext, Told
<1>5. CASE Connect
  BY <1>5 DEF Connect, InCall, IsNext, Told
<1>6. CASE ConnectFails
  BY <1>6 DEF ConnectFails, Fail, InCall, IsNext, Told
<1>7. CASE Send
  BY <1>7 DEF Send, RowsSent, InCall, IsNext, Told
<1>8. CASE StaleFails
  BY <1>8 DEF StaleFails, Fail, InCall, IsNext, Told
<1>9. CASE Commit
  <2>1. /\ calling \in Calls /\ calling # 0 /\ RowsOf[calling] \subseteq Slots
        /\ \A k \in Slots :
              table'[k] = IF calling \notin LogCalls /\ k \in RowsOf[calling]
                          THEN calling ELSE table[k]
        /\ \A n \in Calls :
              events'[n] = IF n = calling /\ n \in LogCalls
                           THEN events[n] + 1 ELSE events[n]
    BY <1>9, CommitIs
  <2>2. /\ calling' = calling /\ attempt' = attempt /\ result' = result
        /\ pc = "commit" /\ pc' = "answer" /\ applied' = TRUE
    BY <1>9 DEF Commit
  <2> QED
    BY <2>1, <2>2 DEF InCall, IsNext, Told
<1>10. CASE Return
  BY <1>10 DEF Return, EndCall, InCall, IsNext, Told
<1>11. CASE Retry
  BY <1>11 DEF Retry, Retries, Discard, InCall, IsNext, Told
<1>12. CASE Raise
  BY <1>12 DEF Raise, Retries, RollBack, EndCall, InCall, IsNext, Told
<1>13. ASSUME NEW n \in Calls, WriteNothing(n)
      PROVE  Held'
  BY <1>13 DEF WriteNothing, IsNext, InCall, Told
<1>14. ASSUME NEW n \in Calls, Begin(n)
      PROVE  Held'
  BY <1>14 DEF Begin, IsNext, InCall, Told
<1>u. CASE UNCHANGED vars
  BY <1>u DEF vars, InCall, IsNext, Told
<1> QED
  BY <1>1, <1>2, <1>3, <1>4, <1>5, <1>6, <1>7, <1>8, <1>9, <1>10, <1>11,
     <1>12, <1>13, <1>14, <1>u DEF Next, WriterStep

LEMMA AnsweredStep ==
    ASSUME Typed, Flags, InCall, Sent, Answered, [Next]_vars
    PROVE  Answered'
<1> USE DEF Typed, Answered, stores, call, ghosts
<1>1. CASE Drop
  BY <1>1 DEF Drop, Fault, LoseSocket, InCall
<1>2. CASE ServerStops
  BY <1>2 DEF ServerStops, Fault, LoseSocket, InCall
<1>3. CASE ServerStarts \/ ServerMutes
  BY <1>3 DEF ServerStarts, ServerMutes, Fault, InCall
<1>4. CASE SendRejected
  BY <1>4 DEF SendRejected, Fault, RowsSent, Fail, InCall
<1>5. CASE Connect
  BY <1>5 DEF Connect, InCall
<1>6. CASE ConnectFails
  BY <1>6 DEF ConnectFails, Fail, InCall
<1>7. CASE Send
  BY <1>7 DEF Send, RowsSent, InCall
<1>8. CASE StaleFails
  BY <1>8 DEF StaleFails, Fail, InCall
<1>9. CASE Commit
  <2>1. /\ calling \in Calls /\ calling # 0 /\ RowsOf[calling] \subseteq Slots
        /\ \A k \in Slots :
              table'[k] = IF calling \notin LogCalls /\ k \in RowsOf[calling]
                          THEN calling ELSE table[k]
        /\ \A n \in Calls :
              events'[n] = IF n = calling /\ n \in LogCalls
                           THEN events[n] + 1 ELSE events[n]
    BY <1>9, CommitIs
  <2>2. /\ calling' = calling /\ attempt' = attempt /\ result' = result
        /\ pc = "commit" /\ pc' = "answer" /\ applied' = TRUE
    BY <1>9 DEF Commit
  <2> QED
    BY <2>1, <2>2 DEF InCall
<1>10. CASE Return
  BY <1>10 DEF Return, EndCall, InCall
<1>11. CASE Retry
  BY <1>11 DEF Retry, Retries, Discard, InCall
<1>12. CASE Raise
  BY <1>12 DEF Raise, Retries, RollBack, EndCall, InCall
<1>13. ASSUME NEW n \in Calls, WriteNothing(n)
      PROVE  Answered'
  BY <1>13 DEF WriteNothing, IsNext, InCall
<1>14. ASSUME NEW n \in Calls, Begin(n)
      PROVE  Answered'
  BY <1>14 DEF Begin, IsNext, InCall
<1>u. CASE UNCHANGED vars
  BY <1>u DEF vars, InCall
<1> QED
  BY <1>1, <1>2, <1>3, <1>4, <1>5, <1>6, <1>7, <1>8, <1>9, <1>10, <1>11,
     <1>12, <1>13, <1>14, <1>u DEF Next, WriterStep

LEMMA LoggedStep ==
    ASSUME Typed, InCall, Sent, Logged, [Next]_vars
    PROVE  Logged'
<1> USE DEF Typed, Logged, stores, call, ghosts
<1>1. CASE Drop
  BY <1>1 DEF Drop, Fault, LoseSocket, InCall, IsNext, Told
<1>2. CASE ServerStops
  BY <1>2 DEF ServerStops, Fault, LoseSocket, InCall, IsNext, Told
<1>3. CASE ServerStarts \/ ServerMutes
  BY <1>3 DEF ServerStarts, ServerMutes, Fault, InCall, IsNext, Told
<1>4. CASE SendRejected
  BY <1>4 DEF SendRejected, Fault, RowsSent, Fail, InCall, IsNext, Told
<1>5. CASE Connect
  BY <1>5 DEF Connect, InCall, IsNext, Told
<1>6. CASE ConnectFails
  BY <1>6 DEF ConnectFails, Fail, InCall, IsNext, Told
<1>7. CASE Send
  BY <1>7 DEF Send, RowsSent, InCall, IsNext, Told
<1>8. CASE StaleFails
  BY <1>8 DEF StaleFails, Fail, InCall, IsNext, Told
<1>9. CASE Commit
  <2>1. /\ calling \in Calls /\ calling # 0 /\ RowsOf[calling] \subseteq Slots
        /\ \A k \in Slots :
              table'[k] = IF calling \notin LogCalls /\ k \in RowsOf[calling]
                          THEN calling ELSE table[k]
        /\ \A n \in Calls :
              events'[n] = IF n = calling /\ n \in LogCalls
                           THEN events[n] + 1 ELSE events[n]
    BY <1>9, CommitIs
  <2>2. /\ calling' = calling /\ attempt' = attempt /\ result' = result
        /\ pc = "commit" /\ pc' = "answer" /\ applied' = TRUE
    BY <1>9 DEF Commit
  <2> QED
    BY <2>1, <2>2 DEF InCall, IsNext, Told
<1>10. CASE Return
  BY <1>10 DEF Return, EndCall, InCall, IsNext, Told
<1>11. CASE Retry
  BY <1>11 DEF Retry, Retries, Discard, InCall, IsNext, Told
<1>12. CASE Raise
  BY <1>12 DEF Raise, Retries, RollBack, EndCall, InCall, IsNext, Told
<1>13. ASSUME NEW n \in Calls, WriteNothing(n)
      PROVE  Logged'
  BY <1>13 DEF WriteNothing, IsNext, InCall, Told
<1>14. ASSUME NEW n \in Calls, Begin(n)
      PROVE  Logged'
  BY <1>14 DEF Begin, IsNext, InCall, Told
<1>u. CASE UNCHANGED vars
  BY <1>u DEF vars, InCall, IsNext, Told
<1> QED
  BY <1>1, <1>2, <1>3, <1>4, <1>5, <1>6, <1>7, <1>8, <1>9, <1>10, <1>11,
     <1>12, <1>13, <1>14, <1>u DEF Next, WriterStep

LEMMA UnhitStep ==
    ASSUME Typed, Flags, Unhit, InCall, [Next]_vars
    PROVE  Unhit'
<1> USE DEF Typed, Unhit, stores, call, ghosts
<1>1. CASE Drop
  BY <1>1 DEF Drop, Fault, LoseSocket, InCall
<1>2. CASE ServerStops
  BY <1>2 DEF ServerStops, Fault, LoseSocket, InCall
<1>3. CASE ServerStarts \/ ServerMutes
  BY <1>3 DEF ServerStarts, ServerMutes, Fault, InCall
<1>4. CASE SendRejected
  BY <1>4 DEF SendRejected, Fault, RowsSent, Fail, InCall
<1>5. CASE Connect
  BY <1>5 DEF Connect, InCall
<1>6. CASE ConnectFails
  BY <1>6 DEF ConnectFails, Fail, InCall
<1>7. CASE Send
  BY <1>7 DEF Send, RowsSent, InCall
<1>8. CASE StaleFails
  BY <1>8 DEF StaleFails, Fail, InCall
<1>9. CASE Commit
  BY <1>9 DEF Commit, InCall
<1>10. CASE Return
  BY <1>10 DEF Return, EndCall, InCall
<1>11. CASE Retry
  BY <1>11 DEF Retry, Retries, Discard, InCall
<1>12. CASE Raise
  BY <1>12 DEF Raise, Retries, RollBack, EndCall, InCall
<1>13. ASSUME NEW n \in Calls, WriteNothing(n)
      PROVE  Unhit'
  BY <1>13 DEF WriteNothing, IsNext, InCall
<1>14. ASSUME NEW n \in Calls, Begin(n)
      PROVE  Unhit'
  <2>1. pc' = "execute" /\ attempt' = 1
    BY <1>14 DEF Begin
  <2>2. hit' = FALSE => server' = "up"
    BY <1>14, Zenon DEF Begin, Flags
  <2> QED
    BY <2>1, <2>2
<1>u. CASE UNCHANGED vars
  BY <1>u DEF vars, InCall
<1> QED
  BY <1>1, <1>2, <1>3, <1>4, <1>5, <1>6, <1>7, <1>8, <1>9, <1>10, <1>11,
     <1>12, <1>13, <1>14, <1>u DEF Next, WriterStep

LEMMA AllOrNothingStep ==
    ASSUME Typed, InCall, Sent, Held, AllOrNothing, [Next]_vars
    PROVE  AllOrNothing'
<1> USE DEF Typed, AllOrNothing, stores, call, ghosts
<1>1. CASE Drop
  BY <1>1 DEF Drop, Fault, LoseSocket, InCall
<1>2. CASE ServerStops
  BY <1>2 DEF ServerStops, Fault, LoseSocket, InCall
<1>3. CASE ServerStarts \/ ServerMutes
  BY <1>3 DEF ServerStarts, ServerMutes, Fault, InCall
<1>4. CASE SendRejected
  BY <1>4 DEF SendRejected, Fault, RowsSent, Fail, InCall
<1>5. CASE Connect
  BY <1>5 DEF Connect, InCall
<1>6. CASE ConnectFails
  BY <1>6 DEF ConnectFails, Fail, InCall
<1>7. CASE Send
  BY <1>7 DEF Send, RowsSent, InCall
<1>8. CASE StaleFails
  BY <1>8 DEF StaleFails, Fail, InCall
<1>9. CASE Commit
  <2>1. /\ calling \in Calls /\ calling # 0 /\ RowsOf[calling] \subseteq Slots
        /\ \A k \in Slots :
              table'[k] = IF calling \notin LogCalls /\ k \in RowsOf[calling]
                          THEN calling ELSE table[k]
        /\ \A n \in Calls :
              events'[n] = IF n = calling /\ n \in LogCalls
                           THEN events[n] + 1 ELSE events[n]
    BY <1>9, CommitIs
  <2>2. /\ calling' = calling /\ attempt' = attempt /\ result' = result
        /\ pc = "commit" /\ pc' = "answer" /\ applied' = TRUE
    BY <1>9 DEF Commit
  <2> QED
    BY <2>1, <2>2 DEF InCall, Held, IsNext, Told
<1>10. CASE Return
  BY <1>10 DEF Return, EndCall, InCall
<1>11. CASE Retry
  BY <1>11 DEF Retry, Retries, Discard, InCall
<1>12. CASE Raise
  BY <1>12 DEF Raise, Retries, RollBack, EndCall, InCall
<1>13. ASSUME NEW n \in Calls, WriteNothing(n)
      PROVE  AllOrNothing'
  BY <1>13 DEF WriteNothing, IsNext, InCall
<1>14. ASSUME NEW n \in Calls, Begin(n)
      PROVE  AllOrNothing'
  BY <1>14 DEF Begin, IsNext, InCall
<1>u. CASE UNCHANGED vars
  BY <1>u DEF vars, InCall
<1> QED
  BY <1>1, <1>2, <1>3, <1>4, <1>5, <1>6, <1>7, <1>8, <1>9, <1>10, <1>11,
     <1>12, <1>13, <1>14, <1>u DEF Next, WriterStep

LEMMA ReportedIsStoredStep ==
    ASSUME Typed, InCall, Sent, Answered, ReportedIsStored, [Next]_vars
    PROVE  ReportedIsStored'
<1> USE DEF Typed, ReportedIsStored, stores, call, ghosts
<1>1. CASE Drop
  BY <1>1 DEF Drop, Fault, LoseSocket, InCall, Answered
<1>2. CASE ServerStops
  BY <1>2 DEF ServerStops, Fault, LoseSocket, InCall, Answered
<1>3. CASE ServerStarts \/ ServerMutes
  BY <1>3 DEF ServerStarts, ServerMutes, Fault, InCall, Answered
<1>4. CASE SendRejected
  BY <1>4 DEF SendRejected, Fault, RowsSent, Fail, InCall, Answered
<1>5. CASE Connect
  BY <1>5 DEF Connect, InCall, Answered
<1>6. CASE ConnectFails
  BY <1>6 DEF ConnectFails, Fail, InCall, Answered
<1>7. CASE Send
  BY <1>7 DEF Send, RowsSent, InCall, Answered
<1>8. CASE StaleFails
  BY <1>8 DEF StaleFails, Fail, InCall, Answered
<1>9. CASE Commit
  <2>1. /\ calling \in Calls /\ calling # 0 /\ RowsOf[calling] \subseteq Slots
        /\ \A k \in Slots :
              table'[k] = IF calling \notin LogCalls /\ k \in RowsOf[calling]
                          THEN calling ELSE table[k]
        /\ \A n \in Calls :
              events'[n] = IF n = calling /\ n \in LogCalls
                           THEN events[n] + 1 ELSE events[n]
    BY <1>9, CommitIs
  <2>2. /\ calling' = calling /\ attempt' = attempt /\ result' = result
        /\ pc = "commit" /\ pc' = "answer" /\ applied' = TRUE
    BY <1>9 DEF Commit
  <2> QED
    BY <2>1, <2>2 DEF InCall, IsNext, Told
<1>10. CASE Return
  BY <1>10 DEF Return, EndCall, InCall, Answered
<1>11. CASE Retry
  BY <1>11 DEF Retry, Retries, Discard, InCall, Answered
<1>12. CASE Raise
  BY <1>12 DEF Raise, Retries, RollBack, EndCall, InCall, Answered
<1>13. ASSUME NEW n \in Calls, WriteNothing(n)
      PROVE  ReportedIsStored'
  BY <1>13 DEF WriteNothing, IsNext, InCall, Answered
<1>14. ASSUME NEW n \in Calls, Begin(n)
      PROVE  ReportedIsStored'
  BY <1>14 DEF Begin, IsNext, InCall, Answered
<1>u. CASE UNCHANGED vars
  BY <1>u DEF vars, InCall, Answered
<1> QED
  BY <1>1, <1>2, <1>3, <1>4, <1>5, <1>6, <1>7, <1>8, <1>9, <1>10, <1>11,
     <1>12, <1>13, <1>14, <1>u DEF Next, WriterStep

-----------------------------------------------------------------------------
LEMMA InitIInv == Init => IInv
<1> SUFFICES ASSUME Init PROVE IInv
  OBVIOUS
<1>1. applied = FALSE /\ hit = FALSE
  BY Zenon DEF Init
<1>2. Typed
  BY DEF Init, Typed
<1>3. InCall /\ Sent /\ Held /\ Logged
  BY DEF Init, InCall, Sent, Held, Logged, Told
<1>4. Answered /\ Unhit
  BY <1>1 DEF Init, Answered, Unhit
<1>5. AllOrNothing /\ ReportedIsStored
  BY DEF Init, AllOrNothing, ReportedIsStored
<1> QED
  BY <1>1, <1>2, <1>3, <1>4, <1>5, Zenon DEF IInv, Flags

LEMMA StepIInv == IInv /\ [Next]_vars => IInv'
<1> SUFFICES ASSUME IInv, [Next]_vars PROVE IInv'
  OBVIOUS
<1>1. Typed' /\ Flags' /\ InCall' /\ Sent'
  BY TypedStep, FlagsStep, InCallStep, SentStep DEF IInv
<1>2. Held' /\ Answered' /\ Logged' /\ Unhit'
  BY HeldStep, AnsweredStep, LoggedStep, UnhitStep DEF IInv
<1>3. AllOrNothing' /\ ReportedIsStored'
  BY AllOrNothingStep, ReportedIsStoredStep DEF IInv
<1> QED
  BY <1>1, <1>2, <1>3 DEF IInv

LEMMA Invariance == Spec => []IInv
  BY InitIInv, StepIInv, PTL DEF Spec

\* A call reported stored is in the database, whatever failed before or after;
\* a file is never stored in part, and a lost answer duplicates a row of the log
\* once, never twice.
THEOREM StoredWhole == Spec => []StoreIsWhole
<1>1. IInv => TypeOK
  BY Zenon DEF IInv, Typed, Flags, TypeOK
<1>2. IInv => ReportedIsStored /\ AllOrNothing
  BY DEF IInv
<1>3. IInv => LogAtMostTwice
  BY DEF IInv, Logged, LogAtMostTwice
<1>4. IInv => StoreIsWhole
  BY <1>1, <1>2, <1>3 DEF StoreIsWhole
<1> QED
  BY <1>4, Invariance, PTL

\* No call commits the rows of another, and a connection that died while it was
\* idle costs one retry and no delivery.
THEOREM ConnectionClean == Spec => []ConnectionIsClean
<1>1. IInv => NothingPendingBetweenCalls
  BY DEF IInv, Sent, NothingPendingBetweenCalls
<1>2. IInv => IdleDropIsSurvived
  <2> SUFFICES ASSUME IInv, pc = "failed", ~hit
               PROVE  error = "connection" /\ attempt = 1
    BY DEF IdleDropIsSurvived
  <2>1. hit = FALSE
    BY Zenon DEF IInv, Flags
  <2> QED
    BY <2>1 DEF IInv, Unhit
<1>3. IInv => ConnectionIsClean
  BY <1>1, <1>2 DEF ConnectionIsClean
<1> QED
  BY <1>3, Invariance, PTL

-----------------------------------------------------------------------------
(* A call ends. CallsEnd says so with fairness; this is what it rests on:  *)
(* a call that has begun has a step, for its connection is never gone      *)
(* under it, only dead, unless it waits for a mute server; and each of its *)
(* steps uses up one of the ten that two attempts have.                    *)

HasConn == /\ pc \in {"send", "commit", "answer"} => conn \in {"live", "stale"}
           /\ conn = "live" => server # "down"

LEMMA HasConnStep ==
    ASSUME Typed, HasConn, [Next]_vars
    PROVE  HasConn'
<1> USE DEF Typed, HasConn
<1>1. CASE Drop \/ ServerStops \/ ServerMutes \/ ServerStarts
  BY <1>1 DEF Drop, ServerStops, ServerMutes, ServerStarts, Fault,
     LoseSocket, vars, call, stores, ghosts
<1>2. CASE SendRejected \/ StaleFails \/ ConnectFails
  BY <1>2 DEF SendRejected, StaleFails, ConnectFails, Fail
<1>3. CASE Connect \/ Send \/ Commit
  BY <1>3 DEF Connect, Send, Commit
<1>4. CASE Return \/ Raise \/ Retry
  BY <1>4 DEF Return, Raise, Retry, Discard, EndCall
<1>5. ASSUME NEW n \in Calls, WriteNothing(n) \/ Begin(n)
      PROVE  HasConn'
  BY <1>5 DEF WriteNothing, Begin
<1>6. CASE UNCHANGED vars
  BY <1>6 DEF vars
<1> QED
  BY <1>1, <1>2, <1>3, <1>4, <1>5, <1>6 DEF Next, WriterStep

\* The guards of WriterStep, phase by phase.
CanProceed ==
    \/ pc = "execute" /\ (conn # "none" \/ server = "up")
    \/ pc = "execute" /\ conn = "none" /\ server # "up"
    \/ pc \in {"send", "commit", "answer"} /\ (Answering \/ conn = "stale")
    \/ pc = "failed" /\ calling \in Calls /\ (conn = "live" => server = "up")

StepsOfAttempt ==
    CASE pc = "execute" -> 5
      [] pc = "send" -> 4
      [] pc = "commit" -> 3
      [] pc = "answer" -> 2
      [] pc = "failed" -> 1

StepsLeft == IF pc = "idle" THEN 0
             ELSE StepsOfAttempt + (IF attempt = 1 THEN 5 ELSE 0)

\* What a step may do to the steps left: WriterStep uses one up at least, and
\* nothing the network or the server does gives one back.
CallCountsDown == /\ WriterStep => StepsLeft' < StepsLeft
                  /\ pc # "idle" => StepsLeft' =< StepsLeft

LEMMA CallCountsDownStep ==
    ASSUME Typed, Typed', Next
    PROVE  CallCountsDown
<1> USE DEF Typed, CallCountsDown, StepsLeft, StepsOfAttempt
<1>1. CASE Drop \/ ServerStops \/ ServerMutes \/ ServerStarts
  <2>1. pc' = pc /\ attempt' = attempt
    BY <1>1 DEF Drop, ServerStops, ServerMutes, ServerStarts, call
  <2>2. ~WriterStep
    BY <1>1 DEF Drop, ServerStops, ServerMutes, ServerStarts, Fault, LoseSocket, WriterStep,
       Connect, ConnectFails, Send, StaleFails, Commit, Return, Retry, Raise,
       Fail, EndCall, call
  <2> QED
    BY <2>1, <2>2
<1>2. CASE SendRejected
  <2>1. pc = "send" /\ pc' = "failed" /\ attempt' = attempt
    BY <1>2 DEF SendRejected, Fail, call
  <2> QED
    BY <2>1
<1>3. CASE ConnectFails \/ StaleFails
  <2>1. pc \in {"execute", "send", "commit", "answer"} /\ pc' = "failed"
        /\ attempt' = attempt
    BY <1>3 DEF ConnectFails, StaleFails, Fail, call
  <2> QED
    BY <2>1
<1>4. CASE Connect \/ Send \/ Commit
  <2>1. /\ attempt' = attempt
        /\ \/ pc = "execute" /\ pc' = "send"
           \/ pc = "send" /\ pc' = "commit"
           \/ pc = "commit" /\ pc' = "answer"
    BY <1>4 DEF Connect, Send, Commit, call
  <2> QED
    BY <2>1
<1>5. CASE Return \/ Raise
  <2>1. pc \in {"answer", "failed"} /\ pc' = "idle"
    BY <1>5 DEF Return, Raise, EndCall
  <2> QED
    BY <2>1
<1>6. CASE Retry
  <2>1. pc = "failed" /\ attempt = 1 /\ pc' = "execute" /\ attempt' = 2
    BY <1>6 DEF Retry, Retries
  <2> QED
    BY <2>1
<1>7. ASSUME NEW n \in Calls, WriteNothing(n) \/ Begin(n)
      PROVE  CallCountsDown
  <2>1. pc = "idle"
    BY <1>7 DEF WriteNothing, Begin
  <2>2. ~WriterStep
    BY <2>1 DEF WriterStep, Connect, ConnectFails, Send, StaleFails, Commit,
       Return, Retry, Raise
  <2> QED
    BY <2>1, <2>2
<1> QED
  BY <1>1, <1>2, <1>3, <1>4, <1>5, <1>6, <1>7 DEF Next, WriterStep

\* A call that has begun can go on unless it waits for a mute QuestDB to answer
\* a statement, and is over after ten steps of its own, retry included, however
\* often the connection drops and the server stops and starts meanwhile: it
\* never waits for QuestDB to come back.
THEOREM CallsRunOut ==
    Spec => /\ [](pc # "idle" => (Hung \/ CanProceed) /\ StepsLeft \in 1 .. 10)
            /\ [][CallCountsDown]_vars
<1>1. IInv /\ HasConn => (pc # "idle" => (Hung \/ CanProceed) /\ StepsLeft \in 1 .. 10)
  <2> SUFFICES ASSUME IInv, HasConn, pc # "idle"
               PROVE  (Hung \/ CanProceed) /\ StepsLeft \in 1 .. 10
    OBVIOUS
  <2>1. StepsLeft \in 1 .. 10
    BY DEF IInv, Typed, StepsLeft, StepsOfAttempt
  <2>2. calling \in Calls
    BY DEF IInv, Typed, InCall
  <2>3. Hung \/ CanProceed
    BY <2>2 DEF IInv, Typed, HasConn, CanProceed, Hung
  <2> QED
    BY <2>1, <2>3
<1>2. Init => HasConn
  BY DEF Init, HasConn
<1>3. IInv /\ HasConn /\ [Next]_vars => HasConn'
  BY HasConnStep DEF IInv
<1>4. IInv /\ IInv' /\ [Next]_vars => [CallCountsDown]_vars
  BY CallCountsDownStep DEF IInv
<1> QED
  BY <1>1, <1>2, <1>3, <1>4, Invariance, PTL DEF Spec

-----------------------------------------------------------------------------
(* The writer is an atomic store: a commit is its Apply, the end of a call *)
(* its Return, and connecting, sending, failing and retrying are stutters. *)

Kept == [n \in Calls |-> IF n \in LogCalls THEN {} ELSE RowsOf[n]]
StoredCalls == {n \in Calls : result[n] = "stored"}

LEMMA InitIsStore == Init => Store!Init
<1> SUFFICES ASSUME Init PROVE Store!Init
  OBVIOUS
<1>1. applied = FALSE
  BY Zenon DEF Init
<1>2. StoredCalls = {}
  BY DEF Init, StoredCalls
<1>3. table = [k \in Slots |-> 0] /\ calling = 0
  BY DEF Init
<1> QED
  BY <1>1, <1>2, <1>3, Zenon DEF Store!Init, StoredCalls

LEMMA StepIsStore ==
    ASSUME IInv, [Next]_vars
    PROVE  [Store!Next]_(Store!vars)
<1> USE DEF stores, call, ghosts, StoredCalls
<1>1. ASSUME table' = table, calling' = calling, applied' = applied,
             result' = result
      PROVE  UNCHANGED Store!vars
  BY <1>1, Zenon DEF Store!vars
<1>2. CASE \/ Drop \/ ServerStops \/ ServerMutes \/ ServerStarts \/ SendRejected \/ Connect
           \/ ConnectFails \/ Send \/ StaleFails \/ Retry \/ UNCHANGED vars
  <2>1. table' = table /\ calling' = calling /\ result' = result
    BY <1>2 DEF Drop, ServerStops, ServerMutes, ServerStarts, SendRejected, Connect,
       ConnectFails, Send, StaleFails, Retry, vars
  <2>2. applied' = applied
    BY <1>2, Zenon DEF Drop, ServerStops, ServerMutes, ServerStarts, SendRejected, Connect,
       ConnectFails, Send, StaleFails, Retry, vars
  <2> QED
    BY <1>1, <2>1, <2>2
<1>3. ASSUME NEW n \in Calls, WriteNothing(n)
      PROVE  UNCHANGED Store!vars
  <2>1. table' = table /\ calling' = calling
    BY <1>3 DEF WriteNothing
  <2>2. applied' = applied
    BY <1>3, Zenon DEF WriteNothing
  <2>3. StoredCalls' = StoredCalls
    BY <1>3 DEF WriteNothing, IsNext, IInv, Typed
  <2> QED
    BY <2>1, <2>2, <2>3, Zenon DEF Store!vars
<1>4. ASSUME NEW n \in Calls, Begin(n)
      PROVE  Store!Begin(n)
  <2>1. calling = 0 /\ calling' = n /\ table' = table /\ result' = result
    BY <1>4 DEF Begin, IInv, InCall
  <2>2. applied' = applied /\ pc = "idle"
    BY <1>4, Zenon DEF Begin
  <2>3. applied = FALSE
    BY <2>2 DEF IInv, Answered
  <2> QED
    BY <2>1, <2>2, <2>3, Zenon DEF Store!Begin
<1>5. ASSUME Commit
      PROVE  Store!Apply
  <2>1. /\ calling \in Calls /\ calling' = calling /\ result' = result
        /\ table' = [k \in Slots |->
                       IF calling \notin LogCalls /\ k \in RowsOf[calling]
                       THEN calling ELSE table[k]]
    BY <1>5, CommitIs DEF IInv, Commit
  <2>2. applied' = TRUE
    BY <1>5, Zenon DEF Commit
  <2>3. table' = [k \in Slots |->
                    IF k \in Kept[calling] THEN calling ELSE table[k]]
    BY <2>1 DEF Kept
  <2> QED
    BY <2>1, <2>2, <2>3, Zenon DEF Store!Apply, Kept
<1>6. ASSUME Return
      PROVE  Store!Return
  <2>1. calling \in Calls /\ calling' = 0 /\ table' = table /\ pc = "answer"
    BY <1>6 DEF Return, EndCall, IInv, InCall, Typed
  <2>2. applied = TRUE
    BY <2>1 DEF IInv, Answered
  <2>3. applied' = FALSE
    BY <1>6, Zenon DEF Return, EndCall
  <2>4. StoredCalls' = StoredCalls \cup {calling}
    BY <1>6, <2>1 DEF Return, EndCall, IInv, Typed
  <2> QED
    BY <2>1, <2>2, <2>3, <2>4, Zenon DEF Store!Return
<1>7. ASSUME Raise
      PROVE  Store!Return
  <2>1. calling \in Calls /\ calling' = 0 /\ table' = table
    BY <1>7 DEF Raise, EndCall, IInv, InCall, Typed
  <2>2. applied' = FALSE
    BY <1>7, Zenon DEF Raise, EndCall
  <2>3. StoredCalls' = StoredCalls
    BY <1>7, <2>1 DEF Raise, EndCall, IInv, Typed, InCall, IsNext
  <2> QED
    BY <2>1, <2>2, <2>3, Zenon DEF Store!Return
<1> QED
  BY <1>2, <1>3, <1>4, <1>5, <1>6, <1>7
     DEF Next, WriterStep, Store!Next

\* "there is no partially-applied state to repair": whatever the network and
\* the server do, the daily job sees an atomic store.
THEOREM WriterIsAtomicStore == Spec => ImplementsAtomicStore
<1>1. IInv /\ [Next]_vars => [Store!Next]_(Store!vars)
  BY StepIsStore
<1> QED
  BY <1>1, InitIsStore, Invariance, PTL
     DEF Spec, ImplementsAtomicStore, Store!Spec

=============================================================================
