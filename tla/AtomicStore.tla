---------------------------- MODULE AtomicStore ----------------------------
(***************************************************************************)
(* A store with one caller at a time, as the daily job relies on it: all   *)
(* rows of a call appear at once or not at all, a call reported stored has *)
(* appeared, and one that raised may have appeared (the answer was lost).  *)
(* These are the Ingest, WriteFails and AnswerLost of module DailyJob.     *)
(***************************************************************************)
EXTENDS Naturals

CONSTANTS Slots, Calls, RowsOf     \* RowsOf[n]: the slots call n writes

VARIABLES table,     \* table[k]: the call whose row slot k holds, 0 for none
          calling,   \* the call in progress, 0 for none
          applied,   \* its rows have appeared
          stored     \* the calls reported stored

vars == <<table, calling, applied, stored>>

Init == /\ table = [k \in Slots |-> 0]
        /\ calling = 0
        /\ applied = FALSE
        /\ stored = {}

Begin(n) == /\ calling = 0
            /\ calling' = n
            /\ applied' = FALSE
            /\ UNCHANGED <<table, stored>>

Apply == /\ calling \in Calls
         /\ table' = [k \in Slots |-> IF k \in RowsOf[calling] THEN calling
                                                               ELSE table[k]]
         /\ applied' = TRUE
         /\ UNCHANGED <<calling, stored>>

\* An empty call is reported as such and neither stored nor failed.
Return == /\ calling \in Calls
          /\ calling' = 0
          /\ applied' = FALSE
          /\ \/ applied /\ stored' = stored \cup {calling}
             \/ UNCHANGED stored
          /\ UNCHANGED table

Next == Apply \/ Return \/ \E n \in Calls : Begin(n)

Spec == Init /\ [][Next]_vars
=============================================================================
