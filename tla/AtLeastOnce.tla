---------------------------- MODULE AtLeastOnce ----------------------------
(***************************************************************************)
(* What the daily job promises whoever reads the database, without a word  *)
(* of queues, downloads, zips or phases: at-least-once delivery.           *)
(*                                                                         *)
(* A file's rows are upserted whole, any number of times, as long as the   *)
(* file is not settled. It is settled, for ever, once its rows have been   *)
(* delivered (or it is exempt: skipped by design), and is never delivered  *)
(* again after that.                                                       *)
(***************************************************************************)
EXTENDS Naturals

CONSTANTS Files, Keys, KeysOf,
          Exempt    \* the files that need no delivery

VARIABLES table,      \* table[k]: the file whose row slot k holds, 0 for none
          delivered,  \* files delivered at least once
          settled     \* files the job will not touch again

vars == <<table, delivered, settled>>

Init == /\ table = [k \in Keys |-> 0]
        /\ delivered = {}
        /\ settled = {}

\* All rows of f at once, over whatever its slots held.
Deliver(f) ==
    /\ f \notin settled
    /\ table' = [k \in Keys |-> IF k \in KeysOf[f] THEN f ELSE table[k]]
    /\ delivered' = delivered \cup {f}
    /\ UNCHANGED settled

Settle(S) ==
    /\ S \subseteq delivered \cup Exempt
    /\ settled' = settled \cup S
    /\ UNCHANGED <<table, delivered>>

Next == \/ \E f \in Files : Deliver(f)
        \/ \E S \in SUBSET Files : Settle(S)

Spec == Init /\ [][Next]_vars
=============================================================================
