----------------------------- MODULE FetchPhase -----------------------------
(***************************************************************************)
(* What the daily job relies on of a download: every wanted file lands     *)
(* whole, is given up, or is left alone because the phase is over. This is *)
(* how module DailyJob sees it (Fetch, FetchFails, ConnectionLost,         *)
(* ConnectFails).                                                          *)
(***************************************************************************)
CONSTANT Entries      \* the files selected from the server's listing

VARIABLES over,       \* the phase is over
          wanted,     \* listed, and not tried yet
          landed      \* in incoming/ under their own name

vars == <<over, wanted, landed>>

Init == over = FALSE /\ wanted = {} /\ landed = {}

List == /\ ~over /\ landed = {}
        /\ wanted' = Entries
        /\ UNCHANGED <<over, landed>>

Land(f) == /\ f \in wanted
           /\ wanted' = wanted \ {f}
           /\ landed' = landed \cup {f}
           /\ UNCHANGED over

GiveUp(f) == /\ f \in wanted
             /\ wanted' = wanted \ {f}
             /\ UNCHANGED <<over, landed>>

\* Nothing left to try, or no way to try it.
Finish == /\ ~over
          /\ over' = TRUE
          /\ wanted' = {}
          /\ UNCHANGED landed

Next == List \/ Finish \/ \E f \in Entries : Land(f) \/ GiveUp(f)

Spec == Init /\ [][Next]_vars
=============================================================================
