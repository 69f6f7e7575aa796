----------------------------- MODULE MCDailyJob -----------------------------
(***************************************************************************)
(* Instances of DailyJob for TLC: files, days, slots and verdicts. Slot    *)
(* "a" is reported on two days, so a later delivery revises an earlier one.*)
(***************************************************************************)
EXTENDS DailyJob

\* One file on day 1, two on day 2, one of which ends every run that reads it.
ThreeFiles == 1 .. 3
LateDayOf == [f \in ThreeFiles |-> IF f = 1 THEN 1 ELSE 2]
ThreeKeysOf == [f \in ThreeFiles |-> IF f = 2 THEN {"b"} ELSE {"a"}]
OneAborts == [f \in ThreeFiles |-> IF f = 2 THEN "abort" ELSE "store"]

SlotsAB == {"a", "b"}

\* Two files on day 1, one of which is skipped, and two on day 2, one of which
\* ingestion refuses.
FourFiles == 1 .. 4
FourDayOf == [f \in FourFiles |-> IF f =< 2 THEN 1 ELSE 2]
FourKeysOf == [f \in FourFiles |-> IF f \in {2, 4} THEN {"b"} ELSE {"a"}]
OneRejected == [f \in FourFiles |-> IF f = 2 THEN "skip"
                                    ELSE IF f = 4 THEN "reject" ELSE "store"]

\* Two files, eight days apart.
TwoFiles == 1 .. 2
EightDaysApart == [f \in TwoFiles |-> 8 * f - 7]
SlotA == {"a"}
TwoKeysOf == [f \in TwoFiles |-> {"a"}]
BothStore == [f \in TwoFiles |-> "store"]
=============================================================================
