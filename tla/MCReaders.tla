------------------------------ MODULE MCReaders ------------------------------
(***************************************************************************)
(* The scripts that only read cel_energy, for TLC: the calendar of the     *)
(* bills, their export, and the validation of a day. Each runs for itself, *)
(* so a behaviour is of one of the three; the state of the others does not *)
(* matter and stays at one value.                                          *)
(***************************************************************************)
EXTENDS BillingPeriods, BillingExport, DailyBalance, TLC

VARIABLE reader     \* the script looked at

At(t, d, time) == [table |-> t, direction |-> d, time |-> time]
FiveCells == {At(t, d, 1) : t \in {"e66", "e31"}, d \in {"consumption", "production"}}
               \cup {At("e66", "consumption", 2)}

\* The calendar walks over two year ends, a leap year, four changes of clock.
October2023 == Date(2023, 10, 1)
April2025 == Date(2025, 4, 30)

\* The two slots of the period for one declared meter, a row of its other
\* direction, and one that is outside the period.
OneConsumer == [m \in {"mc"} |-> "consumption"]
Row(d, s, t) == [meter |-> "mc", direction |-> d, segment |-> s, slot |-> t]
SixRows == {Row("consumption", s, t) : s \in Segments, t \in {1, 2}}
             \cup {Row("production", "cel", 1), Row("consumption", "cel", 3)}

\* Nothing tells one export from another.
ExportersAlike == Permutations(Exporters)

Readers == {"calendar", "export", "balance"}
readers == <<reader, calendar, vars, balance>>

ReadersInit ==
    /\ reader \in Readers
    /\ reader # "export" => energy = [k \in Rows |-> Absent]
    /\ reader # "balance" => value = [k \in Cells |-> NotStored]
    /\ CalendarInit /\ Init /\ BalanceInit

ReadersNext ==
    \/ reader = "calendar" /\ Pass /\ UNCHANGED <<reader, vars, balance>>
    \/ reader = "export" /\ Next /\ UNCHANGED <<reader, calendar, balance>>
    \/ reader = "balance" /\ BalanceNext /\ UNCHANGED <<reader, calendar, vars>>

ReadersSpec == ReadersInit /\ [][ReadersNext]_readers
=============================================================================
