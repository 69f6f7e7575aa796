---------------------------- MODULE DailyBalance ----------------------------
(***************************************************************************)
(* validate_daily_balance_questdb.py asks the database four times for the  *)
(* energy exchanged inside the community on one day, and compares the      *)
(* answers, while ingestion may be writing.                                *)
(*                                                                         *)
(* A row is [table, direction, time]; one of value 0 is a row, as in a day *)
(* of which nothing was exchanged. All rows are of the community and of    *)
(* segment cel. Day d holds the times from d * DayLength to the next day's *)
(* first, that one excluded.                                               *)
(***************************************************************************)
EXTENDS Integers, FiniteSets, FiniteSetsExt

CONSTANTS
    Cells,        \* rows the two tables may hold
    Values,       \* what is measured
    Day,          \* the day asked for
    DayLength,
    Tolerance,    \* TOLERANCE_KWH
    MaxCommits    \* rows written while the check is under way (a bound)

ASSUME CellsAssumption == IsFiniteSet(Cells) /\ \A k \in Cells : k.time \in Int
ASSUME DayAssumption == Day \in Nat /\ DayLength \in Nat \ {0}
ASSUME ValuesAssumption == Values \subseteq Nat /\ Tolerance \in Nat
ASSUME CommitsAssumption == MaxCommits \in Nat

Pairs == <<<<"e66", "consumption">>, <<"e66", "production">>,
           <<"e31", "consumption">>, <<"e31", "production">>>>

NotStored == -1

VARIABLES
    value,      \* of each row
    asked,      \* queries answered
    sums,       \* of each pair: total and count, -1 before it was asked for
    exitCode,   \* 0 pass, 1 fail, 2 no data, 3 error, 4 not ended
    quiet,      \* ghost: nothing was written since the first query
    commits

balance == <<value, asked, sums, exitCode, quiet, commits>>

Asked == {Pairs[i] : i \in 1 .. 4}
Unasked == [total |-> -1, count |-> -1]

BalanceTypes ==
    /\ value \in [Cells -> Values \cup {NotStored}]
    /\ asked \in 0 .. 4
    /\ \A i \in 1 .. 4 : IF i =< asked THEN sums[Pairs[i]].count \in Nat
                                       ELSE sums[Pairs[i]] = Unasked
    /\ exitCode \in 0 .. 4
    /\ quiet \in BOOLEAN
    /\ commits \in 0 .. MaxCommits

BalanceInit ==
    /\ value \in [Cells -> Values \cup {NotStored}]
    /\ asked = 0
    /\ sums = [pair \in Asked |-> Unasked]
    /\ exitCode = 4
    /\ quiet = TRUE
    /\ commits = 0

\* ts >= start AND ts < end
InDay(time, d) == d * DayLength =< time /\ time < (d + 1) * DayLength

CellsOf(pair, d) == {k \in Cells : /\ <<k.table, k.direction>> = pair
                                   /\ InDay(k.time, d) /\ value[k] # NotStored}

TotalOf(S) == MapThenSumSet(LAMBDA k : value[k], S)

\* Ingestion writes or revises a row.
Commit(k, v) ==
    /\ exitCode = 4
    /\ commits < MaxCommits
    /\ commits' = commits + 1
    /\ value' = [value EXCEPT ![k] = v]
    /\ quiet' = (quiet /\ asked = 0)
    /\ UNCHANGED <<asked, sums, exitCode>>

\* fetch_sums: the next of the four.
Ask ==
    /\ exitCode = 4
    /\ asked < 4
    /\ asked' = asked + 1
    /\ LET S == CellsOf(Pairs[asked'], Day)
       IN sums' = [sums EXCEPT ![Pairs[asked']] =
                       [total |-> TotalOf(S), count |-> Cardinality(S)]]
    /\ UNCHANGED <<value, exitCode, quiet, commits>>

AskFails ==
    /\ exitCode = 4
    /\ asked < 4
    /\ exitCode' = 3
    /\ UNCHANGED <<value, asked, sums, quiet, commits>>

Greater(a, b) == IF a > b THEN a ELSE b
Apart(a, b) == Greater(a, b) - (IF a > b THEN b ELSE a)

\* compare: within the tolerance, or within half a percent of the greater.
Compare(a, b) == Apart(a, b) =< Tolerance \/ Apart(a, b) * 200 =< Greater(a, b)

Sum(table, direction) == sums[<<table, direction>>].total
Count(table, direction) == sums[<<table, direction>>].count

\* Mutant: the energy is looked at and not the rows.
Reported_ofEnergy == {t \in {"e66", "e31"} :
               Sum(t, "consumption") + Sum(t, "production") > 0}

\* The tables that have rows of the day.
Reported == {t \in {"e66", "e31"} :
               Count(t, "consumption") + Count(t, "production") > 0}

\* The comparisons made: in each table, and between them if both have rows of
\* consumption.
Results ==
    {Compare(Sum(t, "consumption"), Sum(t, "production")) : t \in Reported}
    \cup (IF Count("e66", "consumption") > 0 /\ Count("e31", "consumption") > 0
          THEN {Compare(Sum("e66", "consumption"), Sum("e31", "consumption"))}
          ELSE {})

Decide ==
    /\ exitCode = 4
    /\ asked = 4
    /\ exitCode' = IF Results = {} THEN 2 ELSE IF FALSE \in Results THEN 1 ELSE 0
    /\ UNCHANGED <<value, asked, sums, quiet, commits>>

BalanceNext ==
    \/ \E k \in Cells, v \in Values : Commit(k, v)
    \/ Ask \/ AskFails \/ Decide

BalanceSpec == BalanceInit /\ [][BalanceNext]_balance

-----------------------------------------------------------------------------
In(table, direction) == TotalOf(CellsOf(<<table, direction>>, Day))
Stored(table) == \E d \in {"consumption", "production"} : CellsOf(<<table, d>>, Day) # {}

\* A passing day on which nothing was written since the first query is one
\* where the two tables agree on production too, which nothing compares: three
\* tolerances away at most, when both tables hold consumption.
PassMeansTablesAgree ==
    exitCode = 0 /\ quiet =>
        LET greatest == Greater(Greater(In("e66", "consumption"), In("e31", "consumption")),
                                Greater(In("e66", "production"), In("e31", "production")))
        IN (\A t \in {"e66", "e31"} : CellsOf(<<t, "consumption">>, Day) # {})
           => Apart(In("e66", "production"), In("e31", "production")) * 200
                =< 3 * Greater(Tolerance * 200, greatest)

\* A day without a row, as opposed to one without energy, never gets a verdict,
\* whatever is written meanwhile, and a day with one is only reported as empty if
\* it was written meanwhile.
NoDataIsSaid ==
    /\ exitCode \in {0, 1} => Stored("e66") \/ Stored("e31")
    /\ exitCode = 2 /\ quiet => ~Stored("e66") /\ ~Stored("e31")

\* "or the next day's 00:00 slot is counted twice, once in each day" (E66_SUM):
\* what two days of a pair hold is what they hold together.
MidnightCountedOnce ==
    \A pair \in Asked :
        CellsOf(pair, Day) \cap CellsOf(pair, Day + 1) = {}

\* The types of the state, and the three.
DayIsJudged ==
    BalanceTypes /\ PassMeansTablesAgree /\ NoDataIsSaid /\ MidnightCountedOnce

=============================================================================
