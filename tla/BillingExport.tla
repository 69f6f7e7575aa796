---------------------------- MODULE BillingExport ----------------------------
(***************************************************************************)
(* billing_export.py writes the bill of one period: it looks whether the   *)
(* file exists, sums the rows of the period, and puts the file in place    *)
(* through a .part. Accounting takes the file when it likes, ingestion     *)
(* goes on writing, and nothing keeps two exports apart.                   *)
(*                                                                         *)
(* A row is [meter, direction, segment, slot]; a row that is not stored is *)
(* Absent, and one of value 0 is a row. All rows are of one community.     *)
(***************************************************************************)
EXTENDS Integers, FiniteSets, FiniteSetsExt

CONSTANTS
    Exporters,      \* processes that may export together
    Role,           \* of each declared meter: its direction
    Period,         \* the slots of the period
    Rows,           \* rows the table may hold
    MaxDeliveries,  \* rows written while exports go on (a bound)
    MaxExports,     \* exports begun (a bound)
    NoFile

Meters == DOMAIN Role
Segments == {"cel", "grid"}

ASSUME RowsAssumption ==
    /\ IsFiniteSet(Rows) /\ IsFiniteSet(Period)
    /\ \A k \in Rows : k = [meter |-> k.meter, direction |-> k.direction,
                            segment |-> k.segment, slot |-> k.slot]
ASSUME BoundsAssumption == MaxDeliveries \in Nat /\ MaxExports \in Nat

Absent == -1

VARIABLES
    energy,      \* cel_energy
    exporter,    \* of each process: see Exporter
    part, bill,  \* the two files, or NoFile
    handed,      \* what accounting has taken, or NoFile
    forced,      \* ghost: --force has replaced the bill since
    settled,     \* ghost: no export was under way when it took that
    deliveries, exports

vars == <<energy, exporter, part, bill, handed, forced, settled, deliveries, exports>>

Amounts == [Meters \X Segments -> Nat]
Nothing == [line \in Meters \X Segments |-> 0]

\* open: processes that have it open for writing; mixed: two of them had.
\* alone is a ghost: no other export had got to the files when it was opened.
File == [open : SUBSET Exporters, mixed : BOOLEAN, alone : BOOLEAN,
         whole : BOOLEAN, amounts : Amounts]

Exporter == [pc : {"idle", "query", "open", "write", "replace"},
             force : BOOLEAN, amounts : Amounts,
             warned : BOOLEAN]  \* a meter's data is said to be incomplete

ASSUME NoFileAssumption == NoFile \notin File

Fresh == [pc |-> "idle", force |-> FALSE, amounts |-> Nothing, warned |-> FALSE]

TypeOK ==
    /\ energy \in [Rows -> Nat \cup {Absent}]
    /\ exporter \in [Exporters -> Exporter]
    /\ part \in File \cup {NoFile}
    /\ bill \in File \cup {NoFile}
    /\ handed \in File \cup {NoFile}
    /\ forced \in BOOLEAN
    /\ settled \in BOOLEAN
    /\ deliveries \in 0 .. MaxDeliveries
    /\ exports \in 0 .. MaxExports

Init ==
    /\ energy \in [Rows -> {Absent, 1}]
    /\ exporter = [e \in Exporters |-> Fresh]
    /\ part = NoFile
    /\ bill = NoFile
    /\ handed = NoFile
    /\ forced = FALSE
    /\ settled = TRUE
    /\ deliveries = 0
    /\ exports = 0

-----------------------------------------------------------------------------
(* The environment.                                                        *)

\* A row is stored, with 0 at first, or revised.
Deliver(k) ==
    /\ deliveries < MaxDeliveries
    /\ deliveries' = deliveries + 1
    /\ energy' = [energy EXCEPT ![k] = @ + 1]
    /\ UNCHANGED <<exporter, part, bill, handed, forced, settled, exports>>

Busy(e) == exporter[e].pc # "idle"

HandOver ==
    /\ bill # NoFile
    /\ handed' = bill
    /\ forced' = FALSE
    /\ settled' = (\A e \in Exporters : ~Busy(e))
    /\ UNCHANGED <<energy, exporter, part, bill, deliveries, exports>>

-----------------------------------------------------------------------------
(* One export.                                                             *)

\* Mutant: the file is looked for under another name.
Refused_never(force) == FALSE

Refused(force) == bill # NoFile /\ ~force

\* The file is looked for once, before the queries.
Begin(e, force) ==
    /\ exporter[e].pc = "idle"
    /\ exports < MaxExports
    /\ exports' = exports + 1
    /\ IF Refused(force)
       THEN UNCHANGED exporter
       ELSE exporter' = [exporter EXCEPT ![e] = [Fresh EXCEPT !.pc = "query",
                                                              !.force = force]]
    /\ UNCHANGED <<energy, part, bill, handed, forced, settled, deliveries>>

\* Mutant: the direction of the rows is not looked at.
Billed_anyDirection(m, s) ==
    {k \in Rows : /\ k.meter = m /\ k.segment = s
                  /\ k.slot \in Period /\ energy[k] # Absent}

\* The stored rows a line of the bill is made of.
Billed(m, s) ==
    {k \in Rows : /\ k.meter = m /\ k.direction = Role[m] /\ k.segment = s
                  /\ k.slot \in Period /\ energy[k] # Absent}

Total(m, s) == MapThenSumSet(LAMBDA k : energy[k], Billed(m, s))

\* One statement sums and counts (fetch_sums), then the lines are built.
Query(e) ==
    /\ exporter[e].pc = "query"
    /\ exporter' = [exporter EXCEPT
         ![e].pc = "open",
         ![e].amounts = [line \in Meters \X Segments |-> Total(line[1], line[2])],
         ![e].warned = \E line \in Meters \X Segments :
            Cardinality(Billed(line[1], line[2])) < Cardinality(Period)]
    /\ UNCHANGED <<energy, part, bill, handed, forced, settled, deliveries, exports>>

Holders(file) == IF file = NoFile THEN {} ELSE file.open

\* It has opened its .part and has not renamed it.
AtTheFiles(e) == exporter[e].pc \in {"write", "replace"}

\* open(partial, 'w') truncates what is there, open elsewhere or not.
OpenFor(e, file) ==
    [open |-> Holders(file) \cup {e}, mixed |-> Holders(file) # {},
     alone |-> \A d \in Exporters \ {e} : ~AtTheFiles(d),
     whole |-> FALSE, amounts |-> Nothing]

\* Mutant: the bill is written under its final name.
OpenPart_inPlace(e) ==
    /\ exporter[e].pc = "open"
    /\ bill' = OpenFor(e, bill)
    /\ part' = OpenFor(e, part)
    /\ exporter' = [exporter EXCEPT ![e].pc = "write"]
    /\ UNCHANGED <<energy, handed, forced, settled, deliveries, exports>>

OpenPart(e) ==
    /\ exporter[e].pc = "open"
    /\ part' = OpenFor(e, part)
    /\ exporter' = [exporter EXCEPT ![e].pc = "write"]
    /\ UNCHANGED <<energy, bill, handed, forced, settled, deliveries, exports>>

\* What e writes where it has the file open; over what another wrote, if so.
Written(e, file) ==
    IF e \notin Holders(file) THEN {file}
    ELSE {[file EXCEPT !.open = @ \ {e}, !.amounts = exporter[e].amounts,
                       !.whole = w] : w \in IF file.mixed THEN BOOLEAN ELSE {TRUE}}

\* The rows go out and the file is closed: the .part, or the bill if another
\* process has renamed it.
Write(e) ==
    /\ exporter[e].pc = "write"
    /\ part' \in Written(e, part)
    /\ bill' \in Written(e, bill)
    /\ exporter' = [exporter EXCEPT ![e].pc = "replace"]
    /\ UNCHANGED <<energy, handed, forced, settled, deliveries, exports>>

Replace(e) ==
    /\ exporter[e].pc = "replace"
    /\ IF part = NoFile
       THEN UNCHANGED <<part, bill, forced>>     \* replace() raises
       ELSE /\ bill' = part
            /\ part' = NoFile
            /\ forced' = (forced \/ exporter[e].force)
    /\ exporter' = [exporter EXCEPT ![e] = Fresh]
    /\ UNCHANGED <<energy, handed, settled, deliveries, exports>>

Closed(e, file) ==
    IF file = NoFile THEN NoFile ELSE [file EXCEPT !.open = @ \ {e}]

\* The process dies; what it had open stays as it is.
Crash(e) ==
    /\ Busy(e)
    /\ part' = Closed(e, part)
    /\ bill' = Closed(e, bill)
    /\ exporter' = [exporter EXCEPT ![e] = Fresh]
    /\ UNCHANGED <<energy, handed, forced, settled, deliveries, exports>>

Next ==
    \/ \E k \in Rows : Deliver(k)
    \/ HandOver
    \/ \E e \in Exporters :
         \/ \E force \in BOOLEAN : Begin(e, force)
         \/ Query(e) \/ OpenPart(e) \/ Write(e) \/ Replace(e) \/ Crash(e)

Spec == Init /\ [][Next]_vars

-----------------------------------------------------------------------------
\* "an interrupted run cannot leave a truncated bill under its final name"
\* (write_csv): wherever exports die, unless two of them were at the files
\* together, for they write through the same .part.
BillIsWhole == bill # NoFile /\ bill.alone => bill.whole

\* The types of the state, with that of the bill.
BillIsSound == TypeOK /\ BillIsWhole

\* "A file already handed to accounting must not change under it" (export):
\* what was taken while no export was under way stays, however many exports
\* are begun later and whatever becomes of them, unless --force replaces it.
\* While one is under way it may have looked before the bill was there.
HandedOverStays ==
    handed # NoFile /\ settled /\ ~forced =>
        bill.whole = handed.whole /\ bill.amounts = handed.amounts

\* "Logs every meter whose data is incomplete" (build_rows): an export that
\* says nothing billed every slot of the period for every declared meter, in
\* its own direction, whatever is stored beside them. Rows are never deleted,
\* so what was summed is still there.
QuietBillIsComplete ==
    \A e \in Exporters :
        exporter[e].pc \in {"open", "write", "replace"} /\ ~exporter[e].warned
        => \A m \in Meters, s \in Segments, t \in Period :
             \E k \in Rows : /\ energy[k] # Absent
                             /\ k = [meter |-> m, direction |-> Role[m],
                                     segment |-> s, slot |-> t]

=============================================================================
