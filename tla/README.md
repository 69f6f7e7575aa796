# Formal model of the energy-community ETL

TLA+ modules, TLC configurations and TLAPS proofs for the program under `src/`:
the job that fetches the meter readings of a self-consumption community (CEL)
from the grid operator's FTP server every day, attributes them to customers and
stores them in QuestDB.

Contents: [the system](#the-system) · [components](#components) ·
[modules and the code](#modules-and-the-code) · [runs](#runs) ·
[disagreements found](#disagreements-between-code-and-documentation) ·
[proofs](#proofs) · [limits](#what-is-not-modelled) · [plan](#plan)

## The system

``` provider            cel-parser-job (one process per run)
QuestDB FTP server --MLSD/RETR--> incoming/ --batch per day--> header,
attribution --rows--> cel_energy |                              |
cel_community_energy quarantine of leftovers  |
+---- provenance ---->  cel_file_header incoming/failed/  <------+
|                       cel_ingest_log +--zip of the day, unlink-->
archive/<YYYYMMDD>.zip | selection of the next run <-----+        delivery
report, billing export, dashboards: readers ```

A scheduler (ofelia) executes `sftp_download_and_process` in the parser
container once a day. A run

1. moves every XML a previous run left in `incoming/` to `incoming/failed/`;
2. reads the directory of the server, keeps the names whose date is at least
   the newest zip's date minus `download_window_days` and that no zip lists,
   and downloads them one by one with retries and reconnections;
3. if at least one file landed, loads `customers.yaml`, groups `incoming/` by
   date prefix and handles the dates in order, the files of a date in name
   order;
4. reads the header of each file, decides whether to store, skip or refuse it,
   writes its rows in one transaction, then a header row and a log row (best
   effort);
5. appends the files that did not fail to the day's zip, closes it, and only
   then removes the sources.

A run is one process without threads, and nothing stops a second one beside it.
What makes it hard is what happens between runs: the archive is at once the
result of a run and the memory from which the
next one decides what to fetch; the database keeps whatever was written last,
without knowing which delivery is newer; every step can be the last one of the
process; a commit can take effect without the client hearing of it.

## Components

For each: its state, its operations, what is hard, what makes it correct, and
the module that models it.

**Daily job: quarantine, selection, download loop**
(`sftp_download_and_process.py`; module `DailyJob`).
State: `incoming/`, `incoming/failed/`, the archive. Operations:
`quarantine_leftovers`, `last_archived_date`, `archived_names`,
`download_sdat_files`, `main`. Hard: leftovers of crashed runs, files still
being uploaded when listed, a window that follows the newest zip. Correct when
nothing archived is ingested again, nothing downloaded is lost, and whatever
did not arrive is fetched by a later run.

**FTP session, retries, atomic download** (same file; `FtpDownload`,
`FetchPhase`). State: the connection, `.part` files, the count. Operations:
`with_retries`, `FTPSession.open/reopen/close`, `download_one`. Hard: failures
that kill the connection silently, refusals (5xx) that must not be retried, a
reconnection that itself fails, in two different ways. Correct when only whole
files appear under their own names, a file is given up only for cause, one bad
file does not cost the others, and the run ends.

**SDAT processor: batches, outcomes, provenance** (`sdat_processor.py`;
`DailyJob`). State: the batch lists, the outcome of a file, provenance rows.
Operations: `process_sdat_files`, `process_sdat_files_for_date`,
`process_sdat_file`, `_ingest`, `_write_questdb`. Hard: one file of a batch
failing at any of five places, order within a run and across runs. Correct when
outcomes are true, the order of delivery is the order of writing, and a failure
stays with its file.

**Archive of a batch** (`sdat_processor.py`, `archive_batch_as_zip`;
`DailyJob`). State: one zip per day. Hard: interruption before, during or after
writing, and before, during or after unlinking; a torn zip. Correct when a
source disappears only into a closed zip that lists it.

**QuestDB writer** (`questdb_writer.py`; `QuestDBWriter`, `AtomicStore`).
State: a cached connection and its open transaction. Operations: `write_*`,
`write`, `_connect`, `_execute`, `_discard`, `_safe_rollback`. Hard: connections
dropped while idle, statements refused half-way, lost answers, one retry, a
server that falls silent under a statement without a timeout. Correct when a
call is all or nothing, what is reported stored is stored, and a failed call
leaves nothing for the next one.

**Declared meters** (`meters.py`; `Attribution`). State: the owners read from
`customers.yaml`. Hard: a list that is wrong for a while. Correct when no meter
has two owners and nothing depends on the order of the file.

**Attribution of E66 and E31 files** (`parse_sdat*.py`, `questdb_schema.sql`;
`Attribution`). State: rows under the dedup keys. Hard: the production total a
consumption point repeats, revisions, changes of owner, wrong roles. Correct
when energy is counted once, and nothing a meter reports of itself is lost.

**Header and observation parsing** (`sdat_header.py`, `sdat_xml.py`,
`models.py`, `load_headers`; `SdatParsing`, with classification in
`Attribution`). State: which headers of a batch were read, the rows they gave.
Hard: a document that is well-formed XML and still no delivery, observations
missing or out of order, values with too many digits, exceptions of a kind
nobody catches. Correct when a stored value is at the instant it was measured,
unrounded, and a bad document costs only itself (it does not always).

**Scheduling and overlapping runs** (`docker-compose.yml` beside the whole job;
`DailyJob` for one run after another, `OverlappingRuns` for runs that overlap).
State: the two directories, the `.part` files and the zip, seen by processes
that remember an older view of them. Hard: everything a run looked at can have
changed when it acts on it. Correct when an archive never lists what was not
stored and nothing is lost.

**Delivery report** (`delivery_report.py`; `DeliveryReport`, `ReportBesideRun`).
State: none of its own; it recomputes from the files what ingestion has made of
them. Hard: it decides a second time, in other code, under which meter a file is
stored, which value wins and what was overwritten; and it reads a delivery from
two places while a run moves it. Correct when its figures are those of the
tables and a clean verdict means what it says.

**Billing export** (`billing_export.py`; `BillingPeriods`, `BillingExport`).
State: the bill and its `.part`. Hard: months over year ends, slots of a period
with a change of clock, a bill that is looked for before the queries and
replaced after them. Correct when a period is whole months, an export without a
warning is complete, and a bill handed over does not change.

**Schema initialisation and start-up order** (`questdb_init.py`,
`docker-compose.yml`; `QuestDBInit`). State: the tables, the time spent, the
exit code, which containers run. Hard: the race with a server that listens
before it answers, tables an insert has made with the wrong shape. Correct when
the script ends in time, finds a server that came up in time, and the scheduler
runs over the tables the writer needs.

**Daily balance validation** (`validate_daily_balance_questdb.py`;
`DailyBalance`). State: the answers of four queries. Hard: the database moves
between them; a side without data, a day of zeros. Correct when a verdict is
about data and a pass bounds what it did not compare.

**Database schema** (`questdb_schema.sql`; partly). The dedup keys appear in
`Attribution` and `DeliveryReport` (energy, community), `DailyJob` (header rows
as a set, log rows kept) and `QuestDBWriter` (upsert or append), the scale of
values in `SdatParsing`, `IF NOT EXISTS` in `QuestDBInit`.

**Logging** (`logger_config.py`) and **Grafana dashboards**: not modelled, see
[what is not modelled](#what-is-not-modelled).

The hazards each part is exposed to, with the line where each bites and the
properties that watch it, are listed in `PROJECT.json`.

## Modules and the code

| Module | What it is | Models |
| --- | --- | --- |
| `DailyJob` | the core: runs, disk, archive, database, disturbances | `sftp_download_and_process.py`, `sdat_processor.py` |
| `AtLeastOnce` | abstract: a file is upserted until it is settled, never after | what `DailyJob` promises |
| `FtpDownload` | one download run: session, attempts, `.part` files | `with_retries`, `FTPSession`, `download_one`, `download_sdat_files` |
| `FetchPhase` | abstract: wanted files land or are given up | what `DailyJob` assumes of a download |
| `QuestDBWriter` | calls, transactions and the cached connection | `questdb_writer.py` |
| `AtomicStore` | abstract: a call appears whole or not at all | what `DailyJob` assumes of a write |
| `Attribution` | list, decision and dedup keys | `meters.py`, `sdat_header.py`, `models.py`, `parse_sdat*.py`, `questdb_schema.sql` |
| `SdatParsing` | from texts to rows: what is raised, caught, left out, stored | `sdat_xml.py`, `sdat_header.py`, `load_headers` |
| `OverlappingRuns` | two runs over one delivery, access by access | `sftp_download_and_process.py`, `sdat_processor.py` |
| `ReportBesideRun` | composes `OverlappingRuns` with a report that reads the same files | `iter_day_files` and `main` of `delivery_report.py` |
| `DeliveryReport` | ingestion of a delivery beside what the report recomputes | `delivery_report.py` |
| `BillingPeriods` | the calendar, walked day by day beside the arithmetic | `billing_export.py`: periods, slots, names |
| `BillingExport` | one or several exports beside deliveries | `billing_export.py`: `export` to `write_csv` |
| `DailyBalance` | four queries beside writes, and the verdict | `validate_daily_balance_questdb.py` |
| `QuestDBInit` | server, tables, script, scheduler | `questdb_init.py`, `docker-compose.yml` |
| `DailyJobProofs`, `FtpDownloadProofs`, `SdatParsingProofs`, `AttributionProofs`, `QuestDBWriterProofs`, `QuestDBInitProofs` | theorems about the module they are named after | |
| `OverlappingRunsProofs` | theorems about `OverlappingRuns` and `ReportBesideRun` | |
| `ReadersProofs` | theorems about `BillingPeriods`, `BillingExport`, `DailyBalance` and `DeliveryReport`, and about sums over sets | |
| `MCDailyJob`, `MCQuestDBWriter`, `MCAttribution`, `MCSdatParsing`, `MCReportBesideRun`, `MCDeliveryReport` | values of the constants for TLC | |
| `MCReaders` | the three scripts that only read `cel_energy`, one per behaviour, for TLC | |

The composition is by refinement. `DailyJob` treats a download as one step that
lands a file or does not (`Fetch`, `FetchFails`, `ConnectionLost`,
`ConnectFails`) and a write as one step that commits, fails, or commits and
reports a failure (`Ingest`, `WriteFails`, `AnswerLost`). `FetchPhase` and
`AtomicStore` state exactly these interfaces, and `FtpDownload` and
`QuestDBWriter` are shown to implement them. What `_ingest` decides about a
file is the constant `VerdictOf` in `DailyJob`; `Attribution` computes it from
a header, and `SdatParsing` says which documents have one (the others are
`unreadable`) and which end the run instead (`abort`).

`OverlappingRuns` opens the job the other way: what is one step in `DailyJob`
(a transfer, the archive of a batch) is there a step for each access to the
disk, so that a second process can come between. `ReportBesideRun` EXTENDS it
and adds one reader. The remaining modules share nothing with the job but the
tables, and are about one script each.

### DailyJob

A file is a natural number, its position in filename order (which is the order
of delivery); `DayOf` is its date prefix. A slot of `Keys` stands for one dedup
key, `store[k]` for the file whose row it holds.

| State | Code |
| --- | --- |
| `server` | the provider's directory; `partial` while an upload is going on |
| `incoming`, `failed` | `incoming/`, `incoming/failed/`; a copy may be `truncated` |
| `zip`, `archive` | the zips by day (sound or corrupt), the names in sound zips (`archived_names`) |
| `store`, `headerRows`, `log` | the tables |
| `pc`, `queue`, `delivery`, `batch`, `headers`, `outcome`, `archivable`, `added` | program position and locals of `main` to `archive_batch_as_zip` |
| `committed`, `disturbed` | ghosts |

| Actions | Code |
| --- | --- |
| `QuarantineLeftover`, `QuarantineDone` | `quarantine_leftovers`, one rename per step |
| `BeginDownload` (`Wanted`) | `last_archived_date`, `archived_names`, the listing and selection |
| `Fetch`, `FetchFails`, `ConnectFails`, `ConnectionLost`, `DownloadDone`, `NothingNew` | the loop of `download_sdat_files`, the test in `main` |
| `DeclarationRejected`, `LoadBatches`, `StartBatch`, `ReadingAborts`, `BatchesDone` | `process_sdat_files`, `load_headers`, and what it does not catch |
| `PassOver`, `Skip`, `Reject`, `Ingest`, `WriteFails`, `AnswerLost` | the loop over the files, `_ingest`, `_write_questdb` |
| `RecordHeader`, `RecordOutcome` | `log_file_header`, `log_ingest`, and filing the outcome |
| `ArchiveBatch`, `ArchiveRefused`, `ArchiveInterrupted`, `ZipTorn`, `Unlink`, `UnlinkFails`, `UnlinkDone` | `archive_batch_as_zip` |
| `BeginUpload`, `FinishUpload`, `RemoveByHand`, `Crash`, `StartJob`, `StartStandalone` | the environment: provider, operator, container, scheduler |

What goes wrong is chosen per run of TLC from `DisturbanceKinds`: a file
uploaded after files whose names sort behind it (`late`), a refused connection
(`connect`), a failed transfer (`transfer`), a lost session (`lost`), a
rejected `customers.yaml` (`config`), a failed write (`write`), a write whose
answer is lost (`ack`), failed provenance (`provenance`), an interrupted zip or
removal (`archive`), a torn zip (`torn`), `sdat_processor` run by hand
(`standalone`), a file deleted by hand (`delete`), the process dying anywhere
(`crash`). `MaxDisturbances` bounds how many happen in one behaviour.

### FtpDownload

One run over one session. Every network operation may succeed, fail in passing
(any exception but a 5xx reply) or be refused (`error_perm`); the server and
the network are otherwise unconstrained, so no bound on faults is needed.
`link` is `dead` when the control connection is gone and the client does not
know yet. `Connect*` is `open`, `List*` the listing, `Reopen*` the
`before_retry` of `with_retries` (which runs outside its `try`), `Transfer*` one
attempt of `download_one` with its `.part` file.

### QuestDBWriter

Calls are made in the order of their numbers, interleaved with the server:
`Drop` (an idle or used socket dies), `ServerStops`, `ServerMutes` (connected,
and nothing comes over the connection), `ServerStarts`, `SendRejected` (a
statement is refused after some rows). `Connect`, `Send`, `StaleFails`,
`Commit`, `Return`, `Retry`, `Raise` are the steps of `write`, `_execute` and
`_connect`. A fault between `Commit` and `Return` is the lost answer.
`Answering` is the guard of every statement, none of which has a timeout.
`MaxFaults` bounds the faults.

### Attribution

A file's XML is a record of the fields the decision reads (`Headers`).
`Accepts` is `load_meters`; `Readable` and `Classified` are `parse_header` and
its tables, `Skipped`, `DecodedE66` and `DecodedE31` the decoders, `Stored`
what of their result yields rows; `EnergyRowsOf`, `CommunityRowsOf`,
`UpsertEnergy` and `UpsertCommunity` give the rows and the way they replace
each other under the keys of the schema. `customers.yaml` is edited at any
moment (`EditList`) and read at the start of a run; runs archive what they
handled in any portions and may stop anywhere (`Stop`), so the module covers
every batching `DailyJob` may choose. What a run did not archive is fetched
again by the next one as long as its day is not behind the newest archived one
by more than the window (`Wanted`). `TrueRole` and `EnergyOf` are the reality
the list may or may not agree with; only properties mention them.

### SdatParsing

A text is what `int()`, `Decimal()` and `fromisoformat()` make of it: `number`,
`junk`, `empty`, `absent` or `special` (NaN, Infinity); `Instants` are the
times a `datetime` can hold. `Raises` gives the first
exception reading a document ends with, in the order the code evaluates;
`ReadHeader` and `Abort` are the loop of `load_headers` with the exceptions it
catches, `Store` writes the observations at `Instant`. Volumes count
ten-thousandths, the table thousandths, so that rounding can be seen. The slot
of an observation, which the document never states, is the ghost that says
when the provider measured it; `NumberingAssumption` says how it numbers them.
`Store` takes one file of the batch after the other, as
`process_sdat_files_for_date` does, and `AllStored` ends the batch.

### OverlappingRuns

One delivery, every file of which would be stored, and `Runs` that may be under
way together. Shared state: `incoming` (a file may be `holed`: under its final
name while some run still writes it), `part` (who opened a `.part` last),
`failed`, `zip` and its `listing`. A run is the record `run[r]` of its program
position and locals.

| Actions | Code |
| --- | --- |
| `Start`, `Quarantine`, `QuarantineGone`, `QuarantineDone` | `quarantine_leftovers`; a rename of what another run took raises |
| `Select` | `archived_names` over a zip that may be half written, the listing |
| `OpenPart`, `Land`, `BreakOff`, `FetchDone` | `download_one`, one `.part` name for both |
| `LoadBatch`, `ReadHeader`, `HeadersDone` | `process_sdat_files`, `load_headers` |
| `PassOver`, `Ingest`, `FilesDone` | the loop over the files |
| `Peek`, `PeekFails`, `OpenZip`, `CloseZip`, `CloseZipEarly` | `archive_batch_as_zip`: `exists()`, the mode and the names seen then, the writing, the errors |
| `Unlink`, `UnlinkDone` | removing the sources |

`raced` is the ghost that remembers the one thing that loses files: a zip
opened in a mode chosen on a view that is stale, or while another run has it
open.

### ReportBesideRun

`BeginReport` lists `incoming/`, `ReadLoose` reads one listed file when the
generator is advanced (it may be gone), `OpenArchive` lists the zip,
`ReadZipped` reads from it. `times` counts how often a file contributed,
`warned` whether the report said that it could not read something.

### DeliveryReport

The delivery grows file by file in name order. `Ingest` puts the file's rows
into `celEnergy` and `community` under the dedup keys; `IngestFails` is a file
whose write failed but whose header the report is given. The operators under
"delivery_report.py" are the code's functions of the files: `StoredMeter`,
`Group`, `E66Slots`, `E31Slots`, `Summed`, `CleanSeries`, `Offenders`,
`ProductionTotal`, `Agrees`, `RewriteKey`, `Repeats`, `Identical`. The
properties compare them with the tables.

### BillingPeriods and BillingExport

`BillingPeriods` walks the calendar one day at a time (`Pass`) and records when
each month began and how many slots had passed: 23 hours on the last Sunday of
March, 25 on that of October. Beside it stand the operators that compute the
same from the date of the run alone, as the code does.

`BillingExport` follows one export through `Begin` (the test for the file),
`Query` (one SELECT), `OpenPart`, `Write`, `Replace`, with `Crash` anywhere,
while `Deliver` writes rows and `HandOver` takes the bill. A file remembers who
has it open, whether two had, and whether it was opened while another export
was between opening and renaming, because `Exporters` may be several. A row that
is not stored is `Absent`; a row of value zero is a row.

### DailyBalance

`Ask` is one of the four SELECTs, each a sum and a count of rows, `Commit` a row
written meanwhile, `Decide` the comparisons and the exit code. `AskFails` is any
error. A row may hold zero: the script goes by the counts. `BillingPeriods`,
`BillingExport`, `DailyBalance` and `DeliveryReport` name their state and
actions apart, so that one module can extend all of them.

### QuestDBInit

The server is down, mute (accepts, does not answer) or up, and once up it may
stop or hang. A table is absent, right, or differs from the schema: in one of
the things `verify` looks for in that table (`LooksFor`: dedup, upsert keys,
the decimal, payload columns) or in anything else (`other`), which passes.
`Begin`, `BeginAttempt`, `Connect`, `ConnectFails`, `Sleep` are `connect` with
its deadline and the time each step takes; `Apply`, `Verify`, `ConnectionLost`
are `main`. `Accident` is an insert that makes a table, `DropWrong` the
operator who follows the advice of the script. `StartScheduler` is
`service_completed_successfully`, `BeginIngest` the job.

## Runs

Ten runs pass, two show a
[disagreement](#disagreements-between-code-and-documentation). A property that
a run checks may be the conjunction of several named ones; the parts are
defined, with their reasons, right before it.

| Run | Instance | Shows |
| --- | --- | --- |
| `job_safety` | 4 files on 2 days, one skipped, one refused, window 1, any 3 disturbances of 7 kinds | `SourceKept`, `NeverIngestArchived`, `ArchivedIsTraceable`, `ImplementsAtLeastOnce` |
| `job_robust` | 3 files on 2 days, one whose reading ends the run, window 0, any 2 of all 13 kinds, fairness | `ArchiveAndLogAreTrue`, `RunIsChronological`, `EventuallyArchived`, `RunsEndAndDrain` |
| `ftp_download` | 3 entries, the code's 3 attempts, unlimited faults | `IncomingIsSound`, `NothingGivenUpEarly`, `RetriesStop`, `ImplementsFetchPhase` |
| `writer` | 4 calls, 2 slots, 4 faults | `StoreIsWhole`, `ConnectionIsClean`, `CallsEnd`, `ImplementsAtomicStore` |
| `attribution` | 7 files on 3 days, window 1, 2 meters, 4 lists, 1 edit, 1 interrupted run | `OneOwnerPerReading`, `EnergyIsAttributedOnce`, `GenuineIsKept`, `RefusedHeals` |
| `overlapping_runs` | 2 runs and a report over 2 files, 1 broken transfer | `ArchiveIsTrue`, `LossNeedsRace`, `NobodyWaits`, `ReportIsHonest` |
| `delivery_report` | every sequence of up to 4 of 16 files, 1 of which may fail | `ReportIsExact`, `CleanFiguresAreRight`, `QuietMeansOrderFree` |
| `readers` | 578 days; 2 exporters, 6 rows, 3 exports; 5 rows of a day, zero among their values, 1 write | `MonthsAreWhole`, `CalendarIsRight`; `BillIsSound`, `HandedOverStays`, `QuietBillIsComplete`; `DayIsJudged` |
| `questdb_init` | 2 tables, with and without keys, the code's times, 2 runs, 1 outage, 1 accident, fairness | `TriesLongEnough`, `ScheduledOverVerified`, `FailureHasCause`, `InitEnds` |
| `sdat_parsing` | batches of up to 3 of 20 documents | `ReadingsAreRight`, `StoredIsComplete`, `OrdinaryFaultsAreLeftOut` |
| `job_failed_transfer` | 2 files 8 days apart, 1 failed transfer | violates `NewestDeliveryWins` |
| `overlap_lost_copy` | 2 runs, 2 files | violates `LastCopyKept` |

Why the bounds are enough. *The job*: a day of two files gives partial batches,
partial unlinking and partial zips, a second day order between batches and a
zip that moves the floor of the selection; slot `a` is reported on both days,
so order shows in the database. In `job_safety` one file is skipped and one of
the later day refused, so every outcome occurs. In `job_robust` one of two
files of the later day ends every run that reads it, before its neighbour and
after a day that must not suffer; a window of zero puts a file behind the floor
as soon as a later day is archived. A hazard here needs at most two files and
two runs; three disturbances let a failure, its repair and a second failure
meet. `job_safety` leaves out what makes its properties false by design (a
failed provenance write, a deletion, a torn zip, a standalone run),
`job_robust` contains them. *FTP*: three entries are one before, one at and one
after a failure. *Writer*: a file of two slots, its log row, an empty call and
a revision of one slot; each call makes at most two attempts, so four faults
break both attempts of two calls. *Attribution*: one file of each kind the
decision tells apart around one customer; a list that is right, has the roles
swapped, has another owner or declares a meter twice; one edit is one change
from any to any list. Three days and a window of one put what a list refused on
the first behind the floor once the third is archived. *Overlapping runs*: a
race needs two runs; two files make a run hold a partial view, and name order
matters. Both runs do the same, so TLC is told that they are interchangeable
(`SYMMETRY`; no property of that run is a liveness property). *Delivery
report*: four files are an original, its copy, a revision and an aggregate, in
every order, which is what its verdicts relate; the two report periods overlap
on one slot. *Readers*: the walk crosses two year ends, the leap day of 2024,
four changes of clock, and fourteen months reach back over a year. The three
scripts do not touch each other, so a behaviour runs one of them and the
others' state stays at one value. Two exports may be under way together and a
third finds what they left; nothing tells them apart (`SYMMETRY`; the run has
no liveness property). The values of the balance are zero and at, within and
beyond the tolerance and the half percent. *Start-up*: the times are those of
the script, so every number of attempts it can make happens; two tables are one
before and one after, the first like `cel_energy`, of which everything is
verified, the second like `cel_ingest_log`, of which only the dedup flag is.
*Parsing*: one document for every text that reads differently, a time before or
after the years of `datetime` among them, before and after good ones; among the
good ones a revision, one with gaps and one that measures a slot twice, so that
the last reading is not the first.

`CHECK_DEADLOCK FALSE` stands where the system stops: a download is over, the
calls of the writer are made, the provider sends no more files, a script has
ended, the last run is over. The daily job never stops, and its runs check for
deadlock.

Fairness. `DailyJob`: `WF(StartJob)`, the scheduler starts the job every day;
`WF(JobStep)`, a running process advances: its loops are over finite
collections, the FTP connection and the connecting to QuestDB have a timeout,
and it is assumed that QuestDB answers a statement or drops the connection, as
nothing in the code bounds that wait (`executemany` and `commit` have no
timeout); what happens when it does neither is in `QuestDBWriter`, not here.
`WF(FinishUpload(f))`, an upload that began ends. Nothing is assumed of
starting uploads or of disturbances, which are bounded: a network that fails
for ever prevents any progress. `EventuallyArchived` names what the code never
repairs: a torn zip, a file that failed until the floor of the selection had
passed it, and what comes with or after a document that ends every run that
reads it. `FtpDownload`: `WF(Next)`, calls return or time out, as the timeout
of `FTPSession.open` makes them. `QuestDBWriter`: `WF(WriterStep)`, a step that
can be taken is; connecting always can (it succeeds or times out), a statement
only when it is answered or its connection is gone. The server need neither
come back nor answer, so `CallsEnd` has the exemption `Hung`: a call that waits
for ever over a connection that was there when the server fell silent for ever.
`QuestDBInit`: `WF(InitStep)`, likewise, with the same exemption in `InitEnds`;
the server need never come up. `Attribution`: `WF(RunStep)`, runs follow each
other. `OverlappingRuns` assumes none: `NobodyWaits` says instead that a run,
wherever it is, can always do its next step, whatever the other one has done.

Everything these properties were tried against, the mutants, is in
`PROJECT.json`: for each property a plausible error in the code, defined beside
the definition it replaces, that TLC finds.

### Assumptions about the environment

- Names are `YYYYMMDD_..._.xml` and sort in delivery order; except for `late`,
  the provider uploads in that order.
- The provider removes and rewrites nothing.
- `DailyJob` has one run at a time, as the scheduler starts them; what is left
  of its promises when two overlap is `OverlappingRuns`.
- QuestDB applies a transaction atomically and upserts by its dedup keys; one
  SELECT sees one state of a table.
- Rows are never deleted from `cel_energy`.
- In `DailyJob` only: QuestDB answers a statement or drops the connection.

## Disagreements between code and documentation

Two have a run that TLC finds violated.

| Run | Property | What happens |
| --- | --- | --- |
| `job_failed_transfer` | `NewestDeliveryWins` | `QUESTDB.md` calls the daily batch safe because batches are chronological. They are within a run; a file that failed to download is ingested by a later run over newer rows. |
| `overlap_lost_copy` | `LastCopyKept` | `archive_batch_as_zip` says that new files are appended to a zip that exists. Whether it exists is asked before it is opened: a second run that looked before the first one made the zip truncates it, after the sources it listed are gone. |

The others are stated as properties in the modules and belong to no run; to see
one, put it into the configuration named. Where the table says "without", the
property that a run checks has an exemption; the disagreement is what shows when
that disjunct or conjunct is taken away.

| Property | Configuration | What happens |
| --- | --- | --- |
| `MissingIsWanted` (`DailyJob`) | `JobFailedTransfer.cfg` with `Window = 2` | `download_one` says that a missing file is fetched by the next run. Once a zip more than the window newer exists it is not selected any more. |
| `QuarantinedIsLogged` (`DailyJob`) | `JobRobust.cfg` | `process_sdat_file` says that an unreadable file is still logged. The batch loop never calls it for such a file. |
| `FailedReopenEndsRun` (`FtpDownload`) | `FtpDownload.cfg` | `download_one` says that a failed reconnection ends the run. A reconnection refused with a 5xx is taken for a refusal of the file, and the next entry is tried over no connection. |
| `HeaderNamesOwner` (`Attribution`) | `Attribution.cfg` | The schema says that the header row holds the owner except for E31 files and undeclared meters. A skipped or refused file of a declared meter has none. |
| `NoTruncatedLeft` (`OverlappingRuns`) | `OverlapLostCopy.cfg` | `download_one` says that a truncated XML never shows under its final name. Two runs share the `.part`, and one can rename what the other is still writing. |
| `HalfArchivedIsReadWhole` (`ReportBesideRun`) | `ReportBesideRun.cfg` | `iter_day_files` reads loose files and zip because a delivery can be half-archived. A file removed between listing and reading is marked as seen and not looked for in the zip; the report warns. |
| `IdenticalIsNoOp` (`DeliveryReport`) | `DeliveryReport.cfg` | The report calls an identical rewrite a no-op. It compares with the first value of the key, not with the one it replaces. |
| `RewritesAreCounted` (`DeliveryReport`) | `DeliveryReport.cfg` | `rewritten_keys` is said to find what one run writes more than once. Files of an RCP are stored and left out of it. |
| `HandedOverStays` without `settled`, `BillIsWhole` without `alone` (`BillingExport`) | `Readers.cfg` | A bill handed over must not change, and an interrupted run cannot leave a truncated bill. Two exports that both found no bill each put one in place, so one that was taken in between changes; they write through one `.part`, and one can rename what the other is writing. |
| `DroppingLosesNothing` (`Attribution`) | `Attribution.cfg` | `stored_elsewhere` says that dropping a file that reports against its role loses nothing, and `parse_e66` that a wrong role is refused rather than dropped in silence. A total of a meter whose role is wrong, and whose owner has a meter of the true role, is skipped and archived; where that meter sends no breakdown, nothing fails. |
| `RefusedHeals`, `EventuallyArchived` without their window (`Attribution`, `DailyJob`) | `Attribution.cfg`, `JobRobust.cfg` | `CONNECT_TIMEOUT` and `download_one` leave what failed to the next run, which takes it up until the newest archived day has moved the floor of the selection past it. |
| `CallsEnd`, `InitEnds` without `Hung` (`QuestDBWriter`, `QuestDBInit`) | `QuestDBWriter.cfg`, `QuestDBInit.cfg` | `CONNECT_TIMEOUT` lets a run fail fast and `ATTEMPT_TIMEOUT` keeps one attempt from using up the wait. Both are for connecting; a server that hangs under a statement keeps the caller waiting. |
| `ScheduledOverSchema` (`QuestDBInit`) | `QuestDBInit.cfg` | "What the schema must look like once applied. Checked, not assumed." Of `cel_ingest_log` only the absence of dedup is checked, of the others the keys and one or two columns. |
| `IngestsVerified` (`QuestDBInit`) | `QuestDBInit.cfg` with `AdHoc = TRUE` | The compose file says that the parser cannot start against an unverified schema. The scheduler cannot; the container it runs the job in is up from the start, and a `docker exec` in it is not held back. |
| `BatchSurvives` (`SdatParsing`) | `SdatParsing.cfg` | `load_headers` says that a file that cannot be read is left out. An element without text or a volume of NaN raises a `TypeError`, an encoding nobody knows a `LookupError`, an observation whose time no `datetime` holds an `OverflowError`. It catches none of them, and neither does anything above it: the run ends. As the file is selected again every day, its day and the days after it are not archived (`job_robust` has such a file). |

## Proofs

Checked by TLAPS for every value of the constants. What they assume are the
named `ASSUME`s of the modules, which TLC evaluates on every run, and for some
theorems a condition on the constants that the statement names.

| Theorem | Property | Extra assumption |
| --- | --- | --- |
| `DailyJobProofs.ArchiveAndLogTrue` | `ArchiveAndLogAreTrue` | |
| `DailyJobProofs.RunChronological` | `RunIsChronological` | |
| `DailyJobProofs.ArchivedNotIngested` | `NeverIngestArchived` | no standalone runs |
| `DailyJobProofs.SourcesKept` | `SourceKept` | no deletion by hand |
| `DailyJobProofs.JobIsAtLeastOnce` | `ImplementsAtLeastOnce` | no torn zips, no standalone runs |
| `DailyJobProofs.ArchivedTraceable` | `ArchivedIsTraceable` | no failed provenance writes |
| `DailyJobProofs.NewestWins` | `NewestDeliveryWins` | `CalmAssumption` |
| `DailyJobProofs.HandledMissingIsWanted` | `MissingIsWanted`, at any time, for files that can be handled | `CalmAssumption` |
| `DailyJobProofs.JobRunsOut` | a run proceeds, and its steps are bounded | finitely many files |
| `FtpDownloadProofs.IncomingSound` | `IncomingIsSound` | |
| `FtpDownloadProofs.GivenUpForAReason` | `NothingGivenUpEarly` | |
| `FtpDownloadProofs.RefusalsAreFinal` | `RefusedOnce` | |
| `FtpDownloadProofs.RunIsFetchPhase` | `ImplementsFetchPhase` | |
| `FtpDownloadProofs.RetriesRunOut` | the steps of a download run are bounded | |
| `SdatParsingProofs.ReadingsRight` | `ReadingsAreRight` | |
| `SdatParsingProofs.StoredComplete` | `StoredIsComplete` | |
| `SdatParsingProofs.OrdinaryFaultsLeftOut` | `OrdinaryFaultsAreLeftOut` | |
| `SdatParsingProofs.BatchOutlivesOrdinaryFaults` | `BatchSurvives` | no document that is odd in one of the four ways of `Odd` |
| `AttributionProofs.OneOwner` | `OneOwnerPerReading` | |
| `AttributionProofs.GenuineKept` | `GenuineIsKept` | |
| `AttributionProofs.AttributedOnce` | `EnergyIsAttributedOnce` | |
| `QuestDBWriterProofs.StoredWhole` | `StoreIsWhole` | |
| `QuestDBWriterProofs.ConnectionClean` | `ConnectionIsClean` | |
| `QuestDBWriterProofs.WriterIsAtomicStore` | `ImplementsAtomicStore` | |
| `QuestDBWriterProofs.CallsRunOut` | a call proceeds unless it is `Hung`, and ends within ten steps | |
| `OverlappingRunsProofs.ArchivedStored` | `ArchiveIsTrue` | |
| `OverlappingRunsProofs.LossOnlyByRace` | `LossNeedsRace` | |
| `OverlappingRunsProofs.CopyKeptUntilRace` | `LastCopyKept`, until a zip is opened on a stale view | |
| `OverlappingRunsProofs.OneRunKeepsCopies` | `LastCopyKept`, `NoTruncatedLeft` | one run at a time |
| `OverlappingRunsProofs.OneRunDeliversAtLeastOnce` | implements `AtLeastOnce` | one run at a time |
| `OverlappingRunsProofs.AlwaysAStep` | `NobodyWaits`, its guards without `ENABLED` | |
| `OverlappingRunsProofs.RunsRunOut` | every run uses up its own steps, whatever the others do | finitely many files |
| `OverlappingRunsProofs.HonestReport` | `ReportIsHonest` | |
| `QuestDBInitProofs.TriesLongEnoughHolds` | `TriesLongEnough` | |
| `QuestDBInitProofs.SchedulerGated` | `ScheduledOverVerified` | |
| `QuestDBInitProofs.FailureCaused` | `FailureHasCause` | |
| `QuestDBInitProofs.ScheduledRunsAreGated` | `IngestsVerified` | no `docker exec` |
| `QuestDBInitProofs.ScriptRunsOut` | the script proceeds unless it is `Hung`, and its steps are bounded | finitely many tables, at least one |
| `ReadersProofs.BillsCoverMonths` | `MonthsAreWhole` | |
| `ReadersProofs.CalendarRight` | `CalendarIsRight` | |
| `ReadersProofs.QuietBillComplete` | `QuietBillIsComplete` | |
| `ReadersProofs.BillWhole` | `BillIsWhole`, a part of `BillIsSound` | |
| `ReadersProofs.BillSound` | `BillIsSound` | |
| `ReadersProofs.HandedOverKept` | `HandedOverStays` | |
| `ReadersProofs.DayJudged` | `DayIsJudged` | |
| `ReadersProofs.ReportExact` | `ReportIsExact` | |
| `ReadersProofs.CleanFigures` | `CleanFiguresAreRight` | |
| `ReadersProofs.QuietOrderFree` | `QuietMeansOrderFree` | |
| `ReadersProofs.CelRewritesCounted` | `RewritesAreCounted`, but for files of an RCP | |
| `ReadersProofs.IdenticalNoOpUntilDiffering` | `IdenticalIsNoOp`, until a rewrite of the key differs | |

Between them they state every safety property of the passing runs except
`NobodyWaits`, of which `AlwaysAStep` states all but the `ENABLED`.

Three groups of them answer to no property of a run:

- *The disagreements, each under the condition that excludes it.* A
  counterexample shows that a sentence of a comment or document can fail; these
  say where it can be relied on. They cover `LastCopyKept`, `NoTruncatedLeft`,
  `BatchSurvives`, `RewritesAreCounted`, `IdenticalIsNoOp`, `IngestsVerified`
  and, for files that can be handled, `MissingIsWanted`. (A rejected file is in
  no archive, so it is wanted again only until the floor passes it.) Where a
  property carries its exemption itself (`GenuineIsKept`, `HandedOverStays`,
  `BillIsWhole`, `ScheduledOverVerified`, `OrdinaryFaultsAreLeftOut`), its
  theorem is the same statement without bounds.
- *What the liveness properties rest on.* `JobRunsOut`, `RetriesRunOut`,
  `CallsRunOut`, `ScriptRunsOut`, and `AlwaysAStep` with `RunsRunOut`: whoever
  has not ended can take a step (except in `RetriesRunOut`, which is about the
  number of steps only, and unless he waits for a statement that is not
  answered), and a natural number goes down with every step of his own, which
  no step of another or of the environment gives back unless a run is started.
  So the only thing a program can do for ever is nothing, and that is what the
  fairness of the runs excludes.
- *Refinement*: one run of `OverlappingRuns`, with its zip handled in steps, is
  the same at-least-once delivery that `DailyJob` implements with a zip written
  in one.

### What is assumed, and why

- *The types of the constants*: files are positive numbers, `DayOf` grows with
  them, tolerances, waits and bounds are naturals, sets of rows are finite.
- `CalmAssumption` (`NewestWins`): the disturbances are at most `connect`,
  `config`, `provenance` and `crash`, and no delivery is dated before
  `Epoch - Window`, where the selection of an empty archive begins. The other
  kinds are not left out for convenience: each of `late`, `transfer`, `lost`,
  `write`, `ack`, `archive`, `torn` and `delete` alone lets an older delivery
  be written over a newer one, and `standalone` does after a crash; so does a
  delivery before the floor. `job_failed_transfer` shows it for `transfer`.
- `CalmAssumption` in `HandledMissingIsWanted`: for the same reason. A file that
  any other kind of disturbance keeps out of an archive is behind the floor as
  soon as a zip `Window` days newer exists, and not selected again.
- *One run at a time* (`OneRunKeepsCopies`, `OneRunDeliversAtLeastOnce`): all
  elements of `Runs` are equal. It is what the scheduler gives as long as a job
  ends before the next is due and nobody starts one by hand; nothing in the code
  enforces it, and `overlap_lost_copy` shows two.
- *No `docker exec`* (`ScheduledRunsAreGated`): `AdHoc` is FALSE, the job is
  started by the scheduler only.
- *Finitely many files, tables*: the variants count them. `Tables # {}`, because
  the script's schema has some.
- `CopiesAssumption` (`Attribution`): what a metering point repeats of another
  meter's energy it reports against its own role, "a meter measures only its own
  direction" (`parse_e66`).
- `NumberingAssumption` (`SdatParsing`): the provider numbers the slots of a
  document from its start. Nothing in the document could contradict it.
- `DocumentsAssumption` (`SdatParsing`): a number written with at most three
  decimals is a multiple of a thousandth, which is what a decimal is.
- `CandidatesAssumption`, `OwnersAssumption` (`DeliveryReport`): an E31 file
  names no meter and is never of an RCP, declared meters are finitely many and
  have a name. An E66 file without a meter is a candidate; ingestion refuses it.

### The inductive invariants, and why the properties need them

*DailyJob.* `TypeInv`: `TypeOK` is not inductive by itself, because
`RecordOutcome` puts `outcome` into the log; it needs `OutcomeKnown`, that a
file being recorded has an outcome. `HandledInv`: a file is archived from
`archivable`, and gets there through `outcome`; so everything in `archivable`
was handled, and the outcome under way is true of the file at the head of the
batch. `OrderInv`: what is queued is of a later day than what is in the batch,
and files follow their days; hence the head of the batch is the oldest file
left. `ApartInv`: during a run what lies in `incoming/`, and so in the queue
and the batch, is not in the archive. This rests on the quarantine (nothing old
is in `incoming/`) and on the selection (nothing archived is wanted), and it is
what a standalone run, which does neither, breaks. `UnlinksArchived`: what is
still to be unlinked is listed by the zip. `TraceInv`: whatever may be archived
has its header row and a log row, and a file whose outcome is being recorded
has its header row already.

`NewestWins` rests on `GapInv`: a file to be stored that is older than an
archived one is archived, and one that is older than a wanted, downloaded or
queued one is archived or in the same run. So no delivery is ever behind what
the database has. That takes `ServerInv` (uploads are in order, and what a run
holds was uploaded) and `ShapeInv` (a batch is of one day, is older than the
queue, and all of it that was read is archived afterwards; every zip lists a
file, so the floor of the selection is the day of an archived file).
`NewestInv` then follows the slots: those of an archived or archivable file
hold it or a later one.

`HandledMissingIsWanted` is a corollary: `GapInv` holds of every file that can
be handled (`Handles`: stored or skipped), so one that no archive lists is not
older than any archived file, and the floor is below the oldest day it could
have.

`JobRunsOut`: `Judged` says that a header was read only of a file that has a
verdict, and that a file is being recorded while one is; then each phase has a
step, by `FirstOf` (a set of files has a first, the order of the numbers being
well founded). `Left` counts the steps: one for a leftover in quarantine, one
for a wanted file, and eight for a file queued, of which its batch's beginning,
its handling, its two records, the archive and its unlinking use up at most as
many.

Refinement of `AtLeastOnce`: `Ingest` and `AnswerLost` are `Deliver` (allowed by
`ApartInv`), `ArchiveBatch` and `ArchiveInterrupted` are `Settle` (allowed by
`HandledInv`), all other steps stutter. A torn zip un-settles files, which is
why it is excluded.

*FtpDownload.* `ShapeInv`: the entry under way is not among those left, has not
landed, and only it has a `.part`. `TriesInv` ties `attempt` to the attempts
counted for the entry. `LinkInv`: a retry is over a fresh link, and a link that
is gone while entries are left was cut by a refused reconnection.
`CountIsLanded` counts, by cardinalities. Refinement of `FetchPhase`: landing
and giving up are its steps, connections and retries stutter. `Fuel` counts a
transfer and a reconnection for each attempt left of each entry, and what the
phase has left.

*SdatParsing.* `ReadInv`: the headers are those of the documents that raise
nothing. `HoldsLast` of the files stored so far: each slot of the table holds
the last reading of it, by a lemma on one document (`Rows`, whose `CHOOSE`
needs that a finite set of numbers has a greatest) and one on the upsert of the
next.

*QuestDBWriter.* `Sent`: the open transaction holds rows of the call in
progress and of no other, all of them when it commits, none on a connection
that is not live. That makes a commit put in exactly one call's rows. `Held`,
`Answered`: a slot holds a row of a call that was answered or of the current
one, and a call about to answer has taken effect. `Logged` counts the log rows
of a call by its attempts. `Unhit`: as long as nothing hit a call, the second
attempt is over a fresh connection. `HasConn`: a statement is only sent while
the writer has a connection, live or not, which is why a call always has a
step; `StepsLeft` gives it two attempts of five steps each. Refinement of
`AtomicStore`: `Commit` is its `Apply`, the beginning and the answer of a call
its `Begin` and `Return`, the rest stutters.

*Attribution.* `LoadedInv`: a loaded list was accepted, so no meter occurs
twice and the `CHOOSE` of `OwnersIn` has one candidate. `DecisionInv`: every
outcome is the decision under the list it was taken with. `KeptInv`: the rows
of a file that was stored are there under its own keys; so a genuine file that
is archived without them was skipped, which by cases on roles takes a list that
has its meter wrong and another meter of its owner right. `KeysInv`: the keys
of the rows are keys, and an upsert of one file's rows preserves that.
`RowsInv`: a row carries the meter and the direction of the file it came from,
and its owner under the list of that file's last outcome.

*OverlappingRuns.* `CopyKept`: until a stale view, a file whose rows were
committed is in `incoming/`, in `failed/` or listed, and a zip being written
counts as listing what it did. `Alone`: the `.part` the only run renames is its
own, the zip it opens is as it looked at it, and until it archives nothing it
holds is listed; so it delivers no file twice (`NeverAgain`). `Stored`: what a
run may archive and what it found in the zip it opened is committed.
`OneWriter`: until a zip is opened on a stale view, one run at a time writes
it, the zip holds what that run found there, the names it saw before opening
are still listed, and what a run is removing is listed; `AbsentIsEmpty` ties a
missing zip to an empty listing. *ReportBesideRun* adds `AtMostOnce` (a name
not tried yet has contributed nothing) and `Accounted` (while the report has
nothing to say, each file the disk held at the beginning is read, or in the
listing under way, or in the zip still to be opened), which needs
`LossNeedsRace` for the steps of the runs.

*Sums.* `MapThenSumSet` is a fold defined by recursion over the subsets of a
set. `AddsExists` and `AddsAgree` show that this recursion has a solution (each
step takes an element out; the order of the subsets by cardinality is well
founded); from it follow what the proofs use: a sum of naturals is a natural
(`SumOfNat`), any element may be taken out first (`SumOfWithout`), a function
that agrees on the set has the same sum (`SumOfSame`), and a one-to-one map
carries one sum to another (`SumOfMapped`).

*BillingPeriods.* `Walk`: month m of year y has the number 12y + m, and the
i-th month begun has the i-th number after the first. `LastFullMonths` computes
with the same numbers from the date alone. `Counted`: the slots that have
passed since the walk began are the difference of two UTC midnights, at each
day and at each month begun. It is inductive because ordinals of consecutive
days follow each other (`OrdinalFollows`: within a month, over month ends, leap
days and year ends) and the offset of Zurich changes between the midnights of
exactly the two days that have not 96 slots (`MidnightFollows`, `SundaysAre`).
The names: all bills asked for on one day end on one day or before one month,
so a quarter's last month gives back its first day (`QuarterEnds`).

*BillingExport.* `QuietBillIsComplete` is a counting argument: the rows of a
line differ in their slot only, so as many rows as the period has slots are one
for each (`CountedIsComplete`, by cardinalities). `FilesInv` follows the files
of all exporters: a `.part` that one of them had for itself is mixed with no
other's, is written only by the one that has it open, and is whole when it is
renamed. `Kept`: after a bill was taken while no export was under way, whatever
export is under way was forced, because the others are turned away at the test.
The amounts are sums, and natural numbers by the lemmas on them, which makes
`TypeOK` a part of `BillSound`.

*DailyBalance.* `JudgeInv`: as long as nothing was written since the first
query, each answer is what the rows of the day still add up to; and the exit
code is the one the four answers give. What remains is arithmetic: two sums
within the tolerance of consumption on each side, and the two sides within it
of each other, put productions three tolerances apart (`ThreeApart`).

*DeliveryReport.* `TablesFollow`: a key is in a table exactly when a file that
was written has it, with the value of the last of those. The report chooses the
last file of a period; so the values agree when that is also the last that was
written. In a settled period the table restricted to the community is `E66Slots`
under another name of the keys (`SettledRows`), and `SumOfMapped` turns the
aggregate of the report into that of the table; the same for the production
totals of a customer. `QuietMeansOrderFree` goes over the first writer of a key:
without a differing rewrite every later one has its value.

*QuestDBInit.* `Clock` bounds the time in each state of the script, `Since`
ties the moment the server came up to the attempt under way, `Schema` says what
is known of the tables in each state. `SomePending`: while tables are created,
one is left or it was the last, so the script always has a next step. `Left`
counts three steps for each second before the deadline (attempt, failure,
pause: each round takes a second at least), then the tables.

### Only model-checked

All liveness (`EventuallyArchived`, `RunsEndAndDrain`, `RetriesStop`,
`CallsEnd`, `RefusedHeals`, `InitEnds`) and `NobodyWaits`, which is about
`ENABLED`: the prover handles neither. For `RunsEndAndDrain` (its first half),
`RetriesStop`, `CallsEnd`, `InitEnds` and `NobodyWaits` the part that needs
neither is proved, see above; that fairness turns it into the property is
TLC's. `EventuallyArchived`, `IncomingDrains` and `RefusedHeals` speak of many
runs or calls, and a number that goes down over all of them would have to count
the days. The properties of the two runs that expect a violation, and the
disagreements above, are counterexamples of TLC.

## What is not modelled

- **Logging** and **Grafana**: no state the program reads; queries and layout.
- **QuestDB itself**: column types, partitions, designated timestamps, the
  write-ahead log; a transaction is atomic and an upsert goes by the keys.
- **Wording and layout**: log messages, SQL text, the CSV columns, product
  names and MWh formatting of a bill, the tables of the report, its inventory
  and the local leg (sums printed without a verdict).
- **More than one community**: every row is of one. `METER_SUMS` of the billing
  export is not scoped to a community, as `QUESTDB.md` says; a second one would
  need that column in `BillingExport` and `DailyBalance`.
- **The century of a file name**: `file_stem` writes two digits of the year;
  periods a hundred years apart share a name.
- **Bytes**: a transfer is whole, cut or (two writers of one `.part`) not whole
  yet; a zip lists names. What two interleaved writers leave in a file is a
  choice between what the last one meant and neither.
- **Time within a run**: a day is the unit of time in `DailyJob`.
- **The order of deliveries across overlapping runs**: `OverlappingRuns` is
  about one delivery and whether it is kept, not about which of two revisions
  wins.
- **The verdict of the daily balance on a day that is being written**: the four
  queries may then see four states, and `DayIsJudged` only says that data was
  there.

Abstractions to keep in mind: values of readings do not matter in the job, only
whose they are; in `DailyJob` a document that ends the run when it is whole is
only unreadable when it was cut short; `DeliveryReport` has one value per file
for all its slots; in `DailyJob` a batch's headers are read in one step (one by
one in `OverlappingRuns`); Summer time in `BillingPeriods` is the rule in
force, not the history of the zone.

## Plan

The components are modelled, every safety property the runs check is proved but
the one about `ENABLED`, and each disagreement about a state but five has a
theorem with a condition that excludes it. What is left:

1. Four of the five have no such condition, because the code does the other
   thing whenever the case arises: `QuarantinedIsLogged` (an unreadable file is
   never logged), `FailedReopenEndsRun` (a refused reconnection never ends the
   run), `HeaderNamesOwner` (a skipped file's header never has its owner) and
   `ScheduledOverSchema` (what `verify` does not look for always passes). For
   the fifth, `HalfArchivedIsReadWhole`, the condition would be that no run
   removes a file while the report reads; `HonestReport` shows, for all runs,
   that what is left out is at least said. Those about liveness (`CallsEnd`,
   `InitEnds`, `RefusedHeals`, `EventuallyArchived`) have their condition in
   the property, and stay with TLC.
2. `OverlappingRuns` with several runs is not at-least-once delivery even
   before a zip is opened on a stale view: a run that finds in `incoming/` what
   another has archived and not removed yet writes it again. What is left of
   the contract until then are `ArchivedStored` and `LossOnlyByRace`; which of
   two revisions such a write puts on top would need a model with a table.
3. The composition stays a matter of reading. `DailyJob` fetches in one step
   what `FetchPhase` does in one, under the same names and for the same
   outcomes, and a refinement between two modules of one step each would
   restate them.
