------------------------------ MODULE DailyJob ------------------------------
(***************************************************************************)
(* The daily job of the energy-community ETL: one pass from the provider's *)
(* FTP server to the database, and the next one, and the next.             *)
(*                                                                         *)
(*   sftp_download_and_process.py   quarantine, selection, download        *)
(*   sdat_processor.py              batches, ingestion, archiving          *)
(*                                                                         *)
(* A file is a number: its position in filename order, which is the order  *)
(* of delivery. What ingesting a file decides (parse_e66, parse_e31) is a  *)
(* constant of the file, VerdictOf; module Attribution opens it. One       *)
(* database write is atomic; module QuestDBWriter opens it. One download   *)
(* lands or fails; module FtpDownload opens it.                            *)
(***************************************************************************)
EXTENDS Integers, FiniteSets

CONSTANTS
    Files,            \* the SDAT files the provider ever delivers
    DayOf,            \* DayOf[f]: the day of f's YYYYMMDD prefix
    Keys,             \* the slots (meter, metric, timestamp) of the tables
    KeysOf,           \* KeysOf[f]: the slots f reports
    VerdictOf,        \* VerdictOf[f]: what ingestion makes of a whole f
    Window,           \* download_window_days
    Epoch,            \* the floor of an empty archive, 2026-01-01
    Disturbances,     \* the kinds of disturbance this instance admits
    MaxDisturbances   \* how many of them may happen (a bound)

\* unreadable: reading it raises what load_headers catches; abort: reading it
\* raises something else (module SdatParsing has which is which).
Verdicts == {"store", "skip", "reject", "unreadable", "abort"}

DisturbanceKinds ==
    {"late", "connect", "transfer", "lost", "config", "write", "ack",
     "provenance", "archive", "torn", "standalone", "delete", "crash"}

\* Files are numbered from 1, and numbering follows the filename, so the day.
ASSUME FilesAssumption == Files \subseteq Nat \ {0}
ASSUME DayOfAssumption ==
    /\ DayOf \in [Files -> Nat]
    /\ \A f, g \in Files : f =< g => DayOf[f] =< DayOf[g]
ASSUME KeysOfAssumption == KeysOf \in [Files -> SUBSET Keys]
ASSUME VerdictOfAssumption == VerdictOf \in [Files -> Verdicts]
ASSUME WindowAssumption == Window \in Nat /\ Epoch \in Nat
ASSUME DisturbancesAssumption ==
    Disturbances \subseteq DisturbanceKinds /\ MaxDisturbances \in Nat

NoFile == 0
NoDay == -1
Days == {DayOf[f] : f \in Files}

VARIABLES
    \* Durable: the server, the data directory, the database.
    server,       \* server[f]: absent, partial (still being uploaded), complete
    incoming,     \* incoming[f]: none, truncated or whole copy in incoming/
    failed,       \* names under incoming/failed/
    zip,          \* zip[d]: absent, sound or corrupt archive of day d
    archive,      \* names a sound zip lists
    store,        \* store[k]: the file whose row slot k holds, or NoFile
    headerRows,   \* files with a row in cel_file_header
    log,          \* log[f]: the outcomes in f's rows of cel_ingest_log
    \* Local to a run of the job.
    pc,           \* where the run is; "idle" between runs
    wanted,       \* listed on the server, in the window, not archived, not tried
    landed,       \* the run's download count is not zero
    queue,        \* files of the batches not started
    delivery,     \* the day of the current batch
    batch,        \* files of the current batch not yet handled, in name order
    headers,      \* files of the batch whose header was read
    outcome,      \* outcome of the batch's first file, while it is recorded
    archivable,   \* archivable_files of the batch
    added,        \* added_files: sources still to be unlinked
    \* Ghosts.
    committed,    \* files whose rows were committed at least once
    disturbed     \* disturbances so far

disk == <<incoming, failed, zip, archive>>
database == <<store, headerRows, log, committed>>
durable == <<server, disk, database>>
download == <<wanted, landed>>
work == <<queue, delivery, batch, headers, outcome, archivable, added>>
local == <<pc, download, work>>
vars == <<durable, local, disturbed>>

Phases == {"idle", "quarantine", "download", "fetch", "config", "batches",
           "files", "header", "log", "archive", "unlink"}

TypeOK ==
    /\ server \in [Files -> {"absent", "partial", "complete"}]
    /\ incoming \in [Files -> {"none", "truncated", "whole"}]
    /\ failed \subseteq Files
    /\ zip \in [Days -> {"absent", "sound", "corrupt"}]
    /\ archive \subseteq Files
    /\ store \in [Keys -> Files \cup {NoFile}]
    /\ headerRows \subseteq Files
    /\ log \in [Files -> SUBSET {"ingested", "skipped", "failed"}]
    /\ pc \in Phases
    /\ wanted \subseteq Files
    /\ landed \in BOOLEAN
    /\ queue \subseteq Files
    /\ delivery \in Days \cup {NoDay}
    /\ batch \subseteq Files
    /\ headers \subseteq Files
    /\ outcome \in {"none", "ingested", "skipped", "failed"}
    /\ archivable \subseteq Files
    /\ added \subseteq Files
    /\ committed \subseteq Files
    /\ disturbed \in 0 .. MaxDisturbances

-----------------------------------------------------------------------------
Init ==
    /\ server = [f \in Files |-> "absent"]
    /\ incoming = [f \in Files |-> "none"]
    /\ failed = {}
    /\ zip = [d \in Days |-> "absent"]
    /\ archive = {}
    /\ store = [k \in Keys |-> NoFile]
    /\ headerRows = {}
    /\ log = [f \in Files |-> {}]
    /\ pc = "idle"
    /\ wanted = {}
    /\ landed = FALSE
    /\ queue = {}
    /\ delivery = NoDay
    /\ batch = {}
    /\ headers = {}
    /\ outcome = "none"
    /\ archivable = {}
    /\ added = {}
    /\ committed = {}
    /\ disturbed = 0

\* A step only a disturbance of that kind explains.
Disturb(kind) ==
    /\ kind \in Disturbances
    /\ disturbed < MaxDisturbances
    /\ disturbed' = disturbed + 1

\* f comes first, in filename order, of the files S.
IsFirst(f, S) == f \in S /\ \A g \in S : f =< g

\* Files whose incoming/ copy matches *.xml.
Present == {f \in Files : incoming[f] # "none"}

\* The process ends, normally or not: its memory is gone.
EndRun ==
    /\ pc' = "idle"
    /\ wanted' = {}
    /\ landed' = FALSE
    /\ queue' = {}
    /\ delivery' = NoDay
    /\ batch' = {}
    /\ headers' = {}
    /\ outcome' = "none"
    /\ archivable' = {}
    /\ added' = {}

-----------------------------------------------------------------------------
(* The provider uploads in filename order, one file after the other; a     *)
(* disturbance "late" lets a file overtake those named before it.          *)

BeginUpload(f) ==
    /\ server[f] = "absent"
    /\ \/ /\ \A g \in Files : g < f => server[g] = "complete"
          /\ UNCHANGED disturbed
       \/ /\ \E g \in Files : g < f /\ server[g] # "complete"
          /\ Disturb("late")
    /\ server' = [server EXCEPT ![f] = "partial"]
    /\ UNCHANGED <<disk, database, local>>

FinishUpload(f) ==
    /\ server[f] = "partial"
    /\ server' = [server EXCEPT ![f] = "complete"]
    /\ UNCHANGED <<disk, database, local, disturbed>>

-----------------------------------------------------------------------------
(* sftp_download_and_process.py                                            *)

\* The scheduler starts main().
StartJob ==
    /\ pc = "idle"
    /\ pc' = "quarantine"
    /\ UNCHANGED <<durable, disturbed, download, work>>

\* sdat_processor.main(): incoming/ as it stands, no quarantine, no download.
StartStandalone ==
    /\ pc = "idle"
    /\ Disturb("standalone")
    /\ pc' = "config"
    /\ UNCHANGED <<durable, download, work>>

QuarantineLeftover(f) ==
    /\ pc = "quarantine"
    /\ IsFirst(f, Present)
    /\ incoming' = [incoming EXCEPT ![f] = "none"]
    /\ failed' = failed \cup {f}
    /\ UNCHANGED <<server, zip, archive, database, local, disturbed>>

\* Mutant: leftovers are not moved out of the way.
QuarantineDone_skipped ==
    /\ pc = "quarantine"
    /\ pc' = "download"
    /\ UNCHANGED <<durable, disturbed, download, work>>

QuarantineDone ==
    /\ pc = "quarantine"
    /\ Present = {}
    /\ pc' = "download"
    /\ UNCHANGED <<durable, disturbed, download, work>>

ZipDays == {d \in Days : zip[d] # "absent"}

\* last_archived_date: the newest zip by name, readable or not.
LastArchivedDate == IF ZipDays = {} THEN Epoch
                    ELSE CHOOSE d \in ZipDays : \A e \in ZipDays : e =< d

Floor == LastArchivedDate - Window

\* Mutant: a copy under failed/ counts as already had.
Wanted_failedIsHad == {f \in Files : /\ server[f] # "absent"
                                     /\ DayOf[f] >= Floor
                                     /\ f \notin archive \cup failed}

\* Listed on the server, not older than the floor, not inside an archive.
\* archived_names looks at no zip older than the floor; those files are not
\* selected anyway.
Wanted == {f \in Files : /\ server[f] # "absent"
                         /\ DayOf[f] >= Floor
                         /\ f \notin archive}

BeginDownload ==
    /\ pc = "download"
    /\ wanted' = Wanted
    /\ pc' = "fetch"
    /\ UNCHANGED <<durable, disturbed, landed, work>>

\* Connecting or listing fails for good: nothing downloaded, nothing processed.
ConnectFails ==
    /\ pc = "download"
    /\ Disturb("connect")
    /\ EndRun
    /\ UNCHANGED durable

\* Mutant: the listing is read again instead of being materialised.
Fetch_relisting(f) ==
    /\ pc = "fetch"
    /\ f \in wanted
    /\ incoming' = [incoming EXCEPT
                      ![f] = IF server[f] = "complete" THEN "whole"
                                                       ELSE "truncated"]
    /\ wanted' = Wanted
    /\ landed' = TRUE
    /\ UNCHANGED <<server, failed, zip, archive, database, disturbed, pc, work>>

\* The server lists in no particular order. A file still being uploaded is
\* downloaded as far as it goes.
Fetch(f) ==
    /\ pc = "fetch"
    /\ f \in wanted
    /\ incoming' = [incoming EXCEPT
                      ![f] = IF server[f] = "complete" THEN "whole"
                                                       ELSE "truncated"]
    /\ wanted' = wanted \ {f}
    /\ landed' = TRUE
    /\ UNCHANGED <<server, failed, zip, archive, database, disturbed, pc,
                   work>>

\* download_one returns False: refused, or every attempt failed.
FetchFails(f) ==
    /\ pc = "fetch"
    /\ f \in wanted
    /\ Disturb("transfer")
    /\ wanted' = wanted \ {f}
    /\ UNCHANGED <<durable, pc, landed, work>>

\* download_one raises: reconnecting failed, the rest is left for the next run.
ConnectionLost ==
    /\ pc = "fetch"
    /\ wanted # {}
    /\ Disturb("lost")
    /\ wanted' = {}
    /\ UNCHANGED <<durable, pc, landed, work>>

DownloadDone ==
    /\ pc = "fetch"
    /\ wanted = {}
    /\ landed
    /\ pc' = "config"
    /\ UNCHANGED <<durable, disturbed, download, work>>

\* main() only processes when something was downloaded.
NothingNew ==
    /\ pc = "fetch"
    /\ wanted = {}
    /\ ~landed
    /\ EndRun
    /\ UNCHANGED <<durable, disturbed>>

-----------------------------------------------------------------------------
(* sdat_processor.py                                                       *)

\* load_meters refuses the declaration: from_config raises, main() dies.
DeclarationRejected ==
    /\ pc = "config"
    /\ Disturb("config")
    /\ EndRun
    /\ UNCHANGED durable

\* process_sdat_files: one batch per day of what lies in incoming/.
LoadBatches ==
    /\ pc = "config"
    /\ queue' = Present
    /\ pc' = "batches"
    /\ UNCHANGED <<durable, disturbed, download, delivery, batch, headers,
                   outcome, archivable, added>>

\* load_headers: a truncated or malformed file has no header.
Readable(f) == incoming[f] = "whole" /\ VerdictOf[f] # "unreadable"

\* Nothing on the way up to main() catches what reading f raises.
Aborts(f) == incoming[f] = "whole" /\ VerdictOf[f] = "abort"

\* Mutant: the newest delivery date first.
EarliestBatch_reversed ==
    {f \in queue : \A g \in queue : DayOf[g] =< DayOf[f]}

\* Files of the earliest day still queued.
EarliestBatch == {f \in queue : \A g \in queue : DayOf[f] =< DayOf[g]}

\* The next date, in order, and every header of its batch.
StartBatch ==
    /\ pc = "batches"
    /\ queue # {}
    /\ \A f \in EarliestBatch : ~Aborts(f)
    /\ batch' = EarliestBatch
    /\ queue' = queue \ EarliestBatch
    /\ \E f \in EarliestBatch : delivery' = DayOf[f]
    /\ headers' = {f \in EarliestBatch : Readable(f)}
    /\ archivable' = {}
    /\ added' = {}
    /\ pc' = "files"
    /\ UNCHANGED <<durable, disturbed, download, outcome>>

\* A header of the next batch ends the run, and with it the days after.
ReadingAborts ==
    /\ pc = "batches"
    /\ \E f \in EarliestBatch : Aborts(f)
    /\ EndRun
    /\ UNCHANGED <<durable, disturbed>>

BatchesDone ==
    /\ pc = "batches"
    /\ queue = {}
    /\ EndRun
    /\ UNCHANGED <<durable, disturbed>>

\* The file the loop of process_sdat_files_for_date is at.
Current(f) == pc = "files" /\ IsFirst(f, batch)

\* Deleted by hand since the batch was listed, or its header could not be
\* read: FAILED, and no word of it in the database.
PassOver(f) ==
    /\ Current(f)
    /\ incoming[f] = "none" \/ f \notin headers
    /\ batch' = batch \ {f}
    /\ UNCHANGED <<durable, disturbed, pc, download, queue, delivery, headers,
                   outcome, archivable, added>>

\* The loop hands f to process_sdat_file, which finds a verdict v.
Handled(f, v) ==
    /\ Current(f)
    /\ incoming[f] # "none" /\ f \in headers
    /\ VerdictOf[f] = v
    /\ pc' = "header"
    /\ UNCHANGED <<server, disk, headerRows, log, download, queue, delivery,
                   batch, headers, archivable, added>>

\* Mutant: an early return skips the provenance of a skipped file.
Skip_earlyReturn(f) ==
    /\ Current(f)
    /\ incoming[f] # "none" /\ f \in headers
    /\ VerdictOf[f] = "skip"
    /\ archivable' = archivable \cup {f}
    /\ batch' = batch \ {f}
    /\ UNCHANGED <<durable, disturbed, pc, download, queue, delivery, headers,
                   outcome, added>>

Skip(f) ==
    /\ Handled(f, "skip")
    /\ outcome' = "skipped"
    /\ UNCHANGED <<store, committed, disturbed>>

\* No data, unknown type, unknown meter: nothing to write.
Reject(f) ==
    /\ Handled(f, "reject")
    /\ outcome' = "failed"
    /\ UNCHANGED <<store, committed, disturbed>>

\* The rows of f replace whatever its slots held.
Write(f) ==
    /\ store' = [k \in Keys |-> IF k \in KeysOf[f] THEN f ELSE store[k]]
    /\ committed' = committed \cup {f}

Ingest(f) ==
    /\ Handled(f, "store")
    /\ Write(f)
    /\ outcome' = "ingested"
    /\ UNCHANGED disturbed

\* The writer gave up and nothing reached the tables.
WriteFails(f) ==
    /\ Handled(f, "store")
    /\ Disturb("write")
    /\ outcome' = "failed"
    /\ UNCHANGED <<store, committed>>

\* The writer gave up, but the server had committed the rows.
AnswerLost(f) ==
    /\ Handled(f, "store")
    /\ Disturb("ack")
    /\ Write(f)
    /\ outcome' = "failed"

\* log_file_header is best effort: its failure costs the row, nothing else.
RecordHeader(f) ==
    /\ pc = "header"
    /\ IsFirst(f, batch)
    /\ pc' = "log"
    /\ \/ /\ headerRows' = headerRows \cup {f}
          /\ UNCHANGED disturbed
       \/ /\ Disturb("provenance")
          /\ UNCHANGED headerRows
    /\ UNCHANGED <<server, disk, store, committed, log, download, work>>

\* Mutant: a failed file is archived like the others.
IsArchivable_always(o) == o # "none"

\* archivable_files.append: every outcome but FAILED.
IsArchivable(o) == o # "failed"

\* log_ingest, best effort too; then the loop files the outcome and moves on.
RecordOutcome(f) ==
    /\ pc = "log"
    /\ IsFirst(f, batch)
    /\ \/ /\ log' = [log EXCEPT ![f] = @ \cup {outcome}]
          /\ UNCHANGED disturbed
       \/ /\ Disturb("provenance")
          /\ UNCHANGED log
    /\ archivable' = IF IsArchivable(outcome) THEN archivable \cup {f}
                                              ELSE archivable
    /\ batch' = batch \ {f}
    /\ outcome' = "none"
    /\ pc' = "files"
    /\ UNCHANGED <<server, disk, store, committed, headerRows, download, queue,
                   delivery, headers, added>>

FilesDone ==
    /\ pc = "files"
    /\ batch = {}
    /\ pc' = IF archivable = {} THEN "batches" ELSE "archive"
    /\ UNCHANGED <<durable, disturbed, download, work>>

-----------------------------------------------------------------------------
(* archive_batch_as_zip                                                    *)

\* What the zip will hold of the batch: the sources still there. A name the
\* zip already lists is not written again, its source is removed all the same.
Archivable == archivable \cap Present

\* Mutant: an existing zip is opened in mode 'w'.
AddToZip_overwriting(S) ==
    /\ zip' = [zip EXCEPT ![delivery] = "sound"]
    /\ archive' = {f \in archive : DayOf[f] # delivery} \cup S

\* The zip is opened, appended to or created, and closed with S inside.
AddToZip(S) ==
    /\ zip' = [zip EXCEPT ![delivery] = "sound"]
    /\ archive' = archive \cup S

ArchiveBatch ==
    /\ pc = "archive"
    /\ zip[delivery] # "corrupt"
    /\ AddToZip(Archivable)
    /\ added' = Archivable
    /\ pc' = "unlink"
    /\ UNCHANGED <<server, incoming, failed, database, disturbed, download,
                   queue, delivery, batch, headers, outcome, archivable>>

\* An existing zip that cannot be listed: the sources stay.
ArchiveRefused ==
    /\ pc = "archive"
    /\ zip[delivery] = "corrupt"
    /\ pc' = "batches"
    /\ UNCHANGED <<durable, disturbed, download, work>>

\* Mutant: the sources are removed although writing the zip failed.
ArchiveInterrupted_unlinking ==
    /\ pc = "archive"
    /\ zip[delivery] # "corrupt"
    /\ Disturb("archive")
    /\ \/ \E f \in Archivable : AddToZip({g \in Archivable : g < f})
       \/ UNCHANGED <<zip, archive>>
    /\ added' = Archivable
    /\ pc' = "unlink"
    /\ UNCHANGED <<server, incoming, failed, database, download, queue,
                   delivery, batch, headers, outcome, archivable>>

\* Writing stops at some file: the zip is closed with the files before it
\* inside, or was never opened. The sources stay.
ArchiveInterrupted ==
    /\ pc = "archive"
    /\ zip[delivery] # "corrupt"
    /\ Disturb("archive")
    /\ \/ \E f \in Archivable : AddToZip({g \in Archivable : g < f})
       \/ UNCHANGED <<zip, archive>>
    /\ pc' = "batches"
    /\ UNCHANGED <<server, incoming, failed, database, download, work>>

\* Closing fails (disk full) or the process dies before it: a zip without its
\* central directory, and no name of that day readable any more.
ZipTorn ==
    /\ pc = "archive"
    /\ zip[delivery] # "corrupt"
    /\ Disturb("torn")
    /\ zip' = [zip EXCEPT ![delivery] = "corrupt"]
    /\ archive' = {f \in archive : DayOf[f] # delivery}
    /\ \/ /\ pc' = "batches"
          /\ UNCHANGED <<download, work>>
       \/ EndRun
    /\ UNCHANGED <<server, incoming, failed, database>>

\* The source of an archived file goes, only after the zip is closed.
Unlink(f) ==
    /\ pc = "unlink"
    /\ IsFirst(f, added)
    /\ incoming' = [incoming EXCEPT ![f] = "none"]
    /\ added' = added \ {f}
    /\ UNCHANGED <<server, failed, zip, archive, database, disturbed, pc,
                   download, queue, delivery, batch, headers, outcome,
                   archivable>>

\* unlink() raises: the sources not removed yet stay beside their zip.
UnlinkFails ==
    /\ pc = "unlink"
    /\ added # {}
    /\ Disturb("archive")
    /\ added' = {}
    /\ pc' = "batches"
    /\ UNCHANGED <<durable, download, queue, delivery, batch, headers, outcome,
                   archivable>>

UnlinkDone ==
    /\ pc = "unlink"
    /\ added = {}
    /\ pc' = "batches"
    /\ UNCHANGED <<durable, disturbed, download, work>>

-----------------------------------------------------------------------------
\* Somebody deletes an incoming file, as process_sdat_files_for_date expects.
RemoveByHand(f) ==
    /\ pc # "quarantine"
    /\ incoming[f] # "none"
    /\ Disturb("delete")
    /\ incoming' = [incoming EXCEPT ![f] = "none"]
    /\ UNCHANGED <<server, failed, zip, archive, database, local>>

\* The container stops: the disk and the database stay as they are.
Crash ==
    /\ pc # "idle"
    /\ Disturb("crash")
    /\ EndRun
    /\ UNCHANGED durable

-----------------------------------------------------------------------------
\* The steps of a run nothing disturbs.
JobStep ==
    \/ QuarantineDone \/ BeginDownload \/ DownloadDone \/ NothingNew
    \/ LoadBatches \/ StartBatch \/ ReadingAborts \/ BatchesDone
    \/ FilesDone \/ ArchiveBatch \/ ArchiveRefused \/ UnlinkDone
    \/ \E f \in Files :
         \/ QuarantineLeftover(f) \/ Fetch(f) \/ PassOver(f) \/ Skip(f)
         \/ Reject(f) \/ Ingest(f) \/ RecordHeader(f) \/ RecordOutcome(f)
         \/ Unlink(f)

DisturbedStep ==
    \/ ConnectFails \/ ConnectionLost \/ DeclarationRejected
    \/ ArchiveInterrupted \/ ZipTorn \/ UnlinkFails \/ Crash
    \/ \E f \in Files :
         FetchFails(f) \/ WriteFails(f) \/ AnswerLost(f) \/ RemoveByHand(f)

Upload == \E f \in Files : BeginUpload(f) \/ FinishUpload(f)

Next == Upload \/ StartJob \/ StartStandalone \/ JobStep \/ DisturbedStep

Spec == Init /\ [][Next]_vars

(***************************************************************************)
(* The scheduler starts the job every day and the process is given time to *)
(* run; the provider finishes an upload it began. No upload is promised,   *)
(* and no disturbance. That a run goes on takes a QuestDB that answers a   *)
(* statement or drops the connection: nothing bounds that wait (module     *)
(* QuestDBWriter). Every other wait of a run has a timeout.                *)
(***************************************************************************)
Fairness ==
    /\ WF_vars(StartJob)
    /\ WF_vars(JobStep)
    /\ \A f \in Files : WF_vars(FinishUpload(f))

FairSpec == Spec /\ Fairness

-----------------------------------------------------------------------------
(* What the job promises.                                                  *)

Stores(f) == VerdictOf[f] = "store"

\* A file inside an archive was either skipped by design or committed to the
\* database: "archiving is what proves it was stored" (download_sdat_files).
ArchivedOnlyIfHandled ==
    \A f \in archive : VerdictOf[f] = "skip" \/ f \in committed

\* The ingest log claims nothing that did not happen: a row 'ingested' follows
\* a commit of the file, a row 'skipped' a decision to skip it.
LogIsTruthful ==
    \A f \in Files :
        /\ "ingested" \in log[f] => f \in committed
        /\ "skipped" \in log[f] => VerdictOf[f] = "skip"

\* What the archive and the log say about files is true.
ArchiveAndLogAreTrue == TypeOK /\ ArchivedOnlyIfHandled /\ LogIsTruthful

\* Every archived file can be traced in the database: its header row and a log
\* row that says it was handled. Holds while no provenance write fails.
ArchivedIsTraceable ==
    \A f \in archive : f \in headerRows /\ log[f] \ {"failed"} # {}

\* For every slot an archived file reports, the slot holds that file's row or
\* that of a later delivery ("sorted filename = delivery order, so a revision
\* lands after the row it replaces", questdb_writer.py).
NewestDeliveryWins ==
    \A f \in archive : Stores(f) => \A k \in KeysOf[f] : store[k] >= f

\* A source leaves incoming/ only for an archive that lists it or for failed/:
\* no step of the job loses the last copy of a file it downloaded.
KeepsSources ==
    \A f \in Files : incoming[f] # "none" /\ incoming'[f] = "none"
                     => f \in archive \/ f \in failed'

SourceKept == [][KeepsSources]_vars

\* A file that an archive lists is never written to the database again: a
\* leftover copy of it, after a crash between closing the zip and unlinking,
\* goes to failed/ instead of overwriting later deliveries.
WritesUnarchived ==
    \A k \in Keys : store'[k] # store[k] => store'[k] \notin archive

NeverIngestArchived == [][WritesUnarchived]_vars

\* Within one run deliveries reach the database in order: when a row is
\* written, no older file is still waiting to be.
WritesOldestFirst ==
    \A k \in Keys : store'[k] # store[k]
                    => \A g \in queue \cup batch : store'[k] =< g

RunIsChronological == [][WritesOldestFirst]_vars

\* The job is at-least-once delivery: files are upserted whole, never again
\* once an archive lists them, and an archive only gains names that were
\* delivered. A torn zip or a standalone run breaks it, by losing names or by
\* not looking at them.
Contract == INSTANCE AtLeastOnce WITH
                table <- store, delivered <- committed, settled <- archive,
                Exempt <- {f \in Files : VerdictOf[f] = "skip"}

ImplementsAtLeastOnce == Contract!Spec

\* Between runs every file the server holds whole is archived or will be
\* selected by the next run ("what did not arrive is still missing and still
\* wanted, and selecting by name means the next run fetches it", download_one).
MissingIsWanted ==
    pc = "idle" =>
        \A f \in Files : server[f] = "complete" => f \in archive \cup Wanted

\* A quarantined file was reported to the ingest log ("the attempt is still
\* logged, so 'which files failed?' is answerable for these too",
\* process_sdat_file).
QuarantinedIsLogged == \A f \in failed : log[f] # {}

\* Newer deliveries were archived before f, which is not selected any more.
IsBehind(f) == DayOf[f] < Floor

\* A document that every run selects ends it before it gets to f.
IsBlocked(f) == \E g \in Wanted : VerdictOf[g] = "abort" /\ DayOf[g] =< DayOf[f]

\* Every file that can be handled is eventually archived, whatever failed on
\* the way: a truncated copy, a failed write or a crash costs a day. Out are the
\* files of a day whose zip a full disk has torn, files that failed until newer
\* deliveries moved the download window past them, and whatever comes with or
\* after a document that ends every run.
EventuallyArchived ==
    \A f \in Files : VerdictOf[f] \in {"store", "skip"} =>
        \/ (server[f] = "complete"
               ~> f \in archive \/ zip[DayOf[f]] = "corrupt" \/ IsBehind(f))
        \/ <>[]IsBlocked(f)

\* A run always comes to its end.
RunEnds == pc # "idle" ~> pc = "idle"

\* What is left in incoming/ does not stay there: archived or quarantined.
IncomingDrains == \A f \in Files : incoming[f] # "none" ~> incoming[f] = "none"

\* The job comes to rest: no run and no file hangs.
RunsEndAndDrain == RunEnds /\ IncomingDrains

=============================================================================
