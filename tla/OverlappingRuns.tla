--------------------------- MODULE OverlappingRuns ---------------------------
(***************************************************************************)
(* Two runs of the daily job at once: the scheduler starts one, somebody   *)
(* starts another with docker exec. They share incoming/, the .part files  *)
(* in it, failed/ and the zip, and nothing locks them. Each action is what *)
(* one run does between two looks at that shared state.                    *)
(*                                                                         *)
(* One delivery day, so one batch and one zip; its files lie whole on the  *)
(* server, and every one of them would be stored.                          *)
(***************************************************************************)
EXTENDS Integers

CONSTANTS
    Runs,         \* the runs that may be under way together
    Files,        \* the files of the delivery, numbered in name order
    NoRun,
    MaxFailures,  \* transfers that may break off (a bound)
    MaxStarts     \* runs started in all (a bound)

ASSUME FilesAssumption == Files \subseteq Nat \ {0}
ASSUME RunsAssumption == NoRun \notin Runs
ASSUME BoundsAssumption == MaxFailures \in Nat /\ MaxStarts \in Nat

NoFile == 0

VARIABLES
    \* Shared.
    incoming,    \* incoming[f]: none, holed (not all its bytes yet) or whole
    part,        \* part[f]: the run that opened f's .part last, or NoRun
    failed,      \* names under incoming/failed/
    zip,         \* absent, open, sound or corrupt
    listing,     \* names a reader of the zip finds, when it can read it
    \* Of each run: a record, see Run.
    run,
    \* Ghosts.
    committed,   \* files written to the database
    raced,       \* a zip was opened on a stale view of it
    failures, starts

shared == <<incoming, part, failed, zip, listing>>
disk == <<incoming, part, failed>>
archive == <<zip, listing, raced>>
bounds == <<failures, starts>>
vars == <<shared, run, committed, raced, bounds>>

Phases == {"idle", "quarantine", "select", "fetch", "transfer", "load",
           "headers", "files", "peek", "open", "close", "unlink"}

Run == [pc : Phases,
        todo : SUBSET Files,        \* names its loop has not reached
        at : Files \cup {NoFile},   \* the file being transferred
        landed : BOOLEAN,           \* the count of downloads is not zero
        headers : SUBSET Files,     \* files whose header was read
        archivable : SUBSET Files,  \* files that did not fail
        creating : BOOLEAN,         \* mode 'w': there was no zip
        seen : SUBSET Files,        \* existing_names: those it listed then
        base : SUBSET Files,        \* names in the zip it opened
        clash : BOOLEAN]            \* another run writes the zip meanwhile

Fresh == [pc |-> "idle", todo |-> {}, at |-> NoFile, landed |-> FALSE,
          headers |-> {}, archivable |-> {}, creating |-> FALSE, seen |-> {},
          base |-> {}, clash |-> FALSE]

TypeOK ==
    /\ incoming \in [Files -> {"none", "holed", "whole"}]
    /\ part \in [Files -> Runs \cup {NoRun}]
    /\ failed \subseteq Files
    /\ zip \in {"absent", "open", "sound", "corrupt"}
    /\ listing \subseteq Files
    /\ run \in [Runs -> Run]
    /\ \A r \in Runs : run[r].at # NoFile <=> run[r].pc = "transfer"
    /\ committed \subseteq Files
    /\ raced \in BOOLEAN
    /\ failures \in 0 .. MaxFailures
    /\ starts \in 0 .. MaxStarts

Init ==
    /\ incoming = [f \in Files |-> "none"]
    /\ part = [f \in Files |-> NoRun]
    /\ failed = {}
    /\ zip = "absent"
    /\ listing = {}
    /\ run = [r \in Runs |-> Fresh]
    /\ committed = {}
    /\ raced = FALSE
    /\ failures = 0
    /\ starts = 0

Present == {f \in Files : incoming[f] # "none"}
IsFirst(f, S) == f \in S /\ \A g \in S : f =< g

\* The process ends; run r has nothing more to do.
Ends(r) == run' = [run EXCEPT ![r] = Fresh]

-----------------------------------------------------------------------------
(* Quarantine and selection.                                               *)

\* quarantine_leftovers lists incoming/ once, then moves what it listed.
Start(r) ==
    /\ run[r].pc = "idle"
    /\ starts < MaxStarts
    /\ starts' = starts + 1
    /\ run' = [run EXCEPT ![r] = [Fresh EXCEPT !.pc = "quarantine",
                                               !.todo = Present]]
    /\ UNCHANGED <<shared, committed, raced, failures>>

Quarantine(r, f) ==
    /\ run[r].pc = "quarantine"
    /\ IsFirst(f, run[r].todo)
    /\ incoming[f] # "none"
    /\ incoming' = [incoming EXCEPT ![f] = "none"]
    /\ failed' = failed \cup {f}
    /\ run' = [run EXCEPT ![r].todo = @ \ {f}]
    /\ UNCHANGED <<part, archive, committed, bounds>>

\* Mutant: the loop waits for a file the other run has taken away.
QuarantineGone_waiting(r, f) ==
    /\ run[r].pc = "quarantine"
    /\ IsFirst(f, run[r].todo)
    /\ incoming[f] = "none"
    /\ UNCHANGED vars

\* The other run took it away: replace() raises, main() dies.
QuarantineGone(r, f) ==
    /\ run[r].pc = "quarantine"
    /\ IsFirst(f, run[r].todo)
    /\ incoming[f] = "none"
    /\ Ends(r)
    /\ UNCHANGED <<shared, committed, raced, bounds>>

QuarantineDone(r) ==
    /\ run[r].pc = "quarantine"
    /\ run[r].todo = {}
    /\ run' = [run EXCEPT ![r].pc = "select"]
    /\ UNCHANGED <<shared, committed, raced, bounds>>

\* What opening the zip to read finds: a zip being written may still show the
\* names it had, or be no zip at all.
Readings == CASE zip = "sound" -> {listing}
              [] zip = "open" -> {listing, {}}
              [] OTHER -> {{}}

\* archived_names, then the listing of the server.
Select(r) ==
    /\ run[r].pc = "select"
    /\ \E names \in Readings :
          run' = [run EXCEPT ![r].pc = "fetch", ![r].todo = Files \ names]
    /\ UNCHANGED <<shared, committed, raced, bounds>>

-----------------------------------------------------------------------------
(* download_one: one .part name for both runs.                             *)

\* open(partial, "wb") truncates a .part the other run is writing.
OpenPart(r, f) ==
    /\ run[r].pc = "fetch"
    /\ f \in run[r].todo
    /\ part' = [part EXCEPT ![f] = r]
    /\ run' = [run EXCEPT ![r].pc = "transfer", ![r].at = f,
                          ![r].todo = @ \ {f}]
    /\ UNCHANGED <<incoming, failed, archive, committed, bounds>>

\* The transfer is over and the .part takes its name. A .part the other run
\* has opened since is not whole, and will be when that run has written it;
\* a .part the other run has renamed or removed cannot be renamed again.
Land(r) ==
    LET f == run[r].at IN
    /\ run[r].pc = "transfer"
    /\ part' = [part EXCEPT ![f] = NoRun]
    /\ incoming' = [incoming EXCEPT
                      ![f] = CASE part[f] = r -> "whole"
                               [] part[f] = NoRun ->
                                    IF @ = "holed" THEN "whole" ELSE @
                               [] OTHER -> "holed"]
    /\ run' = [run EXCEPT ![r].pc = "fetch", ![r].at = NoFile,
                          ![r].landed = @ \/ part[f] # NoRun]
    /\ UNCHANGED <<failed, archive, committed, bounds>>

\* The transfer breaks off: another attempt, or the .part is removed, whoever
\* is writing it.
BreakOff(r) ==
    LET f == run[r].at IN
    /\ run[r].pc = "transfer"
    /\ failures < MaxFailures
    /\ failures' = failures + 1
    /\ \/ /\ part' = [part EXCEPT ![f] = r]
          /\ UNCHANGED run
       \/ /\ part' = [part EXCEPT ![f] = NoRun]
          /\ run' = [run EXCEPT ![r].pc = "fetch", ![r].at = NoFile]
    /\ UNCHANGED <<incoming, failed, archive, committed, starts>>

\* main() only processes when something was downloaded.
FetchDone(r) ==
    /\ run[r].pc = "fetch"
    /\ run[r].todo = {}
    /\ IF run[r].landed THEN run' = [run EXCEPT ![r].pc = "load"] ELSE Ends(r)
    /\ UNCHANGED <<shared, committed, raced, bounds>>

-----------------------------------------------------------------------------
(* Ingestion of the batch: whatever lies in incoming/, whoever fetched it. *)

LoadBatch(r) ==
    /\ run[r].pc = "load"
    /\ run' = [run EXCEPT ![r].pc = "headers", ![r].todo = Present]
    /\ UNCHANGED <<shared, committed, raced, bounds>>

Readable(f) == incoming[f] = "whole"

\* load_headers: a file that is gone or not whole has no header.
ReadHeader(r, f) ==
    /\ run[r].pc = "headers"
    /\ IsFirst(f, run[r].todo)
    /\ run' = [run EXCEPT ![r].todo = @ \ {f},
                          ![r].headers = IF Readable(f) THEN @ \cup {f} ELSE @]
    /\ UNCHANGED <<shared, committed, raced, bounds>>

\* The loop over the batch; without a header a file only counts as failed.
HeadersDone(r) ==
    /\ run[r].pc = "headers"
    /\ run[r].todo = {}
    /\ run' = [run EXCEPT ![r].pc = "files", ![r].todo = run[r].headers]
    /\ UNCHANGED <<shared, committed, raced, bounds>>

\* Mutant: a file that is gone is archivable all the same.
PassOver_archivable(r, f) ==
    /\ run[r].pc = "files"
    /\ IsFirst(f, run[r].todo)
    /\ incoming[f] = "none"
    /\ run' = [run EXCEPT ![r].todo = @ \ {f}, ![r].archivable = @ \cup {f}]
    /\ UNCHANGED <<shared, committed, raced, bounds>>

\* "File no longer exists".
PassOver(r, f) ==
    /\ run[r].pc = "files"
    /\ IsFirst(f, run[r].todo)
    /\ incoming[f] = "none"
    /\ run' = [run EXCEPT ![r].todo = @ \ {f}]
    /\ UNCHANGED <<shared, committed, raced, bounds>>

\* The rows come from the header in memory, whatever the file is by now.
Ingest(r, f) ==
    /\ run[r].pc = "files"
    /\ IsFirst(f, run[r].todo)
    /\ incoming[f] # "none"
    /\ committed' = committed \cup {f}
    /\ run' = [run EXCEPT ![r].todo = @ \ {f}, ![r].archivable = @ \cup {f}]
    /\ UNCHANGED <<shared, raced, bounds>>

FilesDone(r) ==
    /\ run[r].pc = "files"
    /\ run[r].todo = {}
    /\ IF run[r].archivable = {} THEN Ends(r)
                                 ELSE run' = [run EXCEPT ![r].pc = "peek"]
    /\ UNCHANGED <<shared, committed, raced, bounds>>

-----------------------------------------------------------------------------
(* archive_batch_as_zip.                                                   *)

\* exists(), and the names of a zip there is.
Peek(r) ==
    /\ run[r].pc = "peek"
    /\ \/ zip = "absent"
       \/ zip = "sound"
       \/ zip = "open" /\ listing # {}
    /\ run' = [run EXCEPT ![r].pc = "open", ![r].creating = (zip = "absent"),
                          ![r].seen = IF zip = "absent" THEN {} ELSE listing]
    /\ UNCHANGED <<shared, committed, raced, bounds>>

\* A zip the other run is writing, or has torn: "Files not deleted".
PeekFails(r) ==
    /\ run[r].pc = "peek"
    /\ zip \in {"open", "corrupt"}
    /\ Ends(r)
    /\ UNCHANGED <<shared, committed, raced, bounds>>

Writers == {r \in Runs : run[r].pc = "close"}

\* Mutant: there is always a zip to create.
Opened_alwaysCreating(r) == {}

\* The names the zip r opens begins with: mode 'w' truncates it.
Opened(r) == IF run[r].creating THEN {} ELSE listing

\* Mode 'w' or 'a', as exists() said: a zip made in between is truncated, a
\* zip the other run has open gets two writers.
OpenZip(r) ==
    /\ run[r].pc = "open"
    /\ zip' = "open"
    /\ listing' = Opened(r)
    /\ raced' = (raced \/ Writers # {} \/ (run[r].creating /\ zip # "absent"))
    /\ run' = [q \in Runs |->
                 IF q = r
                 THEN [run[q] EXCEPT !.pc = "close", !.base = Opened(r),
                                     !.clash = (Writers # {})]
                 ELSE [run[q] EXCEPT !.clash = @ \/ q \in Writers]]
    /\ UNCHANGED <<disk, committed, bounds>>

\* r adds those of the files S whose names it did not see before, and closes.
\* Two writers leave what the last one lists, what the other one listed, or no
\* zip.
Closes(r, S) ==
    \/ /\ zip' = "sound"
       /\ listing' = run[r].base \cup (S \ run[r].seen)
    \/ /\ run[r].clash
       /\ zip' = "corrupt"
       /\ listing' = {}
    \/ /\ run[r].clash
       /\ zip = "sound"
       /\ UNCHANGED <<zip, listing>>

\* added_files: those of the batch still there, written or seen before.
Added(r) == run[r].archivable \cap Present

CloseZip(r) ==
    /\ run[r].pc = "close"
    /\ Closes(r, run[r].archivable \cap Present)
    /\ run' = [run EXCEPT ![r].pc = "unlink", ![r].todo = Added(r)]
    /\ UNCHANGED <<disk, committed, raced, bounds>>

\* A file vanishes between exists() and write(): the zip is closed with those
\* before it, and nothing is removed.
CloseZipEarly(r) ==
    /\ run[r].pc = "close"
    /\ \E f \in run[r].archivable \ (Present \cup run[r].seen) :
          Closes(r, {g \in run[r].archivable \cap Present : g < f})
    /\ Ends(r)
    /\ UNCHANGED <<disk, committed, raced, bounds>>

\* A source goes, unless it is gone: then unlink() may raise and end the loop.
Unlink(r, f) ==
    /\ run[r].pc = "unlink"
    /\ IsFirst(f, run[r].todo)
    /\ incoming' = [incoming EXCEPT ![f] = "none"]
    /\ \/ run' = [run EXCEPT ![r].todo = @ \ {f}]
       \/ incoming[f] = "none" /\ Ends(r)
    /\ UNCHANGED <<part, failed, archive, committed, bounds>>

UnlinkDone(r) ==
    /\ run[r].pc = "unlink"
    /\ run[r].todo = {}
    /\ Ends(r)
    /\ UNCHANGED <<shared, committed, raced, bounds>>

-----------------------------------------------------------------------------
RunStep(r) ==
    \/ QuarantineDone(r) \/ Select(r) \/ Land(r) \/ FetchDone(r)
    \/ LoadBatch(r) \/ HeadersDone(r) \/ FilesDone(r)
    \/ Peek(r) \/ PeekFails(r) \/ OpenZip(r) \/ CloseZip(r)
    \/ CloseZipEarly(r) \/ UnlinkDone(r)
    \/ \E f \in Files :
         \/ Quarantine(r, f) \/ QuarantineGone(r, f) \/ OpenPart(r, f)
         \/ ReadHeader(r, f) \/ PassOver(r, f) \/ Ingest(r, f) \/ Unlink(r, f)

Next == \E r \in Runs : Start(r) \/ RunStep(r) \/ BreakOff(r)

Spec == Init /\ [][Next]_vars

-----------------------------------------------------------------------------
(* What is left of the job's promises when two runs overlap.               *)

\* "archiving is what proves it was stored" (download_sdat_files): a run only
\* archives what it has written itself, so this survives any overlap.
ArchivedWasStored == listing \subseteq committed

\* The types of the state, and what an archive proves.
ArchiveIsTrue == TypeOK /\ ArchivedWasStored

\* A name leaves the zip, or the last copy of a file leaves incoming/, only
\* once a zip was opened on a stale view: nothing else two runs do to each
\* other loses a file.
LossNeedsRace ==
    [][ \/ raced'
        \/ /\ listing \subseteq listing'
           /\ \A f \in Files : incoming[f] # "none" /\ incoming'[f] = "none"
                               => f \in listing \cup failed' ]_vars

\* However the other run interferes, and whatever it has taken away or left
\* open, a run that has begun can always do its next step: neither waits for
\* the other one.
NobodyWaits == \A r \in Runs : run[r].pc # "idle" => ENABLED <<RunStep(r)>>_vars

\* "Track which files actually get added (so we only delete those)", "new files
\* are appended to it" (archive_batch_as_zip): whenever no run is writing the
\* zip, a file the database holds is in incoming/, in failed/ or in the zip.
LastCopyKept ==
    zip # "open" =>
        \A f \in committed : f \in Present \cup failed \cup listing

\* "an interrupted transfer cannot leave a truncated XML under its final name"
\* (download_one): an incoming file that is not whole is being completed.
NoTruncatedLeft ==
    \A f \in Files : incoming[f] = "holed"
                     => \E r \in Runs : run[r].at = f

=============================================================================
