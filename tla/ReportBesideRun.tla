-------------------------- MODULE ReportBesideRun --------------------------
(***************************************************************************)
(* delivery_report.py started by hand reads one delivery from incoming/    *)
(* and the archive while runs of the daily job move its files from one to  *)
(* the other. iter_day_files is a generator: each file it lists is read    *)
(* when the caller asks for it, after the one before was parsed.           *)
(***************************************************************************)
EXTENDS OverlappingRuns

CONSTANT MaxReports    \* reports made in all (a bound)

ASSUME MaxReportsAssumption == MaxReports \in Nat

VARIABLES
    step,       \* of the report: idle, loose, zip, zipped, done
    listed,     \* names of the current listing it has not come to
    seen,       \* names it will not read again
    times,      \* times[f]: how often f's content was handed out
    warned,     \* it has said that it could not read something
    atStart,    \* ghost: files on the disk when the report began
    reports

report == <<step, listed, seen, times, warned, atStart, reports>>
allVars == <<vars, report>>

ReportTypeOK ==
    /\ step \in {"idle", "loose", "zip", "zipped", "done"}
    /\ listed \subseteq Files
    /\ seen \subseteq Files
    /\ listed \cap seen = {}
    /\ times \in [Files -> 0 .. 2]
    /\ warned \in BOOLEAN
    /\ atStart \subseteq Files
    /\ reports \in 0 .. MaxReports

ReportInit ==
    /\ Init
    /\ step = "idle"
    /\ listed = {}
    /\ seen = {}
    /\ times = [f \in Files |-> 0]
    /\ warned = FALSE
    /\ atStart = {}
    /\ reports = 0

\* main(): incoming/ is listed first.
BeginReport ==
    /\ step \in {"idle", "done"}
    /\ reports < MaxReports
    /\ reports' = reports + 1
    /\ step' = "loose"
    /\ listed' = Present
    /\ seen' = {}
    /\ times' = [f \in Files |-> 0]
    /\ warned' = FALSE
    /\ atStart' = Present \cup listing
    /\ UNCHANGED vars

\* A name is seen once it is tried.
Seen(f) == seen \cup {f}

\* Mutant: a file that cannot be read is passed over in silence.
ReadLoose_quietly(f) ==
    /\ step = "loose"
    /\ IsFirst(f, listed)
    /\ listed' = listed \ {f}
    /\ seen' = Seen(f)
    /\ times' = [times EXCEPT ![f] = IF f \in Present THEN @ + 1 ELSE @]
    /\ UNCHANGED <<vars, step, warned, atStart, reports>>

\* The file is read, or it is gone: "Cannot read".
ReadLoose(f) ==
    /\ step = "loose"
    /\ IsFirst(f, listed)
    /\ listed' = listed \ {f}
    /\ seen' = Seen(f)
    /\ times' = [times EXCEPT ![f] = IF f \in Present THEN @ + 1 ELSE @]
    /\ warned' = (warned \/ f \notin Present)
    /\ UNCHANGED <<vars, step, atStart, reports>>

LooseDone ==
    /\ step = "loose"
    /\ listed = {}
    /\ step' = "zip"
    /\ UNCHANGED <<vars, listed, seen, times, warned, atStart, reports>>

\* The names of the zip that were not among the loose files.
Unseen == listing \ seen

\* The zip is opened and its names listed; none, or one that is no zip at the
\* moment: "Cannot read archive".
OpenArchive ==
    /\ step = "zip"
    /\ \/ /\ zip \in {"sound", "open"}
          /\ zip = "open" => listing # {}
          /\ listed' = Unseen
          /\ step' = "zipped"
          /\ UNCHANGED warned
       \/ /\ zip = "absent"
          /\ step' = "done"
          /\ UNCHANGED <<listed, warned>>
       \/ /\ zip \in {"open", "corrupt"}
          /\ step' = "done"
          /\ warned' = TRUE
          /\ UNCHANGED listed
    /\ UNCHANGED <<vars, seen, times, atStart, reports>>

\* What a zip listed stays where it is while a run appends to it.
ReadZipped(f) ==
    /\ step = "zipped"
    /\ IsFirst(f, listed)
    /\ listed' = listed \ {f}
    /\ seen' = Seen(f)
    /\ times' = [times EXCEPT ![f] = @ + 1]
    /\ UNCHANGED <<vars, step, warned, atStart, reports>>

ReportDone ==
    /\ step = "zipped"
    /\ listed = {}
    /\ step' = "done"
    /\ UNCHANGED <<vars, listed, seen, times, warned, atStart, reports>>

ReportStep ==
    \/ LooseDone \/ OpenArchive \/ ReportDone
    \/ \E f \in Files : ReadLoose(f) \/ ReadZipped(f)

ReportNext == (Next /\ UNCHANGED report) \/ BeginReport \/ ReportStep

ReportSpec == ReportInit /\ [][ReportNext]_allVars

-----------------------------------------------------------------------------
\* "a file present in both places contributes once" (iter_day_files).
ContributesAtMostOnce == \A f \in Files : times[f] =< 1

\* A report that leaves out a file the disk held when it began, wherever a run
\* has moved it since, says that something could not be read.
OmissionIsLoud == step = "done" /\ ~warned => \A f \in atStart : times[f] = 1

\* The types, and both of these: the second until two runs have overwritten
\* one archive, which takes files away from under any reader.
ReportIsHonest ==
    /\ ReportTypeOK
    /\ ContributesAtMostOnce
    /\ raced \/ OmissionIsLoud

\* "Both, because a delivery can be half-archived while a run is in progress"
\* (iter_day_files): every file of the delivery on the disk contributes, if no
\* run has quarantined it.
HalfArchivedIsReadWhole ==
    step = "done" /\ zip = "sound" => \A f \in atStart : times[f] = 1 \/ f \in failed

=============================================================================
