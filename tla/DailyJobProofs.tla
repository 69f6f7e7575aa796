--------------------------- MODULE DailyJobProofs ---------------------------
(***************************************************************************)
(* Theorems about the daily job, for every set of files, slots, verdicts,  *)
(* every window and every number of disturbances.                          *)
(*                                                                         *)
(* The inductive invariant is a conjunction, each part proved on top of    *)
(* the ones before it:                                                     *)
(*    TypeInv      types, and a recorded outcome is an outcome             *)
(*    HandledInv   who may reach the archive and the log                   *)
(*    OrderInv     the order of the batches                                *)
(*    ApartInv     what the archive lists is nowhere in the run            *)
(*    TraceInv     the provenance of what is or may be archived            *)
(* and, when nothing is lost on the way,                                   *)
(*    ServerInv    deliveries in order on the server                       *)
(*    ShapeInv     the shape of a batch and of the archives                *)
(*    GapInv       no file is overtaken on its way into an archive         *)
(*    NewestInv    the newest delivery of a slot is the one it holds       *)
(* Beside it stands the end of a run: Judged, under which a run can always *)
(* take a step of its own, and the number of steps it has left.            *)
(***************************************************************************)
EXTENDS DailyJob, FiniteSetTheorems, WellFoundedInduction, TLAPS

USE DEF vars, durable, disk, database, download, work, local

LEMMA FilesAreNumbers == \A f \in Files : f \in Nat /\ DayOf[f] \in Nat /\ DayOf[f] \in Days
BY FilesAssumption, DayOfAssumption DEF Days

\* A set of files has at most one first file.
LEMMA FirstIsUnique ==
    ASSUME NEW S, S \subseteq Files, NEW f, NEW g, IsFirst(f, S), IsFirst(g, S)
    PROVE  f = g
BY FilesAreNumbers DEF IsFirst

-----------------------------------------------------------------------------
(* Types. TypeOK alone is not inductive: the log takes the outcome of the  *)
(* file being recorded, which must be one.                                 *)

OutcomeKnown == pc \in {"header", "log"} => outcome # "none"

TypeInv == TypeOK /\ OutcomeKnown

LEMMA InitTypeInv == Init => TypeInv
<1> SUFFICES ASSUME Init PROVE TypeInv
    OBVIOUS
<1>1. disturbed \in 0 .. MaxDisturbances
    BY DisturbancesAssumption DEF Init
<1>2. log \in [Files -> SUBSET {"ingested", "skipped", "failed"}]
    BY Zenon DEF Init
<1>3. store \in [Keys -> Files \cup {NoFile}]
    BY DEF Init
<1> QED
    BY <1>1, <1>2, <1>3 DEF Init, TypeInv, TypeOK, OutcomeKnown, Phases, NoDay

\* Ending a run leaves its local state well typed.
LEMMA EndRunTyped ==
    ASSUME EndRun
    PROVE  /\ pc' \in Phases /\ wanted' \subseteq Files /\ landed' \in BOOLEAN
           /\ queue' \subseteq Files /\ delivery' \in Days \cup {NoDay}
           /\ batch' \subseteq Files /\ headers' \subseteq Files
           /\ outcome' \in {"none", "ingested", "skipped", "failed"}
           /\ archivable' \subseteq Files /\ added' \subseteq Files
           /\ OutcomeKnown'
BY DEF EndRun, Phases, OutcomeKnown

\* A disturbance keeps the count within its bound.
LEMMA DisturbTyped ==
    ASSUME NEW kind, disturbed \in 0 .. MaxDisturbances, Disturb(kind)
    PROVE  disturbed' \in 0 .. MaxDisturbances
BY DisturbancesAssumption DEF Disturb

LEMMA TypeInvStep == TypeInv /\ [Next]_vars => TypeInv'
<1> SUFFICES ASSUME TypeInv, [Next]_vars PROVE TypeInv'
    OBVIOUS
<1>1. CASE StartJob
    BY <1>1 DEF StartJob, TypeInv, TypeOK, OutcomeKnown, Phases
<1>2. CASE StartStandalone
    BY <1>2, DisturbTyped DEF StartStandalone, TypeInv, TypeOK, OutcomeKnown,
       Phases
<1>3. CASE QuarantineDone
    BY <1>3 DEF QuarantineDone, TypeInv, TypeOK, OutcomeKnown, Phases
<1>4. CASE BeginDownload
    BY <1>4 DEF BeginDownload, Wanted, TypeInv, TypeOK, OutcomeKnown, Phases
<1>5. CASE ConnectFails
    BY <1>5, DisturbTyped, EndRunTyped DEF ConnectFails, TypeInv, TypeOK,
       OutcomeKnown, Phases
<1>6. CASE ConnectionLost
    BY <1>6, DisturbTyped DEF ConnectionLost, TypeInv, TypeOK, OutcomeKnown,
       Phases
<1>7. CASE DownloadDone
    BY <1>7 DEF DownloadDone, TypeInv, TypeOK, OutcomeKnown, Phases
<1>8. CASE NothingNew
    BY <1>8, EndRunTyped DEF NothingNew, TypeInv, TypeOK, OutcomeKnown,
       Phases
<1>9. CASE DeclarationRejected
    BY <1>9, DisturbTyped, EndRunTyped DEF DeclarationRejected, TypeInv,
       TypeOK, OutcomeKnown, Phases
<1>10. CASE LoadBatches
    BY <1>10 DEF LoadBatches, Present, TypeInv, TypeOK, OutcomeKnown, Phases
<1>11. CASE StartBatch
    BY <1>11, FilesAreNumbers DEF StartBatch, EarliestBatch, Readable,
       TypeInv, TypeOK, OutcomeKnown, Phases
<1>12. CASE BatchesDone
    BY <1>12, EndRunTyped DEF BatchesDone, TypeInv, TypeOK, OutcomeKnown,
       Phases
<1>13. CASE FilesDone
    BY <1>13 DEF FilesDone, TypeInv, TypeOK, OutcomeKnown, Phases
<1>14. CASE ArchiveBatch
    BY <1>14 DEF ArchiveBatch, Archivable, AddToZip, Present, TypeInv,
       TypeOK, OutcomeKnown, Phases
<1>15. CASE ArchiveRefused
    BY <1>15 DEF ArchiveRefused, TypeInv, TypeOK, OutcomeKnown, Phases
<1>16. CASE ArchiveInterrupted
    BY <1>16, DisturbTyped DEF ArchiveInterrupted, Archivable, AddToZip,
       Present, TypeInv, TypeOK, OutcomeKnown, Phases
<1>17. CASE ZipTorn
    BY <1>17, DisturbTyped, EndRunTyped DEF ZipTorn, TypeInv, TypeOK,
       OutcomeKnown, Phases
<1>18. CASE UnlinkDone
    BY <1>18 DEF UnlinkDone, TypeInv, TypeOK, OutcomeKnown, Phases
<1>19. CASE Crash
    BY <1>19, DisturbTyped, EndRunTyped DEF Crash, TypeInv, TypeOK,
       OutcomeKnown, Phases
<1>20. ASSUME NEW f \in Files, BeginUpload(f) PROVE TypeInv'
    BY <1>20, DisturbTyped DEF BeginUpload, TypeInv, TypeOK, OutcomeKnown,
       Phases
<1>21. ASSUME NEW f \in Files, FinishUpload(f) PROVE TypeInv'
    BY <1>21 DEF FinishUpload, TypeInv, TypeOK, OutcomeKnown, Phases
<1>22. ASSUME NEW f \in Files, QuarantineLeftover(f) PROVE TypeInv'
    BY <1>22 DEF QuarantineLeftover, TypeInv, TypeOK, OutcomeKnown, Phases
<1>23. ASSUME NEW f \in Files, Fetch(f) PROVE TypeInv'
    BY <1>23 DEF Fetch, TypeInv, TypeOK, OutcomeKnown, Phases
<1>24. ASSUME NEW f \in Files, FetchFails(f) PROVE TypeInv'
    BY <1>24, DisturbTyped DEF FetchFails, TypeInv, TypeOK, OutcomeKnown,
       Phases
<1>25. ASSUME NEW f \in Files, PassOver(f) PROVE TypeInv'
    BY <1>25 DEF PassOver, Current, TypeInv, TypeOK, OutcomeKnown, Phases
<1>26. ASSUME NEW f \in Files, Skip(f) PROVE TypeInv'
    BY <1>26 DEF Skip, Handled, Current, TypeInv, TypeOK, OutcomeKnown,
       Phases
<1>27. ASSUME NEW f \in Files, Reject(f) PROVE TypeInv'
    BY <1>27 DEF Reject, Handled, Current, TypeInv, TypeOK, OutcomeKnown,
       Phases
<1>28. ASSUME NEW f \in Files, Ingest(f) PROVE TypeInv'
    BY <1>28 DEF Ingest, Handled, Current, Write, TypeInv, TypeOK,
       OutcomeKnown, Phases
<1>29. ASSUME NEW f \in Files, WriteFails(f) PROVE TypeInv'
    BY <1>29, DisturbTyped DEF WriteFails, Handled, Current, TypeInv, TypeOK,
       OutcomeKnown, Phases
<1>30. ASSUME NEW f \in Files, AnswerLost(f) PROVE TypeInv'
    BY <1>30, DisturbTyped DEF AnswerLost, Handled, Current, Write, TypeInv,
       TypeOK, OutcomeKnown, Phases
<1>31. ASSUME NEW f \in Files, RecordHeader(f) PROVE TypeInv'
    BY <1>31, DisturbTyped DEF RecordHeader, TypeInv, TypeOK, OutcomeKnown,
       Phases
<1>32. ASSUME NEW f \in Files, RecordOutcome(f) PROVE TypeInv'
    BY <1>32, DisturbTyped DEF RecordOutcome, TypeInv, TypeOK, OutcomeKnown,
       Phases
<1>33. ASSUME NEW f \in Files, Unlink(f) PROVE TypeInv'
    BY <1>33 DEF Unlink, TypeInv, TypeOK, OutcomeKnown, Phases
<1>34. ASSUME NEW f \in Files, RemoveByHand(f) PROVE TypeInv'
    BY <1>34, DisturbTyped DEF RemoveByHand, TypeInv, TypeOK, OutcomeKnown,
       Phases
<1>36. CASE ReadingAborts
    BY <1>36, EndRunTyped DEF ReadingAborts, TypeInv, TypeOK, OutcomeKnown,
       Phases
<1>37. CASE UnlinkFails
    BY <1>37, DisturbTyped DEF UnlinkFails, TypeInv, TypeOK, OutcomeKnown,
       Phases
<1>35. CASE UNCHANGED vars
    BY <1>35 DEF TypeInv, TypeOK, OutcomeKnown, Phases
<1> QED
    BY <1>1, <1>2, <1>3, <1>4, <1>5, <1>6, <1>7, <1>8, <1>9, <1>10, <1>11,
       <1>12, <1>13, <1>14, <1>15, <1>16, <1>17, <1>18, <1>19, <1>20, <1>21,
       <1>22, <1>23, <1>24, <1>25, <1>26, <1>27, <1>28, <1>29, <1>30, <1>31,
       <1>32, <1>33, <1>34, <1>35, <1>36, <1>37
    DEF Next, Upload, JobStep, DisturbedStep

\* Every variable stays in its type: the phases, the outcomes and the bound
\* on disturbances of the job's model.
THEOREM TypeCorrect == Spec => []TypeOK
<1>1. Init => TypeInv
    BY InitTypeInv
<1>2. TypeInv /\ [Next]_vars => TypeInv'
    BY TypeInvStep
<1>3. TypeInv => TypeOK
    BY DEF TypeInv
<1> QED
    BY <1>1, <1>2, <1>3, PTL DEF Spec

-----------------------------------------------------------------------------
(* What reaches the archive and the log.                                   *)

WasHandled(f) == VerdictOf[f] = "skip" \/ f \in committed

\* archivable_files holds handled files only, also between two of its steps.
ArchivableHandled == \A f \in archivable : WasHandled(f)

\* The outcome about to be recorded is that of the batch's first file.
OutcomeTrue ==
    pc \in {"header", "log"} =>
        \A f \in Files : IsFirst(f, batch) =>
            /\ outcome = "ingested" => f \in committed
            /\ outcome = "skipped" => VerdictOf[f] = "skip"

HandledInv == /\ ArchivableHandled
              /\ OutcomeTrue
              /\ ArchivedOnlyIfHandled
              /\ LogIsTruthful

LEMMA HandledInvStep == TypeInv /\ HandledInv /\ [Next]_vars => HandledInv'
<1> SUFFICES ASSUME TypeInv, HandledInv, [Next]_vars PROVE HandledInv'
    OBVIOUS
<1>1. CASE StartJob
    BY <1>1 DEF StartJob, HandledInv, ArchivableHandled, OutcomeTrue,
       ArchivedOnlyIfHandled, LogIsTruthful, WasHandled
<1>2. CASE StartStandalone
    BY <1>2 DEF StartStandalone, HandledInv, ArchivableHandled, OutcomeTrue,
       ArchivedOnlyIfHandled, LogIsTruthful, WasHandled
<1>3. CASE QuarantineDone
    BY <1>3 DEF QuarantineDone, HandledInv, ArchivableHandled, OutcomeTrue,
       ArchivedOnlyIfHandled, LogIsTruthful, WasHandled
<1>4. CASE BeginDownload
    BY <1>4 DEF BeginDownload, Wanted, HandledInv, ArchivableHandled,
       OutcomeTrue, ArchivedOnlyIfHandled, LogIsTruthful, WasHandled
<1>5. CASE ConnectFails
    BY <1>5 DEF ConnectFails, EndRun, HandledInv, ArchivableHandled,
       OutcomeTrue, ArchivedOnlyIfHandled, LogIsTruthful, WasHandled
<1>6. CASE ConnectionLost
    BY <1>6 DEF ConnectionLost, HandledInv, ArchivableHandled, OutcomeTrue,
       ArchivedOnlyIfHandled, LogIsTruthful, WasHandled
<1>7. CASE DownloadDone
    BY <1>7 DEF DownloadDone, HandledInv, ArchivableHandled, OutcomeTrue,
       ArchivedOnlyIfHandled, LogIsTruthful, WasHandled
<1>8. CASE NothingNew
    BY <1>8 DEF NothingNew, EndRun, HandledInv, ArchivableHandled,
       OutcomeTrue, ArchivedOnlyIfHandled, LogIsTruthful, WasHandled
<1>9. CASE DeclarationRejected
    BY <1>9 DEF DeclarationRejected, EndRun, HandledInv, ArchivableHandled,
       OutcomeTrue, ArchivedOnlyIfHandled, LogIsTruthful, WasHandled
<1>10. CASE LoadBatches
    BY <1>10 DEF LoadBatches, Present, HandledInv, ArchivableHandled,
       OutcomeTrue, ArchivedOnlyIfHandled, LogIsTruthful, WasHandled
<1>11. CASE StartBatch
    BY <1>11 DEF StartBatch, EarliestBatch, Readable, HandledInv,
       ArchivableHandled, OutcomeTrue, ArchivedOnlyIfHandled, LogIsTruthful,
       WasHandled
<1>12. CASE BatchesDone
    BY <1>12 DEF BatchesDone, EndRun, HandledInv, ArchivableHandled,
       OutcomeTrue, ArchivedOnlyIfHandled, LogIsTruthful, WasHandled
<1>13. CASE FilesDone
    BY <1>13 DEF FilesDone, HandledInv, ArchivableHandled, OutcomeTrue,
       ArchivedOnlyIfHandled, LogIsTruthful, WasHandled
<1>14. CASE ArchiveBatch
    BY <1>14 DEF ArchiveBatch, Archivable, AddToZip, HandledInv,
       ArchivableHandled, OutcomeTrue, ArchivedOnlyIfHandled, LogIsTruthful,
       WasHandled
<1>15. CASE ArchiveRefused
    BY <1>15 DEF ArchiveRefused, HandledInv, ArchivableHandled, OutcomeTrue,
       ArchivedOnlyIfHandled, LogIsTruthful, WasHandled
<1>16. CASE ArchiveInterrupted
    BY <1>16 DEF ArchiveInterrupted, Archivable, AddToZip, HandledInv,
       ArchivableHandled, OutcomeTrue, ArchivedOnlyIfHandled, LogIsTruthful,
       WasHandled
<1>17. CASE ZipTorn
    BY <1>17 DEF ZipTorn, EndRun, HandledInv, ArchivableHandled, OutcomeTrue,
       ArchivedOnlyIfHandled, LogIsTruthful, WasHandled
<1>18. CASE UnlinkDone
    BY <1>18 DEF UnlinkDone, HandledInv, ArchivableHandled, OutcomeTrue,
       ArchivedOnlyIfHandled, LogIsTruthful, WasHandled
<1>19. CASE Crash
    BY <1>19 DEF Crash, EndRun, HandledInv, ArchivableHandled, OutcomeTrue,
       ArchivedOnlyIfHandled, LogIsTruthful, WasHandled
<1>20. ASSUME NEW f \in Files, BeginUpload(f) PROVE HandledInv'
    BY <1>20 DEF BeginUpload, HandledInv, ArchivableHandled, OutcomeTrue,
       ArchivedOnlyIfHandled, LogIsTruthful, WasHandled
<1>21. ASSUME NEW f \in Files, FinishUpload(f) PROVE HandledInv'
    BY <1>21 DEF FinishUpload, HandledInv, ArchivableHandled, OutcomeTrue,
       ArchivedOnlyIfHandled, LogIsTruthful, WasHandled
<1>22. ASSUME NEW f \in Files, QuarantineLeftover(f) PROVE HandledInv'
    BY <1>22 DEF QuarantineLeftover, HandledInv, ArchivableHandled,
       OutcomeTrue, ArchivedOnlyIfHandled, LogIsTruthful, WasHandled
<1>23. ASSUME NEW f \in Files, Fetch(f) PROVE HandledInv'
    BY <1>23 DEF Fetch, HandledInv, ArchivableHandled, OutcomeTrue,
       ArchivedOnlyIfHandled, LogIsTruthful, WasHandled
<1>24. ASSUME NEW f \in Files, FetchFails(f) PROVE HandledInv'
    BY <1>24 DEF FetchFails, HandledInv, ArchivableHandled, OutcomeTrue,
       ArchivedOnlyIfHandled, LogIsTruthful, WasHandled
<1>25. ASSUME NEW f \in Files, PassOver(f) PROVE HandledInv'
    BY <1>25 DEF PassOver, Current, HandledInv, ArchivableHandled,
       OutcomeTrue, ArchivedOnlyIfHandled, LogIsTruthful, WasHandled
<1>26. ASSUME NEW f \in Files, Skip(f) PROVE HandledInv'
    <2>1. batch \subseteq Files
        BY DEF TypeInv, TypeOK
    <2>2. \A g \in Files : IsFirst(g, batch) => g = f
        BY <1>26, <2>1, FirstIsUnique DEF Skip, Handled, Current
    <2> QED
        BY <1>26, <2>2 DEF Skip, Handled, Current, HandledInv, ArchivableHandled,
           OutcomeTrue, ArchivedOnlyIfHandled, LogIsTruthful, WasHandled,
           IsFirst
<1>27. ASSUME NEW f \in Files, Reject(f) PROVE HandledInv'
    <2>1. batch \subseteq Files
        BY DEF TypeInv, TypeOK
    <2>2. \A g \in Files : IsFirst(g, batch) => g = f
        BY <1>27, <2>1, FirstIsUnique DEF Reject, Handled, Current
    <2> QED
        BY <1>27, <2>2 DEF Reject, Handled, Current, HandledInv,
           ArchivableHandled, OutcomeTrue, ArchivedOnlyIfHandled,
           LogIsTruthful, WasHandled, IsFirst
<1>28. ASSUME NEW f \in Files, Ingest(f) PROVE HandledInv'
    <2>1. batch \subseteq Files
        BY DEF TypeInv, TypeOK
    <2>2. \A g \in Files : IsFirst(g, batch) => g = f
        BY <1>28, <2>1, FirstIsUnique DEF Ingest, Handled, Current
    <2> QED
        BY <1>28, <2>2 DEF Ingest, Handled, Current, Write, HandledInv,
           ArchivableHandled, OutcomeTrue, ArchivedOnlyIfHandled,
           LogIsTruthful, WasHandled, IsFirst
<1>29. ASSUME NEW f \in Files, WriteFails(f) PROVE HandledInv'
    <2>1. batch \subseteq Files
        BY DEF TypeInv, TypeOK
    <2>2. \A g \in Files : IsFirst(g, batch) => g = f
        BY <1>29, <2>1, FirstIsUnique DEF WriteFails, Handled, Current
    <2> QED
        BY <1>29, <2>2 DEF WriteFails, Handled, Current, HandledInv,
           ArchivableHandled, OutcomeTrue, ArchivedOnlyIfHandled,
           LogIsTruthful, WasHandled, IsFirst
<1>30. ASSUME NEW f \in Files, AnswerLost(f) PROVE HandledInv'
    <2>1. batch \subseteq Files
        BY DEF TypeInv, TypeOK
    <2>2. \A g \in Files : IsFirst(g, batch) => g = f
        BY <1>30, <2>1, FirstIsUnique DEF AnswerLost, Handled, Current
    <2> QED
        BY <1>30, <2>2 DEF AnswerLost, Handled, Current, Write, HandledInv,
           ArchivableHandled, OutcomeTrue, ArchivedOnlyIfHandled,
           LogIsTruthful, WasHandled, IsFirst
<1>31. ASSUME NEW f \in Files, RecordHeader(f) PROVE HandledInv'
    BY <1>31 DEF RecordHeader, HandledInv, ArchivableHandled, OutcomeTrue,
       ArchivedOnlyIfHandled, LogIsTruthful, WasHandled
<1>32. ASSUME NEW f \in Files, RecordOutcome(f) PROVE HandledInv'
    <2> USE <1>32 DEF RecordOutcome
    <2>1. outcome # "none" /\ f \in batch
        BY DEF TypeInv, OutcomeKnown, IsFirst
    <2>2. /\ outcome = "ingested" => f \in committed
          /\ outcome = "skipped" => VerdictOf[f] = "skip"
        BY DEF HandledInv, OutcomeTrue
    <2>3. ArchivableHandled'
        BY <2>1, <2>2 DEF HandledInv, ArchivableHandled, WasHandled,
           IsArchivable, TypeInv, TypeOK
    <2>4. OutcomeTrue'
        BY DEF OutcomeTrue
    <2>5. ArchivedOnlyIfHandled'
        BY DEF HandledInv, ArchivedOnlyIfHandled
    <2>6. LogIsTruthful'
        BY <2>2 DEF HandledInv, LogIsTruthful, TypeInv, TypeOK
    <2> QED
        BY <2>3, <2>4, <2>5, <2>6 DEF HandledInv
<1>33. ASSUME NEW f \in Files, Unlink(f) PROVE HandledInv'
    BY <1>33 DEF Unlink, HandledInv, ArchivableHandled, OutcomeTrue,
       ArchivedOnlyIfHandled, LogIsTruthful, WasHandled
<1>34. ASSUME NEW f \in Files, RemoveByHand(f) PROVE HandledInv'
    BY <1>34 DEF RemoveByHand, HandledInv, ArchivableHandled, OutcomeTrue,
       ArchivedOnlyIfHandled, LogIsTruthful, WasHandled
<1>36. CASE ReadingAborts
    BY <1>36 DEF ReadingAborts, EndRun, HandledInv, ArchivableHandled,
       OutcomeTrue, ArchivedOnlyIfHandled, LogIsTruthful, WasHandled
<1>37. CASE UnlinkFails
    BY <1>37 DEF UnlinkFails, HandledInv, ArchivableHandled, OutcomeTrue,
       ArchivedOnlyIfHandled, LogIsTruthful, WasHandled
<1>35. CASE UNCHANGED vars
    BY <1>35 DEF HandledInv, ArchivableHandled, OutcomeTrue,
       ArchivedOnlyIfHandled, LogIsTruthful, WasHandled
<1> QED
    BY <1>1, <1>2, <1>3, <1>4, <1>5, <1>6, <1>7, <1>8, <1>9, <1>10, <1>11,
       <1>12, <1>13, <1>14, <1>15, <1>16, <1>17, <1>18, <1>19, <1>20, <1>21,
       <1>22, <1>23, <1>24, <1>25, <1>26, <1>27, <1>28, <1>29, <1>30, <1>31,
       <1>32, <1>33, <1>34, <1>35, <1>36, <1>37
    DEF Next, Upload, JobStep, DisturbedStep

-----------------------------------------------------------------------------
(* The order of a run: before the batches nothing is queued, between two   *)
(* batches nothing is half done, and what waits in the queue is younger    *)
(* than the batch.                                                         *)

NothingQueued ==
    pc \in {"idle", "quarantine", "download", "fetch", "config"} =>
        queue = {} /\ batch = {} /\ archivable = {}

BatchFinished == pc \in {"batches", "archive", "unlink"} => batch = {}

QueueIsYounger == \A f \in batch, g \in queue : f < g

OrderInv == NothingQueued /\ BatchFinished /\ QueueIsYounger

LEMMA InitOrderInv == Init => OrderInv
BY DEF Init, OrderInv, NothingQueued, BatchFinished, QueueIsYounger

\* The earliest batch is older than what stays in the queue: files are
\* numbered in filename order, so an earlier day means a smaller number.
LEMMA EarliestIsOlder ==
    ASSUME queue \subseteq Files
    PROVE  \A f \in EarliestBatch, g \in queue \ EarliestBatch : f < g
<1> SUFFICES ASSUME NEW f \in EarliestBatch, NEW g \in queue \ EarliestBatch
             PROVE  f < g
    OBVIOUS
<1>1. /\ f \in Files /\ g \in Files
      /\ f \in Nat /\ g \in Nat
    BY FilesAreNumbers DEF EarliestBatch
<1>2. PICK h \in queue : ~(DayOf[g] =< DayOf[h])
    BY DEF EarliestBatch
<1>3. DayOf[f] =< DayOf[h]
    BY <1>2 DEF EarliestBatch
<1>4. ~(DayOf[g] =< DayOf[f])
    BY <1>1, <1>2, <1>3, FilesAreNumbers
<1> QED
    BY <1>1, <1>4, DayOfAssumption

LEMMA OrderInvStep == TypeInv /\ OrderInv /\ [Next]_vars => OrderInv'
<1> SUFFICES ASSUME TypeInv, OrderInv, [Next]_vars PROVE OrderInv'
    OBVIOUS
<1>1. CASE StartJob
    BY <1>1 DEF StartJob, OrderInv, NothingQueued, BatchFinished,
       QueueIsYounger
<1>2. CASE StartStandalone
    BY <1>2 DEF StartStandalone, OrderInv, NothingQueued, BatchFinished,
       QueueIsYounger
<1>3. CASE QuarantineDone
    BY <1>3 DEF QuarantineDone, OrderInv, NothingQueued, BatchFinished,
       QueueIsYounger
<1>4. CASE BeginDownload
    BY <1>4 DEF BeginDownload, Wanted, OrderInv, NothingQueued,
       BatchFinished, QueueIsYounger
<1>5. CASE ConnectFails
    BY <1>5 DEF ConnectFails, EndRun, OrderInv, NothingQueued, BatchFinished,
       QueueIsYounger
<1>6. CASE ConnectionLost
    BY <1>6 DEF ConnectionLost, OrderInv, NothingQueued, BatchFinished,
       QueueIsYounger
<1>7. CASE DownloadDone
    BY <1>7 DEF DownloadDone, OrderInv, NothingQueued, BatchFinished,
       QueueIsYounger
<1>8. CASE NothingNew
    BY <1>8 DEF NothingNew, EndRun, OrderInv, NothingQueued, BatchFinished,
       QueueIsYounger
<1>9. CASE DeclarationRejected
    BY <1>9 DEF DeclarationRejected, EndRun, OrderInv, NothingQueued,
       BatchFinished, QueueIsYounger
<1>10. CASE LoadBatches
    BY <1>10 DEF LoadBatches, Present, OrderInv, NothingQueued,
       BatchFinished, QueueIsYounger
<1>11. CASE StartBatch
    <2>1. queue \subseteq Files
        BY DEF TypeInv, TypeOK
    <2> QED
        BY <1>11, <2>1, EarliestIsOlder DEF StartBatch, OrderInv, NothingQueued,
           BatchFinished, QueueIsYounger
<1>12. CASE BatchesDone
    BY <1>12 DEF BatchesDone, EndRun, OrderInv, NothingQueued, BatchFinished,
       QueueIsYounger
<1>13. CASE FilesDone
    BY <1>13 DEF FilesDone, OrderInv, NothingQueued, BatchFinished,
       QueueIsYounger
<1>14. CASE ArchiveBatch
    BY <1>14 DEF ArchiveBatch, Archivable, AddToZip, OrderInv, NothingQueued,
       BatchFinished, QueueIsYounger
<1>15. CASE ArchiveRefused
    BY <1>15 DEF ArchiveRefused, OrderInv, NothingQueued, BatchFinished,
       QueueIsYounger
<1>16. CASE ArchiveInterrupted
    BY <1>16 DEF ArchiveInterrupted, Archivable, AddToZip, OrderInv,
       NothingQueued, BatchFinished, QueueIsYounger
<1>17. CASE ZipTorn
    BY <1>17 DEF ZipTorn, EndRun, OrderInv, NothingQueued, BatchFinished,
       QueueIsYounger
<1>18. CASE UnlinkDone
    BY <1>18 DEF UnlinkDone, OrderInv, NothingQueued, BatchFinished,
       QueueIsYounger
<1>19. CASE Crash
    BY <1>19 DEF Crash, EndRun, OrderInv, NothingQueued, BatchFinished,
       QueueIsYounger
<1>20. ASSUME NEW f \in Files, BeginUpload(f) PROVE OrderInv'
    BY <1>20 DEF BeginUpload, OrderInv, NothingQueued, BatchFinished,
       QueueIsYounger
<1>21. ASSUME NEW f \in Files, FinishUpload(f) PROVE OrderInv'
    BY <1>21 DEF FinishUpload, OrderInv, NothingQueued, BatchFinished,
       QueueIsYounger
<1>22. ASSUME NEW f \in Files, QuarantineLeftover(f) PROVE OrderInv'
    BY <1>22 DEF QuarantineLeftover, OrderInv, NothingQueued, BatchFinished,
       QueueIsYounger
<1>23. ASSUME NEW f \in Files, Fetch(f) PROVE OrderInv'
    BY <1>23 DEF Fetch, OrderInv, NothingQueued, BatchFinished,
       QueueIsYounger
<1>24. ASSUME NEW f \in Files, FetchFails(f) PROVE OrderInv'
    BY <1>24 DEF FetchFails, OrderInv, NothingQueued, BatchFinished,
       QueueIsYounger
<1>25. ASSUME NEW f \in Files, PassOver(f) PROVE OrderInv'
    BY <1>25 DEF PassOver, Current, OrderInv, NothingQueued, BatchFinished,
       QueueIsYounger
<1>26. ASSUME NEW f \in Files, Skip(f) PROVE OrderInv'
    BY <1>26 DEF Skip, Handled, Current, OrderInv, NothingQueued,
       BatchFinished, QueueIsYounger
<1>27. ASSUME NEW f \in Files, Reject(f) PROVE OrderInv'
    BY <1>27 DEF Reject, Handled, Current, OrderInv, NothingQueued,
       BatchFinished, QueueIsYounger
<1>28. ASSUME NEW f \in Files, Ingest(f) PROVE OrderInv'
    BY <1>28 DEF Ingest, Handled, Current, Write, OrderInv, NothingQueued,
       BatchFinished, QueueIsYounger
<1>29. ASSUME NEW f \in Files, WriteFails(f) PROVE OrderInv'
    BY <1>29 DEF WriteFails, Handled, Current, OrderInv, NothingQueued,
       BatchFinished, QueueIsYounger
<1>30. ASSUME NEW f \in Files, AnswerLost(f) PROVE OrderInv'
    BY <1>30 DEF AnswerLost, Handled, Current, Write, OrderInv,
       NothingQueued, BatchFinished, QueueIsYounger
<1>31. ASSUME NEW f \in Files, RecordHeader(f) PROVE OrderInv'
    BY <1>31 DEF RecordHeader, OrderInv, NothingQueued, BatchFinished,
       QueueIsYounger
<1>32. ASSUME NEW f \in Files, RecordOutcome(f) PROVE OrderInv'
    BY <1>32 DEF RecordOutcome, OrderInv, NothingQueued, BatchFinished,
       QueueIsYounger
<1>33. ASSUME NEW f \in Files, Unlink(f) PROVE OrderInv'
    BY <1>33 DEF Unlink, OrderInv, NothingQueued, BatchFinished,
       QueueIsYounger
<1>34. ASSUME NEW f \in Files, RemoveByHand(f) PROVE OrderInv'
    BY <1>34 DEF RemoveByHand, OrderInv, NothingQueued, BatchFinished,
       QueueIsYounger
<1>36. CASE ReadingAborts
    BY <1>36 DEF ReadingAborts, EndRun, OrderInv, NothingQueued, BatchFinished,
       QueueIsYounger
<1>37. CASE UnlinkFails
    BY <1>37 DEF UnlinkFails, OrderInv, NothingQueued, BatchFinished,
       QueueIsYounger
<1>35. CASE UNCHANGED vars
    BY <1>35 DEF OrderInv, NothingQueued, BatchFinished, QueueIsYounger
<1> QED
    BY <1>1, <1>2, <1>3, <1>4, <1>5, <1>6, <1>7, <1>8, <1>9, <1>10, <1>11,
       <1>12, <1>13, <1>14, <1>15, <1>16, <1>17, <1>18, <1>19, <1>20, <1>21,
       <1>22, <1>23, <1>24, <1>25, <1>26, <1>27, <1>28, <1>29, <1>30, <1>31,
       <1>32, <1>33, <1>34, <1>35, <1>36, <1>37
    DEF Next, Upload, JobStep, DisturbedStep

-----------------------------------------------------------------------------
(* What the archive lists is nowhere in a run: quarantine empties incoming/*)
(* first, and only what the archive does not list is downloaded. A         *)
(* standalone run, which does neither, is excluded.                        *)

SourcesApart ==
    pc \in {"download", "fetch", "config"} => Present \cap archive = {}

WantedApart == pc = "fetch" => wanted \cap archive = {}

QueueApart == (queue \cup batch) \cap (archive \cup archivable) = {}

UnlinksArchived == pc = "unlink" => added \subseteq archive

ApartInv == SourcesApart /\ WantedApart /\ QueueApart

LEMMA InitApartInv == Init => ApartInv
BY DEF Init, ApartInv, SourcesApart, WantedApart, QueueApart

LEMMA ApartInvStep ==
    ASSUME "standalone" \notin Disturbances
    PROVE  TypeInv /\ OrderInv /\ ApartInv /\ [Next]_vars => ApartInv'
<1> SUFFICES ASSUME TypeInv, OrderInv, ApartInv, [Next]_vars PROVE ApartInv'
    OBVIOUS
<1>1. CASE StartJob
    BY <1>1 DEF StartJob, ApartInv, SourcesApart, WantedApart, QueueApart
<1>2. CASE StartStandalone
    BY <1>2 DEF StartStandalone, ApartInv, SourcesApart, WantedApart,
       QueueApart, Disturb
<1>3. CASE QuarantineDone
    BY <1>3 DEF QuarantineDone, ApartInv, SourcesApart, WantedApart,
       QueueApart, Present
<1>4. CASE BeginDownload
    BY <1>4 DEF BeginDownload, Wanted, ApartInv, SourcesApart, WantedApart,
       QueueApart, Present
<1>5. CASE ConnectFails
    BY <1>5 DEF ConnectFails, EndRun, ApartInv, SourcesApart, WantedApart,
       QueueApart, Present
<1>6. CASE ConnectionLost
    BY <1>6 DEF ConnectionLost, ApartInv, SourcesApart, WantedApart,
       QueueApart, Present
<1>7. CASE DownloadDone
    BY <1>7 DEF DownloadDone, ApartInv, SourcesApart, WantedApart,
       QueueApart, Present
<1>8. CASE NothingNew
    BY <1>8 DEF NothingNew, EndRun, ApartInv, SourcesApart, WantedApart,
       QueueApart, Present
<1>9. CASE DeclarationRejected
    BY <1>9 DEF DeclarationRejected, EndRun, ApartInv, SourcesApart,
       WantedApart, QueueApart, Present
<1>10. CASE LoadBatches
    BY <1>10 DEF LoadBatches, Present, ApartInv, SourcesApart, WantedApart,
       QueueApart, OrderInv, NothingQueued
<1>11. CASE StartBatch
    BY <1>11 DEF StartBatch, EarliestBatch, Readable, ApartInv, SourcesApart,
       WantedApart, QueueApart, OrderInv, BatchFinished
<1>12. CASE BatchesDone
    BY <1>12 DEF BatchesDone, EndRun, ApartInv, SourcesApart, WantedApart,
       QueueApart, Present
<1>13. CASE FilesDone
    BY <1>13 DEF FilesDone, ApartInv, SourcesApart, WantedApart, QueueApart,
       Present
<1>14. CASE ArchiveBatch
    BY <1>14 DEF ArchiveBatch, Archivable, AddToZip, ApartInv, SourcesApart,
       WantedApart, QueueApart, OrderInv, BatchFinished
<1>15. CASE ArchiveRefused
    BY <1>15 DEF ArchiveRefused, ApartInv, SourcesApart, WantedApart,
       QueueApart, Present
<1>16. CASE ArchiveInterrupted
    BY <1>16 DEF ArchiveInterrupted, Archivable, AddToZip, ApartInv,
       SourcesApart, WantedApart, QueueApart, OrderInv, BatchFinished
<1>17. CASE ZipTorn
    BY <1>17 DEF ZipTorn, EndRun, ApartInv, SourcesApart, WantedApart,
       QueueApart, Present
<1>18. CASE UnlinkDone
    BY <1>18 DEF UnlinkDone, ApartInv, SourcesApart, WantedApart, QueueApart,
       Present
<1>19. CASE Crash
    BY <1>19 DEF Crash, EndRun, ApartInv, SourcesApart, WantedApart,
       QueueApart, Present
<1>20. ASSUME NEW f \in Files, BeginUpload(f) PROVE ApartInv'
    BY <1>20 DEF BeginUpload, ApartInv, SourcesApart, WantedApart,
       QueueApart, Present
<1>21. ASSUME NEW f \in Files, FinishUpload(f) PROVE ApartInv'
    BY <1>21 DEF FinishUpload, ApartInv, SourcesApart, WantedApart,
       QueueApart, Present
<1>22. ASSUME NEW f \in Files, QuarantineLeftover(f) PROVE ApartInv'
    <2>1. Present' \subseteq Present 
        BY <1>22 DEF QuarantineLeftover, Present, TypeInv, TypeOK
    <2> QED
        BY <1>22, <2>1 DEF QuarantineLeftover, ApartInv, SourcesApart, WantedApart, QueueApart
<1>23. ASSUME NEW f \in Files, Fetch(f) PROVE ApartInv'
    <2>1. Present' \subseteq Present \cup {f}
        BY <1>23 DEF Fetch, Present, TypeInv, TypeOK
    <2> QED
        BY <1>23, <2>1 DEF Fetch, ApartInv, SourcesApart, WantedApart, QueueApart
<1>24. ASSUME NEW f \in Files, FetchFails(f) PROVE ApartInv'
    BY <1>24 DEF FetchFails, ApartInv, SourcesApart, WantedApart, QueueApart,
       Present
<1>25. ASSUME NEW f \in Files, PassOver(f) PROVE ApartInv'
    BY <1>25 DEF PassOver, Current, ApartInv, SourcesApart, WantedApart,
       QueueApart, Present
<1>26. ASSUME NEW f \in Files, Skip(f) PROVE ApartInv'
    BY <1>26 DEF Skip, Handled, Current, ApartInv, SourcesApart, WantedApart,
       QueueApart, Present
<1>27. ASSUME NEW f \in Files, Reject(f) PROVE ApartInv'
    BY <1>27 DEF Reject, Handled, Current, ApartInv, SourcesApart,
       WantedApart, QueueApart, Present
<1>28. ASSUME NEW f \in Files, Ingest(f) PROVE ApartInv'
    BY <1>28 DEF Ingest, Handled, Current, Write, ApartInv, SourcesApart,
       WantedApart, QueueApart, Present
<1>29. ASSUME NEW f \in Files, WriteFails(f) PROVE ApartInv'
    BY <1>29 DEF WriteFails, Handled, Current, ApartInv, SourcesApart,
       WantedApart, QueueApart, Present
<1>30. ASSUME NEW f \in Files, AnswerLost(f) PROVE ApartInv'
    BY <1>30 DEF AnswerLost, Handled, Current, Write, ApartInv, SourcesApart,
       WantedApart, QueueApart, Present
<1>31. ASSUME NEW f \in Files, RecordHeader(f) PROVE ApartInv'
    BY <1>31 DEF RecordHeader, ApartInv, SourcesApart, WantedApart,
       QueueApart, Present
<1>32. ASSUME NEW f \in Files, RecordOutcome(f) PROVE ApartInv'
    BY <1>32, FilesAreNumbers DEF RecordOutcome, ApartInv, SourcesApart,
       WantedApart, QueueApart, OrderInv, QueueIsYounger, TypeInv, TypeOK,
       IsFirst
<1>33. ASSUME NEW f \in Files, Unlink(f) PROVE ApartInv'
    <2>1. Present' \subseteq Present 
        BY <1>33 DEF Unlink, Present, TypeInv, TypeOK
    <2> QED
        BY <1>33, <2>1 DEF Unlink, ApartInv, SourcesApart, WantedApart, QueueApart
<1>34. ASSUME NEW f \in Files, RemoveByHand(f) PROVE ApartInv'
    <2>1. Present' \subseteq Present 
        BY <1>34 DEF RemoveByHand, Present, TypeInv, TypeOK
    <2> QED
        BY <1>34, <2>1 DEF RemoveByHand, ApartInv, SourcesApart, WantedApart, QueueApart
<1>36. CASE ReadingAborts
    BY <1>36 DEF ReadingAborts, EndRun, ApartInv, SourcesApart, WantedApart,
       QueueApart, Present
<1>37. CASE UnlinkFails
    BY <1>37 DEF UnlinkFails, ApartInv, SourcesApart, WantedApart, QueueApart,
       Present
<1>35. CASE UNCHANGED vars
    BY <1>35 DEF ApartInv, SourcesApart, WantedApart, QueueApart, Present
<1> QED
    BY <1>1, <1>2, <1>3, <1>4, <1>5, <1>6, <1>7, <1>8, <1>9, <1>10, <1>11,
       <1>12, <1>13, <1>14, <1>15, <1>16, <1>17, <1>18, <1>19, <1>20, <1>21,
       <1>22, <1>23, <1>24, <1>25, <1>26, <1>27, <1>28, <1>29, <1>30, <1>31,
       <1>32, <1>33, <1>34, <1>35, <1>36, <1>37
    DEF Next, Upload, JobStep, DisturbedStep

LEMMA InitUnlinks == Init => UnlinksArchived
BY DEF Init, UnlinksArchived

LEMMA UnlinksStep == UnlinksArchived /\ [Next]_vars => UnlinksArchived'
<1> SUFFICES ASSUME UnlinksArchived, [Next]_vars PROVE UnlinksArchived'
    OBVIOUS
<1>1. CASE StartJob
    BY <1>1 DEF StartJob, UnlinksArchived
<1>2. CASE StartStandalone
    BY <1>2 DEF StartStandalone, UnlinksArchived
<1>3. CASE QuarantineDone
    BY <1>3 DEF QuarantineDone, UnlinksArchived
<1>4. CASE BeginDownload
    BY <1>4 DEF BeginDownload, Wanted, UnlinksArchived
<1>5. CASE ConnectFails
    BY <1>5 DEF ConnectFails, EndRun, UnlinksArchived
<1>6. CASE ConnectionLost
    BY <1>6 DEF ConnectionLost, UnlinksArchived
<1>7. CASE DownloadDone
    BY <1>7 DEF DownloadDone, UnlinksArchived
<1>8. CASE NothingNew
    BY <1>8 DEF NothingNew, EndRun, UnlinksArchived
<1>9. CASE DeclarationRejected
    BY <1>9 DEF DeclarationRejected, EndRun, UnlinksArchived
<1>10. CASE LoadBatches
    BY <1>10 DEF LoadBatches, Present, UnlinksArchived
<1>11. CASE StartBatch
    BY <1>11 DEF StartBatch, EarliestBatch, Readable, UnlinksArchived
<1>12. CASE BatchesDone
    BY <1>12 DEF BatchesDone, EndRun, UnlinksArchived
<1>13. CASE FilesDone
    BY <1>13 DEF FilesDone, UnlinksArchived
<1>14. CASE ArchiveBatch
    BY <1>14 DEF ArchiveBatch, Archivable, AddToZip, UnlinksArchived
<1>15. CASE ArchiveRefused
    BY <1>15 DEF ArchiveRefused, UnlinksArchived
<1>16. CASE ArchiveInterrupted
    BY <1>16 DEF ArchiveInterrupted, Archivable, AddToZip, UnlinksArchived
<1>17. CASE ZipTorn
    BY <1>17 DEF ZipTorn, EndRun, UnlinksArchived
<1>18. CASE UnlinkDone
    BY <1>18 DEF UnlinkDone, UnlinksArchived
<1>19. CASE Crash
    BY <1>19 DEF Crash, EndRun, UnlinksArchived
<1>20. ASSUME NEW f \in Files, BeginUpload(f) PROVE UnlinksArchived'
    BY <1>20 DEF BeginUpload, UnlinksArchived
<1>21. ASSUME NEW f \in Files, FinishUpload(f) PROVE UnlinksArchived'
    BY <1>21 DEF FinishUpload, UnlinksArchived
<1>22. ASSUME NEW f \in Files, QuarantineLeftover(f) PROVE UnlinksArchived'
    BY <1>22 DEF QuarantineLeftover, UnlinksArchived
<1>23. ASSUME NEW f \in Files, Fetch(f) PROVE UnlinksArchived'
    BY <1>23 DEF Fetch, UnlinksArchived
<1>24. ASSUME NEW f \in Files, FetchFails(f) PROVE UnlinksArchived'
    BY <1>24 DEF FetchFails, UnlinksArchived
<1>25. ASSUME NEW f \in Files, PassOver(f) PROVE UnlinksArchived'
    BY <1>25 DEF PassOver, Current, UnlinksArchived
<1>26. ASSUME NEW f \in Files, Skip(f) PROVE UnlinksArchived'
    BY <1>26 DEF Skip, Handled, Current, UnlinksArchived
<1>27. ASSUME NEW f \in Files, Reject(f) PROVE UnlinksArchived'
    BY <1>27 DEF Reject, Handled, Current, UnlinksArchived
<1>28. ASSUME NEW f \in Files, Ingest(f) PROVE UnlinksArchived'
    BY <1>28 DEF Ingest, Handled, Current, Write, UnlinksArchived
<1>29. ASSUME NEW f \in Files, WriteFails(f) PROVE UnlinksArchived'
    BY <1>29 DEF WriteFails, Handled, Current, UnlinksArchived
<1>30. ASSUME NEW f \in Files, AnswerLost(f) PROVE UnlinksArchived'
    BY <1>30 DEF AnswerLost, Handled, Current, Write, UnlinksArchived
<1>31. ASSUME NEW f \in Files, RecordHeader(f) PROVE UnlinksArchived'
    BY <1>31 DEF RecordHeader, UnlinksArchived
<1>32. ASSUME NEW f \in Files, RecordOutcome(f) PROVE UnlinksArchived'
    BY <1>32 DEF RecordOutcome, UnlinksArchived
<1>33. ASSUME NEW f \in Files, Unlink(f) PROVE UnlinksArchived'
    BY <1>33 DEF Unlink, UnlinksArchived
<1>34. ASSUME NEW f \in Files, RemoveByHand(f) PROVE UnlinksArchived'
    BY <1>34 DEF RemoveByHand, UnlinksArchived
<1>36. CASE ReadingAborts
    BY <1>36 DEF ReadingAborts, EndRun, UnlinksArchived
<1>37. CASE UnlinkFails
    BY <1>37 DEF UnlinkFails, UnlinksArchived
<1>35. CASE UNCHANGED vars
    BY <1>35 DEF UnlinksArchived
<1> QED
    BY <1>1, <1>2, <1>3, <1>4, <1>5, <1>6, <1>7, <1>8, <1>9, <1>10, <1>11,
       <1>12, <1>13, <1>14, <1>15, <1>16, <1>17, <1>18, <1>19, <1>20, <1>21,
       <1>22, <1>23, <1>24, <1>25, <1>26, <1>27, <1>28, <1>29, <1>30, <1>31,
       <1>32, <1>33, <1>34, <1>35, <1>36, <1>37
    DEF Next, Upload, JobStep, DisturbedStep

-----------------------------------------------------------------------------
(* The invariants hold in every behaviour.                                 *)

LEMMA InitHandledInv == Init => HandledInv
BY DEF Init, HandledInv, ArchivableHandled, OutcomeTrue,
       ArchivedOnlyIfHandled, LogIsTruthful

LEMMA AlwaysHandled == Spec => [](TypeInv /\ HandledInv)
<1>1. Init => TypeInv /\ HandledInv
    BY InitTypeInv, InitHandledInv
<1>2. TypeInv /\ HandledInv /\ [Next]_vars => (TypeInv /\ HandledInv)'
    BY TypeInvStep, HandledInvStep
<1> QED
    BY <1>1, <1>2, PTL DEF Spec

LEMMA AlwaysOrdered == Spec => [](TypeInv /\ OrderInv)
<1>1. Init => TypeInv /\ OrderInv
    BY InitTypeInv, InitOrderInv
<1>2. TypeInv /\ OrderInv /\ [Next]_vars => (TypeInv /\ OrderInv)'
    BY TypeInvStep, OrderInvStep
<1> QED
    BY <1>1, <1>2, PTL DEF Spec

LEMMA AlwaysApart ==
    ASSUME "standalone" \notin Disturbances
    PROVE  Spec => [](TypeInv /\ OrderInv /\ ApartInv)
<1>1. Init => ApartInv
    BY InitApartInv
<1>2. TypeInv /\ OrderInv /\ ApartInv /\ [Next]_vars => ApartInv'
    BY ApartInvStep
<1> QED
    BY <1>1, <1>2, AlwaysOrdered, PTL DEF Spec

-----------------------------------------------------------------------------
(* The theorems.                                                           *)

\* Whatever goes wrong, an archived file was skipped by design or committed
\* to the database: archiving proves that a file was handled.
THEOREM ArchivedWasHandled == Spec => []ArchivedOnlyIfHandled
<1>1. HandledInv => ArchivedOnlyIfHandled
    BY DEF HandledInv
<1> QED
    BY <1>1, AlwaysHandled, PTL

\* cel_ingest_log never claims an ingestion or a skip that did not happen.
THEOREM LogTruthful == Spec => []LogIsTruthful
<1>1. HandledInv => LogIsTruthful
    BY DEF HandledInv
<1> QED
    BY <1>1, AlwaysHandled, PTL

\* The three together: what the archive and the log say about files is true.
THEOREM ArchiveAndLogTrue == Spec => []ArchiveAndLogAreTrue
<1>1. TypeOK /\ ArchivedOnlyIfHandled /\ LogIsTruthful => ArchiveAndLogAreTrue
    BY DEF ArchiveAndLogAreTrue
<1> QED
    BY <1>1, TypeCorrect, ArchivedWasHandled, LogTruthful, PTL

\* Only the two writing actions change a slot, and to the file being written.
LEMMA OnlyWritesChangeSlots ==
    ASSUME [Next]_vars, NEW k \in Keys, store'[k] # store[k]
    PROVE  \E f \in Files : /\ Current(f) /\ store'[k] = f
                            /\ Ingest(f) \/ AnswerLost(f)
<1>1. PICK f \in Files : Ingest(f) \/ AnswerLost(f)
    <2>1. store' # store
        OBVIOUS
    <2> QED
        BY <2>1 DEF Next, Upload, JobStep, DisturbedStep, StartJob,
            StartStandalone, QuarantineDone, BeginDownload, ConnectFails,
            ConnectionLost, DownloadDone, NothingNew, DeclarationRejected,
            LoadBatches, StartBatch, ReadingAborts, BatchesDone, FilesDone,
            ArchiveBatch, ArchiveRefused, ArchiveInterrupted, ZipTorn,
            UnlinkFails, UnlinkDone,
            Crash, BeginUpload, FinishUpload, QuarantineLeftover, Fetch,
            FetchFails, PassOver, Skip, Reject, WriteFails, RecordHeader,
            RecordOutcome, Unlink, RemoveByHand, Handled, EndRun
<1>2. Current(f) /\ store'[k] = f
    BY <1>1 DEF Ingest, AnswerLost, Write, Handled
<1> QED
    BY <1>1, <1>2

\* Within one run, deliveries reach the database oldest first, whatever
\* fails, is deleted or is left out on the way.
THEOREM RunChronological == Spec => RunIsChronological
<1>1. ASSUME TypeInv, OrderInv, [Next]_vars PROVE WritesOldestFirst
    <2> SUFFICES ASSUME NEW k \in Keys, store'[k] # store[k],
                        NEW g \in queue \cup batch
                 PROVE  store'[k] =< g
        BY DEF WritesOldestFirst
    <2>1. PICK f \in Files : Current(f) /\ store'[k] = f
        BY <1>1, OnlyWritesChangeSlots
    <2>2. f \in Nat /\ g \in Nat
        BY <1>1, FilesAreNumbers DEF TypeInv, TypeOK
    <2>3. CASE g \in batch
        BY <2>1, <2>3 DEF Current, IsFirst
    <2>4. CASE g \in queue
        BY <1>1, <2>1, <2>2, <2>4
           DEF Current, IsFirst, OrderInv, QueueIsYounger
    <2> QED
        BY <2>3, <2>4
<1>2. TypeInv /\ OrderInv /\ [Next]_vars => [WritesOldestFirst]_vars
    BY <1>1
<1> QED
    BY <1>2, AlwaysOrdered, PTL DEF Spec, RunIsChronological

\* As long as nobody runs the standalone processor over the leftovers of a
\* crashed run, a file that an archive lists is not written again.
THEOREM ArchivedNotIngested ==
    ASSUME "standalone" \notin Disturbances
    PROVE  Spec => NeverIngestArchived
<1>1. ASSUME ApartInv, [Next]_vars PROVE WritesUnarchived
    <2> SUFFICES ASSUME NEW k \in Keys, store'[k] # store[k]
                 PROVE  store'[k] \notin archive
        BY DEF WritesUnarchived
    <2>1. PICK f \in Files : Current(f) /\ store'[k] = f
        BY <1>1, OnlyWritesChangeSlots
    <2> QED
        BY <1>1, <2>1 DEF Current, IsFirst, ApartInv, QueueApart
<1>2. ApartInv /\ [Next]_vars => [WritesUnarchived]_vars
    BY <1>1
<1> QED
    BY <1>2, AlwaysApart, PTL DEF Spec, NeverIngestArchived

\* As long as nobody deletes files by hand, the job never loses the only copy
\* of a file it downloaded.
THEOREM SourcesKept ==
    ASSUME "delete" \notin Disturbances
    PROVE  Spec => SourceKept
<1>1. ASSUME TypeInv, UnlinksArchived, [Next]_vars PROVE KeepsSources
    <2> SUFFICES ASSUME NEW f \in Files,
                        incoming[f] # "none", incoming'[f] = "none"
                 PROVE  f \in archive \/ f \in failed'
        BY DEF KeepsSources
    <2>1. PICK g \in Files : \/ QuarantineLeftover(g) \/ Fetch(g)
                             \/ Unlink(g) \/ RemoveByHand(g)
        <3>1. incoming' # incoming
            OBVIOUS
        <3> QED
            BY <1>1, <3>1 DEF Next, Upload, JobStep, DisturbedStep, StartJob,
            StartStandalone, QuarantineDone, BeginDownload, ConnectFails,
            ConnectionLost, DownloadDone, NothingNew, DeclarationRejected,
            LoadBatches, StartBatch, ReadingAborts, BatchesDone, FilesDone,
            ArchiveBatch, ArchiveRefused, ArchiveInterrupted, ZipTorn,
            UnlinkFails, UnlinkDone,
            Crash, BeginUpload, FinishUpload, FetchFails, PassOver, Skip,
            Reject, Ingest, WriteFails, AnswerLost, RecordHeader,
            RecordOutcome, Handled, EndRun
    <2>2. CASE QuarantineLeftover(g)
        BY <1>1, <2>2 DEF QuarantineLeftover, TypeInv, TypeOK
    <2>3. CASE Fetch(g)
        BY <1>1, <2>3 DEF Fetch, TypeInv, TypeOK
    <2>4. CASE Unlink(g)
        BY <1>1, <2>4 DEF Unlink, UnlinksArchived, IsFirst, TypeInv, TypeOK
    <2>5. CASE RemoveByHand(g)
        BY <2>5 DEF RemoveByHand, Disturb
    <2> QED
        BY <2>1, <2>2, <2>3, <2>4, <2>5
<1>2. TypeInv /\ UnlinksArchived /\ [Next]_vars => [KeepsSources]_vars
    BY <1>1
<1> QED
    BY <1>2, InitUnlinks, UnlinksStep, AlwaysHandled, PTL DEF Spec, SourceKept

-----------------------------------------------------------------------------
(* The job implements at-least-once delivery.                              *)

LEMMA StepImplements ==
    ASSUME "torn" \notin Disturbances,
           TypeInv, HandledInv, OrderInv, ApartInv, [Next]_vars
    PROVE  [Contract!Next]_(Contract!vars)
<1> USE DEF Contract!vars
<1>1. CASE UNCHANGED <<store, committed, archive>>
    BY <1>1
<1>2. ASSUME NEW f \in Files, Ingest(f) \/ AnswerLost(f)
      PROVE  Contract!Next
    <2>1. f \notin archive
        BY <1>2 DEF Ingest, AnswerLost, Handled, Current, IsFirst, ApartInv,
           QueueApart
    <2>2. Contract!Deliver(f)
        BY <1>2, <2>1 DEF Ingest, AnswerLost, Handled, Write, Contract!Deliver
    <2> QED
        BY <2>2 DEF Contract!Next
<1>3. ASSUME NEW S \in SUBSET Archivable, AddToZip(S),
             UNCHANGED <<store, committed>>
      PROVE  Contract!Next
    <2>1. S \in SUBSET Files
        BY DEF Archivable, Present
    <2>2. \A f \in S : VerdictOf[f] = "skip" \/ f \in committed
        BY DEF Archivable, HandledInv, ArchivableHandled, WasHandled
    <2>3. Contract!Settle(S)
        BY <1>3, <2>1, <2>2 DEF AddToZip, Contract!Settle
    <2> QED
        BY <2>1, <2>3 DEF Contract!Next
<1>4. CASE ArchiveBatch
    BY <1>3, <1>4 DEF ArchiveBatch
<1>5. CASE ArchiveInterrupted
    BY <1>1, <1>3, <1>5 DEF ArchiveInterrupted
<1>6. CASE ZipTorn
    BY <1>6 DEF ZipTorn, Disturb
<1>7. CASE ~(ArchiveBatch \/ ArchiveInterrupted \/ ZipTorn)
           /\ ~(\E f \in Files : Ingest(f) \/ AnswerLost(f))
    <2>1. UNCHANGED <<store, committed, archive>>
        BY <1>7 DEF Next, Upload, JobStep, DisturbedStep, StartJob,
            StartStandalone, QuarantineDone, BeginDownload, ConnectFails,
            ConnectionLost, DownloadDone, NothingNew, DeclarationRejected,
            LoadBatches, StartBatch, ReadingAborts, BatchesDone, FilesDone,
            ArchiveRefused, UnlinkFails, UnlinkDone, Crash, BeginUpload, FinishUpload,
            QuarantineLeftover, Fetch, FetchFails, PassOver, Skip, Reject,
            WriteFails, RecordHeader, RecordOutcome, Unlink, RemoveByHand,
            Handled, EndRun
    <2> QED
        BY <1>1, <2>1
<1> QED
    BY <1>2, <1>4, <1>5, <1>6, <1>7

\* Failed transfers and writes, lost answers, archive errors, crashes: the
\* job delivers every file whole and at least once before an archive lists it,
\* and never again after that. A torn zip and a standalone run are excluded.
THEOREM JobIsAtLeastOnce ==
    ASSUME "torn" \notin Disturbances, "standalone" \notin Disturbances
    PROVE  Spec => ImplementsAtLeastOnce
<1>1. Init => Contract!Init
    BY DEF Init, Contract!Init, NoFile
<1>2. TypeInv /\ HandledInv /\ OrderInv /\ ApartInv /\ [Next]_vars
      => [Contract!Next]_(Contract!vars)
    BY StepImplements
<1> QED
    BY <1>1, <1>2, AlwaysHandled, AlwaysApart, PTL
       DEF Spec, ImplementsAtLeastOnce, Contract!Spec

-----------------------------------------------------------------------------
(* The provenance of an archived file. Its header row is written before    *)
(* its log row, and both before it becomes archivable.                     *)

Traced(f) == f \in headerRows /\ log[f] \ {"failed"} # {}

HeaderBeforeLog ==
    pc = "log" => \A f \in Files : IsFirst(f, batch) => f \in headerRows

ArchivableTraced == \A f \in archivable : Traced(f)

TraceInv == ArchivedIsTraceable /\ ArchivableTraced /\ HeaderBeforeLog

LEMMA InitTraceInv == Init => TraceInv
BY DEF Init, TraceInv, ArchivedIsTraceable, ArchivableTraced, HeaderBeforeLog

\* What most steps do: the provenance stays, nothing becomes archivable or
\* archived, and the file whose outcome is being recorded stays the same.
KeepsProvenance ==
    /\ UNCHANGED <<headerRows, log>>
    /\ archive' \subseteq archive
    /\ archivable' \subseteq archivable
    /\ pc' # "log" \/ UNCHANGED <<pc, batch>>

LEMMA KeepsProvenanceKeepsTraceInv ==
    TraceInv /\ KeepsProvenance => TraceInv'
BY DEF TraceInv, KeepsProvenance, ArchivedIsTraceable, ArchivableTraced,
       HeaderBeforeLog, Traced

LEMMA TraceInvStep ==
    ASSUME "provenance" \notin Disturbances
    PROVE  TypeInv /\ TraceInv /\ [Next]_vars => TraceInv'
<1> SUFFICES ASSUME TypeInv, TraceInv, [Next]_vars PROVE TraceInv'
    OBVIOUS
<1>1. ASSUME NEW f \in Files, RecordHeader(f) PROVE TraceInv'
    <2>1. headerRows' = headerRows \cup {f}
        BY <1>1 DEF RecordHeader, Disturb
    <2>2. \A g \in Files : IsFirst(g, batch) => g = f
        BY <1>1, FirstIsUnique DEF RecordHeader, TypeInv, TypeOK
    <2> QED
        BY <1>1, <2>1, <2>2 DEF RecordHeader, TraceInv, ArchivedIsTraceable,
           ArchivableTraced, HeaderBeforeLog, Traced, IsFirst
<1>2. ASSUME NEW f \in Files, RecordOutcome(f) PROVE TraceInv'
    <2>1. log' = [log EXCEPT ![f] = @ \cup {outcome}]
        BY <1>2 DEF RecordOutcome, Disturb
    <2>2. /\ log'[f] = log[f] \cup {outcome}
          /\ \A g \in Files : log[g] \subseteq log'[g]
        BY <2>1 DEF TypeInv, TypeOK
    <2>3. f \in headerRows /\ headerRows' = headerRows
        BY <1>2 DEF RecordOutcome, TraceInv, HeaderBeforeLog
    <2>4. \A g \in Files : Traced(g) => Traced(g)'
        BY <2>2, <2>3 DEF Traced
    <2>5. ArchivedIsTraceable'
        BY <1>2, <2>4 DEF RecordOutcome, TraceInv, ArchivedIsTraceable,
           Traced, TypeInv, TypeOK
    <2>6. outcome # "failed" => Traced(f)'
        BY <2>2, <2>3 DEF Traced
    <2>7. ArchivableTraced'
        BY <1>2, <2>4, <2>6 DEF RecordOutcome, IsArchivable, TraceInv,
           ArchivableTraced, TypeInv, TypeOK
    <2> QED
        BY <1>2, <2>5, <2>7 DEF RecordOutcome, TraceInv, HeaderBeforeLog
<1>3. CASE ArchiveBatch
    BY <1>3 DEF ArchiveBatch, AddToZip, Archivable, TraceInv,
       ArchivedIsTraceable, ArchivableTraced, HeaderBeforeLog, Traced
<1>4. CASE ArchiveInterrupted
    BY <1>4 DEF ArchiveInterrupted, AddToZip, Archivable, TraceInv,
       ArchivedIsTraceable, ArchivableTraced, HeaderBeforeLog, Traced
<1>5. CASE ~(ArchiveBatch \/ ArchiveInterrupted)
           /\ ~(\E f \in Files : RecordHeader(f) \/ RecordOutcome(f))
    <2>1. KeepsProvenance
        BY <1>5 DEF KeepsProvenance, Next, Upload, JobStep, DisturbedStep,
            StartJob, StartStandalone, QuarantineDone, BeginDownload,
            ConnectFails, ConnectionLost, DownloadDone, NothingNew,
            DeclarationRejected, LoadBatches, StartBatch, ReadingAborts,
            BatchesDone, FilesDone, ArchiveRefused, ZipTorn, UnlinkFails,
            UnlinkDone, Crash,
            BeginUpload, FinishUpload, QuarantineLeftover, Fetch, FetchFails,
            PassOver, Skip, Reject, Ingest, WriteFails, AnswerLost, Unlink,
            RemoveByHand, Handled, Current, EndRun
    <2> QED
        BY <2>1, KeepsProvenanceKeepsTraceInv
<1> QED
    BY <1>1, <1>2, <1>3, <1>4, <1>5

\* As long as no provenance write fails, every archived file has its header
\* row and a log row of an outcome that is not a failure: "which files are
\* in?" is answered by the database as by the archive.
THEOREM ArchivedTraceable ==
    ASSUME "provenance" \notin Disturbances
    PROVE  Spec => []ArchivedIsTraceable
<1>1. TypeInv /\ TraceInv /\ [Next]_vars => TraceInv'
    BY TraceInvStep
<1>2. TraceInv => ArchivedIsTraceable
    BY DEF TraceInv
<1>3. Spec => []TypeInv
    BY InitTypeInv, TypeInvStep, PTL DEF Spec
<1> QED
    BY <1>1, <1>2, <1>3, InitTraceInv, PTL DEF Spec

-----------------------------------------------------------------------------
(* A run comes to its end. RunEnds says so with fairness; this is what it  *)
(* rests on: a run always has a step of its own, and its steps use up what *)
(* it has left, which nothing else adds to.                                *)

\* What the guards need: a header was only read of a file ingestion can judge,
\* and a file is being recorded.
Judged == /\ \A f \in headers : VerdictOf[f] \notin {"unreadable", "abort"}
          /\ pc \in {"header", "log"} => batch # {}

LEMMA JudgedStep ==
    ASSUME Judged, [Next]_vars
    PROVE  Judged'
<1> USE DEF Judged
<1>1. CASE StartBatch
    BY <1>1 DEF StartBatch, Readable, Aborts
<1>2. ASSUME NEW f \in Files, NEW v, Handled(f, v), Judged
      PROVE  batch' # {} /\ headers' = headers
    BY <1>2 DEF Handled, Current, IsFirst
<1>3. ASSUME NEW f \in Files, \/ Skip(f) \/ Reject(f) \/ Ingest(f)
                              \/ WriteFails(f) \/ AnswerLost(f)
      PROVE  Judged'
    BY <1>2, <1>3 DEF Skip, Reject, Ingest, WriteFails, AnswerLost
<1>4. ASSUME NEW f \in Files, RecordHeader(f)
      PROVE  Judged'
    BY <1>4 DEF RecordHeader, IsFirst
<1>5. ASSUME NEW f \in Files, RecordOutcome(f) \/ PassOver(f)
      PROVE  Judged'
    BY <1>5 DEF RecordOutcome, PassOver, Current
<1>6. CASE \/ ConnectFails \/ NothingNew \/ DeclarationRejected \/ BatchesDone
           \/ ReadingAborts \/ Crash
    BY <1>6 DEF ConnectFails, NothingNew, DeclarationRejected, BatchesDone,
       ReadingAborts, Crash, EndRun
<1>7. CASE ZipTorn
    BY <1>7 DEF ZipTorn, EndRun
<1>8. CASE \/ StartJob \/ StartStandalone \/ QuarantineDone \/ BeginDownload
           \/ DownloadDone \/ ConnectionLost \/ LoadBatches \/ FilesDone
    BY <1>8 DEF StartJob, StartStandalone, QuarantineDone, BeginDownload,
       DownloadDone, ConnectionLost, LoadBatches, FilesDone
<1>9. CASE \/ ArchiveBatch \/ ArchiveRefused \/ ArchiveInterrupted
           \/ UnlinkFails \/ UnlinkDone
    BY <1>9 DEF ArchiveBatch, ArchiveRefused, ArchiveInterrupted, UnlinkFails,
       UnlinkDone
<1>10. ASSUME NEW f \in Files,
              \/ BeginUpload(f) \/ FinishUpload(f) \/ QuarantineLeftover(f)
              \/ RemoveByHand(f) \/ Fetch(f) \/ FetchFails(f) \/ Unlink(f)
       PROVE  Judged'
    BY <1>10 DEF BeginUpload, FinishUpload, QuarantineLeftover, RemoveByHand,
       Fetch, FetchFails, Unlink
<1>11. CASE UNCHANGED vars
    BY <1>11
<1> QED
    BY <1>1, <1>3, <1>4, <1>5, <1>6, <1>7, <1>8, <1>9, <1>10, <1>11
    DEF Next, Upload, JobStep, DisturbedStep

\* A set of files has a first one, unless it is empty.
LEMMA FirstOf ==
    ASSUME NEW S \in SUBSET Files, S # {}
    PROVE  \E f \in Files : IsFirst(f, S)
<1> DEFINE R == OpToRel(<, Nat)
<1>1. IsWellFoundedOn(R, Nat)
    BY NatLessThanWellFounded
<1>2. S \in SUBSET Nat
    BY FilesAreNumbers
<1>3. PICK i \in S : \A j \in S : ~ (<<j, i>> \in R)
    BY <1>1, <1>2, WFMin, Zenon
<1>4. ASSUME NEW j \in S PROVE ~ (j < i)
    <2>1. <<j, i>> \in R <=> j < i
        BY <1>2 DEF OpToRel
    <2> HIDE DEF R
    <2> QED
        BY <1>3, <2>1, Zenon
<1> QED
    BY <1>2, <1>4 DEF IsFirst

\* The guards of JobStep, phase by phase.
CanProceed ==
    \/ pc = "quarantine" /\ (Present = {} \/ \E f \in Files : IsFirst(f, Present))
    \/ pc \in {"download", "config", "archive"}
    \/ pc = "fetch" /\ (wanted = {} \/ \E f \in Files : f \in wanted)
    \/ pc = "batches" /\ (queue = {} \/ EarliestBatch # {})
    \/ pc = "files" /\ \/ batch = {}
                       \/ \E f \in Files :
                            /\ IsFirst(f, batch)
                            /\ \/ incoming[f] = "none" \/ f \notin headers
                               \/ VerdictOf[f] \in {"store", "skip", "reject"}
    \/ pc \in {"header", "log"} /\ \E f \in Files : IsFirst(f, batch)
    \/ pc = "unlink" /\ (added = {} \/ \E f \in Files : IsFirst(f, added))

LEMMA ProceedsUntilIdle ==
    ASSUME TypeInv, Judged, pc # "idle"
    PROVE  CanProceed
<1> USE DEF TypeInv, TypeOK
<1>1. \A S \in SUBSET Files : S = {} \/ \E f \in Files : IsFirst(f, S)
    BY FirstOf
<1>2. Present \in SUBSET Files
    BY DEF Present
<1>3. queue = {} \/ EarliestBatch # {}
    <2>1. CASE queue # {}
        <3>1. PICK f \in Files : IsFirst(f, queue)
            BY <1>1, <2>1
        <3>2. f \in EarliestBatch
            BY <3>1, FilesAreNumbers, DayOfAssumption DEF IsFirst, EarliestBatch
        <3> QED
            BY <3>2
    <2> QED
        BY <2>1
<1>4. \A f \in headers : VerdictOf[f] \in {"store", "skip", "reject"}
    BY VerdictOfAssumption DEF Judged, Verdicts
<1>5. CASE pc \in {"files", "header", "log", "unlink"}
    <2>1. batch \in SUBSET Files /\ added \in SUBSET Files
        OBVIOUS
    <2> QED
        BY <1>1, <1>4, <1>5, <2>1 DEF Judged, CanProceed
<1>6. CASE pc \in {"quarantine", "download", "config", "archive", "fetch", "batches"}
    BY <1>1, <1>2, <1>3, <1>6 DEF CanProceed
<1> QED
    BY <1>5, <1>6 DEF Phases

\* What a run has left. A file of the queue costs eight steps at most: its
\* batch begins, it is handled and recorded, the batch is closed and archived,
\* and its source is unlinked.
Left ==
    CASE pc = "idle" -> 0
      [] pc = "quarantine" -> Cardinality(Present) + 9 * Cardinality(Files) + 5
      [] pc = "download" -> 9 * Cardinality(Files) + 4
      [] pc = "fetch" -> Cardinality(wanted) + 8 * Cardinality(Files) + 3
      [] pc = "config" -> 8 * Cardinality(Files) + 2
      [] pc = "batches" -> 8 * Cardinality(queue) + 1
      [] pc = "files" -> 8 * Cardinality(queue) + 4 * Cardinality(batch)
                         + Cardinality(archivable) + 4
      [] pc = "header" -> 8 * Cardinality(queue) + 4 * Cardinality(batch)
                          + Cardinality(archivable) + 3
      [] pc = "log" -> 8 * Cardinality(queue) + 4 * Cardinality(batch)
                       + Cardinality(archivable) + 2
      [] pc = "archive" -> 8 * Cardinality(queue) + Cardinality(archivable) + 3
      [] pc = "unlink" -> 8 * Cardinality(queue) + Cardinality(added) + 2

MaxLeft == 10 * Cardinality(Files) + 5

LEMMA SubsetSize ==
    ASSUME IsFiniteSet(Files), NEW S \in SUBSET Files
    PROVE  /\ IsFiniteSet(S) /\ Cardinality(S) \in Nat
           /\ Cardinality(S) =< Cardinality(Files) /\ Cardinality(Files) \in Nat
<1>1. IsFiniteSet(S) /\ Cardinality(S) =< Cardinality(Files)
    BY FS_Subset
<1> QED
    BY <1>1, FS_CardinalityType

LEMMA OneLess ==
    ASSUME IsFiniteSet(Files), NEW S \in SUBSET Files, NEW f \in S
    PROVE  Cardinality(S \ {f}) = Cardinality(S) - 1 /\ Cardinality(S) >= 1
<1>1. Cardinality(S \ {f}) = Cardinality(S) - 1
    BY SubsetSize, FS_RemoveElement
<1>2. Cardinality(S \ {f}) \in Nat /\ Cardinality(S) \in Nat
    BY SubsetSize
<1> QED
    BY <1>1, <1>2

LEMMA LeftIsTyped ==
    ASSUME IsFiniteSet(Files), TypeInv
    PROVE  Left \in Nat
<1>1. /\ Present \in SUBSET Files /\ wanted \in SUBSET Files /\ queue \in SUBSET Files
      /\ batch \in SUBSET Files /\ archivable \in SUBSET Files
      /\ added \in SUBSET Files /\ pc \in Phases
    BY DEF TypeInv, TypeOK, Present
<1>2. /\ Cardinality(Present) \in Nat /\ Cardinality(wanted) \in Nat
      /\ Cardinality(queue) \in Nat /\ Cardinality(batch) \in Nat
      /\ Cardinality(archivable) \in Nat /\ Cardinality(added) \in Nat
      /\ Cardinality(Files) \in Nat
    BY <1>1, SubsetSize
<1> QED
    BY <1>1, <1>2 DEF Left, Phases

LEMMA LeftStaysTyped ==
    ASSUME IsFiniteSet(Files), TypeInv'
    PROVE  Left' \in Nat
<1>1. /\ Present' \in SUBSET Files /\ wanted' \in SUBSET Files
      /\ queue' \in SUBSET Files /\ batch' \in SUBSET Files
      /\ archivable' \in SUBSET Files /\ added' \in SUBSET Files
      /\ pc' \in Phases
    BY DEF TypeInv, TypeOK, Present
<1>2. /\ Cardinality(Present') \in Nat /\ Cardinality(wanted') \in Nat
      /\ Cardinality(queue') \in Nat /\ Cardinality(batch') \in Nat
      /\ Cardinality(archivable') \in Nat /\ Cardinality(added') \in Nat
      /\ Cardinality(Files) \in Nat
    BY <1>1, SubsetSize
<1> QED
    BY <1>1, <1>2 DEF Left, Phases

\* Every step of a run uses up some of what the run has left, and nothing but
\* the start of a run adds to it.
CountsDown ==
    /\ JobStep => Left' < Left
    /\ Left' > Left => StartJob \/ StartStandalone

LEMMA SelectingCountsDown ==
    ASSUME IsFiniteSet(Files), TypeInv, TypeInv', NEW f \in Files,
           \/ QuarantineLeftover(f) \/ QuarantineDone \/ BeginDownload
           \/ Fetch(f) \/ FetchFails(f) \/ ConnectionLost \/ DownloadDone
           \/ LoadBatches
    PROVE  Left' < Left
<1>1. /\ Present \in SUBSET Files /\ Present' \in SUBSET Files
      /\ wanted \in SUBSET Files /\ wanted' \in SUBSET Files
      /\ queue' \in SUBSET Files
    BY DEF TypeInv, TypeOK, Present
<1>2. /\ Cardinality(Present) \in Nat /\ Cardinality(wanted) \in Nat
      /\ Cardinality(Files) \in Nat
      /\ Cardinality(wanted') \in 0 .. Cardinality(Files)
      /\ Cardinality(queue') \in 0 .. Cardinality(Files)
    BY <1>1, SubsetSize
<1>3. Cardinality({}) = 0
    BY FS_EmptySet
<1>4. CASE QuarantineLeftover(f)
    <2>1. Present' = Present \ {f} /\ f \in Present
        BY <1>4 DEF QuarantineLeftover, IsFirst, Present, TypeInv, TypeOK
    <2>2. Cardinality(Present') = Cardinality(Present) - 1
        BY <1>1, <2>1, OneLess
    <2> QED
        BY <1>2, <1>4, <2>2 DEF QuarantineLeftover, Left, local
<1>5. CASE QuarantineDone
    BY <1>2, <1>3, <1>5 DEF QuarantineDone, Left
<1>6. CASE BeginDownload
    BY <1>2, <1>6 DEF BeginDownload, Left
<1>7. CASE Fetch(f) \/ FetchFails(f)
    <2>1. wanted' = wanted \ {f} /\ f \in wanted /\ pc = "fetch" /\ pc' = "fetch"
        BY <1>7 DEF Fetch, FetchFails
    <2>2. Cardinality(wanted') = Cardinality(wanted) - 1
        BY <1>1, <2>1, OneLess
    <2> QED
        BY <1>2, <2>1, <2>2 DEF Left
<1>8. CASE ConnectionLost
    <2>1. PICK g \in wanted : TRUE
        BY <1>8 DEF ConnectionLost
    <2>2. Cardinality(wanted) >= 1
        BY <1>1, <2>1, OneLess
    <2> QED
        BY <1>2, <1>3, <1>8, <2>2 DEF ConnectionLost, Left
<1>9. CASE DownloadDone
    BY <1>2, <1>9 DEF DownloadDone, Left
<1>10. CASE LoadBatches
    BY <1>2, <1>10 DEF LoadBatches, Left
<1> QED
    BY <1>4, <1>5, <1>6, <1>7, <1>8, <1>9, <1>10

LEMMA ProcessingCountsDown ==
    ASSUME IsFiniteSet(Files), TypeInv, TypeInv', NEW f \in Files,
           \/ StartBatch \/ PassOver(f) \/ RecordHeader(f) \/ RecordOutcome(f)
           \/ (\E v \in Verdicts : Handled(f, v)) \/ FilesDone
    PROVE  Left' < Left
<1>1. /\ queue \in SUBSET Files /\ batch \in SUBSET Files
      /\ archivable \in SUBSET Files
    BY DEF TypeInv, TypeOK
<1>2. /\ Cardinality(queue) \in Nat /\ Cardinality(batch) \in Nat
      /\ Cardinality(archivable) \in Nat /\ IsFiniteSet(archivable)
      /\ IsFiniteSet(queue)
    BY <1>1, SubsetSize
<1>3. Cardinality({}) = 0
    BY FS_EmptySet
<1>4. CASE StartBatch
    <2>1. EarliestBatch \in SUBSET Files /\ EarliestBatch \subseteq queue
        BY <1>1 DEF EarliestBatch
    <2>2. PICK g \in EarliestBatch : TRUE
        BY <1>4 DEF StartBatch
    <2>3. Cardinality(EarliestBatch) \in Nat /\ Cardinality(EarliestBatch) >= 1
        BY <2>1, <2>2, SubsetSize, OneLess
    <2>4. Cardinality(queue \ EarliestBatch)
              = Cardinality(queue) - Cardinality(EarliestBatch)
        <3>1. queue \cap EarliestBatch = EarliestBatch
            BY <2>1
        <3>2. Cardinality(queue \ EarliestBatch)
                  = Cardinality(queue) - Cardinality(queue \cap EarliestBatch)
            BY <1>2, FS_Difference
        <3> QED
            BY <3>1, <3>2
    <2>5. /\ pc = "batches" /\ pc' = "files" /\ batch' = EarliestBatch
          /\ queue' = queue \ EarliestBatch /\ archivable' = {}
        BY <1>4 DEF StartBatch
    <2> QED
        BY <1>2, <1>3, <2>3, <2>4, <2>5 DEF Left
<1>5. CASE PassOver(f) \/ RecordOutcome(f)
    <2>1. batch' = batch \ {f} /\ f \in batch /\ queue' = queue
        BY <1>5 DEF PassOver, RecordOutcome, Current, IsFirst
    <2>2. Cardinality(batch') = Cardinality(batch) - 1
        BY <1>1, <2>1, OneLess
    <2>3. CASE PassOver(f)
        BY <1>2, <2>1, <2>2, <2>3 DEF PassOver, Current, Left
    <2>4. CASE RecordOutcome(f)
        <3>1. archivable' = archivable \/ archivable' = archivable \cup {f}
            BY <2>4 DEF RecordOutcome
        <3>2. /\ Cardinality(archivable') \in Nat
              /\ Cardinality(archivable') =< Cardinality(archivable) + 1
            <4>1. Cardinality(archivable \cup {f})
                      \in {Cardinality(archivable), Cardinality(archivable) + 1}
                BY <1>2, FS_AddElement
            <4> QED
                BY <1>2, <3>1, <4>1
        <3>3. pc = "log" /\ pc' = "files"
            BY <2>4 DEF RecordOutcome
        <3> QED
            BY <1>2, <2>1, <2>2, <3>2, <3>3 DEF Left
    <2> QED
        BY <1>5, <2>3, <2>4
<1>6. CASE RecordHeader(f)
    BY <1>2, <1>6 DEF RecordHeader, Left, work
<1>7. CASE \E v \in Verdicts : Handled(f, v)
    BY <1>2, <1>7 DEF Handled, Current, Left
<1>8. CASE FilesDone
    BY <1>2, <1>3, <1>8 DEF FilesDone, Left, work
<1> QED
    BY <1>4, <1>5, <1>6, <1>7, <1>8

LEMMA ArchivingCountsDown ==
    ASSUME IsFiniteSet(Files), TypeInv, TypeInv', NEW f \in Files,
           \/ ArchiveBatch \/ ArchiveRefused \/ ArchiveInterrupted
           \/ Unlink(f) \/ UnlinkFails \/ UnlinkDone
    PROVE  Left' < Left
<1>1. /\ queue \in SUBSET Files /\ archivable \in SUBSET Files
      /\ added \in SUBSET Files
    BY DEF TypeInv, TypeOK
<1>2. /\ Cardinality(queue) \in Nat /\ Cardinality(added) \in Nat
      /\ Cardinality(archivable) \in Nat /\ IsFiniteSet(archivable)
    BY <1>1, SubsetSize
<1>3. CASE ArchiveBatch
    <2>1. Archivable \subseteq archivable
        BY DEF Archivable
    <2>2. /\ Cardinality(Archivable) \in Nat
          /\ Cardinality(Archivable) =< Cardinality(archivable)
        BY <1>1, <1>2, <2>1, SubsetSize, FS_Subset
    <2>3. /\ pc = "archive" /\ pc' = "unlink" /\ queue' = queue
          /\ added' = Archivable
        BY <1>3 DEF ArchiveBatch
    <2> QED
        BY <1>2, <2>2, <2>3 DEF Left
<1>4. CASE ArchiveRefused \/ ArchiveInterrupted
    <2>1. pc = "archive" /\ pc' = "batches" /\ queue' = queue
        BY <1>4 DEF ArchiveRefused, ArchiveInterrupted, work
    <2> QED
        BY <1>2, <2>1 DEF Left
<1>5. CASE Unlink(f)
    <2>1. /\ added' = added \ {f} /\ f \in added /\ queue' = queue
          /\ pc = "unlink" /\ pc' = "unlink"
        BY <1>5 DEF Unlink, IsFirst
    <2>2. Cardinality(added') = Cardinality(added) - 1
        BY <1>1, <2>1, OneLess
    <2> QED
        BY <1>2, <2>1, <2>2 DEF Left
<1>6. CASE UnlinkDone
    BY <1>2, <1>6 DEF UnlinkDone, Left, work
<1>7. CASE UnlinkFails
    BY <1>2, <1>7 DEF UnlinkFails, Left
<1> QED
    BY <1>3, <1>4, <1>5, <1>6, <1>7

\* A run that stops leaves nothing, and had something left.
LEMMA StoppingCountsDown ==
    ASSUME IsFiniteSet(Files), TypeInv, pc # "idle", pc' = "idle"
    PROVE  Left' < Left
<1>1. /\ Present \in SUBSET Files /\ wanted \in SUBSET Files /\ queue \in SUBSET Files
      /\ batch \in SUBSET Files /\ archivable \in SUBSET Files
      /\ added \in SUBSET Files /\ pc \in Phases
    BY DEF TypeInv, TypeOK, Present
<1>2. /\ Cardinality(Present) \in Nat /\ Cardinality(wanted) \in Nat
      /\ Cardinality(queue) \in Nat /\ Cardinality(batch) \in Nat
      /\ Cardinality(archivable) \in Nat /\ Cardinality(added) \in Nat
      /\ Cardinality(Files) \in Nat
    BY <1>1, SubsetSize
<1>3. Left > 0
    BY <1>1, <1>2 DEF Left, Phases
<1>4. Left' = 0
    BY DEF Left
<1> QED
    BY <1>3, <1>4

LEMMA StepsCountDown ==
    ASSUME IsFiniteSet(Files), TypeInv, TypeInv', [Next]_vars
    PROVE  /\ CountsDown
           /\ Left' > Left => Left' =< MaxLeft
<1>1. Left \in Nat /\ Left' \in Nat
    BY LeftIsTyped, LeftStaysTyped
<1>2. JobStep => Left' < Left
    <2>1. ASSUME JobStep
          PROVE  \/ pc # "idle" /\ pc' = "idle"
                 \/ QuarantineDone \/ BeginDownload \/ DownloadDone
                 \/ LoadBatches \/ StartBatch \/ FilesDone \/ ArchiveBatch
                 \/ ArchiveRefused \/ UnlinkDone
                 \/ \E f \in Files :
                      \/ QuarantineLeftover(f) \/ Fetch(f) \/ PassOver(f)
                      \/ (\E v \in Verdicts : Handled(f, v))
                      \/ RecordHeader(f) \/ RecordOutcome(f) \/ Unlink(f)
        BY <2>1 DEF JobStep, NothingNew, ReadingAborts, BatchesDone, EndRun, Skip,
           Reject, Ingest, Verdicts
    <2>2. ASSUME Files = {}
          PROVE  JobStep => Left' < Left
        <3>1. Cardinality({}) = 0
            BY FS_EmptySet
        <3>2. /\ Present = {} /\ wanted = {} /\ queue = {} /\ batch = {}
              /\ archivable = {} /\ added = {} /\ wanted' = {} /\ queue' = {}
              /\ batch' = {} /\ archivable' = {} /\ added' = {}
            BY <2>2 DEF TypeInv, TypeOK, Present
        <3> QED
            BY <2>2, <3>1, <3>2
            DEF Left, JobStep, QuarantineDone, BeginDownload, DownloadDone,
                NothingNew, LoadBatches, StartBatch, ReadingAborts, BatchesDone,
                FilesDone, ArchiveBatch, ArchiveRefused, UnlinkDone, EndRun
    <2>3. ASSUME JobStep, Files # {}
          PROVE  Left' < Left
        <3>1. PICK g \in Files : TRUE
            BY <2>3
        <3> QED
            BY <2>1, <2>3, <3>1, SelectingCountsDown, ProcessingCountsDown,
               ArchivingCountsDown, StoppingCountsDown
    <2> QED
        BY <2>2, <2>3
<1>3. CASE DisturbedStep
    <2>1. CASE ConnectionLost
        <3>1. PICK g \in wanted : TRUE
            BY <2>1 DEF ConnectionLost
        <3>2. g \in Files
            BY <3>1 DEF TypeInv, TypeOK
        <3>3. Left' < Left
            BY <2>1, <3>2, SelectingCountsDown
        <3> QED
            BY <1>1, <1>2, <3>3 DEF CountsDown
    <2>2. CASE ArchiveInterrupted
        <3>1. Left' < Left
            <4>1. queue \in SUBSET Files /\ archivable \in SUBSET Files
                BY DEF TypeInv, TypeOK
            <4>2. Cardinality(queue) \in Nat /\ Cardinality(archivable) \in Nat
                BY <4>1, SubsetSize
            <4> QED
                BY <2>2, <4>2 DEF ArchiveInterrupted, Left, work
        <3> QED
            BY <1>1, <1>2, <3>1 DEF CountsDown
    <2>3. CASE ConnectFails \/ DeclarationRejected \/ Crash
        <3>1. pc # "idle" /\ pc' = "idle"
            BY <2>3 DEF ConnectFails, DeclarationRejected, Crash, EndRun
        <3> QED
            BY <1>1, <1>2, <3>1, StoppingCountsDown DEF CountsDown
    <2>4. CASE ZipTorn
        <3>1. queue \in SUBSET Files /\ archivable \in SUBSET Files
            BY DEF TypeInv, TypeOK
        <3>2. Cardinality(queue) \in Nat /\ Cardinality(archivable) \in Nat
            BY <3>1, SubsetSize
        <3>3. pc = "archive" /\ (pc' = "idle" \/ (pc' = "batches" /\ queue' = queue))
            BY <2>4 DEF ZipTorn, EndRun, work
        <3>4. Left' < Left
            BY <3>2, <3>3 DEF Left
        <3> QED
            BY <1>1, <1>2, <3>4 DEF CountsDown
    <2>5. ASSUME NEW f \in Files, FetchFails(f) \/ WriteFails(f) \/ AnswerLost(f)
          PROVE  Left' < Left
        <3>1. FetchFails(f) \/ (\E v \in Verdicts : Handled(f, v))
            BY <2>5 DEF WriteFails, AnswerLost, Verdicts
        <3> QED
            BY <3>1, SelectingCountsDown, ProcessingCountsDown
    <2>6. ASSUME NEW f \in Files, RemoveByHand(f)
          PROVE  Left' = Left
        BY <2>6 DEF RemoveByHand, Left, local, download, work
    <2>7. CASE UnlinkFails
        <3>1. PICK g \in added : TRUE
            BY <2>7 DEF UnlinkFails
        <3>2. g \in Files
            BY <3>1 DEF TypeInv, TypeOK
        <3>3. Left' < Left
            BY <2>7, <3>2, ArchivingCountsDown
        <3> QED
            BY <1>1, <1>2, <3>3 DEF CountsDown
    <2> QED
        BY <1>1, <1>2, <1>3, <2>1, <2>2, <2>3, <2>4, <2>5, <2>6, <2>7
        DEF DisturbedStep, CountsDown
<1>4. CASE StartJob
    <2>1. Left' = Cardinality(Present') + 9 * Cardinality(Files) + 5
        BY <1>4 DEF StartJob, Left
    <2>2. Present' \in SUBSET Files
        BY DEF Present
    <2>3. Cardinality(Present') \in 0 .. Cardinality(Files) /\ Cardinality(Files) \in Nat
        BY <2>2, SubsetSize
    <2>4. Left' =< MaxLeft
        BY <2>1, <2>3 DEF MaxLeft
    <2> QED
        BY <1>2, <1>4, <2>4 DEF CountsDown
<1>5. CASE StartStandalone
    <2>1. Left' = 8 * Cardinality(Files) + 2
        BY <1>5 DEF StartStandalone, Left
    <2>2. Cardinality(Files) \in Nat
        BY FS_CardinalityType
    <2>3. Left' =< MaxLeft
        BY <2>1, <2>2 DEF MaxLeft
    <2> QED
        BY <1>2, <1>5, <2>3 DEF CountsDown
<1>6. CASE Upload
    <2>1. UNCHANGED <<disk, local>>
        BY <1>6 DEF Upload, BeginUpload, FinishUpload
    <2>2. Left' = Left
        BY <2>1 DEF Left, Present, disk, local, download, work
    <2> QED
        BY <1>1, <1>2, <2>2 DEF CountsDown
<1>7. CASE UNCHANGED vars
    <2>1. Left' = Left
        BY <1>7 DEF Left, Present, vars, durable, disk, local, download, work
    <2> QED
        BY <1>1, <1>2, <2>1 DEF CountsDown
<1>8. CASE JobStep
    BY <1>1, <1>2, <1>8 DEF CountsDown
<1> QED
    BY <1>3, <1>4, <1>5, <1>6, <1>7, <1>8 DEF Next

\* No run of the daily job can go on for ever, whatever disturbs it: a
\* run that has not ended can always take a step of its own, it starts with at
\* most ten steps per file and five more, every step of its own uses up at
\* least one of them, and neither an upload nor a disturbance gives any back.
\* It is what RunEnds rests on, without the fairness.
THEOREM JobRunsOut ==
    ASSUME IsFiniteSet(Files)
    PROVE  Spec => /\ [](pc # "idle" => CanProceed)
                   /\ [](Left \in 0 .. MaxLeft)
                   /\ [][CountsDown]_vars
<1>1. Init => Judged
    BY DEF Init, Judged
<1>2. TypeInv /\ Judged => (pc # "idle" => CanProceed)
    BY ProceedsUntilIdle
<1>3. Init => Left \in 0 .. MaxLeft
    <2>1. Cardinality(Files) \in Nat
        BY FS_CardinalityType
    <2> QED
        BY <2>1 DEF Init, Left, MaxLeft
<1>4. TypeInv /\ TypeInv' /\ Left \in 0 .. MaxLeft /\ [Next]_vars
          => (Left \in 0 .. MaxLeft)'
    <2> SUFFICES ASSUME TypeInv, TypeInv', Left \in 0 .. MaxLeft, [Next]_vars
                 PROVE  Left' \in 0 .. MaxLeft'
        OBVIOUS
    <2>1. MaxLeft \in Nat /\ MaxLeft' = MaxLeft
        BY FS_CardinalityType DEF MaxLeft
    <2>2. Left' \in Nat
        BY LeftStaysTyped
    <2> QED
        BY <2>1, <2>2, StepsCountDown
<1>5. TypeInv /\ TypeInv' /\ [Next]_vars => [CountsDown]_vars
    BY StepsCountDown
<1> QED
    BY <1>1, <1>2, <1>3, <1>4, <1>5, InitTypeInv, TypeInvStep, JudgedStep, PTL DEF Spec

-----------------------------------------------------------------------------
(* The newest delivery wins when nothing is lost on the way: no transfer,  *)
(* write or archive fails, nobody deletes, overtakes or runs the processor *)
(* alone. A run may still fail to connect, be refused its declaration,     *)
(* lose provenance or crash, at any step. The day of the first delivery is *)
(* within the window of the first run: the floor of an empty archive is    *)
(* then no obstacle to any file.                                           *)

Calm == {"connect", "config", "provenance", "crash"}

CalmAssumption ==
    /\ Disturbances \subseteq Calm
    /\ \A f \in Files : DayOf[f] >= Epoch - Window

\* A run ends, with its memory; the disk and the database stay.
RunOver == EndRun /\ UNCHANGED durable

\* The steps that are left.
LEMMA CalmSteps ==
    ASSUME CalmAssumption, [Next]_vars
    PROVE  \/ StartJob \/ QuarantineDone \/ BeginDownload \/ DownloadDone
           \/ LoadBatches \/ StartBatch \/ FilesDone \/ ArchiveBatch
           \/ ArchiveRefused \/ UnlinkDone \/ RunOver
           \/ \E f \in Files :
                \/ BeginUpload(f) \/ FinishUpload(f) \/ QuarantineLeftover(f)
                \/ Fetch(f) \/ PassOver(f) \/ Skip(f) \/ Reject(f) \/ Ingest(f)
                \/ RecordHeader(f) \/ RecordOutcome(f) \/ Unlink(f)
           \/ UNCHANGED vars
<1>1. \A kind \in DisturbanceKinds \ Calm : ~Disturb(kind)
    BY DEF CalmAssumption, Disturb
<1>2. /\ ~StartStandalone /\ ~ConnectionLost /\ ~ArchiveInterrupted /\ ~ZipTorn
      /\ ~UnlinkFails
      /\ \A f \in Files : /\ ~FetchFails(f) /\ ~WriteFails(f)
                          /\ ~AnswerLost(f) /\ ~RemoveByHand(f)
    BY <1>1 DEF DisturbanceKinds, Calm, StartStandalone, ConnectionLost,
       ArchiveInterrupted, ZipTorn, UnlinkFails, FetchFails, WriteFails,
       AnswerLost, RemoveByHand
<1>3. \/ ConnectFails \/ DeclarationRejected \/ Crash \/ NothingNew
      \/ ReadingAborts \/ BatchesDone
      => RunOver
    BY DEF ConnectFails, DeclarationRejected, Crash, NothingNew, ReadingAborts,
       BatchesDone, RunOver
<1> QED
    BY <1>2, <1>3 DEF Next, Upload, JobStep, DisturbedStep

-----------------------------------------------------------------------------
(* What the server holds of a run's files.                                 *)

\* A file is complete on the server before the next one begins.
UploadsInOrder ==
    \A f, g \in Files : f < g /\ server[g] # "absent" => server[f] = "complete"

Running == queue \cup batch \cup archivable

\* Whatever a run holds was delivered.
Delivered ==
    \A f \in wanted \cup Present \cup Running : server[f] # "absent"

\* The download starts from an empty incoming/ and ends with nothing wanted.
DownloadBounds == /\ pc = "download" => Present = {}
                  /\ pc # "fetch" => wanted = {}

ServerInv == UploadsInOrder /\ Delivered /\ DownloadBounds

LEMMA InitServerInv == Init => ServerInv
BY DEF Init, ServerInv, UploadsInOrder, Delivered, DownloadBounds, Running,
   Present

LEMMA ServerInvStep ==
    ASSUME CalmAssumption
    PROVE  TypeInv /\ ServerInv /\ [Next]_vars => ServerInv'
<1> SUFFICES ASSUME TypeInv, ServerInv, [Next]_vars PROVE ServerInv'
    OBVIOUS
<1> USE DEF ServerInv, UploadsInOrder, Delivered, DownloadBounds, Running,
       Present, TypeInv, TypeOK
<1>1. CASE StartJob
    BY <1>1 DEF StartJob
<1>2. CASE QuarantineDone
    BY <1>2 DEF QuarantineDone
<1>3. CASE BeginDownload
    BY <1>3 DEF BeginDownload, Wanted
<1>4. CASE DownloadDone
    BY <1>4 DEF DownloadDone
<1>5. CASE LoadBatches
    BY <1>5 DEF LoadBatches
<1>6. CASE StartBatch
    BY <1>6 DEF StartBatch, EarliestBatch, Readable
<1>7. CASE FilesDone
    BY <1>7 DEF FilesDone
<1>8. CASE ArchiveBatch
    BY <1>8 DEF ArchiveBatch, Archivable, AddToZip
<1>9. CASE ArchiveRefused
    BY <1>9 DEF ArchiveRefused
<1>10. CASE UnlinkDone
    BY <1>10 DEF UnlinkDone
<1>11. CASE RunOver
    BY <1>11 DEF RunOver, EndRun
<1>12. ASSUME NEW f \in Files, BeginUpload(f) PROVE ServerInv'
    BY <1>12, FilesAreNumbers DEF BeginUpload, Disturb, CalmAssumption, Calm
<1>13. ASSUME NEW f \in Files, FinishUpload(f) PROVE ServerInv'
    BY <1>13 DEF FinishUpload
<1>14. ASSUME NEW f \in Files, QuarantineLeftover(f) PROVE ServerInv'
    BY <1>14 DEF QuarantineLeftover
<1>15. ASSUME NEW f \in Files, Fetch(f) PROVE ServerInv'
    BY <1>15 DEF Fetch
<1>16. ASSUME NEW f \in Files, PassOver(f) PROVE ServerInv'
    BY <1>16 DEF PassOver, Current
<1>17. ASSUME NEW f \in Files, Skip(f) PROVE ServerInv'
    BY <1>17 DEF Skip, Handled, Current
<1>18. ASSUME NEW f \in Files, Reject(f) PROVE ServerInv'
    BY <1>18 DEF Reject, Handled, Current
<1>19. ASSUME NEW f \in Files, Ingest(f) PROVE ServerInv'
    BY <1>19 DEF Ingest, Handled, Current, Write
<1>20. ASSUME NEW f \in Files, RecordHeader(f) PROVE ServerInv'
    BY <1>20 DEF RecordHeader
<1>21. ASSUME NEW f \in Files, RecordOutcome(f) PROVE ServerInv'
    BY <1>21 DEF RecordOutcome, IsFirst
<1>22. ASSUME NEW f \in Files, Unlink(f) PROVE ServerInv'
    BY <1>22 DEF Unlink
<1>23. CASE UNCHANGED vars
    BY <1>23
<1> QED
    BY <1>1, <1>2, <1>3, <1>4, <1>5, <1>6, <1>7, <1>8, <1>9, <1>10, <1>11,
       <1>12, <1>13, <1>14, <1>15, <1>16, <1>17, <1>18, <1>19, <1>20, <1>21,
       <1>22, <1>23, CalmSteps

-----------------------------------------------------------------------------
(* The shape of a batch and of the archives.                               *)

\* Ingestion has something to do with f, or decides to skip it.
Handles(f) == VerdictOf[f] \in {"store", "skip"}

\* What the run may archive comes before what it has not handled.
ArchivableIsOlder == \A f \in archivable, g \in batch \cup queue : f < g

BatchOfOneDay == \A f \in batch \cup archivable : DayOf[f] = delivery

ArchiveNotEmpty == pc = "archive" => archivable # {}

\* A source that may be archived is there until it is, and
ArchivablePresent ==
    \A f \in archivable : incoming[f] = "whole" \/ f \in archive

\* once the batch is processed, they all are archived.
ArchivedAfterwards == pc \in {"batches", "unlink"} => archivable \subseteq archive

\* The headers of the batch were read from whole copies, which are still there.
HeadersRead ==
    pc \in {"files", "header", "log"} =>
        \A f \in batch :
            /\ f \in headers => incoming[f] = "whole"
            /\ Handles(f) /\ incoming[f] = "whole" => f \in headers

HandledHasHeader ==
    pc \in {"header", "log"} =>
        \A f \in Files : IsFirst(f, batch) => f \in headers

\* With no write failing, a file that can be handled was when its outcome is
\* recorded.
OutcomeIsGood ==
    pc \in {"header", "log"} =>
        \A f \in Files : IsFirst(f, batch) /\ Handles(f)
                        => outcome \in {"ingested", "skipped"}

\* Every zip lists a file of its day, and one of them is the newest.
ZipsNotEmpty ==
    \A d \in Days : zip[d] # "absent" =>
        zip[d] = "sound" /\ \E f \in archive : DayOf[f] = d

ZipsHaveNewest ==
    ZipDays = {} \/ \E d \in ZipDays : \A e \in ZipDays : e =< d

ShapeInv == /\ ArchivableIsOlder /\ BatchOfOneDay /\ ArchiveNotEmpty
            /\ ArchivablePresent /\ ArchivedAfterwards
            /\ HeadersRead /\ HandledHasHeader /\ OutcomeIsGood
            /\ ZipsNotEmpty /\ ZipsHaveNewest

LEMMA InitShapeInv == Init => ShapeInv
BY DEF Init, ShapeInv, ArchivableIsOlder, BatchOfOneDay, ArchiveNotEmpty,
   ArchivablePresent, ArchivedAfterwards, HeadersRead, HandledHasHeader,
   OutcomeIsGood, ZipsNotEmpty, ZipsHaveNewest, ZipDays

LEMMA ShapeInvStep ==
    ASSUME CalmAssumption
    PROVE  /\ TypeInv /\ OrderInv /\ ApartInv /\ UnlinksArchived /\ ShapeInv
           /\ [Next]_vars
           => ShapeInv'
<1> SUFFICES ASSUME TypeInv, OrderInv, ApartInv, UnlinksArchived, ShapeInv,
                    [Next]_vars
             PROVE  ShapeInv'
    OBVIOUS
<1> USE DEF ShapeInv, ArchivableIsOlder, BatchOfOneDay, ArchiveNotEmpty,
       ArchivablePresent, ArchivedAfterwards, HeadersRead, HandledHasHeader,
       OutcomeIsGood, ZipsNotEmpty, ZipsHaveNewest, ZipDays, TypeInv,
       TypeOK
<1>1. CASE StartJob
    BY <1>1 DEF StartJob
<1>2. CASE QuarantineDone
    BY <1>2 DEF QuarantineDone
<1>3. CASE BeginDownload
    BY <1>3 DEF BeginDownload
<1>4. CASE DownloadDone
    BY <1>4 DEF DownloadDone
<1>5. CASE LoadBatches
    BY <1>5 DEF LoadBatches, OrderInv, NothingQueued, BatchFinished,
       QueueIsYounger
<1>6. CASE StartBatch
    BY <1>6, FilesAreNumbers DEF StartBatch, EarliestBatch, Readable, Handles,
       OrderInv, NothingQueued, BatchFinished, QueueIsYounger
<1>7. CASE FilesDone
    BY <1>7 DEF FilesDone
<1>8. CASE ArchiveBatch
    BY <1>8, FilesAreNumbers DEF ArchiveBatch, Archivable, AddToZip, Present,
       OrderInv, NothingQueued, BatchFinished, QueueIsYounger
<1>9. CASE ArchiveRefused
    <2>1. PICK f \in archivable : DayOf[f] = delivery
        BY <1>9 DEF ArchiveRefused
    <2>2. delivery \in Days
        BY <2>1, FilesAreNumbers
    <2>3. zip[delivery] = "sound"
        BY <1>9, <2>2 DEF ArchiveRefused
    <2> QED
        BY <1>9, <2>3 DEF ArchiveRefused
<1>10. CASE UnlinkDone
    BY <1>10 DEF UnlinkDone
<1>11. CASE RunOver
    BY <1>11 DEF RunOver, EndRun
<1>12. ASSUME NEW f \in Files, BeginUpload(f) PROVE ShapeInv'
    BY <1>12 DEF BeginUpload
<1>13. ASSUME NEW f \in Files, FinishUpload(f) PROVE ShapeInv'
    BY <1>13 DEF FinishUpload
<1>14. ASSUME NEW f \in Files, QuarantineLeftover(f) PROVE ShapeInv'
    BY <1>14 DEF QuarantineLeftover, OrderInv, NothingQueued, BatchFinished,
       QueueIsYounger
<1>15. ASSUME NEW f \in Files, Fetch(f) PROVE ShapeInv'
    BY <1>15 DEF Fetch, OrderInv, NothingQueued, BatchFinished,
       QueueIsYounger
<1>16. ASSUME NEW f \in Files, PassOver(f) PROVE ShapeInv'
    BY <1>16 DEF PassOver, Current
<1>17. ASSUME NEW f \in Files, Skip(f) PROVE ShapeInv'
    <2>1. \A g \in Files : IsFirst(g, batch) => g = f
        BY <1>17, FirstIsUnique DEF Skip, Handled, Current
    <2> QED
        BY <1>17, <2>1 DEF Skip, Handled, Current, Handles
<1>18. ASSUME NEW f \in Files, Reject(f) PROVE ShapeInv'
    <2>1. \A g \in Files : IsFirst(g, batch) => g = f
        BY <1>18, FirstIsUnique DEF Reject, Handled, Current
    <2> QED
        BY <1>18, <2>1 DEF Reject, Handled, Current, Handles
<1>19. ASSUME NEW f \in Files, Ingest(f) PROVE ShapeInv'
    <2>1. \A g \in Files : IsFirst(g, batch) => g = f
        BY <1>19, FirstIsUnique DEF Ingest, Handled, Current
    <2> QED
        BY <1>19, <2>1 DEF Ingest, Handled, Current, Write, Handles
<1>20. ASSUME NEW f \in Files, RecordHeader(f) PROVE ShapeInv'
    BY <1>20 DEF RecordHeader
<1>21. ASSUME NEW f \in Files, RecordOutcome(f) PROVE ShapeInv'
    BY <1>21, FilesAreNumbers DEF RecordOutcome, IsFirst, OrderInv,
       NothingQueued, BatchFinished, QueueIsYounger
<1>22. ASSUME NEW f \in Files, Unlink(f) PROVE ShapeInv'
    BY <1>22 DEF Unlink, UnlinksArchived, IsFirst, OrderInv, NothingQueued,
       BatchFinished, QueueIsYounger
<1>23. CASE UNCHANGED vars
    BY <1>23
<1> QED
    BY <1>1, <1>2, <1>3, <1>4, <1>5, <1>6, <1>7, <1>8, <1>9, <1>10, <1>11,
       <1>12, <1>13, <1>14, <1>15, <1>16, <1>17, <1>18, <1>19, <1>20, <1>21,
       <1>22, <1>23, CalmSteps

-----------------------------------------------------------------------------
(* No gap: a file is not overtaken on its way into an archive. This is the *)
(* heart of the argument, one statement for each stage of the way.         *)

\* No file that can be handled is missing behind an archived one,
NoGap ==
    \A f \in archive, h \in Files : h < f /\ Handles(h) => h \in archive

\* nor behind one that the run downloads or has downloaded,
NoGapInDownload ==
    pc \in {"fetch", "config"} =>
        \A f \in wanted \cup Present, h \in Files :
            h < f /\ Handles(h)
            => h \in archive \cup wanted \/ incoming[h] = "whole"

\* nor behind one that it processes.
NoGapInRun ==
    \A f \in Running, h \in Files :
        h < f /\ Handles(h)
        => h \in archive \/ (h \in Running /\ incoming[h] = "whole")

GapInv == NoGap /\ NoGapInDownload /\ NoGapInRun

LEMMA InitGapInv == Init => GapInv
BY DEF Init, GapInv, NoGap, NoGapInDownload, NoGapInRun, Running

\* The floor keeps no file out that is not in an archive already: a zip of a
\* later day lists a later file, and there is no gap behind that one.
LEMMA FloorHidesNothing ==
    ASSUME CalmAssumption, TypeInv, ShapeInv, NoGap,
           NEW h \in Files, Handles(h), DayOf[h] < Floor
    PROVE  h \in archive
<1>1. DayOf[h] \in Nat /\ h \in Nat
    BY FilesAreNumbers
<1>2. ZipDays # {}
    BY <1>1, WindowAssumption DEF CalmAssumption, Floor, LastArchivedDate
<1>3. /\ LastArchivedDate \in ZipDays
      /\ \A e \in ZipDays : e =< LastArchivedDate
    BY <1>2 DEF ShapeInv, ZipsHaveNewest, LastArchivedDate
<1>4. PICK f \in archive : DayOf[f] = LastArchivedDate
    BY <1>3 DEF ZipDays, ShapeInv, ZipsNotEmpty
<1>5. f \in Files /\ f \in Nat /\ DayOf[f] \in Nat
    BY FilesAreNumbers DEF TypeInv, TypeOK
<1>6. DayOf[h] < DayOf[f]
    BY <1>1, <1>4, <1>5, WindowAssumption DEF Floor
<1>7. h < f
    BY <1>1, <1>5, <1>6, DayOfAssumption
<1> QED
    BY <1>5, <1>7 DEF NoGap

LEMMA FloorIsInt ==
    ASSUME ZipsHaveNewest
    PROVE  Floor \in Int
<1>1. ZipDays \subseteq Nat
    BY FilesAreNumbers DEF ZipDays, Days
<1>2. LastArchivedDate \in Nat
    BY <1>1, WindowAssumption DEF ZipsHaveNewest, LastArchivedDate
<1> QED
    BY <1>2, WindowAssumption DEF Floor

LEMMA GapInvStep ==
    ASSUME CalmAssumption
    PROVE  /\ TypeInv /\ OrderInv /\ ApartInv /\ UnlinksArchived
           /\ ServerInv /\ ShapeInv /\ GapInv /\ [Next]_vars
           => GapInv'
<1> SUFFICES ASSUME TypeInv, OrderInv, ApartInv, UnlinksArchived, ServerInv,
                    ShapeInv, GapInv, [Next]_vars
             PROVE  GapInv'
    OBVIOUS
<1> USE DEF GapInv, NoGap, NoGapInDownload, NoGapInRun, Running, Present,
       TypeInv, TypeOK
<1>1. CASE StartJob
    BY <1>1 DEF StartJob
<1>2. CASE QuarantineDone
    BY <1>2 DEF QuarantineDone
<1>3. CASE BeginDownload
    <2>1. wanted' = Wanted /\ Present = {} /\ Present' = Present
        BY <1>3 DEF BeginDownload, ServerInv, DownloadBounds
    <2>2. ASSUME NEW f \in Wanted, NEW h \in Files, h < f, Handles(h)
          PROVE  h \in archive \cup Wanted
        <3>1. server[h] = "complete"
            BY <2>2 DEF Wanted, ServerInv, UploadsInOrder
        <3>2. DayOf[h] >= Floor \/ h \in archive
            <4>1. CASE DayOf[h] < Floor
                BY <2>2, <4>1, FloorHidesNothing
            <4>2. Floor \in Int
                BY <2>2, FloorIsInt DEF ShapeInv
            <4> QED
                BY <4>1, <4>2, FilesAreNumbers
        <3> QED
            BY <3>1, <3>2 DEF Wanted
    <2>3. NoGapInDownload'
        BY <1>3, <2>1, <2>2 DEF BeginDownload
    <2> QED
        BY <1>3, <2>3 DEF BeginDownload
<1>4. CASE DownloadDone
    BY <1>4 DEF DownloadDone
<1>5. CASE LoadBatches
    BY <1>5 DEF LoadBatches, ServerInv, UploadsInOrder, Delivered,
       DownloadBounds, OrderInv, NothingQueued, BatchFinished, QueueIsYounger
<1>6. CASE StartBatch
    <2>1. /\ queue' \cup batch' = queue \cup batch
          /\ archivable' = {} /\ pc' = "files"
          /\ UNCHANGED <<archive, incoming>>
          /\ archivable \subseteq archive
        BY <1>6 DEF StartBatch, EarliestBatch, OrderInv, BatchFinished,
           ShapeInv, ArchivedAfterwards
    <2>2. \A f \in Running : f \in Running' \/ f \in archive
        BY <2>1
    <2>3. Running' \subseteq Running
        BY <2>1
    <2>4. NoGapInRun'
        BY <2>1, <2>2, <2>3
    <2> QED
        BY <2>1, <2>4
<1>7. CASE FilesDone
    BY <1>7 DEF FilesDone
<1>8. CASE ArchiveBatch
    <2>1. /\ archive' = archive \cup Archivable
          /\ UNCHANGED <<incoming, wanted, Running, Present>>
          /\ batch = {} /\ pc' = "unlink"
        BY <1>8 DEF ArchiveBatch, AddToZip, OrderInv, BatchFinished
    <2>2. archivable \subseteq archive'
        BY <2>1 DEF Archivable, ShapeInv, ArchivablePresent
    <2>3. ASSUME NEW f \in Archivable, NEW h \in Files, h < f, Handles(h)
          PROVE  h \in archive'
        <3>1. f \in archivable /\ f \in Nat /\ h \in Nat
            BY FilesAreNumbers DEF Archivable
        <3>2. h \notin queue
            BY <2>3, <3>1, FilesAreNumbers DEF ShapeInv, ArchivableIsOlder
        <3> QED
            BY <2>1, <2>2, <2>3, <3>1, <3>2
    <2>4. NoGap'
        BY <2>1, <2>3
    <2> QED
        BY <2>1, <2>4
<1>9. CASE ArchiveRefused
    BY <1>9 DEF ArchiveRefused
<1>10. CASE UnlinkDone
    BY <1>10 DEF UnlinkDone
<1>11. CASE RunOver
    BY <1>11 DEF RunOver, EndRun
<1>12. ASSUME NEW f \in Files, BeginUpload(f) PROVE GapInv'
    BY <1>12 DEF BeginUpload
<1>13. ASSUME NEW f \in Files, FinishUpload(f) PROVE GapInv'
    BY <1>13 DEF FinishUpload
<1>14. ASSUME NEW f \in Files, QuarantineLeftover(f) PROVE GapInv'
    BY <1>14 DEF QuarantineLeftover, OrderInv, NothingQueued, BatchFinished,
       QueueIsYounger
<1>15. ASSUME NEW f \in Files, Fetch(f) PROVE GapInv'
    BY <1>15 DEF Fetch, ServerInv, UploadsInOrder, Delivered, DownloadBounds,
       OrderInv, NothingQueued, BatchFinished, QueueIsYounger
<1>16. ASSUME NEW f \in Files, PassOver(f) PROVE GapInv'
    BY <1>16 DEF PassOver, Current, IsFirst, ShapeInv, HeadersRead
<1>17. ASSUME NEW f \in Files, Skip(f) PROVE GapInv'
    BY <1>17 DEF Skip, Handled, Current
<1>18. ASSUME NEW f \in Files, Reject(f) PROVE GapInv'
    BY <1>18 DEF Reject, Handled, Current
<1>19. ASSUME NEW f \in Files, Ingest(f) PROVE GapInv'
    BY <1>19 DEF Ingest, Handled, Current, Write
<1>20. ASSUME NEW f \in Files, RecordHeader(f) PROVE GapInv'
    BY <1>20 DEF RecordHeader
<1>21. ASSUME NEW f \in Files, RecordOutcome(f) PROVE GapInv'
    BY <1>21 DEF RecordOutcome, IsFirst, IsArchivable, ShapeInv,
       OutcomeIsGood
<1>22. ASSUME NEW f \in Files, Unlink(f) PROVE GapInv'
    BY <1>22 DEF Unlink, UnlinksArchived, IsFirst, OrderInv, NothingQueued,
       BatchFinished, QueueIsYounger
<1>23. CASE UNCHANGED vars
    BY <1>23
<1> QED
    BY <1>1, <1>2, <1>3, <1>4, <1>5, <1>6, <1>7, <1>8, <1>9, <1>10, <1>11,
       <1>12, <1>13, <1>14, <1>15, <1>16, <1>17, <1>18, <1>19, <1>20, <1>21,
       <1>22, <1>23, CalmSteps

-----------------------------------------------------------------------------
(* The result: the newest delivery of a slot is the one it holds.          *)

Newest(f) == Stores(f) => \A k \in KeysOf[f] : store[k] >= f

ArchivableNewest == \A f \in archivable : Newest(f)

JustStored ==
    pc \in {"header", "log"} =>
        \A f \in Files : IsFirst(f, batch) => Newest(f)

NewestInv == NewestDeliveryWins /\ ArchivableNewest /\ JustStored

LEMMA InitNewestInv == Init => NewestInv
BY DEF Init, NewestInv, NewestDeliveryWins, ArchivableNewest, JustStored

LEMMA NewestInvStep ==
    ASSUME CalmAssumption
    PROVE  /\ TypeInv /\ ApartInv /\ ShapeInv /\ GapInv /\ NewestInv
           /\ [Next]_vars
           => NewestInv'
<1> SUFFICES ASSUME TypeInv, ApartInv, ShapeInv, GapInv, NewestInv,
                    [Next]_vars
             PROVE  NewestInv'
    OBVIOUS
<1> USE DEF NewestInv, NewestDeliveryWins, ArchivableNewest, JustStored,
       Newest
<1>1. CASE StartJob
    BY <1>1 DEF StartJob
<1>2. CASE QuarantineDone
    BY <1>2 DEF QuarantineDone
<1>3. CASE BeginDownload
    BY <1>3 DEF BeginDownload
<1>4. CASE DownloadDone
    BY <1>4 DEF DownloadDone
<1>5. CASE LoadBatches
    BY <1>5 DEF LoadBatches
<1>6. CASE StartBatch
    BY <1>6 DEF StartBatch, EarliestBatch, Readable
<1>7. CASE FilesDone
    BY <1>7 DEF FilesDone
<1>8. CASE ArchiveBatch
    BY <1>8 DEF ArchiveBatch, Archivable, AddToZip
<1>9. CASE ArchiveRefused
    BY <1>9 DEF ArchiveRefused
<1>10. CASE UnlinkDone
    BY <1>10 DEF UnlinkDone
<1>11. CASE RunOver
    BY <1>11 DEF RunOver, EndRun
<1>12. ASSUME NEW f \in Files, BeginUpload(f) PROVE NewestInv'
    BY <1>12 DEF BeginUpload
<1>13. ASSUME NEW f \in Files, FinishUpload(f) PROVE NewestInv'
    BY <1>13 DEF FinishUpload
<1>14. ASSUME NEW f \in Files, QuarantineLeftover(f) PROVE NewestInv'
    BY <1>14 DEF QuarantineLeftover
<1>15. ASSUME NEW f \in Files, Fetch(f) PROVE NewestInv'
    BY <1>15 DEF Fetch
<1>16. ASSUME NEW f \in Files, PassOver(f) PROVE NewestInv'
    BY <1>16 DEF PassOver, Current
<1>17. ASSUME NEW f \in Files, Skip(f) PROVE NewestInv'
    <2>1. \A g \in Files : IsFirst(g, batch) => g = f
        BY <1>17, FirstIsUnique DEF Skip, Handled, Current, TypeInv, TypeOK
    <2> QED
        BY <1>17, <2>1 DEF Skip, Handled, Current, Stores
<1>18. ASSUME NEW f \in Files, Reject(f) PROVE NewestInv'
    <2>1. \A g \in Files : IsFirst(g, batch) => g = f
        BY <1>18, FirstIsUnique DEF Reject, Handled, Current, TypeInv, TypeOK
    <2> QED
        BY <1>18, <2>1 DEF Reject, Handled, Current, Stores
<1>19. ASSUME NEW f \in Files, Ingest(f) PROVE NewestInv'
    <2> USE <1>19 DEF Ingest, Handled, Current
    <2>1. /\ f \in Nat /\ f \in batch /\ f \notin archive
          /\ \A k \in Keys : store[k] \in Nat
          /\ archive \subseteq Nat /\ archivable \subseteq Nat
        BY FilesAreNumbers DEF IsFirst, ApartInv, QueueApart, TypeInv,
           TypeOK, NoFile
    <2>2. /\ \A g \in archive : g < f
          /\ \A g \in archivable : g < f
        BY <2>1 DEF Stores, Handles, GapInv, NoGap, ShapeInv, ArchivableIsOlder
    <2>3. \A k \in Keys : /\ k \in KeysOf[f] => store'[k] = f
                          /\ k \notin KeysOf[f] => store'[k] = store[k]
        BY DEF Write
    <2>4. \A g \in archive \cup archivable :
             Newest(g) => \A k \in KeysOf[g] : Stores(g) => store'[k] >= g
        BY <2>1, <2>2, <2>3, KeysOfAssumption DEF TypeInv, TypeOK
    <2>5. NewestDeliveryWins'
        BY <2>4
    <2>6. ArchivableNewest'
        BY <2>4
    <2>7. \A g \in Files : IsFirst(g, batch) => g = f
        BY FirstIsUnique DEF TypeInv, TypeOK
    <2>8. JustStored'
        BY <2>1, <2>3, <2>7, KeysOfAssumption
    <2> QED
        BY <2>5, <2>6, <2>8
<1>20. ASSUME NEW f \in Files, RecordHeader(f) PROVE NewestInv'
    BY <1>20 DEF RecordHeader
<1>21. ASSUME NEW f \in Files, RecordOutcome(f) PROVE NewestInv'
    BY <1>21 DEF RecordOutcome, IsFirst, IsArchivable
<1>22. ASSUME NEW f \in Files, Unlink(f) PROVE NewestInv'
    BY <1>22 DEF Unlink
<1>23. CASE UNCHANGED vars
    BY <1>23
<1> QED
    BY <1>1, <1>2, <1>3, <1>4, <1>5, <1>6, <1>7, <1>8, <1>9, <1>10, <1>11,
       <1>12, <1>13, <1>14, <1>15, <1>16, <1>17, <1>18, <1>19, <1>20, <1>21,
       <1>22, <1>23, CalmSteps

LEMMA AlwaysCalm ==
    ASSUME CalmAssumption
    PROVE  Spec => [](TypeInv /\ ShapeInv /\ GapInv /\ NewestInv)
<1>1. Spec => [](TypeInv /\ OrderInv /\ ApartInv)
    BY AlwaysApart DEF CalmAssumption, Calm
<1>2. Spec => []UnlinksArchived
    BY InitUnlinks, UnlinksStep, PTL DEF Spec
<1>3. TypeInv /\ ServerInv /\ [Next]_vars => ServerInv'
    BY ServerInvStep
<1>4. /\ TypeInv /\ OrderInv /\ ApartInv /\ UnlinksArchived /\ ShapeInv
      /\ [Next]_vars
      => ShapeInv'
    BY ShapeInvStep
<1>5. /\ TypeInv /\ OrderInv /\ ApartInv /\ UnlinksArchived
      /\ ServerInv /\ ShapeInv /\ GapInv /\ [Next]_vars
      => GapInv'
    BY GapInvStep
<1>6. /\ TypeInv /\ ApartInv /\ ShapeInv /\ GapInv /\ NewestInv
      /\ [Next]_vars
      => NewestInv'
    BY NewestInvStep
<1> QED
    BY <1>1, <1>2, <1>3, <1>4, <1>5, <1>6, InitServerInv, InitShapeInv,
       InitGapInv, InitNewestInv, PTL DEF Spec

\* While no transfer, write or archive fails and nobody interferes, every slot
\* of an archived file holds that file or a later delivery, whatever connection
\* errors, refused declarations, lost provenance and crashes happen in between.
THEOREM NewestWins ==
    ASSUME CalmAssumption
    PROVE  Spec => []NewestDeliveryWins
<1>1. NewestInv => NewestDeliveryWins
    BY DEF NewestInv
<1> QED
    BY <1>1, AlwaysCalm, PTL

\* "what did not arrive is still missing and still wanted" (download_one): with
\* the same disturbances, a file on the server that ingestion can handle is in
\* an archive or the next listing selects it, however many days the job did not
\* get through; the window hides none of them. The files that ingestion rejects
\* have no such promise: once the window has passed them they are forgotten.
THEOREM HandledMissingIsWanted ==
    ASSUME CalmAssumption
    PROVE  Spec => [](\A f \in Files : server[f] = "complete" /\ Handles(f)
                                      => f \in archive \cup Wanted)
<1>1. ASSUME TypeInv, ShapeInv, GapInv, NEW f \in Files,
             server[f] = "complete", Handles(f), f \notin archive
      PROVE  f \in Wanted
    <2>1. ~(DayOf[f] < Floor)
        BY <1>1, FloorHidesNothing DEF GapInv
    <2>2. DayOf[f] >= Floor
        BY <1>1, <2>1, FloorIsInt, FilesAreNumbers DEF ShapeInv
    <2> QED
        BY <1>1, <2>2 DEF Wanted
<1>2. TypeInv /\ ShapeInv /\ GapInv
      => \A f \in Files : server[f] = "complete" /\ Handles(f)
                          => f \in archive \cup Wanted
    BY <1>1
<1> QED
    BY <1>2, AlwaysCalm, PTL

=============================================================================
