------------------------ MODULE OverlappingRunsProofs ------------------------
(***************************************************************************)
(* What runs that overlap cannot do to each other, however many there are, *)
(* whatever the delivery and however many transfers break off; and what    *)
(* the report beside them cannot miss.                                     *)
(*                                                                         *)
(* The invariant says of the runs: what one has handled or found in the    *)
(* zip it opened is in the database (Stored); and, until a zip is opened   *)
(* on a stale view, one run at a time writes it, the zip holds what that   *)
(* run found there, and what a run is removing is in the zip (OneWriter).  *)
(***************************************************************************)
EXTENDS ReportBesideRun, TLAPS, FiniteSetTheorems, WellFoundedInduction

RunsTyped == /\ run \in [Runs -> Run]
             /\ \A r \in Runs : run[r].at # NoFile <=> run[r].pc = "transfer"

Stored == /\ ArchivedWasStored
          /\ \A r \in Runs : run[r].archivable \cup run[r].base \subseteq committed

AbsentIsEmpty == zip = "absent" => listing = {}

OneWriter ==
    ~raced => /\ \A r \in Runs : ~run[r].clash
              /\ \A r \in Writers : run[r].base = listing
              /\ \A r, q \in Writers : r = q
              /\ \A r \in Runs : run[r].pc = "unlink" => run[r].todo \subseteq listing
              /\ \A r \in Runs : run[r].pc \in {"open", "close"}
                                 => run[r].seen \subseteq listing

IInv == TypeOK /\ Stored /\ AbsentIsEmpty /\ OneWriter

USE FilesAssumption, RunsAssumption, BoundsAssumption

LEMMA FreshIsRun ==
    /\ Fresh \in Run
    /\ Fresh.pc = "idle" /\ Fresh.at = NoFile
    /\ Fresh.archivable = {} /\ Fresh.base = {} /\ Fresh.clash = FALSE
  BY DEF Fresh, Run, Phases, NoFile

-----------------------------------------------------------------------------
(* Types.                                                                  *)

LEMMA InitTypeOK == Init => TypeOK
<1> SUFFICES ASSUME Init PROVE TypeOK
  OBVIOUS
<1>1. raced \in BOOLEAN
  BY Zenon DEF Init
<1> QED
  BY <1>1, FreshIsRun DEF Init, TypeOK

\* Every step of a run leaves it, and the others, with a record of theirs.
LEMMA RunsTypedStep ==
    ASSUME TypeOK, NEW r \in Runs, Start(r) \/ RunStep(r) \/ BreakOff(r)
    PROVE  RunsTyped'
<1> USE DEF RunsTyped
<1>0. run \in [Runs -> Run] /\ run[r] \in Run
  BY DEF TypeOK
<1>1. CASE Start(r)
  <2>1. [Fresh EXCEPT !.pc = "quarantine", !.todo = Present] \in Run
    BY FreshIsRun DEF Run, Phases, Present
  <2>2. run' \in [Runs -> Run]
    BY <1>0, <1>1, <2>1 DEF Start
  <2> QED
    BY <1>0, <1>1, <2>2, FreshIsRun DEF Start, Run, TypeOK
<1>2. CASE QuarantineDone(r)
  BY <1>2, <1>0, FreshIsRun DEF QuarantineDone, Run, Phases, TypeOK
<1>3. CASE Select(r)
  <2>1. PICK names \in Readings :
           run' = [run EXCEPT ![r].pc = "fetch", ![r].todo = Files \ names]
    BY <1>3 DEF Select
  <2>2. "fetch" \in Phases
    BY DEF Phases
  <2> QED
    BY <1>0, <1>3, <2>1, <2>2 DEF Select, Run, TypeOK
<1>4. CASE Land(r)
  BY <1>4, <1>0, FreshIsRun DEF Land, NoFile, Run, Phases, TypeOK
<1>5. CASE FetchDone(r)
  BY <1>5, <1>0, FreshIsRun DEF FetchDone, Ends, Run, Phases, TypeOK
<1>6. CASE LoadBatch(r)
  BY <1>6, <1>0, FreshIsRun DEF LoadBatch, Present, Run, Phases, TypeOK
<1>7. CASE HeadersDone(r)
  BY <1>7, <1>0, FreshIsRun DEF HeadersDone, Run, Phases, TypeOK
<1>8. CASE FilesDone(r)
  BY <1>8, <1>0, FreshIsRun DEF FilesDone, Ends, Run, Phases, TypeOK
<1>9. CASE Peek(r)
  BY <1>9, <1>0, FreshIsRun DEF Peek, Run, Phases, TypeOK
<1>10. CASE PeekFails(r)
  BY <1>10, <1>0, FreshIsRun DEF PeekFails, Ends, Run, Phases, TypeOK
<1>11. CASE OpenZip(r)
  <2>1. Opened(r) \in SUBSET Files
    BY DEF Opened, TypeOK
  <2>2. (Writers # {}) \in BOOLEAN /\ "close" \in Phases
    BY DEF Phases
  <2>3. ASSUME NEW q \in Runs
        PROVE  /\ run'[q] \in Run
               /\ run'[q].at # NoFile <=> run'[q].pc = "transfer"
    <3>1. run[q] \in Run /\ (run[q].at # NoFile <=> run[q].pc = "transfer")
      BY DEF TypeOK
    <3>2. CASE q = r
      BY <1>11, <2>1, <2>2, <3>1, <3>2 DEF OpenZip, Run
    <3>3. CASE q # r
      <4>1. (run[q].clash \/ q \in Writers) \in BOOLEAN
        OBVIOUS
      <4> QED
        BY <1>11, <3>1, <3>3, <4>1 DEF OpenZip, Run
    <3> QED
      BY <3>2, <3>3
  <2> QED
    BY <1>11, <2>3 DEF OpenZip
<1>12. CASE CloseZip(r)
  BY <1>12, <1>0, FreshIsRun DEF CloseZip, Closes, Added, Present, Run,
     Phases, TypeOK
<1>13. CASE CloseZipEarly(r)
  BY <1>13, <1>0, FreshIsRun DEF CloseZipEarly, Ends, Closes, Present, Run,
     Phases, TypeOK
<1>14. CASE UnlinkDone(r)
  BY <1>14, <1>0, FreshIsRun DEF UnlinkDone, Ends, Run, Phases, TypeOK
<1>15. ASSUME NEW f \in Files, Quarantine(r, f)
      PROVE  RunsTyped'
  BY <1>15, <1>0, FreshIsRun DEF Quarantine, IsFirst, Run, Phases, TypeOK
<1>16. ASSUME NEW f \in Files, QuarantineGone(r, f)
      PROVE  RunsTyped'
  BY <1>16, <1>0, FreshIsRun DEF QuarantineGone, Ends, IsFirst, Run, Phases,
     TypeOK
<1>17. ASSUME NEW f \in Files, OpenPart(r, f)
      PROVE  RunsTyped'
  BY <1>17, <1>0, FreshIsRun DEF OpenPart, IsFirst, Run, Phases, TypeOK
<1>18. ASSUME NEW f \in Files, ReadHeader(r, f)
      PROVE  RunsTyped'
  <2> DEFINE h == IF Readable(f) THEN run[r].headers \cup {f}
                                  ELSE run[r].headers
  <2>1. h \in SUBSET Files
    BY <1>0 DEF Run
  <2>2. run' = [run EXCEPT ![r].todo = @ \ {f}, ![r].headers = h]
    BY <1>18 DEF ReadHeader
  <2>3. run[r].todo \ {f} \in SUBSET Files
    BY <1>0 DEF Run
  <2> HIDE DEF h
  <2>4. run' \in [Runs -> Run]
    BY <1>0, <2>1, <2>2, <2>3 DEF Run, TypeOK
  <2>5. \A q \in Runs : run'[q].at = run[q].at /\ run'[q].pc = run[q].pc
    BY <1>0, <2>2 DEF Run, TypeOK
  <2> QED
    BY <2>4, <2>5 DEF TypeOK
<1>19. ASSUME NEW f \in Files, PassOver(r, f)
      PROVE  RunsTyped'
  BY <1>19, <1>0, FreshIsRun DEF PassOver, IsFirst, Run, Phases, TypeOK
<1>20. ASSUME NEW f \in Files, Ingest(r, f)
      PROVE  RunsTyped'
  <2>1. run' = [run EXCEPT ![r].todo = @ \ {f}, ![r].archivable = @ \cup {f}]
    BY <1>20 DEF Ingest
  <2>2. /\ run[r].todo \ {f} \in SUBSET Files
        /\ run[r].archivable \cup {f} \in SUBSET Files
    BY <1>0 DEF Run
  <2>3. run' \in [Runs -> Run]
    BY <1>0, <2>1, <2>2 DEF Run, TypeOK
  <2>4. \A q \in Runs : run'[q].at = run[q].at /\ run'[q].pc = run[q].pc
    BY <1>0, <2>1 DEF Run, TypeOK
  <2> QED
    BY <2>3, <2>4 DEF TypeOK
<1>21. ASSUME NEW f \in Files, Unlink(r, f)
      PROVE  RunsTyped'
  BY <1>21, <1>0, FreshIsRun DEF Unlink, IsFirst, Ends, Run, Phases, TypeOK
<1>22. CASE BreakOff(r)
  BY <1>22, <1>0, FreshIsRun DEF BreakOff, NoFile, Run, Phases, TypeOK
<1> QED
  BY <1>1, <1>2, <1>3, <1>4, <1>5, <1>6, <1>7, <1>8, <1>9, <1>10, <1>11,
     <1>12, <1>13, <1>14, <1>15, <1>16, <1>17, <1>18, <1>19, <1>20, <1>21,
     <1>22 DEF RunStep

\* The shared state and the bounds; only OpenZip changes raced.
LEMMA TypeStep ==
    ASSUME TypeOK, NEW r \in Runs, Start(r) \/ RunStep(r) \/ BreakOff(r)
    PROVE  TypeOK'
<1> USE DEF TypeOK, shared, disk, archive, bounds
<1>0. RunsTyped' /\ run[r] \in Run
  BY RunsTypedStep
<1>r. raced' \in BOOLEAN
  BY Zenon DEF RunStep, Start, QuarantineDone, Select, Land, FetchDone,
     LoadBatch, HeadersDone, FilesDone, Peek, PeekFails, OpenZip, CloseZip,
     CloseZipEarly, UnlinkDone, Quarantine, QuarantineGone, OpenPart,
     ReadHeader, PassOver, Ingest, Unlink, BreakOff
<1>1. CASE Start(r)
  <2>1. starts' \in 0 .. MaxStarts
    BY <1>1 DEF Start
  <2> QED
    BY <1>1, <1>0, <1>r, <2>1, Zenon DEF Start, RunsTyped
<1>2. CASE QuarantineDone(r)
  BY <1>2, <1>0, <1>r DEF QuarantineDone, RunsTyped, Run
<1>3. CASE Select(r)
  BY <1>3, <1>0, <1>r DEF Select, Readings, RunsTyped, Run
<1>4. CASE Land(r)
  BY <1>4, <1>0, <1>r DEF Land, NoFile, RunsTyped, Run
<1>5. CASE FetchDone(r)
  BY <1>5, <1>0, <1>r DEF FetchDone, Ends, RunsTyped, Run
<1>6. CASE LoadBatch(r)
  BY <1>6, <1>0, <1>r DEF LoadBatch, Present, RunsTyped, Run
<1>7. CASE HeadersDone(r)
  BY <1>7, <1>0, <1>r DEF HeadersDone, RunsTyped, Run
<1>8. CASE FilesDone(r)
  BY <1>8, <1>0, <1>r DEF FilesDone, Ends, RunsTyped, Run
<1>9. CASE Peek(r)
  BY <1>9, <1>0, <1>r DEF Peek, RunsTyped, Run
<1>10. CASE PeekFails(r)
  BY <1>10, <1>0, <1>r DEF PeekFails, Ends, RunsTyped, Run
<1>11. CASE OpenZip(r)
  BY <1>11, <1>0, <1>r DEF OpenZip, Opened, Writers, RunsTyped, Run
<1>12. CASE CloseZip(r)
  BY <1>12, <1>0, <1>r DEF CloseZip, Closes, Added, Present, RunsTyped, Run
<1>13. CASE CloseZipEarly(r)
  BY <1>13, <1>0, <1>r DEF CloseZipEarly, Ends, Closes, Present, RunsTyped,
     Run
<1>14. CASE UnlinkDone(r)
  BY <1>14, <1>0, <1>r DEF UnlinkDone, Ends, RunsTyped, Run
<1>15. ASSUME NEW f \in Files, Quarantine(r, f)
      PROVE  TypeOK'
  BY <1>15, <1>0, <1>r DEF Quarantine, IsFirst, RunsTyped, Run
<1>16. ASSUME NEW f \in Files, QuarantineGone(r, f)
      PROVE  TypeOK'
  BY <1>16, <1>0, <1>r DEF QuarantineGone, Ends, IsFirst, RunsTyped, Run
<1>17. ASSUME NEW f \in Files, OpenPart(r, f)
      PROVE  TypeOK'
  BY <1>17, <1>0, <1>r DEF OpenPart, IsFirst, RunsTyped, Run
<1>18. ASSUME NEW f \in Files, ReadHeader(r, f)
      PROVE  TypeOK'
  BY <1>18, <1>0, <1>r DEF ReadHeader, IsFirst, RunsTyped, Run
<1>19. ASSUME NEW f \in Files, PassOver(r, f)
      PROVE  TypeOK'
  BY <1>19, <1>0, <1>r DEF PassOver, IsFirst, RunsTyped, Run
<1>20. ASSUME NEW f \in Files, Ingest(r, f)
      PROVE  TypeOK'
  BY <1>20, <1>0, <1>r DEF Ingest, IsFirst, RunsTyped, Run
<1>21. ASSUME NEW f \in Files, Unlink(r, f)
      PROVE  TypeOK'
  BY <1>21, <1>0, <1>r DEF Unlink, IsFirst, Ends, RunsTyped, Run
<1>22. CASE BreakOff(r)
  BY <1>22, <1>0, <1>r DEF BreakOff, NoFile, RunsTyped, Run
<1> QED
  BY <1>1, <1>2, <1>3, <1>4, <1>5, <1>6, <1>7, <1>8, <1>9, <1>10, <1>11,
     <1>12, <1>13, <1>14, <1>15, <1>16, <1>17, <1>18, <1>19, <1>20, <1>21,
     <1>22 DEF RunStep

-----------------------------------------------------------------------------
(* What is archived was stored.                                            *)

LEMMA StoredStep ==
    ASSUME TypeOK, Stored, NEW r \in Runs, Start(r) \/ RunStep(r) \/ BreakOff(r)
    PROVE  Stored'
<1> USE DEF Stored, ArchivedWasStored, TypeOK, shared, disk, archive, bounds
<1>0. run \in [Runs -> Run] /\ run[r] \in Run
  OBVIOUS
<1>1. CASE Start(r)
  BY <1>1, <1>0, FreshIsRun DEF Start, Present, NoFile, Run
<1>2. CASE QuarantineDone(r)
  BY <1>2, <1>0, FreshIsRun DEF QuarantineDone, Run
<1>3. CASE Select(r)
  BY <1>3, <1>0, FreshIsRun DEF Select, Readings, Run
<1>4. CASE Land(r)
  BY <1>4, <1>0, FreshIsRun DEF Land, NoFile, Run
<1>5. CASE FetchDone(r)
  BY <1>5, <1>0, FreshIsRun DEF FetchDone, Ends, Run
<1>6. CASE LoadBatch(r)
  BY <1>6, <1>0, FreshIsRun DEF LoadBatch, Present, Run
<1>7. CASE HeadersDone(r)
  BY <1>7, <1>0, FreshIsRun DEF HeadersDone, Run
<1>8. CASE FilesDone(r)
  BY <1>8, <1>0, FreshIsRun DEF FilesDone, Ends, Run
<1>9. CASE Peek(r)
  BY <1>9, <1>0, FreshIsRun DEF Peek, Run
<1>10. CASE PeekFails(r)
  BY <1>10, <1>0, FreshIsRun DEF PeekFails, Ends, Run
<1>11. CASE OpenZip(r)
  BY <1>11, <1>0, FreshIsRun DEF OpenZip, Opened, Writers, Run
<1>12. CASE CloseZip(r)
  BY <1>12, <1>0, FreshIsRun DEF CloseZip, Closes, Added, Present, Run
<1>13. CASE CloseZipEarly(r)
  BY <1>13, <1>0, FreshIsRun DEF CloseZipEarly, Ends, Closes, Present, Run
<1>14. CASE UnlinkDone(r)
  BY <1>14, <1>0, FreshIsRun DEF UnlinkDone, Ends, Run
<1>15. ASSUME NEW f \in Files, Quarantine(r, f)
      PROVE  Stored'
  BY <1>15, <1>0, FreshIsRun DEF Quarantine, IsFirst, Run
<1>16. ASSUME NEW f \in Files, QuarantineGone(r, f)
      PROVE  Stored'
  BY <1>16, <1>0, FreshIsRun DEF QuarantineGone, Ends, IsFirst, Run
<1>17. ASSUME NEW f \in Files, OpenPart(r, f)
      PROVE  Stored'
  BY <1>17, <1>0, FreshIsRun DEF OpenPart, IsFirst, Run
<1>18. ASSUME NEW f \in Files, ReadHeader(r, f)
      PROVE  Stored'
  BY <1>18, <1>0, FreshIsRun DEF ReadHeader, IsFirst, Run
<1>19. ASSUME NEW f \in Files, PassOver(r, f)
      PROVE  Stored'
  BY <1>19, <1>0, FreshIsRun DEF PassOver, IsFirst, Run
<1>20. ASSUME NEW f \in Files, Ingest(r, f)
      PROVE  Stored'
  BY <1>20, <1>0, FreshIsRun DEF Ingest, IsFirst, Run
<1>21. ASSUME NEW f \in Files, Unlink(r, f)
      PROVE  Stored'
  BY <1>21, <1>0, FreshIsRun DEF Unlink, IsFirst, Ends, Run
<1>22. CASE BreakOff(r)
  BY <1>22, <1>0, FreshIsRun DEF BreakOff, NoFile, Run
<1> QED
  BY <1>1, <1>2, <1>3, <1>4, <1>5, <1>6, <1>7, <1>8, <1>9, <1>10, <1>11,
     <1>12, <1>13, <1>14, <1>15, <1>16, <1>17, <1>18, <1>19, <1>20, <1>21,
     <1>22 DEF RunStep

-----------------------------------------------------------------------------
(* One writer of the zip, until one is opened on a stale view.             *)

LEMMA AbsentStep ==
    ASSUME AbsentIsEmpty, NEW r \in Runs, Start(r) \/ RunStep(r) \/ BreakOff(r)
    PROVE  AbsentIsEmpty'
  BY DEF AbsentIsEmpty, RunStep, shared, disk, archive, bounds, Closes, Start,
     QuarantineDone, Select, Land, FetchDone, LoadBatch, HeadersDone,
     FilesDone, Peek, PeekFails, OpenZip, CloseZip, CloseZipEarly, UnlinkDone,
     Quarantine, QuarantineGone, OpenPart, ReadHeader, PassOver, Ingest,
     Unlink, BreakOff

LEMMA OneWriterStep ==
    ASSUME TypeOK, AbsentIsEmpty, OneWriter, NEW r \in Runs,
           Start(r) \/ RunStep(r) \/ BreakOff(r)
    PROVE  OneWriter'
<1> DEFINE Away == /\ listing' = listing /\ raced' = raced
                   /\ \A q \in Runs \ {r} : run'[q] = run[q]
                   /\ run'[r].pc \notin {"open", "close", "unlink"}
                   /\ run'[r].clash => run[r].clash
<1>0. run \in [Runs -> Run] /\ run[r] \in Run
  BY DEF TypeOK
<1>23. Away => OneWriter'
  BY <1>0 DEF OneWriter, Writers
<1> USE DEF shared, disk, archive, bounds
<1>1. Start(r) => Away
  BY <1>0, FreshIsRun DEF Start, Present, NoFile, Run
<1>2. QuarantineDone(r) => Away
  BY <1>0, FreshIsRun DEF QuarantineDone, Run
<1>3. Select(r) => Away
  BY <1>0, FreshIsRun DEF Select, Readings, Run
<1>4. Land(r) => Away
  BY <1>0, FreshIsRun DEF Land, NoFile, Run
<1>5. FetchDone(r) => Away
  BY <1>0, FreshIsRun DEF FetchDone, Ends, Run
<1>6. LoadBatch(r) => Away
  BY <1>0, FreshIsRun DEF LoadBatch, Present, Run
<1>7. HeadersDone(r) => Away
  BY <1>0, FreshIsRun DEF HeadersDone, Run
<1>8. FilesDone(r) => Away
  BY <1>0, FreshIsRun DEF FilesDone, Ends, Run
<1>10. PeekFails(r) => Away
  BY <1>0, FreshIsRun DEF PeekFails, Ends, Run
<1>14. UnlinkDone(r) => Away
  BY <1>0, FreshIsRun DEF UnlinkDone, Ends, Run
<1>15. ASSUME NEW f \in Files, Quarantine(r, f)
      PROVE  Away
  BY <1>15, <1>0, FreshIsRun DEF Quarantine, IsFirst, Run
<1>16. ASSUME NEW f \in Files, QuarantineGone(r, f)
      PROVE  Away
  BY <1>16, <1>0, FreshIsRun DEF QuarantineGone, Ends, IsFirst, Run
<1>17. ASSUME NEW f \in Files, OpenPart(r, f)
      PROVE  Away
  BY <1>17, <1>0, FreshIsRun DEF OpenPart, IsFirst, Run
<1>18. ASSUME NEW f \in Files, ReadHeader(r, f)
      PROVE  Away
  BY <1>18, <1>0, FreshIsRun DEF ReadHeader, IsFirst, Run
<1>19. ASSUME NEW f \in Files, PassOver(r, f)
      PROVE  Away
  BY <1>19, <1>0, FreshIsRun DEF PassOver, IsFirst, Run
<1>20. ASSUME NEW f \in Files, Ingest(r, f)
      PROVE  Away
  BY <1>20, <1>0, FreshIsRun DEF Ingest, IsFirst, Run
<1>22. BreakOff(r) => Away
  BY <1>0, FreshIsRun DEF BreakOff, NoFile, Run
<1> HIDE DEF Away
<1> USE DEF OneWriter, Writers, TypeOK
<1>9. CASE Peek(r)
  BY <1>9, <1>0, FreshIsRun DEF Peek, Run
<1>11. CASE OpenZip(r)
  <2> SUFFICES ASSUME ~raced' PROVE OneWriter'
    OBVIOUS
  <2>1. ~raced /\ Writers = {} /\ (run[r].creating => zip = "absent")
    BY <1>11, Zenon DEF OpenZip
  <2>2. listing' = listing
    BY <1>11, <2>1 DEF OpenZip, Opened, AbsentIsEmpty
  <2>3. \A q \in Runs : ~run[q].clash /\ q \notin Writers
    BY <2>1, Zenon
  <2>4. ASSUME NEW q \in Runs, q # r
        PROVE  /\ ~run'[q].clash /\ run'[q].pc # "close"
               /\ run'[q].pc = run[q].pc /\ run'[q].todo = run[q].todo
               /\ run'[q].seen = run[q].seen
    <3>1. run'[q] = [run[q] EXCEPT !.clash = @ \/ q \in Writers]
      BY <1>11, <2>4 DEF OpenZip
    <3>2. run[q] \in Run /\ (run[q].clash \/ q \in Writers) = FALSE
      BY <2>3, Zenon
    <3> QED
      BY <2>3, <3>1, <3>2 DEF Run
  <2>5. /\ ~run'[r].clash /\ run'[r].pc = "close"
        /\ run'[r].base = listing
        /\ run[r].pc = "open" /\ run'[r].seen = run[r].seen
    <3>1. run'[r] = [run[r] EXCEPT !.pc = "close", !.base = Opened(r),
                                   !.clash = (Writers # {})]
      BY <1>11 DEF OpenZip
    <3>2. (Writers # {}) = FALSE /\ Opened(r) = listing
      BY <1>11, <2>1, <2>2 DEF OpenZip
    <3> QED
      BY <1>0, <1>11, <3>1, <3>2 DEF OpenZip, Run
  <2>6. \A q \in Runs : run'[q].pc \in {"open", "close"}
                       => run'[q].seen \subseteq listing'
    BY <2>1, <2>2, <2>4, <2>5
  <2> QED
    BY <2>1, <2>2, <2>4, <2>5, <2>6
<1>12. CASE CloseZip(r)
  BY <1>12, <1>0, FreshIsRun DEF CloseZip, Closes, Added, Present, Run
<1>13. CASE CloseZipEarly(r)
  BY <1>13, <1>0, FreshIsRun DEF CloseZipEarly, Ends, Closes, Present, Run
<1>21. ASSUME NEW f \in Files, Unlink(r, f)
      PROVE  OneWriter'
  <2>1. raced' = raced /\ listing' = listing /\ run[r].pc = "unlink"
    BY <1>21 DEF Unlink
  <2>2. CASE run' = [run EXCEPT ![r].todo = @ \ {f}]
    BY <2>1, <2>2, <1>0 DEF Run
  <2>3. CASE run' = [run EXCEPT ![r] = Fresh]
    BY <2>1, <2>3, <1>0, FreshIsRun
  <2> QED
    BY <1>21, <2>2, <2>3 DEF Unlink, Ends
<1> QED
  BY <1>1, <1>2, <1>3, <1>4, <1>5, <1>6, <1>7, <1>8, <1>9, <1>10, <1>11,
     <1>12, <1>13, <1>14, <1>15, <1>16, <1>17, <1>18, <1>19, <1>20, <1>21,
     <1>22, <1>23 DEF RunStep

-----------------------------------------------------------------------------
LEMMA InitIInv == Init => IInv
<1> SUFFICES ASSUME Init PROVE IInv
  OBVIOUS
<1>1. Stored /\ AbsentIsEmpty
  BY FreshIsRun DEF Init, Stored, ArchivedWasStored, AbsentIsEmpty
<1>2. OneWriter
  BY FreshIsRun DEF Init, OneWriter, Writers
<1> QED
  BY <1>1, <1>2, InitTypeOK DEF IInv

LEMMA StutterIInv == IInv /\ UNCHANGED vars => IInv'
<1> SUFFICES ASSUME IInv, UNCHANGED vars PROVE IInv'
  OBVIOUS
<1>1. /\ run' = run /\ committed' = committed /\ zip' = zip /\ listing' = listing
      /\ incoming' = incoming /\ part' = part /\ failed' = failed
      /\ failures' = failures /\ starts' = starts
  BY DEF vars, shared, bounds
<1>2. raced' = raced
  BY Zenon DEF vars
<1>3. TypeOK'
  BY <1>1, <1>2, Zenon DEF IInv, TypeOK
<1>4. Stored' /\ AbsentIsEmpty' /\ OneWriter'
  BY <1>1, <1>2 DEF IInv, Stored, ArchivedWasStored, AbsentIsEmpty, OneWriter,
     Writers
<1> QED
  BY <1>3, <1>4 DEF IInv

LEMMA StepIInv == IInv /\ [Next]_vars => IInv'
<1>1. ASSUME IInv, NEW r \in Runs, Start(r) \/ RunStep(r) \/ BreakOff(r)
      PROVE  IInv'
  BY <1>1, TypeStep, StoredStep, AbsentStep, OneWriterStep DEF IInv
<1> QED
  BY <1>1, StutterIInv DEF Next

LEMMA Invariance == Spec => []IInv
  BY InitIInv, StepIInv, PTL DEF Spec

\* "archiving is what proves it was stored": what the zip lists is in the
\* database, for any number of runs at once.
THEOREM ArchivedStored == Spec => []ArchiveIsTrue
<1>1. IInv => ArchiveIsTrue
  BY DEF IInv, Stored, ArchiveIsTrue
<1> QED
  BY <1>1, Invariance, PTL

-----------------------------------------------------------------------------
(* What it takes to lose a file.                                           *)

NothingLost ==
    \/ raced'
    \/ /\ listing \subseteq listing'
       /\ \A f \in Files : incoming[f] # "none" /\ incoming'[f] = "none"
                           => f \in listing \cup failed'

LEMMA RacedStays ==
    ASSUME NEW r \in Runs, Start(r) \/ RunStep(r) \/ BreakOff(r), ~raced'
    PROVE  ~raced
  BY Zenon DEF RunStep, shared, disk, archive, bounds, Start, QuarantineDone,
     Select, Land, FetchDone, LoadBatch, HeadersDone, FilesDone, Peek,
     PeekFails, OpenZip, CloseZip, CloseZipEarly, UnlinkDone, Quarantine,
     QuarantineGone, OpenPart, ReadHeader, PassOver, Ingest, Unlink, BreakOff

LEMMA NothingLostStep ==
    ASSUME IInv, NEW r \in Runs, Start(r) \/ RunStep(r) \/ BreakOff(r)
    PROVE  NothingLost
<1> SUFFICES ASSUME ~raced' PROVE NothingLost
  BY DEF NothingLost
<1> USE DEF IInv, OneWriter, Writers, TypeOK, shared, disk, archive, bounds
<1>0. run \in [Runs -> Run] /\ run[r] \in Run
  OBVIOUS
<1>r. ~raced
  BY RacedStays
<1>1. CASE Start(r)
  BY <1>1, <1>0, <1>r DEF Start, Present, NoFile, NothingLost, Run
<1>2. CASE QuarantineDone(r)
  BY <1>2, <1>0, <1>r DEF QuarantineDone, NothingLost, Run
<1>3. CASE Select(r)
  BY <1>3, <1>0, <1>r DEF Select, Readings, NothingLost, Run
<1>4. CASE Land(r)
  BY <1>4, <1>0, <1>r DEF Land, NoFile, NothingLost, Run
<1>5. CASE FetchDone(r)
  BY <1>5, <1>0, <1>r DEF FetchDone, Ends, NothingLost, Run
<1>6. CASE LoadBatch(r)
  BY <1>6, <1>0, <1>r DEF LoadBatch, Present, NothingLost, Run
<1>7. CASE HeadersDone(r)
  BY <1>7, <1>0, <1>r DEF HeadersDone, NothingLost, Run
<1>8. CASE FilesDone(r)
  BY <1>8, <1>0, <1>r DEF FilesDone, Ends, NothingLost, Run
<1>9. CASE Peek(r)
  BY <1>9, <1>0, <1>r DEF Peek, NothingLost, Run
<1>10. CASE PeekFails(r)
  BY <1>10, <1>0, <1>r DEF PeekFails, Ends, NothingLost, Run
<1>11. CASE OpenZip(r)
  <2>1. run[r].creating => zip = "absent"
    BY <1>11, Zenon DEF OpenZip
  <2>2. listing' = listing /\ incoming' = incoming
    BY <1>11, <2>1 DEF OpenZip, Opened, AbsentIsEmpty
  <2> QED
    BY <2>2 DEF NothingLost
<1>12. CASE CloseZip(r)
  BY <1>12, <1>0, <1>r DEF CloseZip, Closes, Added, Present, NothingLost, Run
<1>13. CASE CloseZipEarly(r)
  BY <1>13, <1>0, <1>r DEF CloseZipEarly, Ends, Closes, Present, NothingLost,
     Run
<1>14. CASE UnlinkDone(r)
  BY <1>14, <1>0, <1>r DEF UnlinkDone, Ends, NothingLost, Run
<1>15. ASSUME NEW f \in Files, Quarantine(r, f)
      PROVE  NothingLost
  BY <1>15, <1>0, <1>r DEF Quarantine, IsFirst, NothingLost, Run
<1>16. ASSUME NEW f \in Files, QuarantineGone(r, f)
      PROVE  NothingLost
  BY <1>16, <1>0, <1>r DEF QuarantineGone, Ends, IsFirst, NothingLost, Run
<1>17. ASSUME NEW f \in Files, OpenPart(r, f)
      PROVE  NothingLost
  BY <1>17, <1>0, <1>r DEF OpenPart, IsFirst, NothingLost, Run
<1>18. ASSUME NEW f \in Files, ReadHeader(r, f)
      PROVE  NothingLost
  BY <1>18, <1>0, <1>r DEF ReadHeader, IsFirst, NothingLost, Run
<1>19. ASSUME NEW f \in Files, PassOver(r, f)
      PROVE  NothingLost
  BY <1>19, <1>0, <1>r DEF PassOver, IsFirst, NothingLost, Run
<1>20. ASSUME NEW f \in Files, Ingest(r, f)
      PROVE  NothingLost
  BY <1>20, <1>0, <1>r DEF Ingest, IsFirst, NothingLost, Run
<1>21. ASSUME NEW f \in Files, Unlink(r, f)
      PROVE  NothingLost
  BY <1>21, <1>0, <1>r DEF Unlink, IsFirst, Ends, NothingLost, Run
<1>22. CASE BreakOff(r)
  BY <1>22, <1>0, <1>r DEF BreakOff, NoFile, NothingLost, Run
<1> QED
  BY <1>1, <1>2, <1>3, <1>4, <1>5, <1>6, <1>7, <1>8, <1>9, <1>10, <1>11,
     <1>12, <1>13, <1>14, <1>15, <1>16, <1>17, <1>18, <1>19, <1>20, <1>21,
     <1>22 DEF RunStep

\* Runs of any number lose a file of the delivery only where a zip is opened on
\* a stale view; short of that, names stay in it and sources stay or are listed.
THEOREM LossOnlyByRace == Spec => LossNeedsRace
<1>1. IInv /\ UNCHANGED vars => NothingLost
  BY DEF vars, shared, NothingLost
<1>2. IInv /\ [Next]_vars => [NothingLost]_vars
  BY NothingLostStep DEF Next
<1>3. Spec => [][NothingLost]_vars
  BY <1>2, Invariance, PTL DEF Spec
<1> QED
  BY <1>3 DEF LossNeedsRace, NothingLost

-----------------------------------------------------------------------------
(* The last copy of a file.                                                *)

CopyKept == ~raced => \A f \in committed : f \in Present \cup failed \cup listing

LEMMA CopyKeptStep ==
    ASSUME IInv, CopyKept, NEW r \in Runs, Start(r) \/ RunStep(r) \/ BreakOff(r)
    PROVE  CopyKept'
<1> SUFFICES ASSUME ~raced', NEW f \in committed'
             PROVE  f \in Present' \cup failed' \cup listing'
  BY DEF CopyKept
<1> USE DEF shared, disk, archive, bounds
<1>1. ~raced /\ NothingLost
  BY RacedStays, NothingLostStep
<1>2. committed' \subseteq Files
  BY TypeStep DEF IInv, TypeOK
<1>3. failed \subseteq failed'
  BY DEF RunStep, Start, QuarantineDone, Select, Land, FetchDone, LoadBatch,
     HeadersDone, FilesDone, Peek, PeekFails, OpenZip, CloseZip, CloseZipEarly,
     UnlinkDone, Quarantine, QuarantineGone, OpenPart, ReadHeader, PassOver,
     Ingest, Unlink, BreakOff
<1>4. \/ committed' = committed
      \/ \E g \in Files : Ingest(r, g)
  BY DEF RunStep, Start, QuarantineDone, Select, Land, FetchDone, LoadBatch,
     HeadersDone, FilesDone, Peek, PeekFails, OpenZip, CloseZip, CloseZipEarly,
     UnlinkDone, Quarantine, QuarantineGone, OpenPart, ReadHeader, PassOver,
     Unlink, BreakOff
<1>5. f \in Present \cup failed \cup listing
  <2>1. CASE committed' = committed
    BY <1>1, <2>1 DEF CopyKept
  <2>2. ASSUME NEW g \in Files, Ingest(r, g)
        PROVE  f \in Present \cup failed \cup listing
    BY <1>1, <2>2 DEF CopyKept, Ingest, Present
  <2> QED
    BY <1>4, <2>1, <2>2
<1> QED
  BY <1>1, <1>2, <1>3, <1>5 DEF NothingLost, Present

LEMMA CopyKeptInvariance == Spec => [](IInv /\ CopyKept)
<1>1. Init => CopyKept
  BY DEF Init, CopyKept
<1>2. IInv /\ CopyKept /\ UNCHANGED vars => CopyKept'
  <2> SUFFICES ASSUME CopyKept, UNCHANGED vars PROVE CopyKept'
    OBVIOUS
  <2>1. incoming' = incoming /\ failed' = failed /\ listing' = listing
        /\ committed' = committed
    BY DEF vars, shared
  <2>2. raced' = raced
    BY Zenon DEF vars
  <2> QED
    BY <2>1, <2>2 DEF CopyKept, Present
<1>3. IInv /\ CopyKept /\ [Next]_vars => CopyKept'
  BY <1>2, CopyKeptStep DEF Next
<1> QED
  BY <1>1, <1>3, Invariance, PTL DEF Spec

\* "Track which files actually get added (so we only delete those)": the copy
\* of a stored file is lost where a zip is opened on a stale view and nowhere
\* else; until then LastCopyKept holds for any number of runs, even while the
\* zip is being written.
THEOREM CopyKeptUntilRace == Spec => [](raced \/ LastCopyKept)
<1>1. CopyKept => raced \/ LastCopyKept
  BY DEF CopyKept, LastCopyKept
<1> QED
  BY <1>1, CopyKeptInvariance, PTL

-----------------------------------------------------------------------------
(* One run at a time. A run that is never joined by another opens no zip   *)
(* on a stale view, so what two runs can break holds: and on the shared    *)
(* disk, transfer by transfer, it delivers every file at least once.       *)

Single == \A q, r \in Runs : q = r

\* Phases in which no file is yet both in incoming/ and in the zip.
BeforeZip == {"fetch", "transfer", "load", "headers", "files", "peek", "open"}

\* Of the run there is: what it holds is not archived yet, and the zip and the
\* .part are as it left them.
AloneAt(r) ==
    /\ zip = "open" => run[r].pc = "close"
    /\ run[r].pc = "open" /\ run[r].creating => zip = "absent"
    /\ run[r].pc = "transfer" => part[run[r].at] = r
    /\ run[r].pc = "quarantine" => Present \subseteq run[r].todo
    /\ run[r].pc = "select" => Present = {}
    /\ run[r].pc \in BeforeZip => Present \cap listing = {}
    /\ run[r].pc \in {"fetch", "transfer"} =>
          (run[r].todo \cup {run[r].at}) \cap listing = {}
    /\ run[r].pc \in {"quarantine", "select", "fetch", "transfer", "load"} =>
          run[r].headers = {}
    /\ run[r].pc = "headers" => (run[r].todo \cup run[r].headers) \cap listing = {}
    /\ run[r].pc = "files" => run[r].todo \cap listing = {}

Alone == /\ ~raced
         /\ zip # "corrupt"
         /\ \A f \in Files : incoming[f] # "holed"
         /\ \A r \in Runs : AloneAt(r)

LEMMA AloneStep ==
    ASSUME Single, IInv, Alone, NEW r \in Runs,
           Start(r) \/ RunStep(r) \/ BreakOff(r)
    PROVE  Alone'
<1> USE DEF IInv, TypeOK, Alone, AloneAt, BeforeZip, Present, shared, disk,
        archive, bounds
<1>0. run \in [Runs -> Run] /\ run[r] \in Run
  OBVIOUS
<1>s. \A q \in Runs : q = r
  BY DEF Single
<1>w. ~run[r].clash /\ (run[r].pc = "close" => run[r].base = listing)
  BY DEF OneWriter, Writers
<1>c. \/ UNCHANGED raced
      \/ OpenZip(r)
  BY Zenon DEF RunStep, Start, QuarantineDone, Select, Land, FetchDone,
     LoadBatch, HeadersDone, FilesDone, Peek, PeekFails, CloseZip,
     CloseZipEarly, UnlinkDone, Quarantine, QuarantineGone, OpenPart,
     ReadHeader, PassOver, Ingest, Unlink, BreakOff
<1>1. CASE Start(r)
  BY <1>1, <1>0, <1>s, <1>c, FreshIsRun DEF Start, OpenZip, Fresh, Run
<1>2. CASE QuarantineDone(r)
  BY <1>2, <1>0, <1>s, <1>c DEF QuarantineDone, OpenZip, Run
<1>3. CASE Select(r)
  <2>1. zip = "absent" \/ zip = "sound"
    BY <1>3 DEF Select
  <2>2. Readings = {listing}
    BY <2>1 DEF Readings, AbsentIsEmpty
  <2>3. run' = [run EXCEPT ![r].pc = "fetch", ![r].todo = Files \ listing]
    BY <1>3, <2>2 DEF Select
  <2>4. run'[r].at = NoFile
    BY <1>3, <1>0, <2>3 DEF Select, Run
  <2> QED
    BY <1>3, <1>0, <1>s, <1>c, <2>3, <2>4 DEF Select, OpenZip, NoFile, Run
<1>4. CASE Land(r)
  BY <1>4, <1>0, <1>s, <1>c DEF Land, OpenZip, NoFile, Run
<1>5. CASE FetchDone(r)
  BY <1>5, <1>0, <1>s, <1>c, FreshIsRun DEF FetchDone, Ends, OpenZip, Run
<1>6. CASE LoadBatch(r)
  BY <1>6, <1>0, <1>s, <1>c DEF LoadBatch, OpenZip, Run
<1>7. CASE HeadersDone(r)
  BY <1>7, <1>0, <1>s, <1>c DEF HeadersDone, OpenZip, Run
<1>8. CASE FilesDone(r)
  BY <1>8, <1>0, <1>s, <1>c, FreshIsRun DEF FilesDone, Ends, OpenZip, Run
<1>9. CASE Peek(r)
  BY <1>9, <1>0, <1>s, <1>c DEF Peek, OpenZip, Run
<1>10. CASE PeekFails(r)
  BY <1>10, <1>0, <1>s, <1>c, FreshIsRun DEF PeekFails, Ends, OpenZip, Run
<1>11. CASE OpenZip(r)
  <2>1. Writers = {}
    <3>1. run[r].pc # "close"
      BY <1>11 DEF OpenZip
    <3>2. ASSUME NEW q \in Writers PROVE FALSE
      <4>1. q \in Runs /\ run[q].pc = "close"
        BY Zenon DEF Writers
      <4> QED
        BY <1>s, <3>1, <4>1, Zenon
    <3> QED
      BY <3>2, Zenon
  <2>2. ~raced'
    BY <1>11, <2>1, Zenon DEF OpenZip
  <2>3. run'[r] = [run[r] EXCEPT !.pc = "close", !.base = Opened(r),
                                 !.clash = (Writers # {})]
    BY <1>11 DEF OpenZip
  <2>4. run'[r].pc = "close"
    BY <1>0, <2>3 DEF Run
  <2>5. zip' = "open" /\ incoming' = incoming
    BY <1>11 DEF OpenZip
  <2> QED
    BY <1>s, <2>2, <2>4, <2>5
<1>12. CASE CloseZip(r)
  BY <1>12, <1>0, <1>s, <1>c, <1>w DEF CloseZip, Closes, OpenZip, Run
<1>13. CASE CloseZipEarly(r)
  BY <1>13, <1>0, <1>s, <1>c, <1>w, FreshIsRun DEF CloseZipEarly, Closes, Ends,
     OpenZip, Run
<1>14. CASE UnlinkDone(r)
  BY <1>14, <1>0, <1>s, <1>c, FreshIsRun DEF UnlinkDone, Ends, OpenZip, Run
<1>15. ASSUME NEW f \in Files, Quarantine(r, f)
      PROVE  Alone'
  BY <1>15, <1>0, <1>s, <1>c DEF Quarantine, IsFirst, OpenZip, Run
<1>16. ASSUME NEW f \in Files, QuarantineGone(r, f)
      PROVE  Alone'
  BY <1>16, <1>0, <1>s, <1>c, FreshIsRun DEF QuarantineGone, Ends, OpenZip, Run
<1>17. ASSUME NEW f \in Files, OpenPart(r, f)
      PROVE  Alone'
  BY <1>17, <1>0, <1>s, <1>c DEF OpenPart, OpenZip, Run
<1>18. ASSUME NEW f \in Files, ReadHeader(r, f)
      PROVE  Alone'
  BY <1>18, <1>0, <1>s, <1>c DEF ReadHeader, IsFirst, OpenZip, Run
<1>19. ASSUME NEW f \in Files, PassOver(r, f)
      PROVE  Alone'
  BY <1>19, <1>0, <1>s, <1>c DEF PassOver, OpenZip, Run
<1>20. ASSUME NEW f \in Files, Ingest(r, f)
      PROVE  Alone'
  BY <1>20, <1>0, <1>s, <1>c DEF Ingest, OpenZip, Run
<1>21. ASSUME NEW f \in Files, Unlink(r, f)
      PROVE  Alone'
  BY <1>21, <1>0, <1>s, <1>c, FreshIsRun DEF Unlink, Ends, OpenZip, Run
<1>22. CASE BreakOff(r)
  BY <1>22, <1>0, <1>s, <1>c DEF BreakOff, OpenZip, NoFile, Run
<1> QED
  BY <1>1, <1>2, <1>3, <1>4, <1>5, <1>6, <1>7, <1>8, <1>9, <1>10, <1>11,
     <1>12, <1>13, <1>14, <1>15, <1>16, <1>17, <1>18, <1>19, <1>20, <1>21,
     <1>22 DEF RunStep

LEMMA InitAlone == Init => Alone
  BY FreshIsRun DEF Init, Alone, AloneAt, BeforeZip, Present

LEMMA StutterAlone == Alone /\ UNCHANGED vars => Alone'
<1> SUFFICES ASSUME Alone, UNCHANGED vars PROVE Alone'
  OBVIOUS
<1>1. run' = run /\ zip' = zip /\ listing' = listing /\ incoming' = incoming
      /\ part' = part
  BY DEF vars, shared
<1>2. raced' = raced
  BY Zenon DEF vars
<1> QED
  BY <1>1, <1>2 DEF Alone, AloneAt, BeforeZip, Present

LEMMA AloneInvariance ==
    ASSUME Single
    PROVE  Spec => [](IInv /\ CopyKept /\ Alone)
<1>1. IInv /\ Alone /\ [Next]_vars => Alone'
  BY AloneStep, StutterAlone DEF Next
<1> QED
  BY <1>1, InitAlone, CopyKeptInvariance, PTL DEF Spec

\* One run at a time, whatever breaks off: a file the database holds is in
\* incoming/, in failed/ or in the zip, and no file in incoming/ is truncated.
\* The run OverlapLostCopy needs its second run.
THEOREM OneRunKeepsCopies ==
    ASSUME Single
    PROVE  Spec => [](LastCopyKept /\ NoTruncatedLeft)
<1>1. CopyKept /\ Alone => LastCopyKept /\ NoTruncatedLeft
  BY DEF CopyKept, Alone, LastCopyKept, NoTruncatedLeft
<1> QED
  BY <1>1, AloneInvariance, PTL

-----------------------------------------------------------------------------
(* At-least-once delivery, with the table left out: every file of the      *)
(* delivery would be stored, none is exempt.                               *)

Contract == INSTANCE AtLeastOnce WITH
    Keys <- {}, KeysOf <- [f \in Files |-> {}], Exempt <- {},
    table <- [k \in {} |-> 0], delivered <- committed, settled <- listing

LEMMA DeliveryStep ==
    ASSUME Single, IInv, Alone, Alone', NEW r \in Runs,
           Start(r) \/ RunStep(r) \/ BreakOff(r)
    PROVE  Contract!Next \/ UNCHANGED Contract!vars
<1> USE DEF shared, disk, archive, bounds
<1>0. run[r] \in Run /\ listing \subseteq Files /\ committed \subseteq Files
  BY DEF IInv, TypeOK
<1>w. ~run[r].clash /\ (run[r].pc = "close" => run[r].base = listing)
  BY DEF IInv, OneWriter, Writers, Alone
<1>1. ASSUME NEW f \in Files, Ingest(r, f)
      PROVE  Contract!Deliver(f)
  <2>1. f \notin listing
    BY <1>1 DEF Ingest, IsFirst, Alone, AloneAt
  <2> QED
    BY <1>1, <2>1 DEF Ingest, Contract!Deliver
<1>2. ASSUME NEW S \in SUBSET run[r].archivable, Closes(r, S),
             run[r].pc = "close", UNCHANGED committed
      PROVE  Contract!Settle(S \ run[r].seen)
  <2>1. listing' = listing \cup (S \ run[r].seen)
    BY <1>2, <1>w DEF Closes
  <2>2. S \subseteq committed
    BY DEF IInv, Stored
  <2> QED
    BY <1>2, <2>1, <2>2 DEF Contract!Settle
<1>3. CASE CloseZip(r)
  <2>1. Contract!Settle((run[r].archivable \cap Present) \ run[r].seen)
    BY <1>2, <1>3 DEF CloseZip
  <2>2. (run[r].archivable \cap Present) \ run[r].seen \in SUBSET Files
    BY DEF Present
  <2> QED
    BY <2>1, <2>2 DEF Contract!Next
<1>4. CASE CloseZipEarly(r)
  <2>1. PICK f \in run[r].archivable \ (Present \cup run[r].seen) :
           Closes(r, {g \in run[r].archivable \cap Present : g < f})
    BY <1>4 DEF CloseZipEarly
  <2> DEFINE S == {g \in run[r].archivable \cap Present : g < f}
  <2>2. Contract!Settle(S \ run[r].seen)
    BY <1>2, <1>4, <2>1 DEF CloseZipEarly
  <2>3. S \ run[r].seen \in SUBSET Files
    BY DEF Present
  <2> QED
    BY <2>2, <2>3 DEF Contract!Next
<1>5. CASE OpenZip(r)
  <2>1. listing' = listing /\ committed' = committed
    BY <1>5 DEF OpenZip, Opened, IInv, AbsentIsEmpty, Alone, AloneAt
  <2> QED
    BY <2>1 DEF Contract!vars
<1>6. \/ listing' = listing /\ committed' = committed
      \/ OpenZip(r) \/ CloseZip(r) \/ CloseZipEarly(r)
      \/ \E f \in Files : Ingest(r, f)
  BY DEF RunStep, Start, QuarantineDone, Select, Land, FetchDone, LoadBatch,
     HeadersDone, FilesDone, Peek, PeekFails, UnlinkDone, Quarantine,
     QuarantineGone, OpenPart, ReadHeader, PassOver, Unlink, BreakOff
<1>7. CASE listing' = listing /\ committed' = committed
  BY <1>7 DEF Contract!vars
<1> QED
  BY <1>1, <1>3, <1>4, <1>5, <1>6, <1>7 DEF Contract!Next

\* No file is delivered that an archive lists. Without a table the contract does
\* not see it: a second delivery would be a step that changes nothing.
NeverAgain == \A r \in Runs, f \in Files : Ingest(r, f) => f \notin listing

\* One run at a time, seen transfer by transfer and file by file on the disk it
\* shares, delivers at least once: a file in the zip was delivered, stays
\* there and is never delivered again.
THEOREM OneRunDeliversAtLeastOnce ==
    ASSUME Single
    PROVE  Spec => Contract!Spec /\ [][NeverAgain]_vars
<1>1. Init => Contract!Init
  BY DEF Init, Contract!Init
<1>2. IInv /\ Alone /\ Alone' /\ [Next]_vars => [Contract!Next]_(Contract!vars)
  <2>1. UNCHANGED vars => UNCHANGED Contract!vars
    BY DEF vars, shared, Contract!vars
  <2> QED
    BY <2>1, DeliveryStep DEF Next
<1>3. Spec => [](IInv /\ Alone)
  BY AloneInvariance, PTL
<1>4. Alone => NeverAgain
  BY DEF NeverAgain, Ingest, IsFirst, Alone, AloneAt
<1>5. Alone /\ [Next]_vars => [NeverAgain]_vars
  BY <1>4
<1> QED
  BY <1>1, <1>2, <1>3, <1>5, PTL DEF Spec, Contract!Spec

-----------------------------------------------------------------------------
(* Why a run that has begun comes to its end. NobodyWaits says so with     *)
(* ENABLED; here the same is shown in two halves, without it: a guard of   *)
(* RunStep holds until the end, and every step of a run uses something up  *)
(* that no step, its own or another run's, gives back.                     *)

\* A set of natural numbers has a least one.
LEMMA LeastOf ==
    ASSUME NEW S \in SUBSET Nat, S # {}
    PROVE  \E i \in S : \A j \in S : i =< j
<1> DEFINE R == OpToRel(<, Nat)
<1>1. IsWellFoundedOn(R, Nat)
  BY NatLessThanWellFounded
<1>2. PICK i \in S : \A j \in S : ~ (<<j, i>> \in R)
  BY <1>1, WFMin, Zenon
<1>3. ASSUME NEW j \in S PROVE ~ (j < i)
  <2>1. <<j, i>> \in R <=> j < i
    BY DEF OpToRel
  <2> HIDE DEF R
  <2> QED
    BY <1>2, <2>1, Zenon
<1> QED
  BY <1>3

\* The guards of RunStep(r), phase by phase.
Ready(r) ==
    \/ /\ run[r].pc \in {"quarantine", "headers", "files", "unlink"}
       /\ run[r].todo = {} \/ \E f \in Files : IsFirst(f, run[r].todo)
    \/ /\ run[r].pc = "fetch"
       /\ run[r].todo = {} \/ \E f \in Files : f \in run[r].todo
    \/ /\ run[r].pc = "select"
       /\ Readings # {}
    \/ /\ run[r].pc = "peek"
       /\ zip \in {"absent", "sound"} \cup {"open", "corrupt"}
    \/ run[r].pc \in {"transfer", "load", "open", "close"}

\* Whatever the other runs have taken away, truncated or left open, a run that
\* has begun has a step: a file that is gone, a zip being written and a .part
\* renamed by another run each have their branch.
THEOREM AlwaysAStep == Spec => [](\A r \in Runs : run[r].pc # "idle" => Ready(r))
<1>1. ASSUME TypeOK, NEW r \in Runs, run[r].pc # "idle"
      PROVE  Ready(r)
  <2>1. run[r] \in Run
    BY <1>1 DEF TypeOK
  <2>2. run[r].todo \subseteq Files /\ run[r].pc \in Phases
    BY <2>1 DEF Run
  <2>3. run[r].todo = {} \/ \E f \in Files : IsFirst(f, run[r].todo)
    BY <2>2, LeastOf DEF IsFirst
  <2>4. Readings # {}
    BY DEF Readings
  <2>5. zip \in {"absent", "sound"} \cup {"open", "corrupt"}
    BY <1>1 DEF TypeOK
  <2> QED
    BY <1>1, <2>2, <2>3, <2>4, <2>5 DEF Ready, Phases, IsFirst
<1>2. IInv => \A r \in Runs : run[r].pc # "idle" => Ready(r)
  BY <1>1 DEF IInv
<1> QED
  BY <1>2, Invariance, PTL

-----------------------------------------------------------------------------
(* What a run has left: its phases, and what the phase has left of the     *)
(* files. Size is more than the files of one phase can use up.             *)

Size == 2 * Cardinality(Files) + 2

PhasesLeft(p) ==
    CASE p = "quarantine" -> 10 * Size
      [] p = "select" -> 9 * Size
      [] p \in {"fetch", "transfer"} -> 8 * Size
      [] p = "load" -> 7 * Size
      [] p = "headers" -> 6 * Size
      [] p = "files" -> 5 * Size
      [] p = "peek" -> 4 * Size
      [] p = "open" -> 3 * Size
      [] p = "close" -> 2 * Size
      [] p = "unlink" -> Size
      [] p = "idle" -> 0

Left(p, S) == PhasesLeft(p) + 2 * Cardinality(S) + (IF p = "transfer" THEN 1 ELSE 0)

Fuel(r) == Left(run[r].pc, run[r].todo)

LEMMA SizeOf ==
    ASSUME IsFiniteSet(Files), NEW S \in SUBSET Files
    PROVE  /\ IsFiniteSet(S) /\ Cardinality(S) \in Nat
           /\ Size \in Nat /\ 2 * Cardinality(S) + 2 =< Size
<1>1. IsFiniteSet(S) /\ Cardinality(S) =< Cardinality(Files)
  BY FS_Subset
<1>2. Cardinality(S) \in Nat /\ Cardinality(Files) \in Nat
  BY <1>1, FS_CardinalityType
<1> QED
  BY <1>1, <1>2 DEF Size

\* A later phase is worth less, whatever it has to do.
LEMMA LaterIsLess ==
    ASSUME IsFiniteSet(Files), NEW p \in Phases, NEW q \in Phases,
           NEW S \in SUBSET Files, NEW T \in SUBSET Files,
           PhasesLeft(q) + Size =< PhasesLeft(p)
    PROVE  Left(q, T) < Left(p, S)
<1>1. /\ Cardinality(S) \in Nat /\ Cardinality(T) \in Nat /\ Size \in Nat
      /\ 2 * Cardinality(T) + 2 =< Size
  BY SizeOf
<1>2. PhasesLeft(p) \in Nat /\ PhasesLeft(q) \in Nat
  BY <1>1 DEF PhasesLeft, Phases
<1> QED
  BY <1>1, <1>2 DEF Left

\* Within a phase, one file less is worth less.
LEMMA FewerIsLess ==
    ASSUME IsFiniteSet(Files), NEW p \in Phases, NEW S \in SUBSET Files, NEW f \in S
    PROVE  /\ Left(p, S \ {f}) < Left(p, S)
           /\ Left("transfer", S \ {f}) < Left("fetch", S)
<1>1. IsFiniteSet(S) /\ Cardinality(S) \in Nat /\ Size \in Nat
  BY SizeOf
<1>2. Cardinality(S \ {f}) = Cardinality(S) - 1
  BY <1>1, FS_RemoveElement
<1>3. PhasesLeft(p) \in Nat /\ PhasesLeft("fetch") = PhasesLeft("transfer")
      /\ PhasesLeft("fetch") \in Nat
  BY <1>1 DEF PhasesLeft, Phases
<1> QED
  BY <1>1, <1>2, <1>3 DEF Left

\* A file being transferred is worth less once it is not.
LEMMA LandedIsLess ==
    ASSUME IsFiniteSet(Files), NEW S \in SUBSET Files
    PROVE  Left("fetch", S) < Left("transfer", S)
<1>1. Cardinality(S) \in Nat /\ Size \in Nat
  BY SizeOf
<1>2. PhasesLeft("fetch") = PhasesLeft("transfer") /\ PhasesLeft("fetch") \in Nat
  BY <1>1 DEF PhasesLeft
<1> QED
  BY <1>1, <1>2 DEF Left

\* The phases in order, each worth one Size more than the next.
LEMMA PhaseOrder ==
    ASSUME IsFiniteSet(Files)
    PROVE  /\ Size \in Nat
           /\ PhasesLeft("select") + Size =< PhasesLeft("quarantine")
           /\ PhasesLeft("fetch") + Size =< PhasesLeft("select")
           /\ PhasesLeft("load") + Size =< PhasesLeft("fetch")
           /\ PhasesLeft("headers") + Size =< PhasesLeft("load")
           /\ PhasesLeft("files") + Size =< PhasesLeft("headers")
           /\ PhasesLeft("peek") + Size =< PhasesLeft("files")
           /\ PhasesLeft("open") + Size =< PhasesLeft("peek")
           /\ PhasesLeft("close") + Size =< PhasesLeft("open")
           /\ PhasesLeft("unlink") + Size =< PhasesLeft("close")
           /\ \A p \in Phases \ {"idle"} : PhasesLeft("idle") + Size =< PhasesLeft(p)
<1>1. Size \in Nat
  BY SizeOf
<1> QED
  BY <1>1 DEF PhasesLeft, Phases

LEMMA RunStepUsesUp ==
    ASSUME IsFiniteSet(Files), TypeOK, TypeOK', NEW r \in Runs, RunStep(r)
    PROVE  Fuel(r)' < Fuel(r)
<1> USE DEF Fuel, Phases, shared, disk, archive, bounds
<1>0. /\ run \in [Runs -> Run] /\ run[r] \in Run /\ run'[r] \in Run
      /\ run[r].todo \in SUBSET Files /\ run'[r].todo \in SUBSET Files
      /\ run[r].pc \in Phases /\ run'[r].pc \in Phases
  BY DEF TypeOK, Run
\* To a later phase.
<1>1. ASSUME PhasesLeft(run'[r].pc) + Size =< PhasesLeft(run[r].pc)
      PROVE  Fuel(r)' < Fuel(r)
  BY <1>0, <1>1, LaterIsLess
<1>2. ASSUME run'[r].pc = "idle", run[r].pc # "idle"
      PROVE  Fuel(r)' < Fuel(r)
  BY <1>0, <1>1, <1>2, PhaseOrder
\* On to the next file.
<1>3. ASSUME NEW f \in run[r].todo, run'[r].todo = run[r].todo \ {f},
             run'[r].pc = run[r].pc
      PROVE  Fuel(r)' < Fuel(r)
  BY <1>0, <1>3, FewerIsLess
<1>4. ASSUME Ends(r), run[r].pc # "idle"
      PROVE  Fuel(r)' < Fuel(r)
  <2>1. run'[r].pc = "idle"
    BY <1>0, <1>4, FreshIsRun DEF Ends
  <2> QED
    BY <1>2, <1>4, <2>1
<1>5. CASE QuarantineDone(r) \/ Select(r)
  <2>1. \/ run[r].pc = "quarantine" /\ run'[r].pc = "select"
        \/ run[r].pc = "select" /\ run'[r].pc = "fetch"
    BY <1>0, <1>5 DEF QuarantineDone, Select, Run
  <2> QED
    BY <1>1, <2>1, PhaseOrder
<1>6. CASE Land(r)
  <2>1. /\ run[r].pc = "transfer" /\ run'[r].pc = "fetch"
        /\ run'[r].todo = run[r].todo
    BY <1>0, <1>6 DEF Land, Run
  <2> QED
    BY <1>0, <2>1, LandedIsLess
<1>7. CASE FetchDone(r)
  <2>1. CASE run[r].landed
    <3>1. run[r].pc = "fetch" /\ run'[r].pc = "load"
      BY <1>0, <1>7, <2>1 DEF FetchDone, Run
    <3> QED
      BY <1>1, <3>1, PhaseOrder
  <2> QED
    BY <1>4, <1>7, <2>1 DEF FetchDone
<1>8. CASE LoadBatch(r) \/ HeadersDone(r)
  <2>1. \/ run[r].pc = "load" /\ run'[r].pc = "headers"
        \/ run[r].pc = "headers" /\ run'[r].pc = "files"
    BY <1>0, <1>8 DEF LoadBatch, HeadersDone, Run
  <2> QED
    BY <1>1, <2>1, PhaseOrder
<1>9. CASE FilesDone(r)
  <2>1. CASE run[r].archivable # {}
    <3>1. run[r].pc = "files" /\ run'[r].pc = "peek"
      BY <1>0, <1>9, <2>1 DEF FilesDone, Run
    <3> QED
      BY <1>1, <3>1, PhaseOrder
  <2> QED
    BY <1>4, <1>9, <2>1 DEF FilesDone
<1>10. CASE Peek(r)
  <2>1. run[r].pc = "peek" /\ run'[r].pc = "open"
    BY <1>0, <1>10 DEF Peek, Run
  <2> QED
    BY <1>1, <2>1, PhaseOrder
<1>11. CASE OpenZip(r)
  <2>1. run[r].pc = "open" /\ run'[r].pc = "close"
    BY <1>0, <1>11 DEF OpenZip, Run
  <2> QED
    BY <1>1, <2>1, PhaseOrder
<1>12. CASE CloseZip(r)
  <2>1. run[r].pc = "close" /\ run'[r].pc = "unlink"
    BY <1>0, <1>12 DEF CloseZip, Run
  <2> QED
    BY <1>1, <2>1, PhaseOrder
<1>13. CASE PeekFails(r) \/ CloseZipEarly(r) \/ UnlinkDone(r)
  BY <1>4, <1>13 DEF PeekFails, CloseZipEarly, UnlinkDone
<1>14. ASSUME NEW f \in Files, OpenPart(r, f)
       PROVE  Fuel(r)' < Fuel(r)
  <2>1. /\ run[r].pc = "fetch" /\ run'[r].pc = "transfer"
        /\ f \in run[r].todo /\ run'[r].todo = run[r].todo \ {f}
    BY <1>0, <1>14 DEF OpenPart, Run
  <2> QED
    BY <1>0, <2>1, FewerIsLess
<1>15. ASSUME NEW f \in Files,
              Quarantine(r, f) \/ ReadHeader(r, f) \/ PassOver(r, f) \/ Ingest(r, f)
       PROVE  Fuel(r)' < Fuel(r)
  <2>1. /\ f \in run[r].todo /\ run'[r].todo = run[r].todo \ {f}
        /\ run'[r].pc = run[r].pc
    BY <1>0, <1>15 DEF Quarantine, ReadHeader, PassOver, Ingest, IsFirst, Run
  <2> QED
    BY <1>3, <2>1
<1>16. ASSUME NEW f \in Files, QuarantineGone(r, f)
       PROVE  Fuel(r)' < Fuel(r)
  BY <1>4, <1>16 DEF QuarantineGone
<1>17. ASSUME NEW f \in Files, Unlink(r, f)
       PROVE  Fuel(r)' < Fuel(r)
  <2>1. CASE run' = [run EXCEPT ![r].todo = @ \ {f}]
    <3>1. /\ f \in run[r].todo /\ run'[r].todo = run[r].todo \ {f}
          /\ run'[r].pc = run[r].pc
      BY <1>0, <1>17, <2>1 DEF Unlink, IsFirst, Run
    <3> QED
      BY <1>3, <3>1
  <2> QED
    BY <1>4, <1>17, <2>1 DEF Unlink
<1> QED
  BY <1>5, <1>6, <1>7, <1>8, <1>9, <1>10, <1>11, <1>12, <1>13, <1>14, <1>15,
     <1>16, <1>17 DEF RunStep

\* What a run may still do, no other run adds to.
LEMMA OthersKeep ==
    ASSUME TypeOK, NEW r \in Runs, Start(r) \/ RunStep(r) \/ BreakOff(r),
           NEW q \in Runs, q # r
    PROVE  run'[q].pc = run[q].pc /\ run'[q].todo = run[q].todo
<1>0. run \in [Runs -> Run] /\ run[q] \in Run /\ run[r] \in Run
  BY DEF TypeOK
<1>1. CASE OpenZip(r)
  BY <1>0, <1>1 DEF OpenZip, Run
<1>2. OpenZip(r) \/ run'[q] = run[q]
  BY <1>0 DEF RunStep, Start, QuarantineDone, Select, Land, FetchDone, LoadBatch,
     HeadersDone, FilesDone, Peek, PeekFails, CloseZip, CloseZipEarly, Ends,
     UnlinkDone, Quarantine, QuarantineGone, OpenPart, ReadHeader, PassOver,
     Ingest, Unlink, BreakOff, shared, disk, archive, bounds
<1> QED
  BY <1>1, <1>2

\* Of a step of r, unless it begins there.
LEMMA FuelStep ==
    ASSUME IsFiniteSet(Files), TypeOK, TypeOK', NEW r \in Runs,
           Start(r) \/ RunStep(r) \/ BreakOff(r), NEW q \in Runs
    PROVE  /\ RunStep(q) => Fuel(q)' < Fuel(q)
           /\ Fuel(q)' > Fuel(q) => Start(q)
<1>0. /\ run \in [Runs -> Run] /\ run[q] \in Run /\ run'[q] \in Run
      /\ run[q].todo \in SUBSET Files /\ run'[q].todo \in SUBSET Files
      /\ run[q].pc \in Phases /\ run'[q].pc \in Phases
  BY DEF TypeOK, Run
<1>1. Fuel(q) \in Nat /\ Fuel(q)' \in Nat
  <2>1. /\ Cardinality(run[q].todo) \in Nat /\ Cardinality(run'[q].todo) \in Nat
        /\ Size \in Nat
    BY <1>0, SizeOf
  <2>2. PhasesLeft(run[q].pc) \in Nat /\ PhasesLeft(run'[q].pc) \in Nat
    BY <1>0, <2>1 DEF PhasesLeft, Phases
  <2> QED
    BY <2>1, <2>2 DEF Fuel, Left
<1>2. RunStep(q) => Fuel(q)' < Fuel(q)
  BY RunStepUsesUp
<1>3. CASE q # r
  <2>1. Fuel(q)' = Fuel(q)
    BY <1>3, OthersKeep DEF Fuel
  <2> QED
    BY <1>1, <1>2, <2>1
<1>4. CASE q = r /\ BreakOff(r)
  <2>1. /\ run[q].pc = "transfer" /\ run'[q].pc \in {"transfer", "fetch"}
        /\ run'[q].todo = run[q].todo
    BY <1>0, <1>4 DEF BreakOff, Run
  <2>2. Fuel(q)' = Fuel(q) \/ Fuel(q)' < Fuel(q)
    BY <1>0, <2>1, LandedIsLess DEF Fuel
  <2> QED
    BY <1>1, <1>2, <2>2
<1>5. CASE q = r /\ RunStep(r)
  BY <1>1, <1>2, <1>5
<1>6. CASE q = r /\ Start(r)
  BY <1>2, <1>6
<1> QED
  BY <1>3, <1>4, <1>5, <1>6

\* Every step a run takes brings Fuel down, a natural number that only its own
\* start raises: no step of another run, and no transfer that breaks off, gives
\* it more to do. With AlwaysAStep, a run the scheduler lets take steps ends,
\* after at most Fuel of them.
THEOREM RunsRunOut ==
    ASSUME IsFiniteSet(Files)
    PROVE  Spec => [][\A r \in Runs : /\ RunStep(r) => Fuel(r)' < Fuel(r)
                                      /\ Fuel(r)' > Fuel(r) => Start(r)]_vars
<1>1. IInv /\ IInv' /\ [Next]_vars =>
         [\A r \in Runs : /\ RunStep(r) => Fuel(r)' < Fuel(r)
                          /\ Fuel(r)' > Fuel(r) => Start(r)]_vars
  BY FuelStep DEF Next, IInv
<1> QED
  BY <1>1, Invariance, PTL DEF Spec

-----------------------------------------------------------------------------
(* The report beside any number of runs: it never counts a file twice, and *)
(* unless a zip is opened on a stale view it never leaves one out without  *)
(* saying so.                                                              *)
(*                                                                         *)
(* ReportTypeOK allows a file to be read twice; AtMostOnce, with what has  *)
(* not been tried yet at zero, is what the steps preserve. Accounted says  *)
(* where a file of the disk is while the report has nothing to say: read,  *)
(* in the listing it goes through, or in the zip it has yet to open.       *)

AtMostOnce == \A f \in Files : /\ times[f] \in 0 .. 1
                               /\ f \notin seen => times[f] = 0

Accounted ==
    ~raced /\ ~warned =>
       /\ \A f \in seen : times[f] = 1
       /\ step = "zip" => listed = {}
       /\ step \in {"loose", "zip"} =>
             \A f \in atStart : times[f] = 1 \/ f \in listed \/ f \in listing
       /\ step = "zipped" => \A f \in atStart : times[f] = 1 \/ f \in listed
       /\ step = "done" => \A f \in atStart : times[f] = 1

ReportInv == IInv /\ ReportTypeOK /\ AtMostOnce /\ Accounted

USE MaxReportsAssumption

LEMMA InitReportInv == ReportInit => ReportInv
<1> SUFFICES ASSUME ReportInit PROVE ReportInv
  OBVIOUS
<1>1. warned \in BOOLEAN
  BY Zenon DEF ReportInit
<1>2. ReportTypeOK
  BY <1>1 DEF ReportInit, ReportTypeOK
<1>3. AtMostOnce /\ Accounted
  BY DEF ReportInit, AtMostOnce, Accounted
<1> QED
  BY <1>2, <1>3, InitIInv DEF ReportInit, ReportInv

-----------------------------------------------------------------------------
(* A step of a run leaves the report where it is; unless it races, what    *)
(* the zip listed is still listed.                                         *)

LEMMA RunKeepsReport ==
    ASSUME ReportInv, Next, UNCHANGED report
    PROVE  ReportInv'
<1>1. IInv'
  BY StepIInv DEF ReportInv
<1>2. /\ step' = step /\ listed' = listed /\ seen' = seen /\ times' = times
      /\ atStart' = atStart /\ reports' = reports
  BY DEF report
<1>3. warned' = warned
  BY Zenon DEF report
<1>4. ReportTypeOK'
  BY <1>2, <1>3, Zenon DEF ReportInv, ReportTypeOK
<1>5. AtMostOnce'
  BY <1>2 DEF ReportInv, AtMostOnce
<1>6. PICK r \in Runs : Start(r) \/ RunStep(r) \/ BreakOff(r)
  BY DEF Next
<1>7. ~raced' => ~raced /\ listing \subseteq listing'
  BY <1>6, NothingLostStep, RacedStays DEF ReportInv, NothingLost
<1>8. Accounted'
  BY <1>2, <1>3, <1>7 DEF ReportInv, Accounted
<1> QED
  BY <1>1, <1>4, <1>5, <1>8 DEF ReportInv

-----------------------------------------------------------------------------
(* The steps of the report.                                                *)

\* What the report's steps leave alone.
LEMMA ReportKeepsRuns ==
    ASSUME IInv, UNCHANGED vars
    PROVE  IInv' /\ raced' = raced /\ listing' = listing
<1>1. raced' = raced
  BY Zenon DEF vars
<1>2. listing' = listing
  BY DEF vars, shared
<1> QED
  BY <1>1, <1>2, StutterIInv

LEMMA BeginKeeps ==
    ASSUME ReportInv, BeginReport
    PROVE  ReportTypeOK' /\ AtMostOnce' /\ Accounted'
<1>1. warned' = FALSE
  BY Zenon DEF BeginReport
<1>2. Present \subseteq Files /\ listing \subseteq Files
  BY DEF ReportInv, IInv, TypeOK, Present
<1>3. /\ step' = "loose" /\ listed' = Present /\ seen' = {}
      /\ times' = [f \in Files |-> 0] /\ atStart' = Present \cup listing
      /\ reports' = reports + 1 /\ reports < MaxReports
  BY DEF BeginReport
<1>4. ReportTypeOK'
  <2>1. reports' \in 0 .. MaxReports
    BY <1>3 DEF ReportInv, ReportTypeOK
  <2>2. times' \in [Files -> 0 .. 2]
    BY <1>3
  <2> QED
    BY <1>1, <1>2, <1>3, <2>1, <2>2, Zenon DEF ReportTypeOK
<1>5. raced' = raced /\ listing' = listing
  BY ReportKeepsRuns DEF BeginReport, ReportInv
<1> QED
  BY <1>1, <1>2, <1>3, <1>4, <1>5 DEF AtMostOnce, Accounted

LEMMA ReadKeeps ==
    ASSUME ReportInv, NEW f \in Files, ReadLoose(f) \/ ReadZipped(f)
    PROVE  ReportTypeOK' /\ AtMostOnce' /\ Accounted'
<1>1. /\ listed' = listed \ {f} /\ seen' = seen \cup {f}
      /\ step' = step /\ atStart' = atStart /\ reports' = reports
      /\ f \in listed /\ step \in {"loose", "zipped"}
  BY DEF ReadLoose, ReadZipped, Seen, IsFirst
<1>2. f \notin seen /\ times[f] = 0 /\ times \in [Files -> 0 .. 2]
  BY <1>1 DEF ReportInv, ReportTypeOK, AtMostOnce
<1>3. \/ times' = times /\ warned' = TRUE
      \/ times' = [times EXCEPT ![f] = 1] /\ warned' = warned
  <2>1. CASE ReadLoose(f)
    <3>1. CASE f \in Present
      <4>1. times' = [times EXCEPT ![f] = 1]
        BY <1>2, <2>1, <3>1 DEF ReadLoose
      <4>2. warned' = (warned \/ FALSE)
        BY <2>1, <3>1, Zenon DEF ReadLoose
      <4>3. warned \in BOOLEAN
        BY Zenon DEF ReportInv, ReportTypeOK
      <4> QED
        BY <4>1, <4>2, <4>3, Zenon
    <3>2. CASE f \notin Present
      <4>1. times' = times
        BY <1>2, <2>1, <3>2 DEF ReadLoose
      <4>2. warned' = TRUE
        BY <2>1, <3>2, Zenon DEF ReadLoose
      <4> QED
        BY <4>1, <4>2, Zenon
    <3> QED
      BY <3>1, <3>2
  <2>2. CASE ReadZipped(f)
    <3>1. times' = [times EXCEPT ![f] = 1]
      BY <1>2, <2>2 DEF ReadZipped
    <3>2. warned' = warned
      BY <2>2, Zenon DEF ReadZipped
    <3> QED
      BY <3>1, <3>2, Zenon
  <2> QED
    BY <2>1, <2>2
<1>4. times' \in [Files -> 0 .. 2] /\ AtMostOnce'
  BY <1>1, <1>2, <1>3 DEF ReportInv, AtMostOnce
<1>5. warned' \in BOOLEAN
  BY <1>3, Zenon DEF ReportInv, ReportTypeOK
<1>6. ReportTypeOK'
  <2>1. listed' \subseteq Files /\ seen' \subseteq Files /\ listed' \cap seen' = {}
    BY <1>1 DEF ReportInv, ReportTypeOK
  <2> QED
    BY <1>1, <1>4, <1>5, <2>1, Zenon DEF ReportInv, ReportTypeOK
<1>7. raced' = raced /\ listing' = listing
  BY ReportKeepsRuns DEF ReadLoose, ReadZipped, ReportInv
<1>8. CASE warned' = TRUE
  BY <1>4, <1>6, <1>8 DEF Accounted
<1>9. CASE times' = [times EXCEPT ![f] = 1] /\ warned' = warned
  BY <1>1, <1>2, <1>4, <1>6, <1>7, <1>9 DEF ReportInv, ReportTypeOK, Accounted
<1> QED
  BY <1>3, <1>8, <1>9

LEMMA TurnKeeps ==
    ASSUME ReportInv, LooseDone \/ OpenArchive \/ ReportDone
    PROVE  ReportTypeOK' /\ AtMostOnce' /\ Accounted'
<1>1. seen' = seen /\ times' = times /\ atStart' = atStart /\ reports' = reports
  BY DEF LooseDone, OpenArchive, ReportDone
<1>2. raced' = raced /\ listing' = listing /\ listing \subseteq Files
  BY ReportKeepsRuns
     DEF LooseDone, OpenArchive, ReportDone, ReportInv, IInv, TypeOK
<1>3. AtMostOnce'
  BY <1>1 DEF ReportInv, AtMostOnce
<1>4. CASE LooseDone
  <2>1. step = "loose" /\ step' = "zip" /\ listed = {} /\ listed' = listed
    BY <1>4 DEF LooseDone
  <2>2. warned' = warned
    BY <1>4, Zenon DEF LooseDone
  <2>3. ReportTypeOK'
    BY <1>1, <2>1, <2>2, Zenon DEF ReportInv, ReportTypeOK
  <2> QED
    BY <1>1, <1>2, <1>3, <2>1, <2>2, <2>3 DEF ReportInv, Accounted
<1>5. CASE OpenArchive
  <2>1. CASE step' = "zipped"
    <3>1. listed' = listing \ seen /\ step = "zip"
      BY <1>5, <2>1 DEF OpenArchive, Unseen
    <3>2. warned' = warned
      BY <1>5, <2>1, Zenon DEF OpenArchive
    <3>3. listed' \subseteq Files /\ listed' \cap seen' = {}
      BY <1>1, <1>2, <3>1
    <3>4. ReportTypeOK'
      BY <1>1, <2>1, <3>2, <3>3, Zenon DEF ReportInv, ReportTypeOK
    <3> QED
      BY <1>1, <1>2, <1>3, <2>1, <3>1, <3>2, <3>4
      DEF ReportInv, ReportTypeOK, Accounted
  <2>2. CASE step' = "done"
    <3>1. listed' = listed /\ step = "zip"
      BY <1>5, <2>2 DEF OpenArchive
    <3>2. \/ zip = "absent" /\ warned' = warned
          \/ warned' = TRUE
      BY <1>5, <2>2, Zenon DEF OpenArchive
    <3>3. warned' \in BOOLEAN
      BY <3>2, Zenon DEF ReportInv, ReportTypeOK
    <3>4. ReportTypeOK'
      BY <1>1, <2>2, <3>1, <3>3, Zenon DEF ReportInv, ReportTypeOK
    <3>5. CASE zip = "absent" /\ warned' = warned
      <4>1. listing = {}
        BY <3>5 DEF ReportInv, IInv, AbsentIsEmpty
      <4> QED
        BY <1>1, <1>2, <1>3, <2>2, <3>1, <3>4, <3>5, <4>1
        DEF ReportInv, Accounted
    <3>6. CASE warned' = TRUE
      BY <1>3, <3>4, <3>6 DEF Accounted
    <3> QED
      BY <3>2, <3>5, <3>6
  <2> QED
    BY <1>5, <2>1, <2>2 DEF OpenArchive
<1>6. CASE ReportDone
  <2>1. step = "zipped" /\ step' = "done" /\ listed = {} /\ listed' = listed
    BY <1>6 DEF ReportDone
  <2>2. warned' = warned
    BY <1>6, Zenon DEF ReportDone
  <2>3. ReportTypeOK'
    BY <1>1, <2>1, <2>2, Zenon DEF ReportInv, ReportTypeOK
  <2> QED
    BY <1>1, <1>2, <1>3, <2>1, <2>2, <2>3 DEF ReportInv, Accounted
<1> QED
  BY <1>4, <1>5, <1>6

LEMMA StepReportInv == ReportInv /\ [ReportNext]_allVars => ReportInv'
<1> SUFFICES ASSUME ReportInv, [ReportNext]_allVars PROVE ReportInv'
  OBVIOUS
<1>1. CASE Next /\ UNCHANGED report
  BY <1>1, RunKeepsReport
<1>2. CASE BeginReport
  BY <1>2, BeginKeeps, ReportKeepsRuns DEF BeginReport, ReportInv
<1>3. CASE LooseDone \/ OpenArchive \/ ReportDone
  BY <1>3, TurnKeeps, ReportKeepsRuns
     DEF LooseDone, OpenArchive, ReportDone, ReportInv
<1>4. ASSUME NEW f \in Files, ReadLoose(f) \/ ReadZipped(f)
      PROVE  ReportInv'
  BY <1>4, ReadKeeps, ReportKeepsRuns DEF ReadLoose, ReadZipped, ReportInv
<1>5. CASE UNCHANGED allVars
  <2>1. UNCHANGED vars /\ step' = step /\ listed' = listed /\ seen' = seen
        /\ times' = times /\ atStart' = atStart /\ reports' = reports
    BY <1>5 DEF allVars, report
  <2>2. warned' = warned
    BY <1>5, Zenon DEF allVars, report
  <2>3. IInv' /\ raced' = raced /\ listing' = listing
    BY <2>1, ReportKeepsRuns DEF ReportInv
  <2>4. ReportTypeOK'
    BY <2>1, <2>2, Zenon DEF ReportInv, ReportTypeOK
  <2> QED
    BY <2>1, <2>2, <2>3, <2>4 DEF ReportInv, AtMostOnce, Accounted
<1> QED
  BY <1>1, <1>2, <1>3, <1>4, <1>5 DEF ReportNext, ReportStep

LEMMA ReportInvariance == ReportSpec => []ReportInv
  BY InitReportInv, StepReportInv, PTL DEF ReportSpec

\* "a file present in both places contributes once", however many runs move it
\* between the two meanwhile; and a report leaves a file out in silence only if
\* a zip was opened on a stale view, which takes two runs.
THEOREM HonestReport == ReportSpec => []ReportIsHonest
<1>1. ReportInv => ContributesAtMostOnce
  BY DEF ReportInv, AtMostOnce, ContributesAtMostOnce
<1>2. ReportInv => raced \/ OmissionIsLoud
  BY DEF ReportInv, Accounted, OmissionIsLoud
<1>3. ReportInv => ReportIsHonest
  BY <1>1, <1>2 DEF ReportInv, ReportIsHonest
<1> QED
  BY <1>3, ReportInvariance, PTL

=============================================================================
