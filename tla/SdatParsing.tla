----------------------------- MODULE SdatParsing -----------------------------
(***************************************************************************)
(* From the texts of a delivery to rows: load_headers reads every file of  *)
(* a batch and leaves out those that cannot be read; what was read is      *)
(* stored. All files are of one meter and one series.                      *)
(*                                                                         *)
(* A text is what int(), Decimal() and fromisoformat() make of it: a       *)
(* number, junk, empty (an element without text), absent (no element), or  *)
(* special (NaN or Infinity, which Decimal accepts). Volumes count         *)
(* ten-thousandths of a kWh, times count minutes.                          *)
(***************************************************************************)
EXTENDS Integers, Sequences

CONSTANTS
    Documents,    \* the documents a batch may hold
    Instants,     \* the minutes that datetime can represent: years 1 to 9999
    MaxFiles      \* files of the batch (a bound)

TextKinds == {"number", "junk", "empty", "absent", "special"}

\* n and places (the decimals written) are those of a number.
IsText(text) == text.is \in TextKinds /\ text.n \in Int /\ text.places \in Nat

IsVolume(text) ==
    IsText(text) /\ (text.is = "number" /\ text.places =< 3 => text.n % 10 = 0)

ASSUME DocumentsAssumption ==
    \A doc \in Documents :
        /\ doc.form \in {"xml", "torn", "encoding", "other"}
        /\ IsText(doc.resolution)
        /\ IsText(doc.start) /\ (doc.start.is = "number" => doc.start.n \in Instants)
        /\ doc.reason \in {"C40", "E88", "unknown"}
        /\ Len(doc.observations) \in Nat
        /\ DOMAIN doc.observations = 1 .. Len(doc.observations)
        /\ \A i \in DOMAIN doc.observations :
             /\ IsText(doc.observations[i].sequence)
             /\ IsVolume(doc.observations[i].volume)
             /\ doc.observations[i].slot \in Int

\* Of an observation, slot is the instant the provider measured. Nothing in the
\* file states it: the provider numbers the slots of a document from its start.
ASSUME NumberingAssumption ==
    \A doc \in Documents : \A i \in DOMAIN doc.observations :
        LET o == doc.observations[i]
        IN {doc.start.is, doc.resolution.is, o.sequence.is} = {"number"}
           => o.slot = doc.start.n + (o.sequence.n - 1) * doc.resolution.n

ASSUME MaxFilesAssumption == MaxFiles \in Nat

VARIABLES
    batch,      \* the files, in the order they are read
    read,       \* how many were read
    headers,    \* positions with a header
    stored,     \* how many were stored, or passed over for want of a header
    phase,      \* reading, storing, done, or aborted
    table       \* of each time, the value stored: thousandths of a kWh

vars == <<batch, read, headers, stored, phase, table>>

TypeOK ==
    /\ batch \in Seq(Documents) /\ Len(batch) \in 1 .. MaxFiles
    /\ read \in 0 .. Len(batch)
    /\ headers \subseteq 1 .. read
    /\ stored \in 0 .. Len(batch)
    /\ phase \in {"reading", "storing", "done", "aborted"}
    /\ \A t \in DOMAIN table : t \in Int /\ table[t] \in Int

-----------------------------------------------------------------------------
(* sdat_xml.py and parse_header: what a document raises, if anything.      *)

\* int() of an element's text.
IntRaises(text) == CASE text.is = "number" -> {}
                     [] text.is = "empty" -> {"TypeError"}
                     [] OTHER -> {"ValueError"}

\* Decimal(), then the scale: -exponent of NaN is not a number.
VolumeRaises(text) ==
    CASE text.is = "number" /\ text.places =< 3 -> {}
      [] text.is = "special" -> {"TypeError"}
      [] OTHER -> {"ValueError"}

\* Mutant: an observation that is not understood is passed over.
Skipped_lenient(o) == \/ o.sequence.is # "number" \/ o.volume.is # "number"

\* An observation without one of its elements.
Skipped(o) == o.sequence.is = "absent" \/ o.volume.is = "absent"

\* Mutant: observations are timed by their place in the file.
Instant_byPlace(doc, i) == doc.start.n + (i - 1) * doc.resolution.n

\* base + (sequence - 1) * resolution
Instant(doc, i) ==
    doc.start.n + (doc.observations[i].sequence.n - 1) * doc.resolution.n

\* timedelta() and its addition to the base, of numbers too large for them.
InstantRaises(doc, i) == IF Instant(doc, i) \in Instants THEN {} ELSE {"OverflowError"}

\* Sequence, volume, time: the exceptions in the order they would be raised.
ObservationRaises(doc, i) ==
    LET o == doc.observations[i]
    IN CASE Skipped(o) -> {}
         [] ~Skipped(o) /\ IntRaises(o.sequence) # {} -> IntRaises(o.sequence)
         [] ~Skipped(o) /\ IntRaises(o.sequence) = {} /\ VolumeRaises(o.volume) # {}
              -> VolumeRaises(o.volume)
         [] OTHER -> InstantRaises(doc, i)

\* The first observation that cannot be read.
ObservationsRaise(doc) ==
    LET bad == {i \in DOMAIN doc.observations : ObservationRaises(doc, i) # {}}
        first == CHOOSE i \in bad : \A j \in bad : i =< j
    IN IF bad = {} THEN {} ELSE ObservationRaises(doc, first)

\* What reading a file raises first: no XML, an encoding that nobody knows or no
\* MeteringData, resolution, start, business reason, observations.
Raises(doc) ==
    CASE doc.form = "torn" -> {"ParseError"}
      [] doc.form = "encoding" -> {"LookupError"}
      [] doc.form = "other" \/ (doc.form = "xml" /\ doc.resolution.is = "absent")
           -> {"ValueError"}
      [] doc.form = "xml" /\ doc.resolution.is # "absent"
         /\ IntRaises(doc.resolution) # {} -> IntRaises(doc.resolution)
      [] doc.form = "xml" /\ IntRaises(doc.resolution) = {}
         /\ (doc.start.is # "number" \/ doc.reason = "unknown") -> {"ValueError"}
      [] OTHER -> ObservationsRaise(doc)

Taken(doc) == {i \in DOMAIN doc.observations : ~Skipped(doc.observations[i])}

\* DECIMAL(12,3) keeps three decimals.
Stored(volume) == volume.n \div 10

\* Mutant: only a file that is no XML is left out.
Caught_xmlOnly == {"OSError", "ParseError"}

\* What load_headers catches.
Caught == {"OSError", "ParseError", "ValueError"}

-----------------------------------------------------------------------------
Init ==
    /\ batch \in UNION {[1 .. n -> Documents] : n \in 1 .. MaxFiles}
    /\ read = 0
    /\ headers = {}
    /\ stored = 0
    /\ phase = "reading"
    /\ table = <<>>

\* load_headers: the next file.
ReadHeader ==
    /\ phase = "reading"
    /\ read < Len(batch)
    /\ Raises(batch[read + 1]) \subseteq Caught
    /\ read' = read + 1
    /\ headers' = IF Raises(batch[read']) = {} THEN headers \cup {read'} ELSE headers
    /\ UNCHANGED <<batch, stored, phase, table>>

\* An exception that is not caught ends the run.
Abort ==
    /\ phase = "reading"
    /\ read < Len(batch)
    /\ ~(Raises(batch[read + 1]) \subseteq Caught)
    /\ phase' = "aborted"
    /\ UNCHANGED <<batch, read, headers, stored, table>>

AllRead ==
    /\ phase = "reading"
    /\ read = Len(batch)
    /\ phase' = "storing"
    /\ UNCHANGED <<batch, read, headers, stored, table>>

\* The rows of a file: of two observations at one time, the later one.
LastOf(doc, time) == LET at == {i \in Taken(doc) : Instant(doc, i) = time}
                     IN CHOOSE i \in at : \A j \in at : j =< i

Rows(doc) == [time \in {Instant(doc, i) : i \in Taken(doc)} |->
                Stored(doc.observations[LastOf(doc, time)].volume)]

\* process_sdat_files_for_date goes through the files in their order; the rows
\* of one that was read take the place of those stored before.
Store ==
    /\ phase = "storing"
    /\ stored < Len(batch)
    /\ stored' = stored + 1
    /\ table' = LET rows == Rows(batch[stored'])
                IN IF stored' \notin headers THEN table
                   ELSE [time \in DOMAIN rows \cup DOMAIN table |->
                           IF time \in DOMAIN rows THEN rows[time] ELSE table[time]]
    /\ UNCHANGED <<batch, read, headers, phase>>

AllStored ==
    /\ phase = "storing"
    /\ stored = Len(batch)
    /\ phase' = "done"
    /\ UNCHANGED <<batch, read, headers, stored, table>>

Next == ReadHeader \/ Abort \/ AllRead \/ Store \/ AllStored
Spec == Init /\ [][Next]_vars

-----------------------------------------------------------------------------
\* Observations of the batch that were read and are not absent, and the order in
\* which the provider sent them.
Readings == UNION {{k} \X Taken(batch[k]) : k \in headers}
Reading(r) == batch[r[1]].observations[r[2]]
NotAfter(q, r) == q[1] < r[1] \/ (q[1] = r[1] /\ q[2] =< r[2])

\* Of each slot measured, the table holds the last reading.
HoldsLast(R) ==
    /\ DOMAIN table = {Reading(r).slot : r \in R}
    /\ \A time \in DOMAIN table : \E r \in R :
          /\ Reading(r).slot = time
          /\ \A q \in R : Reading(q).slot = time => NotAfter(q, r)
          /\ table[time] = Stored(Reading(r).volume)

\* A stored value is at the instant the provider measured it, whatever
\* observations are missing from the document or come in another order, and it
\* is the one of the last document that has it.
ReadingsAtTheirInstant == phase = "done" => HoldsLast(Readings)

\* The types of the state, and that.
ReadingsAreRight == TypeOK /\ ReadingsAtTheirInstant

\* "a 4-dp value would be rounded silently by the database" (VALUE_SCALE): no
\* value that is stored lost a digit, whatever the provider writes.
NothingIsRounded ==
    phase = "done" => \A r \in Readings : Stored(Reading(r).volume) * 10 = Reading(r).volume.n

\* "rather than silently ingesting partial data" (parse_observations): a file
\* that was read has no observation that could not be.
NoPartialFile ==
    \A k \in headers : \A i \in DOMAIN batch[k].observations :
        LET texts == {batch[k].observations[i].sequence.is,
                      batch[k].observations[i].volume.is}
        IN texts = {"number"} \/ "absent" \in texts

\* Nothing of a file is lost on the way: no digit, and no observation.
StoredIsComplete == NothingIsRounded /\ NoPartialFile

\* What no except clause of load_headers expects: an encoding Python does not
\* know, an element without text, a volume that is no number to compare, and an
\* observation so far from the start that no datetime holds its time.
Odd(doc) ==
    \/ doc.form = "encoding"
    \/ doc.resolution.is = "empty"
    \/ \E i \in DOMAIN doc.observations :
         LET o == doc.observations[i]
         IN \/ o.sequence.is = "empty"
            \/ o.volume.is = "special"
            \/ /\ {doc.start.is, doc.resolution.is, o.sequence.is} = {"number"}
               /\ Instant(doc, i) \notin Instants

\* "A file that cannot be read is left out rather than aborting the batch"
\* (load_headers), whatever is torn, missing or malformed, in this file or in
\* those around it, unless the file is odd in one of these four ways.
OrdinaryFaultsAreLeftOut == phase = "aborted" => Odd(batch[read + 1])

\* The same, for every file. No run checks it, for an odd file ends the run.
BatchSurvives == phase # "aborted"

=============================================================================
