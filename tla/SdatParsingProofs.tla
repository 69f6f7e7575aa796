-------------------------- MODULE SdatParsingProofs --------------------------
(***************************************************************************)
(* What becomes of the documents of a batch, for any documents and any     *)
(* number of them.                                                         *)
(*                                                                         *)
(* IInv says at every step what ReadingsAreRight says at the end: the      *)
(* headers are those of the files read so far that raise nothing, and the  *)
(* table holds, of each slot, the last reading of the files stored so far. *)
(***************************************************************************)
EXTENDS SdatParsing, WellFoundedInduction, TLAPS

\* A set of natural numbers has a least one, and a greatest below a bound.
LEMMA LeastOf ==
    ASSUME NEW S \in SUBSET Nat, S # {}
    PROVE  \E i \in S : \A j \in S : i =< j
<1> DEFINE R == OpToRel(<, Nat)
<1>1. IsWellFoundedOn(R, Nat)
  BY NatLessThanWellFounded
<1>2. PICK i \in S : \A j \in S : ~ (<<j, i>> \in R)
  BY <1>1, WFMin, Zenon
<1>3. ASSUME NEW j \in S PROVE ~ (j < i)
  <2>1. <<j, i>> \in R <=> j < i
    BY DEF OpToRel
  <2> HIDE DEF R
  <2> QED
    BY <1>2, <2>1, Zenon
<1> QED
  BY <1>3

LEMMA GreatestOf ==
    ASSUME NEW n \in Nat, NEW S \in SUBSET (1 .. n), S # {}
    PROVE  \E i \in S : \A j \in S : j =< i
<1> DEFINE T == {n - i : i \in S}
<1>0. PICK x \in S : TRUE
  OBVIOUS
<1>1. T \in SUBSET Nat /\ n - x \in T
  OBVIOUS
<1>2. PICK k \in T : \A j \in T : k =< j
  BY <1>1, LeastOf, Zenon
<1>3. PICK i \in S : k = n - i
  OBVIOUS
<1>4. \A j \in S : n - j \in T
  OBVIOUS
<1> HIDE DEF T
<1> QED
  BY <1>2, <1>3, <1>4

-----------------------------------------------------------------------------
(* What a document that was read is made of.                               *)

USE DocumentsAssumption, MaxFilesAssumption

Readable(doc) ==
    /\ {doc.start.is, doc.resolution.is} = {"number"}
    /\ \A i \in DOMAIN doc.observations : ObservationRaises(doc, i) = {}

\* Where no observation raises, none is found to raise first, and conversely:
\* there is a first one among those that do.
LEMMA FirstRaises ==
    ASSUME NEW doc \in Documents
    PROVE  \/ /\ ObservationsRaise(doc) = {}
              /\ \A i \in DOMAIN doc.observations :
                    ObservationRaises(doc, i) = {}
           \/ /\ ObservationsRaise(doc) # {}
              /\ \E i \in DOMAIN doc.observations :
                    ObservationsRaise(doc) = ObservationRaises(doc, i)
<1> DEFINE bad == {i \in DOMAIN doc.observations :
                      ObservationRaises(doc, i) # {}}
           first == CHOOSE i \in bad : \A j \in bad : i =< j
<1>1. CASE bad = {}
  BY <1>1 DEF ObservationsRaise
<1>2. CASE bad # {}
  <2>1. bad \in SUBSET Nat
    OBVIOUS
  <2>2. \E i \in bad : \A j \in bad : i =< j
    BY <1>2, <2>1, LeastOf, Zenon
  <2>3. first \in bad
    BY <2>2, Zenon
  <2>4. ObservationsRaise(doc) = ObservationRaises(doc, first)
    BY <1>2, Zenon DEF ObservationsRaise
  <2> HIDE DEF first
  <2> QED
    BY <2>3, <2>4
<1> QED
  BY <1>1, <1>2

LEMMA ReadableIs ==
    ASSUME NEW doc \in Documents, Raises(doc) = {}
    PROVE  Readable(doc)
<1>1. /\ IntRaises(doc.resolution) = {}
      /\ doc.start.is = "number"
      /\ ObservationsRaise(doc) = {}
  BY DEF Raises
<1>2. doc.resolution.is = "number"
  BY <1>1 DEF IntRaises
<1> QED
  BY <1>1, <1>2, FirstRaises DEF Readable

\* Its observations are numbers, at the instant that was measured.
LEMMA TakenIs ==
    ASSUME NEW doc \in Documents, Readable(doc), NEW i \in Taken(doc)
    PROVE  LET o == doc.observations[i] IN
           /\ i \in 1 .. Len(doc.observations)
           /\ o.volume.is = "number" /\ o.sequence.is = "number"
           /\ o.volume.n \in Int /\ Stored(o.volume) * 10 = o.volume.n
           /\ Instant(doc, i) = o.slot /\ o.slot \in Int
<1> DEFINE o == doc.observations[i]
<1>1. i \in DOMAIN doc.observations /\ i \in 1 .. Len(doc.observations) /\ ~Skipped(o)
  BY DEF Taken
<1>2. ObservationRaises(doc, i) = {}
  BY <1>1 DEF Readable
<1>3. IntRaises(o.sequence) = {} /\ VolumeRaises(o.volume) = {}
  BY <1>1, <1>2 DEF ObservationRaises, InstantRaises
<1>4. o.sequence.is = "number" /\ o.volume.is = "number" /\ o.volume.places =< 3
  BY <1>3 DEF IntRaises, VolumeRaises
<1>5. o.volume.n \in Int /\ o.volume.n % 10 = 0 /\ o.slot \in Int
  BY <1>1, <1>4 DEF IsVolume, IsText
<1>6. Stored(o.volume) * 10 = o.volume.n
  BY <1>5 DEF Stored
<1>7. Instant(doc, i) = o.slot
  BY <1>1, <1>4, NumberingAssumption DEF Readable, Instant
<1> QED
  BY <1>1, <1>4, <1>5, <1>6, <1>7

\* The times of its rows, and what each holds.
LEMMA RowsAre ==
    ASSUME NEW doc \in Documents, Readable(doc)
    PROVE  /\ DOMAIN Rows(doc) = {doc.observations[i].slot : i \in Taken(doc)}
           /\ \A time \in DOMAIN Rows(doc) : \E i \in Taken(doc) :
                 /\ doc.observations[i].slot = time
                 /\ \A j \in Taken(doc) : doc.observations[j].slot = time => j =< i
                 /\ Rows(doc)[time] = Stored(doc.observations[i].volume)
<1>1. DOMAIN Rows(doc) = {Instant(doc, i) : i \in Taken(doc)}
  BY DEF Rows
<1>2. \A i \in Taken(doc) : Instant(doc, i) = doc.observations[i].slot
  BY TakenIs
<1>3. ASSUME NEW time \in DOMAIN Rows(doc)
      PROVE  \E i \in Taken(doc) :
                 /\ doc.observations[i].slot = time
                 /\ \A j \in Taken(doc) : doc.observations[j].slot = time => j =< i
                 /\ Rows(doc)[time] = Stored(doc.observations[i].volume)
  <2> DEFINE at == {i \in Taken(doc) : Instant(doc, i) = time}
             last == CHOOSE i \in at : \A j \in at : j =< i
  <2>1. at # {} /\ at \in SUBSET (1 .. Len(doc.observations))
    BY <1>1, <1>3 DEF Taken
  <2>2. \E i \in at : \A j \in at : j =< i
    <3>1. Len(doc.observations) \in Nat
      OBVIOUS
    <3> QED
      BY <2>1, <3>1, GreatestOf, Zenon
  <2>3. last \in at /\ \A j \in at : j =< last
    BY <2>2, Zenon
  <2>4. Rows(doc)[time] = Stored(doc.observations[last].volume)
    BY <1>1, <1>3, Zenon DEF Rows, LastOf
  <2> HIDE DEF last
  <2> QED
    BY <1>2, <2>3, <2>4
<1> QED
  BY <1>1, <1>2, <1>3

-----------------------------------------------------------------------------
(* The invariant.                                                          *)

ReadInv == headers = {k \in 1 .. read : Raises(batch[k]) = {}}

PhaseInv ==
    /\ phase \in {"reading", "aborted"} => stored = 0
    /\ phase \in {"storing", "done"} => read = Len(batch)
    /\ phase = "done" => stored = Len(batch)
    /\ phase = "aborted" => /\ read < Len(batch)
                            /\ ~(Raises(batch[read + 1]) \subseteq Caught)

\* The readings of the files stored so far.
ReadingsSoFar == {r \in Readings : r[1] =< stored}

IInv == TypeOK /\ ReadInv /\ PhaseInv /\ HoldsLast(ReadingsSoFar)

LEMMA BatchIs ==
    ASSUME TypeOK, NEW k \in 1 .. Len(batch)
    PROVE  batch[k] \in Documents
  BY DEF TypeOK

LEMMA HeadersReadable ==
    ASSUME TypeOK, ReadInv, NEW k \in headers
    PROVE  /\ k \in 1 .. read /\ k \in 1 .. Len(batch)
           /\ batch[k] \in Documents
           /\ Readable(batch[k])
<1>1. k \in 1 .. read /\ k \in 1 .. Len(batch) /\ Raises(batch[k]) = {}
  BY DEF TypeOK, ReadInv
<1> QED
  BY <1>1, BatchIs, ReadableIs

LEMMA ReadingsAre ==
    \A r : r \in Readings <=> \E k \in headers : \E i \in Taken(batch[k]) : r = <<k, i>>
  BY DEF Readings

\* HoldsLast depends on the table, the batch and the readings.
Holds(tab, docs, R) ==
    /\ DOMAIN tab = {docs[r[1]].observations[r[2]].slot : r \in R}
    /\ \A time \in DOMAIN tab : \E r \in R :
          /\ docs[r[1]].observations[r[2]].slot = time
          /\ \A q \in R : docs[q[1]].observations[q[2]].slot = time => NotAfter(q, r)
          /\ tab[time] = Stored(docs[r[1]].observations[r[2]].volume)

LEMMA HoldsLastIs ==
    /\ HoldsLast(ReadingsSoFar) <=> Holds(table, batch, ReadingsSoFar)
    /\ HoldsLast(ReadingsSoFar)' <=> Holds(table', batch', ReadingsSoFar')
<1>1. HoldsLast(ReadingsSoFar) <=> Holds(table, batch, ReadingsSoFar)
  BY Zenon DEF HoldsLast, Holds, Reading
<1>2. HoldsLast(ReadingsSoFar)' <=> Holds(table', batch', ReadingsSoFar')
  BY Zenon DEF HoldsLast, Holds, Reading
<1> QED
  BY <1>1, <1>2

LEMMA InitIInv == Init => IInv
<1> SUFFICES ASSUME Init PROVE IInv
  OBVIOUS
<1>1. PICK n \in 1 .. MaxFiles : batch \in [1 .. n -> Documents]
  BY DEF Init
<1>2. batch \in Seq(Documents) /\ Len(batch) = n
  BY <1>1
<1>3. TypeOK
  BY <1>2 DEF Init, TypeOK
<1>4. ReadInv /\ PhaseInv
  BY DEF Init, ReadInv, PhaseInv
<1>5. Readings = {} /\ DOMAIN table = {}
  BY DEF Init, Readings
<1>6. HoldsLast(ReadingsSoFar)
  BY <1>5 DEF ReadingsSoFar, HoldsLast
<1> QED
  BY <1>3, <1>4, <1>6 DEF IInv

\* A file stored: its readings are later than those before.
LEMMA StoreHoldsLast ==
    ASSUME IInv, Store
    PROVE  /\ HoldsLast(ReadingsSoFar)'
           /\ \A time \in DOMAIN table' : time \in Int /\ table'[time] \in Int
<1> DEFINE k == stored + 1
           doc == batch[k]
<1>1. /\ TypeOK /\ ReadInv /\ HoldsLast(ReadingsSoFar)
      /\ stored \in Nat /\ k \in 1 .. Len(batch) /\ stored' = k
      /\ UNCHANGED <<batch, headers>>
  BY DEF IInv, Store, TypeOK
<1>2. Readings' = Readings
  BY <1>1 DEF Readings, Taken
<1>3. CASE k \notin headers
  <2>1. table' = table
    BY <1>1, <1>3 DEF Store
  <2>2. ASSUME NEW r \in Readings PROVE r[1] =< k <=> r[1] =< stored
    <3>1. r[1] \in headers /\ r[1] \in Nat
      BY <1>1, ReadingsAre DEF TypeOK
    <3> QED
      BY <1>1, <1>3, <3>1
  <2>3. ReadingsSoFar' = ReadingsSoFar
    BY <1>1, <1>2, <2>2 DEF ReadingsSoFar
  <2>4. HoldsLast(ReadingsSoFar)'
    BY <1>1, <2>1, <2>3, HoldsLastIs
  <2> QED
    BY <1>1, <2>1, <2>4 DEF TypeOK
<1>4. CASE k \in headers
  <2> DEFINE rows == Rows(doc)
             new == {<<k, i>> : i \in Taken(doc)}
  <2>1. doc \in Documents /\ Readable(doc)
    BY <1>1, <1>4, HeadersReadable
  <2>2. table' = [time \in DOMAIN rows \cup DOMAIN table |->
                    IF time \in DOMAIN rows THEN rows[time] ELSE table[time]]
    BY <1>1, <1>4 DEF Store
  <2>3. ReadingsSoFar' = ReadingsSoFar \cup new
    <3>1. ASSUME NEW r \in Readings PROVE r[1] =< k <=> r[1] =< stored \/ r \in new
      BY <1>1, ReadingsAre DEF TypeOK
    <3>2. new \subseteq Readings /\ \A r \in new : r[1] = k
      BY <1>4, ReadingsAre
    <3> QED
      BY <1>1, <1>2, <3>1, <3>2 DEF ReadingsSoFar
  <2>4. \A r \in new : /\ r[2] \in Taken(doc) /\ r = <<k, r[2]>>
                       /\ Reading(r) = doc.observations[r[2]]
    BY DEF Reading
  <2>5. DOMAIN rows = {Reading(r).slot : r \in new}
    <3>1. DOMAIN rows = {doc.observations[i].slot : i \in Taken(doc)}
      BY <2>1, RowsAre
    <3>2. \A i \in Taken(doc) : <<k, i>> \in new /\ Reading(<<k, i>>) = doc.observations[i]
      BY DEF Reading
    <3> HIDE DEF new, rows
    <3>3. ASSUME NEW r \in new PROVE Reading(r).slot \in DOMAIN rows
      BY <2>4, <3>1
    <3>4. ASSUME NEW time \in DOMAIN rows PROVE \E r \in new : Reading(r).slot = time
      BY <3>1, <3>2
    <3> QED
      BY <3>3, <3>4
  <2>6. DOMAIN table' = {Reading(r).slot : r \in ReadingsSoFar \cup new}
    <3>1. DOMAIN table = {Reading(r).slot : r \in ReadingsSoFar}
      BY <1>1 DEF HoldsLast
    <3>2. DOMAIN table' = DOMAIN table \cup DOMAIN rows
      BY <2>2
    <3> HIDE DEF new, rows
    <3>3. {Reading(r).slot : r \in ReadingsSoFar \cup new}
             = {Reading(r).slot : r \in ReadingsSoFar} \cup {Reading(r).slot : r \in new}
      BY Zenon DEF Reading
    <3> QED
      BY <2>5, <3>1, <3>2, <3>3, Zenon
  <2>7. ASSUME NEW time \in DOMAIN table'
        PROVE  \E r \in ReadingsSoFar \cup new :
                 /\ Reading(r).slot = time
                 /\ \A q \in ReadingsSoFar \cup new :
                       Reading(q).slot = time => NotAfter(q, r)
                 /\ table'[time] = Stored(Reading(r).volume)
    <3>1. \A q \in ReadingsSoFar : q[1] \in Nat /\ q[1] < k
      BY <1>1, ReadingsAre DEF ReadingsSoFar, TypeOK
    <3>2. CASE time \in DOMAIN rows
      <4>1. PICK i \in Taken(doc) :
              /\ doc.observations[i].slot = time
              /\ \A j \in Taken(doc) : doc.observations[j].slot = time => j =< i
              /\ rows[time] = Stored(doc.observations[i].volume)
        BY <2>1, <3>2, RowsAre
      <4> DEFINE r == <<k, i>>
      <4>2. r \in new /\ Reading(r) = doc.observations[i] /\ r[1] = k /\ r[2] = i
        BY DEF Reading
      <4>3. table'[time] = rows[time]
        BY <2>2, <2>7, <3>2
      <4>4. ASSUME NEW q \in ReadingsSoFar \cup new, Reading(q).slot = time
            PROVE  NotAfter(q, r)
        <5>1. CASE q \in ReadingsSoFar
          BY <3>1, <4>2, <5>1 DEF NotAfter
        <5>2. CASE q \in new
          BY <2>4, <4>1, <4>2, <4>4, <5>2 DEF NotAfter
        <5> QED
          BY <4>4, <5>1, <5>2
      <4> HIDE DEF r, new, rows
      <4> QED
        BY <4>1, <4>2, <4>3, <4>4
    <3>3. CASE time \notin DOMAIN rows
      <4>1. time \in DOMAIN table /\ table'[time] = table[time]
        BY <2>2, <2>7, <3>3
      <4>2. PICK r \in ReadingsSoFar :
              /\ Reading(r).slot = time
              /\ \A q \in ReadingsSoFar : Reading(q).slot = time => NotAfter(q, r)
              /\ table[time] = Stored(Reading(r).volume)
        BY <1>1, <4>1 DEF HoldsLast
      <4>3. \A q \in new : Reading(q).slot # time
        BY <2>5, <3>3
      <4> HIDE DEF new, rows
      <4> QED
        BY <4>1, <4>2, <4>3
    <3> QED
      BY <3>2, <3>3
  <2>8. HoldsLast(ReadingsSoFar)'
    <3> HIDE DEF new, rows
    <3>1. Holds(table', batch, ReadingsSoFar \cup new)
      BY <2>6, <2>7, Zenon DEF Holds, Reading
    <3>2. batch' = batch
      BY <1>1
    <3> QED
      BY <2>3, <3>1, <3>2, HoldsLastIs
  <2>9. ASSUME NEW time \in DOMAIN table'
        PROVE  time \in Int /\ table'[time] \in Int
    <3>1. PICK r \in ReadingsSoFar \cup new :
            /\ Reading(r).slot = time
            /\ table'[time] = Stored(Reading(r).volume)
      BY <2>7
    <3>2. r \in Readings
      BY <1>4, ReadingsAre DEF ReadingsSoFar
    <3>h. PICK h \in headers : \E i \in Taken(batch[h]) : r = <<h, i>>
      BY <3>2, ReadingsAre
    <3>3. PICK i \in Taken(batch[h]) : r = <<h, i>>
      BY <3>h
    <3>4. batch[h] \in Documents /\ Readable(batch[h])
      BY <1>1, HeadersReadable
    <3>5. Reading(r) = batch[h].observations[i]
      BY <3>3 DEF Reading
    <3>6. Reading(r).slot \in Int /\ Reading(r).volume.n \in Int
      BY <3>4, <3>5, TakenIs
    <3> QED
      BY <3>1, <3>6 DEF Stored
  <2> QED
    BY <2>8, <2>9
<1> QED
  BY <1>3, <1>4

\* The other steps store nothing; what they read has not been stored.
LEMMA StepIInv == IInv /\ [Next]_vars => IInv'
<1> SUFFICES ASSUME IInv, [Next]_vars PROVE IInv'
  OBVIOUS
<1>0. TypeOK /\ ReadInv /\ PhaseInv /\ HoldsLast(ReadingsSoFar)
  BY DEF IInv
<1>1. CASE ReadHeader
  <2>1. /\ read \in Nat /\ read < Len(batch) /\ read' = read + 1
        /\ phase = "reading" /\ stored = 0 /\ Len(batch) \in Nat
        /\ headers' = IF Raises(batch[read']) = {} THEN headers \cup {read'} ELSE headers
        /\ UNCHANGED <<batch, stored, phase, table>>
    BY <1>0, <1>1 DEF ReadHeader, TypeOK, PhaseInv
  <2>2. TypeOK'
    BY <1>0, <2>1 DEF TypeOK
  <2>3. ReadInv'
    <3>1. 1 .. read' = (1 .. read) \cup {read'}
      BY <2>1
    <3> QED
      BY <1>0, <2>1, <3>1 DEF ReadInv
  <2>4. PhaseInv'
    BY <1>0, <2>1 DEF PhaseInv
  <2>5. ReadingsSoFar = {} /\ ReadingsSoFar' = {}
    BY <1>0, <2>1, <2>2, ReadingsAre DEF ReadingsSoFar, TypeOK, Readings, Taken, Skipped
  <2>6. HoldsLast(ReadingsSoFar)'
    BY <1>0, <2>1, <2>5 DEF HoldsLast
  <2> QED
    BY <2>2, <2>3, <2>4, <2>6 DEF IInv
<1>2. CASE Store
  <2>h. /\ HoldsLast(ReadingsSoFar)'
        /\ \A time \in DOMAIN table' : time \in Int /\ table'[time] \in Int
    BY <1>2, StoreHoldsLast
  <2>s. /\ stored \in 0 .. Len(batch) /\ stored < Len(batch) /\ stored' = stored + 1
        /\ UNCHANGED <<batch, read, headers, phase>>
    BY <1>0, <1>2 DEF TypeOK, Store
  <2>1. HoldsLast(ReadingsSoFar)' /\ TypeOK'
    BY <1>0, <2>h, <2>s DEF TypeOK
  <2>2. ReadInv' /\ PhaseInv'
    BY <1>0, <1>2 DEF ReadInv, PhaseInv, Store
  <2> QED
    BY <2>1, <2>2 DEF IInv
<1>3. ASSUME Abort \/ AllRead \/ AllStored \/ UNCHANGED vars PROVE IInv'
  <2>1. UNCHANGED <<batch, read, headers, stored, table>>
    BY <1>3 DEF Abort, AllRead, AllStored, vars
  <2>2. TypeOK'
    BY <1>0, <1>3, <2>1 DEF TypeOK, Abort, AllRead, AllStored, vars
  <2>3. ReadInv'
    BY <1>0, <2>1 DEF ReadInv
  <2>4. PhaseInv'
    BY <1>0, <1>3, <2>1 DEF PhaseInv, Abort, AllRead, AllStored, vars
  <2>r. ReadingsSoFar' = ReadingsSoFar
    BY <2>1 DEF ReadingsSoFar, Readings, Taken
  <2>5. HoldsLast(ReadingsSoFar)'
    BY <1>0, <2>1, <2>r, HoldsLastIs
  <2> QED
    BY <2>2, <2>3, <2>4, <2>5 DEF IInv
<1> QED
  BY <1>1, <1>2, <1>3 DEF Next

LEMMA SpecIInv == Spec => []IInv
  BY InitIInv, StepIInv, PTL DEF Spec

-----------------------------------------------------------------------------
\* For any documents: when the batch is stored, the table holds the slots that
\* were measured, each with its last reading (ReadingsAreRight).
THEOREM ReadingsRight == Spec => []ReadingsAreRight
<1>1. IInv => ReadingsAreRight
  <2> SUFFICES ASSUME IInv, phase = "done" PROVE HoldsLast(Readings)
    BY DEF IInv, ReadingsAreRight, ReadingsAtTheirInstant
  <2>1. \A r \in Readings : r[1] =< stored
    BY ReadingsAre DEF IInv, TypeOK, PhaseInv
  <2>2. ReadingsSoFar = Readings
    BY <2>1 DEF ReadingsSoFar
  <2> QED
    BY <2>2 DEF IInv
<1> QED
  BY <1>1, SpecIInv, PTL

\* For any documents: no digit of a reading is lost, and no document that was
\* read has an observation that was not understood (StoredIsComplete).
THEOREM StoredComplete == Spec => []StoredIsComplete
<1>1. IInv => StoredIsComplete
  <2> SUFFICES ASSUME IInv PROVE StoredIsComplete
    OBVIOUS
  <2>1. NothingIsRounded
    <3> SUFFICES ASSUME NEW r \in Readings
                 PROVE  Stored(Reading(r).volume) * 10 = Reading(r).volume.n
      BY DEF NothingIsRounded
    <3>k. PICK k \in headers : \E i \in Taken(batch[k]) : r = <<k, i>>
      BY ReadingsAre
    <3>1. PICK i \in Taken(batch[k]) : r = <<k, i>>
      BY <3>k
    <3>2. Reading(r) = batch[k].observations[i]
      BY <3>1 DEF Reading
    <3> QED
      BY <3>2, HeadersReadable, TakenIs DEF IInv
  <2>2. NoPartialFile
    <3> SUFFICES ASSUME NEW k \in headers, NEW i \in DOMAIN batch[k].observations,
                        ~Skipped(batch[k].observations[i])
                 PROVE  /\ batch[k].observations[i].sequence.is = "number"
                        /\ batch[k].observations[i].volume.is = "number"
      BY DEF NoPartialFile, Skipped
    <3>1. i \in Taken(batch[k])
      BY DEF Taken
    <3> QED
      BY <3>1, HeadersReadable, TakenIs DEF IInv
  <2> QED
    BY <2>1, <2>2 DEF StoredIsComplete
<1> QED
  BY <1>1, SpecIInv, PTL

\* What an uncaught exception says of the document.
LEMMA UncaughtIsOdd ==
    ASSUME NEW doc \in Documents, ~(Raises(doc) \subseteq Caught)
    PROVE  Odd(doc)
<1>1. CASE doc.form = "encoding"
  BY <1>1 DEF Odd
<1>2. CASE doc.form # "encoding" /\ ~(IntRaises(doc.resolution) \subseteq Caught)
  <2>1. doc.resolution.is = "empty"
    BY <1>2 DEF IntRaises, Caught
  <2> QED
    BY <2>1 DEF Odd
<1>3. CASE doc.form # "encoding" /\ IntRaises(doc.resolution) \subseteq Caught
  <2>1. /\ Raises(doc) = ObservationsRaise(doc)
        /\ doc.resolution.is = "number" /\ doc.start.is = "number"
    BY <1>3 DEF Raises, Caught, IntRaises, IsText, TextKinds
  <2>2. PICK i \in DOMAIN doc.observations :
          ObservationsRaise(doc) = ObservationRaises(doc, i)
    BY <2>1, FirstRaises
  <2> DEFINE o == doc.observations[i]
  <2>3. ~(ObservationRaises(doc, i) \subseteq Caught)
    BY <2>1, <2>2
  <2>4. CASE ~(IntRaises(o.sequence) \subseteq Caught)
    <3>1. o.sequence.is = "empty"
      BY <2>4 DEF IntRaises, Caught
    <3> QED
      BY <3>1 DEF Odd
  <2>5. CASE ~(VolumeRaises(o.volume) \subseteq Caught)
    <3>1. o.volume.is = "special"
      BY <2>5 DEF VolumeRaises, Caught
    <3> QED
      BY <3>1 DEF Odd
  <2>6. CASE IntRaises(o.sequence) \subseteq Caught /\ VolumeRaises(o.volume) \subseteq Caught
    <3>1. IntRaises(o.sequence) = {} /\ Instant(doc, i) \notin Instants
      BY <2>3, <2>6 DEF ObservationRaises, InstantRaises, Caught
    <3>2. o.sequence.is = "number"
      BY <3>1 DEF IntRaises
    <3> QED
      BY <2>1, <3>1, <3>2 DEF Odd
  <2> QED
    BY <2>4, <2>5, <2>6
<1> QED
  BY <1>1, <1>2, <1>3

LEMMA AbortedByOdd == IInv => OrdinaryFaultsAreLeftOut
<1> SUFFICES ASSUME IInv, phase = "aborted" PROVE Odd(batch[read + 1])
  BY DEF OrdinaryFaultsAreLeftOut
<1>1. batch[read + 1] \in Documents /\ ~(Raises(batch[read + 1]) \subseteq Caught)
  BY BatchIs DEF IInv, TypeOK, PhaseInv
<1> QED
  BY <1>1, UncaughtIsOdd

\* For any documents: only one in an encoding that nobody knows, with an element
\* without text, a volume that is no number to compare, or an observation whose
\* time no datetime can hold, ends the run (OrdinaryFaultsAreLeftOut).
THEOREM OrdinaryFaultsLeftOut == Spec => []OrdinaryFaultsAreLeftOut
  BY AbortedByOdd, SpecIInv, PTL

\* Where no document is odd in one of those ways, no file ends a run, however
\* broken it is otherwise: they are all that BatchSurvives misses.
THEOREM BatchOutlivesOrdinaryFaults ==
    ASSUME \A doc \in Documents : ~Odd(doc)
    PROVE  Spec => []BatchSurvives
<1>1. IInv => BatchSurvives
  <2> SUFFICES ASSUME IInv, phase = "aborted" PROVE FALSE
    BY DEF BatchSurvives
  <2>1. batch[read + 1] \in Documents
    BY BatchIs DEF IInv, TypeOK, PhaseInv
  <2>2. Odd(batch[read + 1])
    BY AbortedByOdd DEF OrdinaryFaultsAreLeftOut
  <2> QED
    BY <2>1, <2>2
<1> QED
  BY <1>1, SpecIInv, PTL

=============================================================================
