---------------------------- MODULE Attribution ----------------------------
(***************************************************************************)
(* Whose readings a file carries, and whether they are stored at all.      *)
(*                                                                         *)
(*   meters.py                    customers.yaml: owner and role of meters *)
(*   sdat_header.py, models.py    what one file is                         *)
(*   parse_sdat*.py               store it, skip it or refuse it           *)
(*   questdb_schema.sql           the keys under which rows replace rows   *)
(*                                                                         *)
(* The decision is a lookup in the list the run loaded. The list is edited *)
(* by hand between runs, may be wrong for a while, and a file it refused   *)
(* comes back with the next run, under whatever the list then says, as     *)
(* long as its day is not behind the download window.                      *)
(* Batches, downloads and failures of the database are DailyJob's; here a  *)
(* run handles what is pending in the order of the names, archives what it *)
(* handled in any portions, and may stop anywhere.                         *)
(***************************************************************************)
EXTENDS Integers, FiniteSets, Sequences

CONSTANTS
    Files,         \* SDAT files, numbered in the order of their names
    HeaderOf,      \* HeaderOf[f]: what f's XML says, see Headers
    MeterIds,      \* full metering point ids
    Customers,     \* customer ids
    Slots,         \* interval starts
    Lists,         \* contents customers.yaml may have
    TrueRole,      \* TrueRole[m]: what meter m measures in reality
    EnergyOf,      \* EnergyOf[f]: the meter that measured f's readings
    DayOf,         \* DayOf[f]: the day of its name
    Window,        \* DOWNLOAD_WINDOW_DAYS
    MaxEdits,      \* edits of customers.yaml (a bound)
    MaxStops       \* runs that stop half-way (a bound)

Roles == {"consumption", "production"}
Segments == {"cel", "grid", "total"}
None == "none"
NoList == <<>>

\* A product code is named by the segment it stands for, "other" for a code
\* outside the table; a list entry is one meter id under a customer's role.
Headers ==
    [type    : {"E66", "E31", "other"},
     meter   : MeterIds \cup {None},
     point   : Roles \cup {None},          \* Consumption- or ProductionMeteringPoint
     flow    : {"E17", "E18", None},       \* FlowCharacteristic
     product : Segments \cup {"other"},
     reason  : {"C40", "E88", "other"},    \* BusinessReasonType
     sound   : BOOLEAN,                    \* resolution, interval, volumes usable
     slots   : SUBSET Slots]               \* observations with sequence and volume

Entries == [customer : Customers, role : Roles \cup {"other"},
            meter : MeterIds \cup {None}]

Owners == UNION {[M -> [customer : Customers, role : Roles]] :
                   M \in SUBSET MeterIds}

ASSUME FilesAssumption ==
    Files \subseteq Nat /\ DayOf \in [Files -> Nat] /\ Window \in Nat
\* A file names its meter and the kind of metering point together or not at all.
ASSUME HeadersAssumption ==
    /\ HeaderOf \in [Files -> Headers]
    /\ \A f \in Files : (HeaderOf[f].meter = None) <=> (HeaderOf[f].point = None)
ASSUME ListsAssumption == Lists \subseteq Seq(Entries)
ASSUME RealityAssumption ==
    TrueRole \in [MeterIds -> Roles] /\ EnergyOf \in [Files -> MeterIds \cup {None}]
\* "A meter measures only its own direction": what a metering point repeats of
\* another meter's energy it reports against its own role (parse_e66).
ASSUME CopiesAssumption ==
    \A f \in Files : LET h == HeaderOf[f] IN
        h.meter # None /\ EnergyOf[f] # h.meter => h.point # TrueRole[h.meter]
ASSUME NoneAssumption == None \notin MeterIds \cup Customers
ASSUME BoundsAssumption == MaxEdits \in Nat /\ MaxStops \in Nat

VARIABLES
    list,       \* customers.yaml
    loaded,     \* the list the current run loaded, NoList between runs
    delivered,  \* files the provider has sent so far
    pending,    \* delivered files not archived
    fetched,    \* pending files the run has downloaded
    todo,       \* those it has not handled yet
    energy,     \* cel_energy
    community,  \* cel_community_energy
    fileRows,   \* cel_file_header
    outcome,    \* outcome[f]: of f's last handling
    under,      \* ghost, under[f]: the list of f's last handling
    edits,      \* edits of the list so far
    stops       \* interrupted runs so far

tables == <<energy, community, fileRows>>
vars == <<list, loaded, delivered, pending, fetched, todo, tables, outcome, under,
          edits, stops>>

EnergyRows == [file : Files, meter : MeterIds, customer : Customers \cup {None},
               direction : Roles, segment : Segments, rcp : BOOLEAN, slot : Slots]
CommunityRows == [file : Files, direction : Roles, segment : Segments,
                  slot : Slots]
FileRows == [file : Files, customer : Customers \cup {None}]

TypeOK ==
    /\ list \in Lists
    /\ loaded \in Lists \cup {NoList}
    /\ delivered \subseteq Files
    /\ pending \subseteq delivered
    /\ fetched \subseteq delivered
    /\ todo \subseteq pending \cap fetched
    /\ energy \subseteq EnergyRows
    /\ community \subseteq CommunityRows
    /\ fileRows \subseteq FileRows
    /\ outcome \in [Files -> {"none", "ingested", "skipped", "failed"}]
    /\ under \in [Files -> Lists \cup {NoList}]
    /\ edits \in 0 .. MaxEdits
    /\ stops \in 0 .. MaxStops

-----------------------------------------------------------------------------
(* meters.py                                                               *)

\* load_meters raises on a short id, an unknown role, a meter declared twice
\* and an empty list.
Accepts(doc) ==
    /\ doc # NoList
    /\ \A i \in DOMAIN doc : doc[i].meter \in MeterIds /\ doc[i].role \in Roles
    /\ \A i, j \in DOMAIN doc : doc[i].meter = doc[j].meter => i = j

\* Meters.owners, built from the list in the order of the file.
OwnersIn(doc) ==
    [m \in {doc[i].meter : i \in DOMAIN doc} |->
       LET i == CHOOSE i \in DOMAIN doc : doc[i].meter = m
       IN [customer |-> doc[i].customer, role |-> doc[i].role]]

Declared(m, o) == m \in DOMAIN o
CustomerOf(m, o) == IF Declared(m, o) THEN o[m].customer ELSE None
CustomerHas(c, r, o) == \E m \in DOMAIN o : o[m].customer = c /\ o[m].role = r

-----------------------------------------------------------------------------
(* sdat_header.py, models.py                                               *)

\* parse_header raises on anything it cannot turn into observations and on a
\* BusinessReasonType that is neither CEL (C40) nor RCP (E88).
Readable(h) == h.sound /\ h.reason # "other"
IsRcp(h) == h.reason = "E88"

\* E66 states the direction as the metering point type, E31 as the flow.
Direction(h) ==
    IF h.point # None THEN h.point
    ELSE CASE h.flow = "E17" -> "consumption"
           [] h.flow = "E18" -> "production"
           [] OTHER          -> None

Classified(h) == Direction(h) # None /\ h.product # "other"

-----------------------------------------------------------------------------
(* parse_sdat.py and its two decoders                                      *)

AgainstRole(h, o) == Declared(h.meter, o) /\ h.point # o[h.meter].role

StoredElsewhere(h, o) ==
    Declared(h.meter, o) /\ CustomerHas(o[h.meter].customer, h.point, o)

\* Mutant: a CEL or grid breakdown against the role is skipped like a total.
Skipped_anySegment(h, o) ==
    /\ h.type = "E66" /\ h.meter # None
    /\ AgainstRole(h, o) /\ StoredElsewhere(h, o)

\* A total against its meter's role, when another meter carries the direction.
Skipped(h, o) ==
    /\ h.type = "E66" /\ h.meter # None
    /\ AgainstRole(h, o) /\ StoredElsewhere(h, o)
    /\ h.product = "total"

\* Mutant: files are decoded whatever the role of their meter.
DecodedE66_anyRole(h, o) == h.type = "E66" /\ h.meter # None

\* What parse_e66 turns into metered data, and what parse_e31 does.
DecodedE66(h, o) == h.type = "E66" /\ h.meter # None /\ ~AgainstRole(h, o)
DecodedE31(h) == h.type = "E31"

\* Decoded to rows, at least one: an unclassified series yields none.
Stored(h, o) ==
    /\ DecodedE66(h, o) \/ DecodedE31(h)
    /\ Classified(h) /\ h.slots # {}

\* rows_from_e66, rows_from_e31
EnergyRowsOf(f, o) ==
    LET h == HeaderOf[f] IN
    IF h.type # "E66" THEN {}
    ELSE [file : {f}, meter : {h.meter}, customer : {CustomerOf(h.meter, o)},
          direction : {Direction(h)}, segment : {h.product}, rcp : {IsRcp(h)},
          slot : h.slots]

CommunityRowsOf(f) ==
    LET h == HeaderOf[f] IN
    IF h.type # "E31" THEN {}
    ELSE [file : {f}, direction : {Direction(h)}, segment : {h.product},
          slot : h.slots]

\* Mutant: the owner is part of the dedup key.
EnergyKey_owner(r) ==
    <<r.slot, r.meter, r.customer, r.direction, r.segment, r.rcp>>

\* DEDUP UPSERT KEYS of the two tables. The community id, absent on RCP files
\* alone, is told by rcp; the product code by the segment.
EnergyKey(r) == <<r.slot, r.meter, r.direction, r.segment, r.rcp>>
CommunityKey(r) == <<r.slot, r.direction, r.segment>>

UpsertEnergy(table, rows) ==
    {r \in table : \A n \in rows : EnergyKey(n) # EnergyKey(r)} \cup rows

UpsertCommunity(table, rows) ==
    {r \in table : \A n \in rows : CommunityKey(n) # CommunityKey(r)} \cup rows

\* cel_file_header keeps one row per file.
RecordFile(f, c) ==
    fileRows' = {r \in fileRows : r.file # f} \cup {[file |-> f, customer |-> c]}

-----------------------------------------------------------------------------
Init ==
    /\ list \in Lists
    /\ loaded = NoList
    /\ delivered = {}
    /\ pending = {}
    /\ fetched = {}
    /\ todo = {}
    /\ energy = {}
    /\ community = {}
    /\ fileRows = {}
    /\ outcome = [f \in Files |-> "none"]
    /\ under = [f \in Files |-> NoList]
    /\ edits = 0
    /\ stops = 0

\* The provider's next file, in the order of the names; a run downloads before
\* it handles anything, so no file arrives in the middle of one.
Deliver(f) ==
    /\ loaded = NoList
    /\ f \notin delivered
    /\ \A g \in Files : g < f => g \in delivered
    /\ delivered' = delivered \cup {f}
    /\ pending' = pending \cup {f}
    /\ UNCHANGED <<list, loaded, fetched, todo, tables, outcome, under, edits, stops>>

EditList ==
    /\ edits < MaxEdits
    /\ list' \in Lists \ {list}
    /\ edits' = edits + 1
    /\ UNCHANGED <<loaded, delivered, pending, fetched, todo, tables, outcome, under, stops>>

\* A pending file is in incoming/ or in failed/ when a run starts, so it is
\* quarantined, and downloaded again unless its day is behind the newest
\* archived one by more than the window. No file is as old as the day that
\* stands for it while nothing is archived.
Wanted == {f \in pending : \A g \in delivered \ pending : DayOf[f] >= DayOf[g] - Window}

\* A run whose list is refused ends here, with nothing done.
StartRun ==
    /\ loaded = NoList
    /\ Wanted # {}
    /\ Accepts(list)
    /\ loaded' = list
    /\ fetched' = Wanted
    /\ todo' = Wanted
    /\ UNCHANGED <<list, delivered, pending, tables, outcome, under, edits, stops>>

\* The run turns to f and ends up with outcome o.
Handle(f, o) ==
    /\ f \in todo /\ \A g \in todo : f =< g
    /\ todo' = todo \ {f}
    /\ outcome' = [outcome EXCEPT ![f] = o]
    /\ under' = [under EXCEPT ![f] = loaded]
    /\ UNCHANGED <<list, loaded, delivered, pending, fetched, edits, stops>>

\* No header: the file fails alone, and no row speaks of it.
FailUnreadable(f) ==
    /\ ~Readable(HeaderOf[f])
    /\ Handle(f, "failed")
    /\ UNCHANGED tables

\* header.customer_id is set for an E66 file the decoder accepts, here and in
\* Refuse, and for no other.
Store(f) ==
    LET o == OwnersIn(loaded) IN
    /\ Readable(HeaderOf[f])
    /\ Stored(HeaderOf[f], o)
    /\ Handle(f, "ingested")
    /\ energy' = UpsertEnergy(energy, EnergyRowsOf(f, o))
    /\ community' = UpsertCommunity(community, CommunityRowsOf(f))
    /\ RecordFile(f, IF HeaderOf[f].type = "E66"
                     THEN CustomerOf(HeaderOf[f].meter, o) ELSE None)

Skip(f) ==
    /\ Readable(HeaderOf[f])
    /\ Skipped(HeaderOf[f], OwnersIn(loaded))
    /\ Handle(f, "skipped")
    /\ RecordFile(f, None)
    /\ UNCHANGED <<energy, community>>

\* Nothing is written: refused by the decoder, or decoded to no row at all.
Refuse(f) ==
    LET h == HeaderOf[f]
        o == OwnersIn(loaded) IN
    /\ Readable(h)
    /\ ~Stored(h, o) /\ ~Skipped(h, o)
    /\ Handle(f, "failed")
    /\ RecordFile(f, IF DecodedE66(h, o) THEN CustomerOf(h.meter, o)
                                         ELSE None)
    /\ UNCHANGED <<energy, community>>

\* Mutant: a refused file is archived as well.
Archivable_all == (pending \cap fetched) \ todo

\* What the run handled and has not archived yet.
Archivable == {f \in (pending \cap fetched) \ todo : outcome[f] # "failed"}

Archive ==
    /\ loaded # NoList
    /\ Archivable # {}
    /\ pending' = pending \ Archivable
    /\ UNCHANGED <<list, loaded, delivered, fetched, todo, tables, outcome, under, edits,
                   stops>>

EndRun ==
    /\ loaded # NoList
    /\ todo = {}
    /\ Archivable = {}
    /\ loaded' = NoList
    /\ fetched' = {}
    /\ UNCHANGED <<list, delivered, pending, todo, tables, outcome, under, edits, stops>>

\* The process dies; what it did not archive is handled again.
Stop ==
    /\ loaded # NoList
    /\ stops < MaxStops
    /\ stops' = stops + 1
    /\ loaded' = NoList
    /\ fetched' = {}
    /\ todo' = {}
    /\ UNCHANGED <<list, delivered, pending, tables, outcome, under, edits>>

RunStep ==
    \/ StartRun \/ Archive \/ EndRun
    \/ \E f \in Files : FailUnreadable(f) \/ Store(f) \/ Skip(f) \/ Refuse(f)

Next == (\E f \in Files : Deliver(f)) \/ EditList \/ RunStep \/ Stop

Spec == Init /\ [][Next]_vars

\* The job is started again and again and given time to run.
FairSpec == Spec /\ WF_vars(RunStep)

-----------------------------------------------------------------------------
(* What attribution promises.                                              *)

\* The list a run works with honours every entry of customers.yaml: no meter's
\* owner or role depends on the order of the file (load_meters, "one id, one
\* owner and one role").
ListIsHonoured ==
    \A i \in DOMAIN loaded :
        OwnersIn(loaded)[loaded[i].meter]
            = [customer |-> loaded[i].customer, role |-> loaded[i].role]

\* One row per reading: revisions, retries, crashes and a change of owner
\* replace rows and never add a second one that a sum would count again
\* (questdb_schema.sql, "a meter changing owner must overwrite its slots").
OneRowPerReading ==
    /\ \A r, s \in energy :
         /\ r.slot = s.slot /\ r.meter = s.meter /\ r.rcp = s.rcp
         /\ r.direction = s.direction /\ r.segment = s.segment
         => r = s
    /\ \A r, s \in community :
         /\ r.slot = s.slot
         /\ r.direction = s.direction /\ r.segment = s.segment
         => r = s

\* Every reading has one owner: each entry of the list counts, and no sequence
\* of edits, revisions and crashes makes two rows of a reading.
OneOwnerPerReading == TypeOK /\ ListIsHonoured /\ OneRowPerReading

RightFor(doc, m) == Declared(m, OwnersIn(doc)) /\ OwnersIn(doc)[m].role = TrueRole[m]

\* Under a list that has the roles right, the energy one meter measured is
\* stored under that meter only: the production total that a consumption point
\* repeats is not counted a second time (parse_e66).
EnergyCountedOnce ==
    \A r, s \in energy :
        /\ EnergyOf[r.file] = EnergyOf[s.file]
        /\ r.slot = s.slot /\ r.segment = s.segment /\ r.rcp = s.rcp
        /\ \A x \in {r, s} : /\ outcome[x.file] = "ingested"
                             /\ RightFor(under[x.file], x.meter)
        => r.meter = s.meter

\* f is a reading of what its own meter measures.
Genuine(f) == LET h == HeaderOf[f] IN
    /\ h.type = "E66" /\ h.meter # None
    /\ Readable(h) /\ Classified(h) /\ h.slots # {}
    /\ h.point = TrueRole[h.meter]

\* The list gives m the opposite role, and its owner another meter of m's own.
Misdeclares(doc, m) == LET o == OwnersIn(doc) IN
    Declared(m, o) /\ o[m].role # TrueRole[m] /\ CustomerHas(o[m].customer, TrueRole[m], o)

\* Each slot of f has a row under the key that f's own has.
IsKept(f) == LET h == HeaderOf[f] IN
    \A t \in h.slots : \E r \in energy :
        /\ r.meter = h.meter /\ r.slot = t /\ r.direction = TrueRole[h.meter]
        /\ r.segment = h.product /\ r.rcp = IsRcp(h)

\* "Skipping it would drop the meter's data silently" (parse_e66): however wrong
\* the list is for a while, nothing a meter reports of itself is archived, never
\* to be fetched again, without being in the table, but for a total that met a
\* list giving the role of its meter to another one of its owner.
GenuineIsKept ==
    \A f \in delivered \ pending : Genuine(f) =>
        \/ IsKept(f)
        \/ HeaderOf[f].product = "total" /\ Misdeclares(under[f], HeaderOf[f].meter)

\* "Then a file reporting against its role is a duplicate or a provider fault,
\* and dropping it loses nothing" (stored_elsewhere).
DroppingLosesNothing == \A f \in delivered \ pending : Genuine(f) => IsKept(f)

\* The header row of an ingested file names the customer its rows carry, so
\* a file is traceable to its customer without reading its rows (parse_e66).
RowsMatchFile ==
    \A r \in energy : outcome[r.file] = "ingested" =>
        [file |-> r.file, customer |-> r.customer] \in fileRows

\* Energy is stored once, for the customer its file is recorded under.
EnergyIsAttributedOnce == EnergyCountedOnce /\ RowsMatchFile

\* A genuine reading that a wrong list refused is stored once the list is right
\* and stays right, unless what was archived meanwhile has moved the download
\* window past its day.
RefusedHeals ==
    \A f \in Files : Genuine(f) =>
        (outcome[f] = "failed"
           ~> \/ outcome[f] = "ingested"
              \/ ~(Accepts(list) /\ RightFor(list, HeaderOf[f].meter))
              \/ f \in pending \ Wanted)

\* "owner, from customers.yaml; NULL for E31 and undeclared meters"
\* (questdb_schema.sql, cel_file_header.customer_id): the header row of an E66
\* file of a declared meter names its owner.
HeaderNamesOwner ==
    \A r \in fileRows :
        LET h == HeaderOf[r.file] IN
        h.type = "E66" => r.customer = CustomerOf(h.meter, OwnersIn(under[r.file]))
=============================================================================
