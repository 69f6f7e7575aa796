--------------------------- MODULE DeliveryReport ---------------------------
(***************************************************************************)
(* The report of one delivery against what ingesting it did.               *)
(*                                                                         *)
(* delivery_report.py recomputes from the file headers which rows the      *)
(* database holds: the meter each file is stored under, the value that     *)
(* wins, what was written twice. Here every file of a delivery is          *)
(* ingested, in name order, into the two energy tables, and the report is  *)
(* a function of the files so far. Values are natural numbers, one per     *)
(* file for all its slots.                                                 *)
(***************************************************************************)
EXTENDS Integers, Sequences, FiniteSets, FiniteSetsExt

CONSTANTS
    Candidates,   \* the headers a delivery is made of
    Owners,       \* Meters.owners: [customer, role] of each declared meter
    MaxFiles,     \* files of the delivery (a bound)
    MaxFailures   \* files whose write fails (a bound)

None == "none"
Roles == {"consumption", "production"}

\* point is the metering point type, for an E31 file the direction of its flow;
\* meter is None for an E31 file and an E66 file that names no metering point.
\* "RCP is a different domain sharing the folder; E31 does not cover it".
\* Segment "other": a product code that classify_metric_type does not know.
ASSUME CandidatesAssumption ==
    \A h \in Candidates :
        /\ h.type \in {"E66", "E31"} /\ h.rcp \in BOOLEAN
        /\ h.point \in Roles /\ h.segment \in {"cel", "grid", "total", "other"}
        /\ h.slots # {} /\ h.value \in Nat
        /\ h.type = "E31" => h.meter = None /\ ~h.rcp
ASSUME OwnersAssumption ==
    /\ IsFiniteSet(DOMAIN Owners) /\ None \notin DOMAIN Owners
    /\ \A m \in DOMAIN Owners : Owners[m].role \in Roles
ASSUME DeliveryAssumption == MaxFiles \in Nat /\ MaxFailures \in Nat

VARIABLES
    delivery,    \* the headers of the batch, in the order of the names
    failures,    \* positions of the files whose write failed
    celEnergy,   \* cel_energy: the value under each dedup key
    community    \* cel_community_energy

report == <<delivery, failures, celEnergy, community>>

Positions == DOMAIN delivery
Periods == {h.period : h \in Candidates}
Series(h) == <<h.point, h.segment>>
Classified(h) == h.segment # "other"
Direction(h) == IF Classified(h) THEN h.point ELSE None

\* The dedup keys; rcp stands for the product code and community of the domain.
EnergyKey(h, t) == <<h.meter, Series(h), t, h.rcp>>
CommunityKey(h, t) == <<Series(h), t>>

ReportTypes ==
    /\ delivery \in Seq(Candidates) /\ Len(delivery) =< MaxFiles
    /\ failures \subseteq Positions /\ Cardinality(failures) =< MaxFailures
    /\ DOMAIN celEnergy \subseteq
           {EnergyKey(h, t) : h \in {c \in Candidates : c.type = "E66"},
                              t \in UNION {h.slots : h \in Candidates}}
    /\ DOMAIN community \subseteq {CommunityKey(h, t) : h \in Candidates,
                                     t \in UNION {h.slots : h \in Candidates}}

-----------------------------------------------------------------------------
(* Ingestion, as far as the report is about it.                            *)

AgainstRole(h) ==
    h.meter \in DOMAIN Owners /\ Owners[h.meter].role # h.point

Ingested(h) ==
    Classified(h) /\ (h.type = "E66" => h.meter # None /\ ~AgainstRole(h))

EnergyRows(h) ==
    IF h.type = "E66" /\ Ingested(h)
    THEN [k \in {EnergyKey(h, t) : t \in h.slots} |-> h.value] ELSE <<>>

CommunityRows(h) ==
    IF h.type = "E31" /\ Ingested(h)
    THEN [k \in {CommunityKey(h, t) : t \in h.slots} |-> h.value] ELSE <<>>

ReportInit ==
    /\ delivery = <<>>
    /\ failures = {}
    /\ celEnergy = <<>>
    /\ community = <<>>

\* The next file of the delivery, and its rows in place of those they replace.
Ingest(h) ==
    /\ Len(delivery) < MaxFiles
    /\ delivery' = Append(delivery, h)
    /\ celEnergy' = [k \in DOMAIN celEnergy \cup DOMAIN EnergyRows(h) |->
                    IF k \in DOMAIN EnergyRows(h) THEN h.value ELSE celEnergy[k]]
    /\ community' = [k \in DOMAIN community \cup DOMAIN CommunityRows(h) |->
                       IF k \in DOMAIN CommunityRows(h) THEN h.value
                                                        ELSE community[k]]
    /\ UNCHANGED failures

\* The file fails; the report is given its header all the same.
IngestFails(h) ==
    /\ Len(delivery) < MaxFiles
    /\ Cardinality(failures) < MaxFailures
    /\ Ingested(h)
    /\ delivery' = Append(delivery, h)
    /\ failures' = failures \cup {Len(delivery')}
    /\ UNCHANGED <<celEnergy, community>>

ReportNext == \E h \in Candidates : Ingest(h) \/ IngestFails(h)
ReportSpec == ReportInit /\ [][ReportNext]_report

-----------------------------------------------------------------------------
(* delivery_report.py                                                      *)

Header(i) == delivery[i]

\* group_by_report_period: the CEL files of one period.
Group(p) == {i \in Positions : ~Header(i).rcp /\ Header(i).period = p}

\* Mutant: the role of the meter is not looked at.
StoredMeter_anyRole(h) == IF h.rcp \/ h.type # "E66" THEN None ELSE h.meter

\* stored_meter
StoredMeter(h) ==
    IF h.rcp \/ h.type # "E66" \/ AgainstRole(h) THEN None ELSE h.meter

\* Last write wins, as DEDUP does.
Winner(S) == Max(S)

\* e66_slots: the value of each (meter, series, slot) of a group.
E66Slots(G) ==
    LET in == {i \in G : StoredMeter(Header(i)) # None /\ Classified(Header(i))}
        keys == UNION {{<<Header(i).meter, Series(Header(i)), t>> : t \in Header(i).slots}
                         : i \in in}
    IN [k \in keys |-> Header(Winner({i \in in : /\ Header(i).meter = k[1]
                                               /\ Series(Header(i)) = k[2]
                                               /\ k[3] \in Header(i).slots})).value]

\* e31_slots: the value of each (series, slot).
E31Slots(G) ==
    LET in == {i \in G : Header(i).type = "E31" /\ Classified(Header(i))}
        keys == UNION {{CommunityKey(Header(i), t) : t \in Header(i).slots} : i \in in}
    IN [k \in keys |-> Header(Winner({i \in in : /\ Series(Header(i)) = k[1]
                                               /\ k[2] \in Header(i).slots})).value]

Plus(f, S) == MapThenSumSet(LAMBDA x : f[x], S)

\* summed_over_meters
Summed(G) ==
    LET e66 == E66Slots(G)
    IN [st \in {<<k[2], k[3]>> : k \in DOMAIN e66} |->
          Plus(e66, {k \in DOMAIN e66 : <<k[2], k[3]>> = st})]

\* Mutant: the slots one side alone reports are not counted.
CleanSeries_sharedOnly(G) ==
    \A st \in DOMAIN Summed(G) \cap DOMAIN E31Slots(G) :
        Summed(G)[st] = E31Slots(G)[st]

\* compare_series finds no mismatch, and no slot on one side alone.
CleanSeries(G) ==
    /\ DOMAIN Summed(G) = DOMAIN E31Slots(G)
    /\ \A st \in DOMAIN Summed(G) : Summed(G)[st] = E31Slots(G)[st]

\* breakdown_checks: the meters and directions that report all three legs, on
\* the slots all three have.
Offenders(G) ==
    LET e66 == E66Slots(G)
    IN {k \in DOMAIN e66 :
          LET cel == <<k[1], <<k[2][1], "cel">>, k[3]>>
              grid == <<k[1], <<k[2][1], "grid">>, k[3]>>
          IN /\ k[2][2] = "total" /\ {cel, grid} \subseteq DOMAIN e66
             /\ e66[k] # e66[cel] + e66[grid]}

\* production_totals: the first file of a group with a meter's production total.
ProductionTotal(G, m) ==
    {i \in G : /\ Header(i).meter = m /\ Series(Header(i)) = <<"production", "total">>
               /\ \A j \in G : Header(j).meter = m /\ j < i
                               => Series(Header(j)) # <<"production", "total">>}

MetersOf(c, r) == {m \in DOMAIN Owners : Owners[m] = [customer |-> c, role |-> r]}

TotalsOf(G, c, r) == UNION {ProductionTotal(G, m) : m \in MetersOf(c, r)}

\* check_customer_production skips a customer with a side missing.
Comparable(G, c) ==
    /\ TotalsOf(G, c, "consumption") # {}
    /\ Cardinality(TotalsOf(G, c, "production"))
         = Cardinality(MetersOf(c, "production"))

\* summed_values
SumAt(S, t) == Plus([i \in S |-> Header(i).value],
                    {i \in S : t \in Header(i).slots})
SlotsIn(S) == UNION {Header(i).slots : i \in S}

\* No disagreement: same slots, and slot by slot the same sum.
Agrees(G, c) ==
    LET copies == TotalsOf(G, c, "consumption")
        produced == TotalsOf(G, c, "production") IN
    /\ SlotsIn(copies) = SlotsIn(produced)
    /\ \A t \in SlotsIn(copies) : SumAt(copies, t) = SumAt(produced, t)

\* Mutant: the periods of a delivery are looked at one by one.
RewriteKey_perPeriod(h, t) == <<h.meter, Direction(h), h.segment, h.period, t>>

\* rewritten_keys: the key of one observation, over the whole delivery.
RewriteKey(h, t) == <<h.meter, Direction(h), h.segment, t>>

\* The files that wrote that key before file i did.
WrittenBefore(i, t) ==
    {j \in Positions : /\ j < i /\ StoredMeter(Header(j)) # None
                       /\ \E u \in Header(j).slots :
                            RewriteKey(Header(j), u) = RewriteKey(Header(i), t)}

Repeats == {w \in Positions \X UNION {h.slots : h \in Candidates} :
              /\ StoredMeter(Header(w[1])) # None
              /\ w[2] \in Header(w[1]).slots
              /\ WrittenBefore(w[1], w[2]) # {}}

\* "seen" keeps the first value of a key.
Identical == {w \in Repeats :
                Header(Min(WrittenBefore(w[1], w[2]))).value = Header(w[1]).value}
Differing == Repeats \ Identical

-----------------------------------------------------------------------------
(* What the report can be trusted for.                                     *)

\* Files that write row k of cel_energy.
WritersOf(k) == {i \in Positions : k \in DOMAIN EnergyRows(Header(i))}

\* The database and the report recompute the same rows: every CEL row is in the
\* report of some period, and a reported row is in the database with the value
\* reported, if the file that wrote it last in the delivery is of that period
\* and is not listed as failed.
ReportMatchesTable ==
    /\ \A k \in DOMAIN celEnergy :
          ~k[4] => \E p \in Periods : <<k[1], k[2], k[3]>> \in DOMAIN E66Slots(Group(p))
    /\ \A p \in Periods : \A r \in DOMAIN E66Slots(Group(p)) :
          LET k == <<r[1], r[2], r[3], FALSE>> IN
          /\ WritersOf(k) # {}
          /\ Max(WritersOf(k)) \in Group(p) \ failures
             => celEnergy[k] = E66Slots(Group(p))[r]

\* The types of the state, and that.
ReportIsExact == ReportTypes /\ ReportMatchesTable

\* A delivery of one period, without a failed file: no row was replaced by a
\* file that the report of the period does not see.
Settled(p) == failures = {} /\ \A i \in Positions : Header(i).rcp \/ i \in Group(p)

\* A period whose report finds no gap between E66 and E31 is one where the two
\* tables agree: the aggregate is the sum of the meters.
CleanReportMeansTablesAgree ==
    \A p \in Periods :
        Settled(p) /\ E31Slots(Group(p)) # <<>> /\ CleanSeries(Group(p))
        => \A k \in DOMAIN celEnergy : ~k[4] =>
             LET same == {m \in DOMAIN celEnergy :
                            m[2] = k[2] /\ m[3] = k[3] /\ ~m[4]} IN
             /\ <<k[2], k[3]>> \in DOMAIN community
             /\ community[<<k[2], k[3]>>] = Plus(celEnergy, same)

\* A period whose report finds no offender is one where, for every meter of the
\* community and direction that has all three legs of a slot in the table, cel +
\* grid = total.
NoOffenderMeansLegsAddUp ==
    \A p \in Periods : Settled(p) /\ Offenders(Group(p)) = {} =>
        \A k \in DOMAIN celEnergy :
            LET cel == <<k[1], <<k[2][1], "cel">>, k[3], k[4]>>
                grid == <<k[1], <<k[2][1], "grid">>, k[3], k[4]>>
            IN ~k[4] /\ k[2][2] = "total" /\ {cel, grid} \subseteq DOMAIN celEnergy
               => celEnergy[k] = celEnergy[cel] + celEnergy[grid]

\* A delivery reported without a rewrite of a differing value is one whose
\* order does not matter: every file that was written is still what its CEL
\* rows say ("which wave is written last is not a property any code may
\* assume", Rewrites).
QuietMeansOrderFree ==
    Differing = {} =>
        \A i \in Positions \ failures : ~Header(i).rcp =>
            \A k \in DOMAIN EnergyRows(Header(i)) : celEnergy[k] = Header(i).value

\* "this equality is the only evidence that customers.yaml groups the right
\* meters together" (check_customer_production): where it is found, the copies
\* ingestion dropped are stored under the production points, unless a meter's
\* total came more than once or a file failed.
AgreementMeansCopiesAreStored ==
    \A p \in Periods : \A c \in {Owners[m].customer : m \in DOMAIN Owners} :
        LET G == Group(p)
            totals == {i \in Positions :
                         Series(Header(i)) = <<"production", "total">>}
            once == \A i, j \in totals : Header(i).meter = Header(j).meter => i = j
        IN failures = {} /\ once /\ Comparable(G, c) /\ Agrees(G, c)
           => \A t \in SlotsIn(TotalsOf(G, c, "consumption")) :
                SumAt(TotalsOf(G, c, "consumption"), t)
                = Plus(celEnergy,
                    {k \in DOMAIN celEnergy :
                       /\ k[1] \in MetersOf(c, "production") /\ k[3] = t /\ ~k[4]
                       /\ k[2] = <<"production", "total">>})

\* What the report finds in order is in order in the tables: its three checks,
\* E66 against E31, cel and grid against total, copies against production.
CleanFiguresAreRight ==
    /\ CleanReportMeansTablesAgree
    /\ NoOffenderMeansLegsAddUp
    /\ AgreementMeansCopiesAreStored

\* "Identical is a no-op QuestDB skips" (Rewrites): a rewrite counted as
\* identical leaves the row of the key as the file before had left it.
IdenticalIsNoOp ==
    \A w \in Identical :
        Header(Max(WrittenBefore(w[1], w[2]))).value = Header(w[1]).value

\* "Which dedup keys one run writes more than once" (rewritten_keys): a row the
\* delivery writes twice is among the rewrites it counts.
RewritesAreCounted ==
    \A i, j \in Positions : j < i =>
        \A k \in DOMAIN EnergyRows(Header(i)) \cap DOMAIN EnergyRows(Header(j)) :
            <<i, k[3]>> \in Repeats

=============================================================================
