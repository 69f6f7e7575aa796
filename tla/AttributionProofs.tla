------------------------- MODULE AttributionProofs -------------------------
(***************************************************************************)
(* Theorems about attribution, for every set of files and meters, every    *)
(* list, right or wrong, every number of edits and of interrupted runs.    *)
(*                                                                         *)
(*    TypeOK        is inductive as it stands                              *)
(*    LoadedInv     a run's list was accepted by load_meters               *)
(*    DecisionInv   an outcome is the decision under the list of that run  *)
(*    KeptInv       what was archived was ingested or skipped, and the     *)
(*                  keys of what was ingested stay in the table            *)
(*    KeysInv       the rows of a table differ in their keys               *)
(*    RowsInv       a row says what its file says, and the row of a file   *)
(*                  last ingested is that of the list it was read under    *)
(***************************************************************************)
EXTENDS Attribution, TLAPS

USE DEF vars, tables

LEMMA HeaderTyped ==
    ASSUME NEW f \in Files
    PROVE  /\ HeaderOf[f] \in Headers
           /\ (HeaderOf[f].meter = None) <=> (HeaderOf[f].point = None)
BY HeadersAssumption

\* A classified file has a direction and a segment the tables know.
LEMMA ClassifiedTyped ==
    ASSUME NEW f \in Files, Classified(HeaderOf[f])
    PROVE  Direction(HeaderOf[f]) \in Roles /\ HeaderOf[f].product \in Segments
<1>1. HeaderOf[f] \in Headers
    BY HeaderTyped
<1>2. HeaderOf[f].product \in Segments
    BY <1>1 DEF Headers, Classified
<1>3. HeaderOf[f].point \in Roles \cup {None}
    BY <1>1 DEF Headers
<1>4. CASE HeaderOf[f].point # None
    BY <1>2, <1>3, <1>4 DEF Direction
<1>5. CASE HeaderOf[f].point = None
    <2>1. Direction(HeaderOf[f]) \in {"consumption", "production", None}
        BY <1>5 DEF Direction
    <2> QED
        BY <1>2, <2>1 DEF Classified, Roles, None
<1> QED
    BY <1>4, <1>5

\* Whatever list load_meters accepts, the owner it gives is a customer.
LEMMA OwnerTyped ==
    ASSUME NEW doc \in Lists, NEW m, Declared(m, OwnersIn(doc))
    PROVE  CustomerOf(m, OwnersIn(doc)) \in Customers
<1>1. doc \in Seq(Entries)
    BY ListsAssumption
<1>2. PICK j \in DOMAIN doc : doc[j].meter = m
    BY DEF Declared, OwnersIn
<1> DEFINE i == CHOOSE i \in DOMAIN doc : doc[i].meter = m
<1>3. i \in DOMAIN doc /\ doc[i].meter = m
    BY <1>2
<1>4. doc[i] \in Entries
    BY <1>1, <1>3
<1>5. CustomerOf(m, OwnersIn(doc)) = doc[i].customer
    BY DEF Declared, OwnersIn, CustomerOf
<1> HIDE DEF i
<1> QED
    BY <1>4, <1>5 DEF Entries

LEMMA CustomerTyped ==
    ASSUME NEW doc \in Lists, NEW m
    PROVE  CustomerOf(m, OwnersIn(doc)) \in Customers \cup {None}
BY OwnerTyped DEF CustomerOf

\* The rows of a stored file fit their tables.
LEMMA RowsTyped ==
    ASSUME NEW f \in Files, NEW doc \in Lists,
           Stored(HeaderOf[f], OwnersIn(doc))
    PROVE  /\ EnergyRowsOf(f, OwnersIn(doc)) \subseteq EnergyRows
           /\ CommunityRowsOf(f) \subseteq CommunityRows
<1> DEFINE h == HeaderOf[f]
<1>1. h \in Headers /\ (h.type = "E66" => h.meter # None)
    BY HeaderTyped DEF Stored, DecodedE66, DecodedE31
<1>2. Direction(h) \in Roles /\ h.product \in Segments
    BY ClassifiedTyped DEF Stored, DecodedE66, DecodedE31
<1>3. CustomerOf(h.meter, OwnersIn(doc)) \in Customers \cup {None}
    BY CustomerTyped
<1>4. h.slots \subseteq Slots /\ (h.type = "E66" => h.meter \in MeterIds)
    BY <1>1 DEF Headers
<1>5. IsRcp(h) \in BOOLEAN
    BY DEF IsRcp
<1>6. EnergyRowsOf(f, OwnersIn(doc)) \subseteq EnergyRows
    BY <1>2, <1>3, <1>4, <1>5 DEF EnergyRowsOf, EnergyRows
<1>7. CommunityRowsOf(f) \subseteq CommunityRows
    BY <1>2, <1>4 DEF CommunityRowsOf, CommunityRows
<1> QED
    BY <1>6, <1>7

-----------------------------------------------------------------------------
LEMMA InitTypeOK == Init => TypeOK
BY BoundsAssumption DEF Init, TypeOK

\* What handling a file does to the types of everything but the tables.
LEMMA HandleTyped ==
    ASSUME TypeOK, NEW f \in Files, f \in todo, NEW o, Handle(f, o),
           o \in {"ingested", "skipped", "failed"}
    PROVE  /\ todo' \subseteq pending' \cap fetched' /\ fetched' \subseteq delivered'
           /\ outcome' \in [Files -> {"none", "ingested", "skipped", "failed"}]
           /\ under' \in [Files -> Lists \cup {NoList}]
           /\ list' \in Lists /\ loaded' \in Lists \cup {NoList}
           /\ delivered' \subseteq Files /\ pending' \subseteq delivered'
           /\ edits' \in 0 .. MaxEdits /\ stops' \in 0 .. MaxStops
BY DEF TypeOK, Handle

LEMMA RecordTyped ==
    ASSUME fileRows \subseteq FileRows, NEW f \in Files,
           NEW c \in Customers \cup {None}, RecordFile(f, c)
    PROVE  fileRows' \subseteq FileRows
BY DEF RecordFile, FileRows

\* A run only handles files under a list it loaded.
RunningInv == todo # {} => loaded # NoList

LEMMA TypeStep ==
    ASSUME TypeOK, RunningInv, [Next]_vars
    PROVE  TypeOK' /\ RunningInv'
<1>1. ASSUME NEW f \in Files, Deliver(f)
      PROVE  TypeOK' /\ RunningInv'
    BY <1>1 DEF Deliver, TypeOK, RunningInv
<1>2. CASE EditList
    BY <1>2, BoundsAssumption DEF EditList, TypeOK, RunningInv
<1>3. CASE StartRun
    BY <1>3 DEF StartRun, Wanted, Accepts, TypeOK, RunningInv
<1>4. CASE Archive
    <2>1. todo \subseteq pending'
        BY <1>4 DEF Archive, Archivable, TypeOK
    <2>2. pending' \subseteq delivered
        BY <1>4 DEF Archive, TypeOK
    <2> QED
        BY <1>4, <2>1, <2>2 DEF Archive, TypeOK, RunningInv
<1>5. CASE EndRun
    BY <1>5 DEF EndRun, TypeOK, RunningInv
<1>6. CASE Stop
    BY <1>6, BoundsAssumption DEF Stop, TypeOK, RunningInv
<1>7. ASSUME NEW f \in Files, NEW o, Handle(f, o)
      PROVE  f \in todo /\ loaded \in Lists /\ RunningInv'
    BY <1>7 DEF Handle, RunningInv, TypeOK
<1>8. ASSUME NEW f \in Files, FailUnreadable(f)
      PROVE  TypeOK' /\ RunningInv'
    BY <1>7, <1>8, HandleTyped DEF FailUnreadable, TypeOK
<1>9. ASSUME NEW f \in Files, Store(f)
      PROVE  TypeOK' /\ RunningInv'
    <2>1. /\ Handle(f, "ingested") /\ Stored(HeaderOf[f], OwnersIn(loaded))
          /\ energy' = UpsertEnergy(energy, EnergyRowsOf(f, OwnersIn(loaded)))
          /\ community' = UpsertCommunity(community, CommunityRowsOf(f))
        BY <1>9 DEF Store
    <2>2. energy' \subseteq EnergyRows /\ community' \subseteq CommunityRows
        BY <1>7, <2>1, RowsTyped DEF UpsertEnergy, UpsertCommunity, TypeOK
    <2>3. PICK c \in Customers \cup {None} : RecordFile(f, c)
        BY <1>7, <1>9, <2>1, CustomerTyped DEF Store
    <2>4. fileRows' \subseteq FileRows
        BY <2>3, RecordTyped DEF TypeOK
    <2> QED
        BY <1>7, <2>1, <2>2, <2>4, HandleTyped DEF TypeOK
<1>10. ASSUME NEW f \in Files, Skip(f)
       PROVE  TypeOK' /\ RunningInv'
    <2>1. Handle(f, "skipped") /\ RecordFile(f, None) /\ UNCHANGED <<energy, community>>
        BY <1>10 DEF Skip
    <2>2. fileRows' \subseteq FileRows
        BY <2>1, RecordTyped DEF TypeOK
    <2> QED
        BY <1>7, <2>1, <2>2, HandleTyped DEF TypeOK
<1>11. ASSUME NEW f \in Files, Refuse(f)
       PROVE  TypeOK' /\ RunningInv'
    <2>1. Handle(f, "failed") /\ UNCHANGED <<energy, community>>
        BY <1>11 DEF Refuse
    <2>2. PICK c \in Customers \cup {None} : RecordFile(f, c)
        BY <1>7, <1>11, <2>1, CustomerTyped DEF Refuse
    <2>3. fileRows' \subseteq FileRows
        BY <2>2, RecordTyped DEF TypeOK
    <2> QED
        BY <1>7, <2>1, <2>3, HandleTyped DEF TypeOK
<1>12. CASE UNCHANGED vars
    BY <1>12 DEF TypeOK, RunningInv
<1> QED
    BY <1>1, <1>2, <1>3, <1>4, <1>5, <1>6, <1>8, <1>9, <1>10, <1>11, <1>12
       DEF Next, RunStep

\* Every state is well typed.
THEOREM TypeCorrect == Spec => []TypeOK
<1>1. Init => TypeOK /\ RunningInv
    BY InitTypeOK DEF Init, RunningInv
<1>2. TypeOK /\ RunningInv /\ [Next]_vars => (TypeOK /\ RunningInv)'
    BY TypeStep
<1> QED
    BY <1>1, <1>2, PTL DEF Spec

-----------------------------------------------------------------------------
(* The list.                                                               *)

LoadedInv == loaded # NoList => Accepts(loaded)

LEMMA LoadedStep == LoadedInv /\ [Next]_vars => LoadedInv'
<1> SUFFICES ASSUME LoadedInv, [Next]_vars PROVE LoadedInv'
    OBVIOUS
<1>1. CASE StartRun
    BY <1>1 DEF StartRun, LoadedInv
<1>2. CASE loaded' = NoList
    BY <1>2 DEF LoadedInv
<1>3. CASE UNCHANGED loaded
    BY <1>3 DEF LoadedInv
<1> QED
    BY <1>1, <1>2, <1>3 DEF Next, RunStep, Deliver, EditList, Archive, EndRun,
       Stop, FailUnreadable, Store, Skip, Refuse, Handle

\* No entry of an accepted list is overridden by another one.
LEMMA AcceptedIsHonoured ==
    ASSUME NEW doc, Accepts(doc), NEW i \in DOMAIN doc
    PROVE  OwnersIn(doc)[doc[i].meter]
             = [customer |-> doc[i].customer, role |-> doc[i].role]
<1> DEFINE k == CHOOSE k \in DOMAIN doc : doc[k].meter = doc[i].meter
<1>1. k \in DOMAIN doc /\ doc[k].meter = doc[i].meter
    OBVIOUS
<1>2. k = i
    BY <1>1 DEF Accepts
<1>3. OwnersIn(doc)[doc[i].meter]
        = [customer |-> doc[k].customer, role |-> doc[k].role]
    BY DEF OwnersIn
<1> QED
    BY <1>2, <1>3

\* Whatever customers.yaml says, a run honours every entry of it.
THEOREM ListHonoured == Spec => []ListIsHonoured
<1>1. Init => LoadedInv
    BY DEF Init, LoadedInv
<1>2. LoadedInv => ListIsHonoured
    BY AcceptedIsHonoured DEF LoadedInv, ListIsHonoured, NoList
<1> QED
    BY <1>1, <1>2, LoadedStep, PTL DEF Spec

-----------------------------------------------------------------------------
(* The decision.                                                           *)

DecisionInv ==
    \A f \in Files :
        /\ outcome[f] = "skipped" => Skipped(HeaderOf[f], OwnersIn(under[f]))
        /\ outcome[f] = "ingested" => Stored(HeaderOf[f], OwnersIn(under[f]))

\* The outcome written by one handling is right, the others are left alone.
LEMMA HandleDecision ==
    ASSUME TypeOK, DecisionInv, NEW f \in Files, NEW o, Handle(f, o),
           o = "skipped" => Skipped(HeaderOf[f], OwnersIn(loaded)),
           o = "ingested" => Stored(HeaderOf[f], OwnersIn(loaded))
    PROVE  DecisionInv'
<1> SUFFICES ASSUME NEW g \in Files
             PROVE  /\ outcome'[g] = "skipped"
                         => Skipped(HeaderOf[g], OwnersIn(under'[g]))
                    /\ outcome'[g] = "ingested"
                         => Stored(HeaderOf[g], OwnersIn(under'[g]))
    BY DEF DecisionInv
<1>1. CASE g = f
    <2>1. outcome'[g] = o /\ under'[g] = loaded
        BY <1>1 DEF Handle, TypeOK
    <2> QED
        BY <1>1, <2>1
<1>2. CASE g # f
    <2>1. outcome'[g] = outcome[g] /\ under'[g] = under[g]
        BY <1>2 DEF Handle, TypeOK
    <2> QED
        BY <2>1 DEF DecisionInv
<1> QED
    BY <1>1, <1>2

LEMMA DecisionStep == TypeOK /\ DecisionInv /\ [Next]_vars => DecisionInv'
<1> SUFFICES ASSUME TypeOK, DecisionInv, [Next]_vars PROVE DecisionInv'
    OBVIOUS
<1>1. CASE \E f \in Files : Store(f)
    BY <1>1, HandleDecision DEF Store
<1>2. CASE \E f \in Files : Skip(f)
    BY <1>2, HandleDecision DEF Skip
<1>3. CASE \E f \in Files : Refuse(f) \/ FailUnreadable(f)
    BY <1>3, HandleDecision DEF Refuse, FailUnreadable
<1>4. CASE UNCHANGED <<outcome, under>>
    BY <1>4 DEF DecisionInv
<1> QED
    BY <1>1, <1>2, <1>3, <1>4 DEF Next, RunStep, Deliver, EditList, StartRun,
       Archive, EndRun, Stop

-----------------------------------------------------------------------------
(* What is archived.                                                       *)

\* The table has a row under the key of each of f's observations.
InTable(f, table) == LET h == HeaderOf[f] IN
    \A t \in h.slots : \E r \in table :
        EnergyKey(r) = <<t, h.meter, Direction(h), h.product, IsRcp(h)>>

KeptInv ==
    /\ \A f \in delivered \ pending : outcome[f] \in {"ingested", "skipped"}
    /\ \A f \in fetched \ todo : outcome[f] # "none"
    /\ \A f \in Files : outcome[f] = "ingested" /\ HeaderOf[f].type = "E66"
                        => InTable(f, energy)

LEMMA UpsertKeepsKeys ==
    ASSUME NEW f \in Files, NEW g \in Files, NEW o, NEW table
    PROVE  /\ InTable(f, table) => InTable(f, UpsertEnergy(table, EnergyRowsOf(g, o)))
           /\ HeaderOf[f].type = "E66" => InTable(f, UpsertEnergy(table, EnergyRowsOf(f, o)))
<1> DEFINE h == HeaderOf[f]
           row(t) == [file |-> f, meter |-> h.meter, customer |-> CustomerOf(h.meter, o),
                      direction |-> Direction(h), segment |-> h.product,
                      rcp |-> IsRcp(h), slot |-> t]
<1>1. ASSUME h.type = "E66", NEW t \in h.slots
      PROVE  /\ row(t) \in EnergyRowsOf(f, o)
             /\ EnergyKey(row(t)) = <<t, h.meter, Direction(h), h.product, IsRcp(h)>>
    BY <1>1 DEF EnergyRowsOf, EnergyKey
<1>2. ASSUME NEW R, NEW r \in table
      PROVE  \E n \in UpsertEnergy(table, R) : EnergyKey(n) = EnergyKey(r)
    BY DEF UpsertEnergy
<1>3. ASSUME InTable(f, table)
      PROVE  InTable(f, UpsertEnergy(table, EnergyRowsOf(g, o)))
    <2> SUFFICES ASSUME NEW t \in h.slots
                 PROVE  \E n \in UpsertEnergy(table, EnergyRowsOf(g, o)) :
                           EnergyKey(n) = <<t, h.meter, Direction(h), h.product, IsRcp(h)>>
        BY DEF InTable
    <2>1. PICK r \in table :
             EnergyKey(r) = <<t, h.meter, Direction(h), h.product, IsRcp(h)>>
        BY <1>3 DEF InTable
    <2>2. PICK n \in UpsertEnergy(table, EnergyRowsOf(g, o)) : EnergyKey(n) = EnergyKey(r)
        BY <1>2
    <2> QED
        BY <2>1, <2>2
<1>4. ASSUME h.type = "E66"
      PROVE  InTable(f, UpsertEnergy(table, EnergyRowsOf(f, o)))
    <2>1. EnergyRowsOf(f, o) \subseteq UpsertEnergy(table, EnergyRowsOf(f, o))
        BY DEF UpsertEnergy
    <2> HIDE DEF row
    <2> QED
        BY <1>1, <1>4, <2>1 DEF InTable
<1> QED
    BY <1>3, <1>4

\* What is recorded of the files a run did not turn to stays as it was.
LEMMA HandleKept ==
    ASSUME TypeOK, KeptInv, NEW f \in Files, NEW o \in {"ingested", "skipped", "failed"},
           Handle(f, o)
    PROVE  /\ \A g \in delivered' \ pending' : outcome'[g] \in {"ingested", "skipped"}
           /\ \A g \in fetched' \ todo' : outcome'[g] # "none"
           /\ outcome'[f] = o
           /\ \A g \in Files \ {f} : outcome'[g] = outcome[g]
<1>1. /\ f \in todo /\ todo' = todo \ {f}
      /\ outcome' = [outcome EXCEPT ![f] = o]
      /\ UNCHANGED <<delivered, pending, fetched>>
    BY DEF Handle
<1>2. /\ f \in pending /\ fetched \subseteq Files /\ delivered \subseteq Files
      /\ outcome'[f] = o /\ \A g \in Files \ {f} : outcome'[g] = outcome[g]
    BY <1>1 DEF TypeOK
<1> QED
    BY <1>1, <1>2 DEF KeptInv

LEMMA KeptStep ==
    ASSUME TypeOK, KeptInv, [Next]_vars
    PROVE  KeptInv'
<1>1. ASSUME NEW f \in Files, Deliver(f)
      PROVE  KeptInv'
    BY <1>1 DEF Deliver, KeptInv, TypeOK, InTable
<1>2. CASE EditList
    BY <1>2 DEF EditList, KeptInv, InTable
<1>3. CASE StartRun
    BY <1>3 DEF StartRun, KeptInv, InTable
<1>4. CASE Archive
    <2>1. /\ pending' = pending \ Archivable
          /\ UNCHANGED <<delivered, fetched, todo, energy, outcome>>
        BY <1>4 DEF Archive
    <2>2. \A f \in Archivable : outcome[f] \in {"ingested", "skipped"}
        BY DEF Archivable, KeptInv, TypeOK
    <2> QED
        BY <2>1, <2>2 DEF KeptInv, InTable
<1>5. CASE EndRun
    BY <1>5 DEF EndRun, KeptInv, InTable
<1>6. CASE Stop
    BY <1>6 DEF Stop, KeptInv, InTable
<1>7. ASSUME NEW f \in Files, Store(f)
      PROVE  KeptInv'
    <2>1. /\ Handle(f, "ingested")
          /\ energy' = UpsertEnergy(energy, EnergyRowsOf(f, OwnersIn(loaded)))
        BY <1>7 DEF Store
    <2>2. ASSUME NEW g \in Files, outcome'[g] = "ingested", HeaderOf[g].type = "E66"
          PROVE  InTable(g, energy')
        <3>1. CASE g = f
            BY <2>1, <2>2, <3>1, UpsertKeepsKeys
        <3>2. CASE g # f
            <4>1. outcome[g] = "ingested"
                BY <2>1, <2>2, <3>2, HandleKept
            <4>2. InTable(g, energy)
                BY <2>2, <4>1 DEF KeptInv
            <4> QED
                BY <2>1, <4>2, UpsertKeepsKeys
        <3> QED
            BY <3>1, <3>2
    <2> QED
        BY <2>1, <2>2, HandleKept DEF KeptInv, InTable
<1>8. ASSUME NEW f \in Files, NEW o \in {"skipped", "failed"}, Handle(f, o),
             UNCHANGED energy
      PROVE  KeptInv'
    <2>1. \A g \in Files : outcome'[g] = "ingested" => outcome[g] = "ingested"
        BY <1>8, HandleKept
    <2> QED
        BY <1>8, <2>1, HandleKept DEF KeptInv, InTable
<1>9. ASSUME NEW f \in Files, Skip(f) \/ Refuse(f) \/ FailUnreadable(f)
      PROVE  KeptInv'
    BY <1>8, <1>9 DEF Skip, Refuse, FailUnreadable
<1>10. CASE UNCHANGED vars
    BY <1>10 DEF KeptInv, InTable
<1> QED
    BY <1>1, <1>2, <1>3, <1>4, <1>5, <1>6, <1>7, <1>9, <1>10 DEF Next, RunStep

\* However wrong customers.yaml is for a while, and however runs are cut short:
\* what a meter reports of itself is archived only with its rows in the table, or
\* it is a total that met a list giving its meter the role of another one of its
\* owner (GenuineIsKept).
THEOREM GenuineKept == Spec => []GenuineIsKept
<1>1. Init => DecisionInv /\ KeptInv
    BY DEF Init, DecisionInv, KeptInv
<1>2. TypeOK /\ DecisionInv /\ KeptInv => GenuineIsKept
    <2> SUFFICES ASSUME TypeOK, DecisionInv, KeptInv,
                        NEW f \in delivered \ pending, Genuine(f)
                 PROVE  \/ IsKept(f)
                        \/ /\ HeaderOf[f].product = "total"
                           /\ Misdeclares(under[f], HeaderOf[f].meter)
        BY DEF GenuineIsKept
    <2> DEFINE h == HeaderOf[f]
    <2>1. f \in Files /\ h.type = "E66" /\ h.meter # None /\ h.point = TrueRole[h.meter]
        BY DEF TypeOK, Genuine
    <2>2. Direction(h) = TrueRole[h.meter]
        BY <2>1, HeaderTyped DEF Direction
    <2>3. CASE outcome[f] = "ingested"
        <3>1. InTable(f, energy)
            BY <2>1, <2>3 DEF KeptInv
        <3> QED
            BY <2>2, <3>1 DEF InTable, IsKept, EnergyKey
    <2>4. CASE outcome[f] = "skipped"
        <3>1. Skipped(h, OwnersIn(under[f]))
            BY <2>1, <2>4 DEF DecisionInv
        <3> QED
            BY <2>1, <3>1 DEF Skipped, AgainstRole, StoredElsewhere, Misdeclares
    <2> QED
        BY <2>3, <2>4 DEF KeptInv
<1> QED
    BY <1>1, <1>2, DecisionStep, KeptStep, TypeCorrect, PTL DEF Spec

-----------------------------------------------------------------------------
(* The tables.                                                             *)

\* Rows with one key each, upserted over rows with one key each, leave rows
\* with one key each.
LEMMA UpsertKeepsEnergyKeys ==
    ASSUME NEW T, NEW R,
           \A r, s \in T : EnergyKey(r) = EnergyKey(s) => r = s,
           \A r, s \in R : EnergyKey(r) = EnergyKey(s) => r = s
    PROVE  \A r, s \in UpsertEnergy(T, R) :
               EnergyKey(r) = EnergyKey(s) => r = s
<1> SUFFICES ASSUME NEW r \in UpsertEnergy(T, R),
                    NEW s \in UpsertEnergy(T, R),
                    EnergyKey(r) = EnergyKey(s)
             PROVE  r = s
    OBVIOUS
<1>1. \A x \in UpsertEnergy(T, R) :
        \/ x \in T /\ \A n \in R : EnergyKey(n) # EnergyKey(x)
        \/ x \in R
    BY DEF UpsertEnergy
<1> HIDE DEF EnergyKey
<1> QED
    BY <1>1

LEMMA UpsertKeepsCommunityKeys ==
    ASSUME NEW T, NEW R,
           \A r, s \in T : CommunityKey(r) = CommunityKey(s) => r = s,
           \A r, s \in R : CommunityKey(r) = CommunityKey(s) => r = s
    PROVE  \A r, s \in UpsertCommunity(T, R) :
               CommunityKey(r) = CommunityKey(s) => r = s
<1> SUFFICES ASSUME NEW r \in UpsertCommunity(T, R),
                    NEW s \in UpsertCommunity(T, R),
                    CommunityKey(r) = CommunityKey(s)
             PROVE  r = s
    OBVIOUS
<1>1. \A x \in UpsertCommunity(T, R) :
        \/ x \in T /\ \A n \in R : CommunityKey(n) # CommunityKey(x)
        \/ x \in R
    BY DEF UpsertCommunity
<1> QED
    BY <1>1

\* The rows of one file differ in their slot at least.
LEMMA RowsOfOneFile ==
    ASSUME NEW f, NEW o
    PROVE  /\ \A r, s \in EnergyRowsOf(f, o) : EnergyKey(r) = EnergyKey(s) => r = s
           /\ \A r, s \in CommunityRowsOf(f) :
                CommunityKey(r) = CommunityKey(s) => r = s
<1>1. \A r, s \in EnergyRowsOf(f, o) : EnergyKey(r) = EnergyKey(s) => r = s
    BY DEF EnergyRowsOf, EnergyKey
<1>2. \A r, s \in CommunityRowsOf(f) : CommunityKey(r) = CommunityKey(s) => r = s
    BY DEF CommunityRowsOf, CommunityKey
<1> QED
    BY <1>1, <1>2

\* The invariant in terms of the keys.
KeysInv ==
    /\ \A r, s \in energy : EnergyKey(r) = EnergyKey(s) => r = s
    /\ \A r, s \in community : CommunityKey(r) = CommunityKey(s) => r = s

LEMMA KeysStep == KeysInv /\ [Next]_vars => KeysInv'
<1> SUFFICES ASSUME KeysInv, [Next]_vars PROVE KeysInv'
    OBVIOUS
<1>1. ASSUME NEW f \in Files, Store(f)
      PROVE  KeysInv'
    <2>1. /\ energy' = UpsertEnergy(energy, EnergyRowsOf(f, OwnersIn(loaded)))
          /\ community' = UpsertCommunity(community, CommunityRowsOf(f))
        BY <1>1 DEF Store
    <2>2. \A r, s \in energy' : EnergyKey(r) = EnergyKey(s) => r = s
        BY <2>1, RowsOfOneFile, UpsertKeepsEnergyKeys DEF KeysInv
    <2>3. \A r, s \in community' : CommunityKey(r) = CommunityKey(s) => r = s
        BY <2>1, RowsOfOneFile, UpsertKeepsCommunityKeys DEF KeysInv
    <2> QED
        BY <2>2, <2>3 DEF KeysInv
<1>2. CASE UNCHANGED <<energy, community>>
    BY <1>2 DEF KeysInv
<1> QED
    BY <1>1, <1>2 DEF Next, RunStep, Deliver, EditList, StartRun, Archive,
       EndRun, Stop, FailUnreadable, Skip, Refuse

\* Revisions, retries, crashes and changes of owner never double a reading.
THEOREM ReadingsAreSingle == Spec => []OneRowPerReading
<1>1. Init => KeysInv
    BY DEF Init, KeysInv
<1>2. KeysInv => OneRowPerReading
    BY DEF KeysInv, OneRowPerReading, EnergyKey, CommunityKey
<1> QED
    BY <1>1, <1>2, KeysStep, PTL DEF Spec

\* The three together: every entry of the list counts, and a reading has one
\* row, whatever is edited, revised or retried.
THEOREM OneOwner == Spec => []OneOwnerPerReading
<1>1. TypeOK /\ ListIsHonoured /\ OneRowPerReading => OneOwnerPerReading
    BY DEF OneOwnerPerReading
<1> QED
    BY <1>1, TypeCorrect, ListHonoured, ReadingsAreSingle, PTL

-----------------------------------------------------------------------------
(* The rows and their files.                                               *)

\* r is a row of its file, whoever owned the meter when it was stored.
FromItsFile(r) ==
    LET h == HeaderOf[r.file] IN
    /\ h.type = "E66" /\ r.meter = h.meter /\ r.slot \in h.slots
    /\ r.direction = Direction(h) /\ r.segment = h.product
    /\ r.rcp = IsRcp(h)

\* r names the owner under the list of its file's last handling, and the file
\* is recorded under that owner.
OfItsOwner(r) ==
    /\ r.customer = CustomerOf(r.meter, OwnersIn(under[r.file]))
    /\ [file |-> r.file, customer |-> r.customer] \in fileRows

RowsInv ==
    \A r \in energy : /\ FromItsFile(r)
                      /\ outcome[r.file] = "ingested" => OfItsOwner(r)

\* A row that survives the upsert of f's rows is a row of another file: f's old
\* rows have the keys of its new ones.
LEMMA OldRowsGo ==
    ASSUME NEW f \in Files, NEW o, NEW T,
           \A r \in T : FromItsFile(r),
           NEW r \in UpsertEnergy(T, EnergyRowsOf(f, o)), r.file = f
    PROVE  r \in EnergyRowsOf(f, o)
<1> SUFFICES ASSUME r \in T, \A n \in EnergyRowsOf(f, o) :
                                 EnergyKey(n) # EnergyKey(r)
             PROVE  FALSE
    BY DEF UpsertEnergy
<1> DEFINE h == HeaderOf[f]
           n == [file |-> f, meter |-> h.meter,
                 customer |-> CustomerOf(h.meter, o),
                 direction |-> Direction(h), segment |-> h.product,
                 rcp |-> IsRcp(h), slot |-> r.slot]
<1>1. h.type = "E66" /\ r.slot \in h.slots
    BY DEF FromItsFile
<1>2. n \in EnergyRowsOf(f, o)
    BY <1>1 DEF EnergyRowsOf
<1>3. EnergyKey(n) = EnergyKey(r)
    BY DEF EnergyKey, FromItsFile
<1> QED
    BY <1>2, <1>3

\* The rows that storing f writes.
LEMMA NewRows ==
    ASSUME NEW f \in Files, NEW o, NEW r \in EnergyRowsOf(f, o)
    PROVE  /\ r.file = f /\ FromItsFile(r)
           /\ r.customer = CustomerOf(r.meter, o)
           /\ HeaderOf[f].type = "E66" /\ r.meter = HeaderOf[f].meter
BY DEF EnergyRowsOf, FromItsFile

\* Recording a file leaves the header rows of the other files.
LEMMA RecordKeepsOthers ==
    ASSUME NEW f, NEW c, RecordFile(f, c), NEW r \in fileRows, r.file # f
    PROVE  r \in fileRows'
BY DEF RecordFile

\* A handling that writes no energy row and does not end in "ingested".
LEMMA UnstoredKeepsRows ==
    ASSUME TypeOK, RowsInv, NEW f \in Files, NEW o, Handle(f, o),
           o # "ingested", UNCHANGED energy,
           UNCHANGED fileRows \/ \E c : RecordFile(f, c)
    PROVE  RowsInv'
<1> SUFFICES ASSUME NEW r \in energy, outcome'[r.file] = "ingested"
             PROVE  OfItsOwner(r)'
    BY DEF RowsInv, FromItsFile
<1>1. r.file \in Files
    BY DEF TypeOK, EnergyRows
<1>2. r.file # f
    BY <1>1 DEF Handle, TypeOK
<1>3. outcome[r.file] = "ingested" /\ under'[r.file] = under[r.file]
    BY <1>1, <1>2 DEF Handle, TypeOK
<1>4. OfItsOwner(r)
    BY <1>3 DEF RowsInv
<1> QED
    BY <1>2, <1>3, <1>4, RecordKeepsOthers DEF OfItsOwner

LEMMA StoreKeepsRows ==
    ASSUME TypeOK, RowsInv, NEW f \in Files, Store(f)
    PROVE  RowsInv'
<1> DEFINE o == OwnersIn(loaded)
           new == EnergyRowsOf(f, o)
           c == IF HeaderOf[f].type = "E66" THEN CustomerOf(HeaderOf[f].meter, o)
                                            ELSE None
<1>1. /\ Handle(f, "ingested") /\ RecordFile(f, c)
      /\ energy' = UpsertEnergy(energy, new)
    BY DEF Store
<1>2. outcome'[f] = "ingested" /\ under'[f] = loaded
    BY <1>1 DEF Handle, TypeOK
<1>3. [file |-> f, customer |-> c] \in fileRows'
    BY <1>1 DEF RecordFile
<1> SUFFICES ASSUME NEW r \in energy'
             PROVE  /\ FromItsFile(r)
                    /\ outcome'[r.file] = "ingested" => OfItsOwner(r)'
    BY DEF RowsInv, FromItsFile
<1>4. CASE r.file = f
    <2>1. r \in new
        BY <1>1, <1>4, OldRowsGo DEF RowsInv
    <2>2. FromItsFile(r) /\ r.customer = CustomerOf(r.meter, o) /\ r.customer = c
        BY <2>1, NewRows
    <2> QED
        BY <1>2, <1>3, <1>4, <2>2 DEF OfItsOwner
<1>5. CASE r.file # f
    <2>1. r \in energy
        BY <1>1, <1>5, NewRows DEF UpsertEnergy
    <2>2. r.file \in Files
        BY <2>1 DEF TypeOK, EnergyRows
    <2>3. outcome'[r.file] = outcome[r.file] /\ under'[r.file] = under[r.file]
        BY <1>1, <1>5, <2>2 DEF Handle, TypeOK
    <2> QED
        BY <1>1, <1>5, <2>1, <2>3, RecordKeepsOthers DEF RowsInv, OfItsOwner
<1> QED
    BY <1>4, <1>5

LEMMA RowsStep == TypeOK /\ RowsInv /\ [Next]_vars => RowsInv'
<1> SUFFICES ASSUME TypeOK, RowsInv, [Next]_vars PROVE RowsInv'
    OBVIOUS
<1>1. ASSUME NEW f \in Files, Store(f) PROVE RowsInv'
    BY <1>1, StoreKeepsRows
<1>2. ASSUME NEW f \in Files, FailUnreadable(f) PROVE RowsInv'
    BY <1>2, UnstoredKeepsRows DEF FailUnreadable
<1>3. ASSUME NEW f \in Files, Skip(f) PROVE RowsInv'
    <2>1. Handle(f, "skipped") /\ RecordFile(f, None) /\ UNCHANGED energy
        BY <1>3 DEF Skip
    <2> QED
        BY <2>1, UnstoredKeepsRows
<1>4. ASSUME NEW f \in Files, Refuse(f) PROVE RowsInv'
    <2>1. Handle(f, "failed") /\ (\E c : RecordFile(f, c)) /\ UNCHANGED energy
        BY <1>4 DEF Refuse
    <2> QED
        BY <2>1, UnstoredKeepsRows
<1>5. CASE UNCHANGED <<energy, fileRows, outcome, under>>
    BY <1>5 DEF RowsInv, FromItsFile, OfItsOwner
<1> QED
    BY <1>1, <1>2, <1>3, <1>4, <1>5 DEF Next, RunStep, Deliver, EditList,
       StartRun, Archive, EndRun, Stop

\* A row stored under a list with its meter's true role is that meter's own
\* energy: a copy of another meter's reports against the role and is not
\* decoded.
LEMMA RightRowsAreOwn ==
    ASSUME TypeOK, DecisionInv, RowsInv, NEW r \in energy,
           outcome[r.file] = "ingested", RightFor(under[r.file], r.meter)
    PROVE  r.meter = EnergyOf[r.file]
<1> DEFINE h == HeaderOf[r.file]
<1>1. r.file \in Files /\ r.meter \in MeterIds
    BY DEF TypeOK, EnergyRows
<1>2. r.meter = h.meter /\ h.type = "E66"
    BY DEF RowsInv, FromItsFile
<1>3. DecodedE66(h, OwnersIn(under[r.file]))
    BY <1>1, <1>2 DEF DecisionInv, Stored, DecodedE31
<1>4. h.point = TrueRole[h.meter]
    BY <1>2, <1>3 DEF DecodedE66, AgainstRole, RightFor
<1> QED
    BY <1>1, <1>2, <1>4, CopiesAssumption, NoneAssumption

\* However the list is edited and runs are cut short: the energy one meter
\* measured is stored under one meter by the files whose last handling was under
\* a list that has the role of their meter right, and each ingested file is
\* recorded under the customer its rows carry. A row stored under a wrong list
\* is not covered, nor deleted when the list is corrected.
THEOREM AttributedOnce == Spec => []EnergyIsAttributedOnce
<1>1. Init => DecisionInv /\ RowsInv
    BY DEF Init, DecisionInv, RowsInv
<1>2. TypeOK /\ DecisionInv /\ RowsInv => EnergyCountedOnce
    BY RightRowsAreOwn DEF EnergyCountedOnce
<1>3. RowsInv => RowsMatchFile
    BY DEF RowsInv, RowsMatchFile, OfItsOwner
<1> QED
    BY <1>1, <1>2, <1>3, DecisionStep, RowsStep, TypeCorrect, PTL
       DEF Spec, EnergyIsAttributedOnce
=============================================================================
