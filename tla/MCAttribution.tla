--------------------------- MODULE MCAttribution ---------------------------
(***************************************************************************)
(* Attribution for TLC: customer "a" has a consumption point "mc" and a    *)
(* production point "mp". The consumption point repeats the production     *)
(* total, the total is revised by a later delivery, an aggregate and two   *)
(* files nothing can be made of come along.                                *)
(***************************************************************************)
EXTENDS Attribution

TwoMeters == {"mc", "mp"}
TwoCustomers == {"a", "b"}
OneSlot == {1}

Reading(m, p, s) == [type |-> "E66", meter |-> m, point |-> p, flow |-> None,
                     product |-> s, reason |-> "C40", sound |-> TRUE,
                     slots |-> OneSlot]

SevenFiles == 1 .. 7
SevenHeaders ==
    << Reading("mc", "consumption", "total"),
       Reading("mc", "production", "total"),       \* the copy
       Reading("mp", "production", "total"),
       Reading("mp", "production", "cel"),
       Reading("mp", "production", "total"),       \* a revision
       [Reading("mc", "consumption", "total") EXCEPT !.type = "E31",
          !.meter = None, !.point = None, !.flow = "E17"],
       [Reading("mc", "consumption", "cel") EXCEPT !.reason = "other"] >>
SevenDays == <<1, 1, 1, 1, 2, 3, 3>>
SevenEnergies == <<"mc", "mp", "mp", "mp", "mp", None, "mc">>

Roles2 == [m \in TwoMeters |-> IF m = "mc" THEN "consumption" ELSE "production"]

Entry(c, r, m) == [customer |-> c, role |-> r, meter |-> m]
Right == << Entry("a", "consumption", "mc"), Entry("a", "production", "mp") >>
Swapped == << Entry("a", "production", "mc"), Entry("a", "consumption", "mp") >>
OtherOwner == << Entry("a", "consumption", "mc"), Entry("b", "production", "mp") >>
Twice == << Entry("a", "consumption", "mc"), Entry("b", "consumption", "mc") >>
FourLists == {Right, Swapped, OtherOwner, Twice}
=============================================================================
