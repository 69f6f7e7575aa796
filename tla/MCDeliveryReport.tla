-------------------------- MODULE MCDeliveryReport --------------------------
(***************************************************************************)
(* DeliveryReport for TLC: customer "a" has the consumption point "mc" and *)
(* the production points "mp" and "mq"; "mr" belongs to an RCP. Two report *)
(* periods overlap on slot 1.                                              *)
(***************************************************************************)
EXTENDS DeliveryReport

Entry(c, r) == [customer |-> c, role |-> r]
ThreeOwners == [m \in {"mc", "mp", "mq"} |->
                  Entry("a", IF m = "mc" THEN "consumption" ELSE "production")]

E66(m, d, s, p, v) == [type |-> "E66", rcp |-> FALSE, meter |-> m, point |-> d,
                       segment |-> s, period |-> p, slots |-> {1}, value |-> v]
E31(d, s, v) == [E66(None, d, s, "month", v) EXCEPT !.type = "E31"]
Rcp(v) == [E66("mr", "consumption", "total", "month", v) EXCEPT !.rcp = TRUE]

Production ==
    { E66("mp", "production", "total", "month", 1),
      E66("mp", "production", "total", "month", 2),      \* a revision
      E66("mq", "production", "total", "month", 1),
      [E66("mp", "production", "total", "week", 1) EXCEPT !.slots = {1, 2}],
      E66("mc", "production", "total", "month", 1),      \* a copy of one point
      E66("mc", "production", "total", "month", 2),      \* the copy of both
      E66("mc", "production", "cel", "month", 1),        \* wrong role: refused
      E31("production", "total", 1), E31("production", "total", 2),
      [E31("production", "total", 1) EXCEPT !.slots = {2}] }

Others == { Rcp(1), Rcp(2), E66(None, "production", "total", "month", 1),
            E66("mp", "production", "other", "month", 1),
            E66("mp", "production", "cel", "month", 1),
            E66("mp", "production", "grid", "month", 1) }

Both == Production \cup Others
=============================================================================
