-------------------------- MODULE MCQuestDBWriter --------------------------
(***************************************************************************)
(* QuestDBWriter for TLC: a file of two slots, its log row, a file whose   *)
(* rows are all rejected by validate_rows, and a later file that revises   *)
(* one slot of the first.                                                  *)
(***************************************************************************)
EXTENDS QuestDBWriter

FourCalls == 1 .. 4
TwoSlots == {"a", "b"}
FourRowsOf == [n \in FourCalls |-> IF n = 1 THEN {"a", "b"}
                                   ELSE IF n = 3 THEN {} ELSE {"a"}]
=============================================================================
