--------------------------- MODULE MCSdatParsing ---------------------------
(***************************************************************************)
(* SdatParsing for TLC: a whole document, its revision without the first   *)
(* slot and with the others exchanged, one with observations that lack     *)
(* their volume, one that measures a slot twice, and one document for each *)
(* text that cannot be read. Two hours can be represented.                 *)
(***************************************************************************)
EXTENDS SdatParsing

Number(n) == [is |-> "number", n |-> n, places |-> 3]
TwoHours == -60 .. 60
Text(kind) == [is |-> kind, n |-> 0, places |-> 0]

\* Slot s of a document that starts at minute 0, 15 minutes each.
Observed(s, v) == [sequence |-> Number(s), volume |-> Number(v), slot |-> (s - 1) * 15]

Doc(obs) == [form |-> "xml", resolution |-> Number(15), start |-> Number(0),
             reason |-> "C40", observations |-> obs]

Whole == Doc(<<Observed(1, 10), Observed(2, 20), Observed(3, 30)>>)
Revision == Doc(<<Observed(3, 40), Observed(2, 50)>>)
Gap == Doc(<<[Observed(1, 60) EXCEPT !.volume = Text("absent")],
             [Observed(2, 60) EXCEPT !.volume = Text("absent"),
                                     !.sequence = Text("junk")], Observed(3, 60)>>)
Twice == Doc(<<Observed(1, 80), Observed(2, 80), Observed(1, 90)>>)
With(field, kind) ==
    Doc(<<Observed(1, 70), [Observed(2, 70) EXCEPT ![field] = Text(kind)]>>)

Readable == {Whole, Revision, Gap, Twice}
Unreadable ==
    { [Whole EXCEPT !.form = "torn"], [Whole EXCEPT !.form = "other"],
      [Whole EXCEPT !.form = "encoding"],
      Doc(<<Observed(1, 70), Observed(500, 70)>>), Doc(<<Observed(-500, 70)>>),
      [Whole EXCEPT !.resolution = Text("absent")],
      [Whole EXCEPT !.resolution = Text("empty")],
      [Whole EXCEPT !.resolution = Text("junk")],
      [Whole EXCEPT !.start = Text("junk")], [Whole EXCEPT !.reason = "unknown"],
      With("sequence", "empty"), With("sequence", "junk"),
      With("volume", "empty"), With("volume", "junk"), With("volume", "special"),
      Doc(<<[Observed(1, 7) EXCEPT !.volume.places = 4]>>) }

Texts == Readable \cup Unreadable
=============================================================================
