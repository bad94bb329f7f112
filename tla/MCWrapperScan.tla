--------------------------- MODULE MCWrapperScan ----------------------------
(***************************************************************************)
(* Instances of WrapperScan for TLC: everything up to four records that    *)
(* two translation units can deliver about one header: a function body, a  *)
(* call a macro expands to, the expansions, an include that resolves or    *)
(* not, a diagnostic, and a record that does not fit.                      *)
(***************************************************************************)
EXTENDS WrapperScan, SequencesExt

TextOrder == <<"", "f", "g", "h.h", "m", "n", "usr:f", "usr:g">>
FewTexts == {TextOrder[i] : i \in DOMAIN TextOrder}
TextRank == [t \in FewTexts |-> (CHOOSE i \in DOMAIN TextOrder :
                                   TextOrder[i] = t) - 1]
None == [t \in {} |-> t]
MacroText == [n \in FewTexts |-> "macro:" \o n]

At(kind, line, name, caller, callerUsr, start, end) ==
  [kind |-> kind, path |-> "h.h", line |-> line, column |-> 1,
   name |-> name, caller |-> caller, usr |-> "", callerUsr |-> callerUsr,
   start |-> start, end |-> end, definition |-> FALSE, public |-> FALSE,
   indirect |-> FALSE, platform |-> FALSE]
Fits(f) == [fact |-> f, fits |-> TRUE]
TooLong(f) == [fact |-> f, fits |-> FALSE]

Expansion == At("MACRO", 3, "m", "", "", 22, 24)
Include == At("INCLUDE", 1, "n", "", "", 1, 2)
Diagnostic == At("DIAGNOSTIC", 1, "n", "", "", 1, 1)

Pool ==
  {Fits([At("FUNCTION", 2, "f", "", "", 10, 50) EXCEPT !.definition = TRUE,
                                                       !.usr = "usr:f"]),
   Fits(At("CALL", 3, "n", "g", "usr:g", 20, 30)),
   Fits(Expansion),
   Fits([Expansion EXCEPT !.caller = "f", !.callerUsr = "usr:f"]),
   Fits(At("MACRO", 4, "n", "", "", 40, 41)),
   Fits(Include), Fits([Include EXCEPT !.platform = TRUE]),
   Fits(Diagnostic), TooLong(Diagnostic)}

UpToFour == BoundedSeq(Pool, 4)
UpToTwo == BoundedSeq(Pool, 2)
=============================================================================
