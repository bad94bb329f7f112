------------------------- MODULE MCInstrumentation --------------------------
(***************************************************************************)
(* Instances of Instrumentation for TLC: two, three or five functions, one *)
(* of them defined twice and one in another repository, whose USRs collide *)
(* in a table that starts with two slots, and up to three notes and calls. *)
(***************************************************************************)
EXTENDS Instrumentation, FiniteSetsExt

TextOrder == <<"", "a.c", "b.c", "e", "f", "fd", "g", "h", "other.c", "plain",
               "trace", "usr:e", "usr:f", "usr:g", "usr:h">>
FewTexts == {TextOrder[i] : i \in DOMAIN TextOrder}
TextRank == [t \in FewTexts |-> (CHOOSE i \in DOMAIN TextOrder :
                                   TextOrder[i] = t) - 1]
None == [t \in {} |-> t]
MacroText == [n \in FewTexts |-> "macro:" \o n]
Colliding == [t \in FewTexts |-> IF t = "usr:h" THEN 6 ELSE 7]
TraceAndFd == [n \in {"trace", "fd"} |->
                 IF n = "fd" THEN {"fd"} ELSE {"trace_entry", "trace_exit"}]
OneRepository == {"a.c", "b.c"} \X {"a.c", "b.c"} \cup {<<"other.c", "other.c">>}

At(kind, path, line, name, usr, callerUsr, start, end) ==
  [kind |-> kind, path |-> path, line |-> line, column |-> 1, name |-> name,
   caller |-> "", usr |-> usr, callerUsr |-> callerUsr, start |-> start,
   end |-> end, definition |-> kind = "FUNCTION", public |-> FALSE,
   indirect |-> FALSE, platform |-> FALSE]
Call(path, line, usr, callerUsr) ==
  At("CALL", path, line, "", usr, callerUsr, 10 * line, 10 * line + 1)

Always == {At("FUNCTION", "a.c", 1, "f", "usr:f", "", 10, 19),
           At("FUNCTION", "a.c", 2, "g", "usr:g", "", 20, 29)}
Functional == {At("FUNCTION", "b.c", 1, "f", "usr:f", "", 10, 19),
               At("FUNCTION", "b.c", 2, "h", "usr:h", "", 20, 29),
               At("FUNCTION", "other.c", 1, "e", "usr:e", "", 10, 19)}
Pool ==
  {At("NOTE", "a.c", 1, "trace", "", "usr:f", 11, 12),
   At("NOTE", "a.c", 2, "fd", "", "", 21, 22),
   At("NOTE", "other.c", 1, "fd", "", "usr:e", 11, 12),
   At("NOTE", "b.c", 2, "plain", "", "usr:h", 21, 22),
   Call("a.c", 1, "usr:g", "usr:f"), Call("a.c", 2, "usr:f", "usr:g"),
   Call("a.c", 2, "usr:h", "usr:g"), Call("b.c", 2, "usr:f", "usr:h"),
   Call("b.c", 2, "usr:e", "usr:h")}

Third == {f \in Functional : f.usr = "usr:h"}

Statements == UNION {kSubset(n, Pool) : n \in 0 .. 3}
FewFacts ==
  {Sorted(Always \cup F \cup S) : F \in {{}, Third, Functional}, S \in Statements}
=============================================================================
