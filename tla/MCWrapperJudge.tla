--------------------------- MODULE MCWrapperJudge ---------------------------
(***************************************************************************)
(* Instances of WrapperJudge for TLC: every list of a few facts of a small *)
(* program with two wrappers of one native call, a lowered call, an        *)
(* indirect call, macros, errno and an aliased wrapper.                    *)
(***************************************************************************)
EXTENDS WrapperJudge, FiniteSetsExt

TextOrder ==
  <<"", "a.c", "errno", "errno_location", "ext", "fgetc", "main", "p101_getc",
    "p101_read", "p101_slurp", "read", "c:@F@errno_location", "c:@F@ext",
    "c:@F@fgetc", "c:@F@main", "c:@F@p101_getc", "c:@F@p101_read",
    "c:@F@p101_slurp", "c:@F@read", "c:@F@read_chk", "c:@T@fn", "c:a@T@fn">>
FewTexts == {TextOrder[i] : i \in DOMAIN TextOrder}
TextRank == [t \in FewTexts |-> (CHOOSE i \in DOMAIN TextOrder :
                                   TextOrder[i] = t) - 1]
LoweredRead == [u \in {"c:@F@read_chk"} |-> "c:@F@read"]
FnIdentity == [u \in {"c:a@T@fn", "c:@T@fn"} |-> "c:@T@fn"]
MacroText == [n \in FewTexts |-> "macro:" \o n]
GetcAlias == {<<"c:@F@fgetc", "c:@F@p101_getc">>}
Errno == {"c:@F@errno_location"}
OnePath == {"a.c"}

At(kind, line, name, usr, callerUsr, start, end) ==
  [kind |-> kind, path |-> "a.c", line |-> line, column |-> 1,
   name |-> name, caller |-> "", usr |-> usr, callerUsr |-> callerUsr,
   start |-> start, end |-> end, definition |-> FALSE, public |-> FALSE,
   indirect |-> FALSE, platform |-> FALSE]
Define(line, name, usr, start, end) ==
  [At("FUNCTION", line, name, usr, "", start, end) EXCEPT !.definition = TRUE]
Indirect(f) == [f EXCEPT !.indirect = TRUE]

MainBody == Define(10, "main", "c:@F@main", 10, 50)

Program ==
  {[At("INCLUDE", 1, "ext", "", "", 1, 2) EXCEPT !.platform = TRUE],
   MainBody,
   Define(60, "p101_read", "c:@F@p101_read", 60, 70),
   At("CALL", 11, "read", "c:@F@read", "c:@F@main", 11, 19),
   Indirect(At("CALL", 11, "read", "", "c:@F@main", 11, 19)),
   At("CALL", 21, "read", "c:@F@read_chk", "c:@F@main", 21, 29),
   At("CALL", 31, "ext", "c:@F@ext", "c:@F@main", 31, 39),
   Indirect(At("CALL", 41, "ext", "c:a@T@fn", "c:@F@main", 41, 45)),
   At("CALL", 46, "errno_location", "c:@F@errno_location", "c:@F@main", 46, 49),
   At("MACRO", 46, "errno", "", "c:@F@main", 46, 49),
   At("CALL", 61, "read", "c:@F@read", "c:@F@p101_read", 61, 65),
   At("CALL", 71, "read", "c:@F@read", "c:@F@p101_slurp", 71, 75),
   At("CALL", 81, "fgetc", "c:@F@fgetc", "c:@F@p101_getc", 81, 85),
   At("MACRO", 31, "read", "", "c:@F@main", 32, 38),
   At("MACRO", 5, "read", "", "", 5, 6),
   At("CALL", 12, "p101_read", "c:@F@p101_read", "c:@F@main", 13, 15)}

(* Any two facts of the program, and any two with the body of main.        *)
UpToTwo ==
  {Sorted(S) : S \in UNION {kSubset(n, Program) : n \in 0 .. 2}}
UpToThree ==
  UpToTwo \cup {Sorted(S \cup {MainBody}) : S \in kSubset(2, Program)}

ReadMapping == [original |-> "read", originalUsr |-> "c:@F@read",
                wrapper |-> "p101_read", wrapperUsr |-> "c:@F@p101_read"]
NameOnly == [ReadMapping EXCEPT !.originalUsr = ""]
Slurp == [original |-> "", originalUsr |-> "c:@F@read",
          wrapper |-> "p101_slurp", wrapperUsr |-> "c:@F@p101_slurp"]
FewInventories == {<<NameOnly>>, <<ReadMapping, Slurp>>}

ForCaller(caller, callee) ==
  [paths |-> OnePath, callerUsr |-> caller, calleeUsr |-> callee]
FewRules ==
  {<<>>, <<ForCaller("c:@F@main", "c:@F@ext"), ForCaller("", "c:@F@read")>>,
   <<ForCaller("c:@F@main", "c:@F@read"), ForCaller("", "c:@F@read")>>,
   <<ForCaller("", "c:@T@fn"), ForCaller("", "c:@F@read")>>}
FewArguments ==
  [allowedUsrs : {<<>>, <<"c:@F@read">>}, rules : FewRules,
   portability : {TRUE}, strict : {FALSE}]
=============================================================================
