-------------------------- MODULE MCAuditWrappers ---------------------------
(***************************************************************************)
(* Instances of AuditWrappers for TLC: one manifest or one header root (or *)
(* nothing) names the wrapper of one native call; the sources hold up to   *)
(* two of: a missed call, an external one, an indirect one, a diagnostic,  *)
(* a record that does not fit.  The lines ask for every mode and for pairs *)
(* of files, and fill every table, once with one entry too many.           *)
(***************************************************************************)
EXTENDS AuditWrappers, SequencesExt

TextOrder == <<"", "-", "a.c", "ext", "in.h", "p101_read", "read", "usr:ext",
               "usr:main", "usr:p", "usr:read", "wrapper", "wrapper-of:read">>
FewTexts == {TextOrder[i] : i \in DOMAIN TextOrder}
TextRank == [t \in FewTexts |-> (CHOOSE i \in DOMAIN TextOrder :
                                   TextOrder[i] = t) - 1]
None == [t \in {} |-> t]
MacroText == [n \in FewTexts |-> "macro:" \o n]
OfRead == [n \in {"wrapper-of:read"} |-> "usr:read"]
OnePath == {"a.c"}

Read == [original |-> "read", originalUsr |-> "usr:read",
         wrapper |-> "p101_read", wrapperUsr |-> "usr:p"]
FewManifests ==
  {<<>>, <<[columns |-> TRUE, rows |-> <<[mapping |-> Read, malformed |-> FALSE]>>]>>}

At(kind, path, line, name, usr) ==
  [kind |-> kind, path |-> path, line |-> line, column |-> 1, name |-> name,
   caller |-> "", usr |-> usr,
   callerUsr |-> IF kind = "CALL" THEN "usr:main" ELSE "",
   start |-> line, end |-> line + 1, definition |-> FALSE,
   public |-> kind = "FUNCTION", indirect |-> FALSE, platform |-> FALSE]
Fits(f) == [fact |-> f, fits |-> TRUE]

Declared == Fits(At("FUNCTION", "in.h", 1, "p101_read", "usr:p"))
Role == Fits([At("NOTE", "in.h", 2, "wrapper-of:read", "")
                EXCEPT !.callerUsr = "usr:p"])
Diagnostic(path) == Fits(At("DIAGNOSTIC", path, 3, "", ""))
SomeRecords ==
  {Fits(At("CALL", "a.c", 1, "read", "usr:read")),
   Fits(At("CALL", "a.c", 2, "ext", "usr:ext")),
   Fits([At("CALL", "a.c", 4, "ext", "") EXCEPT !.indirect = TRUE]),
   Diagnostic("a.c"),
   [Diagnostic("a.c") EXCEPT !.fits = FALSE]}
FewRecords == BoundedSeq(SomeRecords, 2)

Is(kind) == <<[is |-> kind]>>
Sets(switch) == <<[is |-> "switch", switch |-> switch]>>
Writes(file) == <<[is |-> "output", file |-> file]>>
Usr(usr) == <<[is |-> "usr", usr |-> usr]>>
Reads(rows) == <<[is |-> "file", rows |-> rows]>>
Under(list) ==
  <<[is |-> "root", root |-> [records |-> list, paths |-> {"in.h"}]]>>
NoRow == [is |-> "blank"]
BadRow == [is |-> "bad"]
ForExt(caller) ==
  [is |-> "rule", rule |-> [paths |-> OnePath, callerUsr |-> caller,
                            calleeUsr |-> "usr:ext"]]

CleanRoot == Under(<<Declared, Role>>)
OddRoot == Under(<<Declared, Diagnostic("in.h")>>)
FewRoots == {}

AuditLines ==
       {a \o b \o c : a \in {<<>>, CleanRoot, OddRoot},
                     b \in {<<>>, Reads(<<NoRow, ForExt("")>>)},
                     c \in {<<>>, Sets("strict")}}
  \cup {a \o b : a \in {Writes("instrumentation") \o Writes("facts"),
                      Writes("manifest") \o Writes("mutations")},
                b \in {<<>>, OddRoot}}
ModeLines ==
  {a \o b : a \in {Sets("show"), Sets("emit") \o Writes("facts"), Usr("usr:ext"),
                  Sets("portability") \o Is("neutral") \o Is("path")},
           b \in {<<>>, OddRoot}}
(* Lines that meet a limit, an error or a refusal.                         *)
OddLines ==
  {Is("help"), Is("path") \o Is("help"), Is("unknown"), Is("format"),
   Sets("databaseOnly"), Sets("databaseOnly") \o Is("database"),
   Is("path") \o Is("path"), CleanRoot \o OddRoot,
   Is("cflag") \o Is("cflag"), Is("cflag") \o Is("cflag") \o Is("cflag"),
   Usr("usr:ext") \o Usr("usr:ext"),
   Usr("usr:ext") \o Usr("usr:ext") \o Usr("usr:read"),
   Reads(<<>>) \o Reads(<<>>), Reads(<<ForExt(""), BadRow>>),
   Reads(<<ForExt("usr:main"), ForExt("")>>),
   Reads(<<ForExt("usr:main"), ForExt(""), NoRow, ForExt("usr:p")>>)}
FewLines == AuditLines \cup ModeLines \cup OddLines
=============================================================================
