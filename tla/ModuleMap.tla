----------------------------- MODULE ModuleMap ------------------------------
(***************************************************************************)
(* audit-modules (components/module-map): facts arrive in the order the    *)
(* analysis, or a saved stream, has them, a header's facts once for every  *)
(* source that includes it.  They go into bounded tables; the report is    *)
(* then written rule by rule from the tables, and the status follows.      *)
(*                                                                         *)
(* A name is the sequence of its words (list_create is <<"list",           *)
(* "create">>), a path is [base, header], a spelling of an include is      *)
(* [dir, base].  Tables hold the facts they record.                        *)
(***************************************************************************)
EXTENDS Naturals, Sequences, FiniteSets, SequencesExt

CONSTANTS
  InputArguments,   \* command lines, as parsed
  InputStreams,     \* bags of input records: [native, copies]
  Limit,            \* the MAX_ constants, one for each table
  NoUsr,            \* an identity that is absent or too long
  MainUsr           \* "c:@F@main"

TableNames == {"files", "modules", "includes", "functions", "macros",
               "types", "calls", "notes"}

ASSUME LimitAssumption == Limit \in [TableNames -> Nat \ {0}]

(* A stream is finite; the thresholds are unsigned.                        *)
ASSUME StreamAssumption ==
  \A s \in InputStreams :
    IsFiniteSet(DOMAIN s.copies) /\ s.copies \in [DOMAIN s.copies -> Nat \ {0}]
ASSUME ArgumentsAssumption ==
  \A a \in InputArguments : a.maxFunctions \in Nat /\ a.maxPublic \in Nat

VARIABLES
  stage,     \* "arguments", "load", "open", "report", "end" or "ended"
  args,      \* struct arguments
  stream,    \* the facts of this run
  pending,   \* copies of each input record still to come
  seen,      \* the records that have been read
  tables,    \* struct project_map
  err,       \* the sticky error
  section,   \* sections of the report done so far
  report,    \* the findings emitted
  wrote,     \* some rule was broken, emitted or not
  outcome,   \* the outcome the report ends with; "none" before
  output,    \* what stands where the report goes
  status     \* main's status, 2 from the start

loadVars == <<stream, pending, seen, tables>>
reportVars == <<section, report, wrote, outcome>>
vars == <<stage, args, loadVars, err, reportVars, output, status>>

Success == 0
ExitFindings == 1
ExitTrouble == 2

-----------------------------------------------------------------------------
(* Names.                                                                  *)

Ends(name, suffix) ==
  Len(name) > Len(suffix) /\ IsSuffix(suffix, name)
Swap(name, suffix, replacement) ==
  SubSeq(name, 1, Len(name) - Len(suffix)) \o replacement

(* basename_no_suffix: the shared prefix names no module.                  *)
Stem(base) == IF Len(base) > 1 /\ base[1] = "p101" THEN Tail(base) ELSE base
ModuleOf(path) == Stem(path.base)

(* local_include_to_module and include_to_module: "./", and the directory  *)
(* of a p101 library, disappear; "@" marks a module id to take as it is.   *)
Target(f) ==
  IF f.target.dir = "@" THEN [dir |-> "", base |-> f.target.base]
  ELSE IF f.target.dir \in {"", ".", "p101"}
       THEN [dir |-> "", base |-> Stem(f.target.base)]
       ELSE [f.target EXCEPT !.base = Stem(@)]
Module(m) == [dir |-> "", base |-> m]

(* target_matches_module: the header of a module or its internal header.   *)
OwnHeader(target, m) == Stem(target.base) \in {m, Append(m, "internal")}

-----------------------------------------------------------------------------
(* The tables (model_mutation.c).                                          *)

NoTables == [t \in TableNames |-> <<>>]
Full(t, n) == Len(t[n]) >= Limit[n]
HasModule(t, m) == \E i \in DOMAIN t.modules : t.modules[i].name = m
ModuleAt(t, m) == CHOOSE i \in DOMAIN t.modules : t.modules[i].name = m
Count(t, m, c) == [t EXCEPT !.modules[ModuleAt(t, m)][c] = @ + 1]
NewModule(m) ==
  [name |-> m, sources |-> 0, headers |-> 0, functions |-> 0, public |-> 0,
   static |-> 0, declarations |-> 0, macros |-> 0, types |-> 0,
   local |-> 0, external |-> 0]

(* add_named_source_file, and get_module under it.                         *)
HasFile(t, path) == \E i \in DOMAIN t.files : t.files[i] = path
CanFile(t, path) ==
  \/ HasFile(t, path)
  \/ ~Full(t, "files") /\ (HasModule(t, ModuleOf(path)) \/ ~Full(t, "modules"))
WithFile(t, path) ==
  LET m == ModuleOf(path)
      known == IF HasModule(t, m) THEN t
               ELSE [t EXCEPT !.modules = Append(@, NewModule(m))]
  IN  IF HasFile(t, path) THEN t
      ELSE Count([known EXCEPT !.files = Append(@, path)], m,
                 IF path.header THEN "headers" ELSE "sources")

TableOf(f) ==
  CASE f.kind = "INCLUDE"  -> "includes"
    [] f.kind = "FUNCTION" -> "functions"
    [] f.kind = "CALL"     -> "calls"
    [] f.kind \in {"TYPE", "ENUM"} -> "types"
    [] f.kind = "MACRO"    -> "macros"
    [] f.kind = "NOTE"     -> "notes"

(* The kinds the switch of apply_fact and apply_record passes on: a        *)
(* declaration only in a header, a macro only where it is defined.         *)
Recorded(f) ==
  \/ f.kind \in {"INCLUDE", "CALL", "TYPE", "ENUM"}
  \/ f.kind = "FUNCTION" /\ (f.definition \/ f.path.header)
  \/ f.kind = "MACRO" /\ f.definition
  \/ f.kind = "NOTE" /\ f.name \in {"SIGNATURE_ENV_ORDER", "ALLOC_SIZEOF_TYPE"}

(* Mutant of SameSite: names alone tell declarations apart.                *)
SameSiteByName(f, g) == f.name = g.name /\ f.symbol = g.symbol
(* same_declaration_site; notes compare the symbol too (it is their        *)
(* caller; nothing else has one).                                          *)
SameSite(f, g) ==
  f.name = g.name /\ f.symbol = g.symbol /\ f.path = g.path /\ f.line = g.line
(* Includes and calls are recorded as often as they are seen.              *)
Repeated(t, f) ==
  /\ f.kind \notin {"INCLUDE", "CALL"}
  /\ \E i \in DOMAIN t[TableOf(f)] : SameSite(t[TableOf(f)][i], f)

(* Mutant of Refused: a full table drops every kind silently.             *)
RefusedForUsr(t, f) ==
  f.kind \in {"FUNCTION", "CALL"} /\ Recorded(f) /\ f.usr = NoUsr
(* A full table is an error before a repetition is looked for; only notes  *)
(* are dropped without one.                                                *)
Refused(t, f) ==
  /\ Recorded(f) /\ f.kind # "NOTE"
  /\ \/ Full(t, TableOf(f))
     \/ f.kind \in {"FUNCTION", "CALL"} /\ f.usr = NoUsr

(* The counters that go with a record.                                     *)
Counters(f) ==
  CASE f.kind = "INCLUDE" -> {IF f.local THEN "local" ELSE "external"}
    [] f.kind = "FUNCTION" /\ ~f.definition -> {"declarations"}
    [] f.kind = "FUNCTION" /\ f.definition ->
         {"functions", IF f.static THEN "static" ELSE "public"}
    [] f.kind = "MACRO" -> {"macros"}
    [] f.kind \in {"TYPE", "ENUM"} -> {"types"}
    [] OTHER -> {}

(* add_include, add_function, add_macro, add_type, add_call, add_note.     *)
Store(t, f) ==
  IF ~Recorded(f) \/ Repeated(t, f) \/ Full(t, TableOf(f)) THEN t
  ELSE LET i == ModuleAt(t, ModuleOf(f.path))
           more == [t EXCEPT ![TableOf(f)] = Append(@, f)]
       IN  [more EXCEPT !.modules[i] =
              [c \in DOMAIN @ |-> IF c \in Counters(f) THEN @[c] + 1 ELSE @[c]]]

-----------------------------------------------------------------------------
Init ==
  /\ stage = "arguments"
  /\ args \in InputArguments
  /\ stream \in {s \in InputStreams : s.native # args.facts}
  /\ pending = stream.copies
  /\ seen = {}
  /\ tables = NoTables
  /\ err = FALSE
  /\ section = 0 /\ report = {} /\ wrote = FALSE /\ outcome = "none"
  /\ output = "old"
  /\ status = ExitTrouble

Fails == err' = TRUE /\ stage' = "end"

(* cli.c: what parse_arguments and check_arguments refuse.                 *)
Acceptable(a) ==
  /\ ~a.malformed /\ ~a.empty
  /\ ~(a.facts /\ a.database)
  /\ a.maxFunctions > 0 /\ a.maxPublic > 0

(* Help is given only when every option before it was understood, and may  *)
(* fail to be written.                                                     *)
Arguments ==
  /\ stage = "arguments"
  /\ \/ args.help /\ ~args.malformed /\ stage' = "end" /\ status' = Success
        /\ err' \in BOOLEAN
     \/ ~args.help /\ Acceptable(args) /\ stage' = "load"
        /\ UNCHANGED <<err, status>>
     \/ (IF args.help THEN args.malformed ELSE ~Acceptable(args))
        /\ Fails /\ UNCHANGED status
  /\ UNCHANGED <<args, loadVars, reportVars, output>>

(* file_for_fact or file_for_record, then the rest of apply_fact or        *)
(* apply_record: a record without a path is skipped; a parse diagnostic    *)
(* and an invalid saved record end the run.                                *)
Apply(r) ==
  IF r.is \in {"diagnostic", "invalid"} THEN Fails /\ UNCHANGED tables
  ELSE IF r.is # "fact" THEN UNCHANGED <<stage, err, tables>>
  ELSE IF ~CanFile(tables, r.fact.path) THEN Fails /\ UNCHANGED tables
  ELSE LET t == WithFile(tables, r.fact.path) IN
       /\ IF Refused(t, r.fact) THEN Fails ELSE UNCHANGED <<stage, err>>
       /\ tables' = IF Refused(t, r.fact) THEN t ELSE Store(t, r.fact)

(* The next record, whichever it is.  A saved line longer than the buffer  *)
(* is passed over like a line of another kind.                             *)
Read ==
  /\ stage = "load"
  /\ \E r \in DOMAIN pending :
       /\ pending[r] > 0
       /\ pending' = [pending EXCEPT ![r] = @ - 1]
       /\ seen' = seen \cup {r}
       /\ Apply(r)
  /\ UNCHANGED <<args, stream, reportVars, output, status>>

(* The scan itself, or reading the saved facts, fails.                     *)
ReadFails ==
  /\ stage = "load" /\ Fails
  /\ UNCHANGED <<args, loadVars, reportVars, output, status>>

(* A saved stream must have held some fact; a scan need not.               *)
EndLoad ==
  /\ stage = "load"
  /\ \A r \in DOMAIN pending : pending[r] = 0
  /\ IF ~args.facts \/ \E r \in seen : r.is \in {"fact", "pathless"}
     THEN stage' = "open" /\ UNCHANGED err
     ELSE Fails
  /\ UNCHANGED <<args, loadVars, reportVars, output, status>>

(* Mutant of Open: the file is opened before the facts are read.           *)
OpenFirst ==
  /\ \/ stage = "load" /\ output = "old"
        /\ output' = "partial" /\ UNCHANGED <<stage, err>>
     \/ stage = "open" /\ output' = "partial" /\ stage' = "report" /\ UNCHANGED err
  /\ UNCHANGED <<args, loadVars, reportVars, status>>
(* Opening for writing empties the file; stdout needs no opening.          *)
Open ==
  /\ stage = "open"
  /\ \/ output' = "partial" /\ stage' = "report" /\ UNCHANGED err
     \/ args.file /\ Fails /\ UNCHANGED output
  /\ UNCHANGED <<args, loadVars, reportVars, status>>

-----------------------------------------------------------------------------
(* The questions the rules ask of the tables (model_query.c, idioms.c,     *)
(* idioms_includes.c).                                                     *)

Includes(t) == {f \in ToSet(t.includes) : f.local}
UsedOutside(t, m) ==
  \E f \in Includes(t) : Target(f) = Module(m) /\ ModuleOf(f.path) # m
SymbolUsedOutside(t, m, name) ==
  \E c \in ToSet(t.calls) : ModuleOf(c.path) # m /\ c.name = name
FunctionUsedOutside(t, f) ==
  \E c \in ToSet(t.calls) :
    ModuleOf(c.path) # ModuleOf(f.path) /\ f.usr # "" /\ c.usr = f.usr
Declared(t, f) ==
  \E g \in ToSet(t.functions) : ~g.definition /\ f.usr # "" /\ g.usr = f.usr
Defined(t, f) ==
  \E g \in ToSet(t.functions) :
    g.definition /\ ~g.static /\ f.usr # "" /\ g.usr = f.usr
HasMain(t, m) ==
  \E f \in ToSet(t.functions) : ModuleOf(f.path) = m /\ f.usr = MainUsr
HasSource(t, m) == HasModule(t, m) /\ t.modules[ModuleAt(t, m)].sources > 0
HasHeader(t, m) == HasModule(t, m) /\ t.modules[ModuleAt(t, m)].headers > 0
PublicHere(t, m, name) ==
  \E f \in ToSet(t.functions) : ~f.static /\ ModuleOf(f.path) = m /\ f.name = name
PublicAnywhere(t, name) ==
  \E f \in ToSet(t.functions) : ~f.static /\ f.name = name
WrapsPlatformName(t, f) ==
  /\ Len(f.name) > 1 /\ f.name[1] = "p101"
  /\ \E c \in ToSet(t.calls) :
       ModuleOf(c.path) = ModuleOf(f.path) /\ c.name = Tail(f.name)

(* The first record of a table for a path: the smallest line.              *)
Leading(records, path) ==
  LET here == {f \in records : f.path = path}
  IN  {f \in here : \A g \in here : f.line <= g.line}

(* The words all public functions of a module begin with; "p101" alone     *)
(* does not name an owner.                                                 *)
Publics(t, m) ==
  {f.name : f \in {g \in ToSet(t.functions) :
       g.definition /\ ~g.static /\ ModuleOf(g.path) = m /\ g.usr # MainUsr}}
PublicSites(t, m) ==
  Cardinality({i \in DOMAIN t.functions :
       LET g == t.functions[i] IN
       g.definition /\ ~g.static /\ ModuleOf(g.path) = m /\ g.usr # MainUsr})
SharesPrefix(t, m, owner) ==
  LET names  == Publics(t, m)
      common == LongestCommonPrefix(
                  {SubSeq(n, 1, Len(n) - 1) : n \in names})
  IN  PublicSites(t, m) >= 2 =>
        common # <<>> /\ (owner => common # <<"p101">>)

(* layer_allows_include: a layer file that cannot be opened allows nothing *)
(* but the module itself.                                                  *)
LayerAsked(f) == args.layer.is # "none" /\ Target(f) # Module(ModuleOf(f.path))
LayerAllows(f) ==
  LayerAsked(f) =>
    args.layer.is = "file" /\ <<ModuleOf(f.path), Target(f)>> \in args.layer.edges

-----------------------------------------------------------------------------
(* The rules of write_findings; i is the place in the rule's table.        *)

ModuleRules(t, i) ==
  LET m == t.modules[i] IN
  IF args.library THEN {}
  ELSE {r \in {"MODULE_SIZE", "PUBLIC_API_SIZE", "ENTRYPOINT_SIZE"} :
          CASE r = "MODULE_SIZE"     -> m.functions > args.maxFunctions
            [] r = "PUBLIC_API_SIZE" -> m.public > args.maxPublic
            [] r = "ENTRYPOINT_SIZE" -> HasMain(t, m.name) /\ m.functions > 3}

FunctionRules(t, i) ==
  LET f == t.functions[i]
      m == ModuleOf(f.path)
  IN  {r \in {"UNUSED_PUBLIC_FUNCTION", "DECLARATION_WITHOUT_DEFINITION",
              "UNUSED_INTERFACE"} :
         CASE r = "UNUSED_PUBLIC_FUNCTION" ->
                /\ ~args.library /\ f.definition /\ ~f.static
                /\ ~Declared(t, f) /\ ~FunctionUsedOutside(t, f)
                /\ f.usr # MainUsr
           [] r = "DECLARATION_WITHOUT_DEFINITION" ->
                /\ ~f.definition /\ (~args.library \/ HasSource(t, m))
                /\ ~Defined(t, f)
           [] r = "UNUSED_INTERFACE" ->
                /\ ~args.library /\ ~f.definition
                /\ ~UsedOutside(t, m) /\ ~HasMain(t, m)}

MacroRules(t, i) ==
  LET f == t.macros[i]
      m == ModuleOf(f.path)
  IN  IF /\ ~args.library /\ f.path.header
         /\ ~UsedOutside(t, m) /\ ~SymbolUsedOutside(t, m, f.name)
      THEN {"UNUSED_PUBLIC_MACRO"} ELSE {}

TypeRules(t, i) ==
  LET f == t.types[i] IN
  IF ~args.library /\ f.path.header /\ ~UsedOutside(t, ModuleOf(f.path))
  THEN {"UNUSED_PUBLIC_TYPE"} ELSE {}

IncludeRules(t, i) ==
  LET f == t.includes[i]
      m == ModuleOf(f.path)
  IN  IF ~f.local THEN {}
      ELSE {r \in {"INCLUDE_CYCLE", "MISSING_INCLUDE_TARGET", "LAYER_VIOLATION"} :
              CASE r = "INCLUDE_CYCLE" ->
                     /\ Target(f) # Module(m)
                     /\ \E g \in Includes(t) :
                          /\ Module(ModuleOf(g.path)) = Target(f)
                          /\ Target(g) = Module(m)
                [] r = "MISSING_INCLUDE_TARGET" ->
                     ~ \E k \in DOMAIN t.modules :
                         Module(t.modules[k].name) = Target(f)
                [] r = "LAYER_VIOLATION" -> ~LayerAllows(f)}

(* The pairs a spelling promises: by module, or anywhere in the project.   *)
PairRules(t, i) ==
  LET f == t.functions[i]
      Has(suffix) == Ends(f.name, suffix)
      Here(suffix, peer) ==
        PublicHere(t, ModuleOf(f.path), Swap(f.name, suffix, peer))
      Anywhere(suffix, peer) == PublicAnywhere(t, Swap(f.name, suffix, peer))
  IN  IF f.static \/ ~f.definition \/ WrapsPlatformName(t, f) THEN {}
      ELSE {r \in {"MISSING_DESTROY", "COLLECTION_ACCESSOR_PAIR",
                   "MISSING_TEARDOWN", "MISSING_CLOSE", "NAME_CONVERSION_PAIR"} :
              CASE r = "MISSING_DESTROY" ->
                     Has(<<"create">>) /\ ~Here(<<"create">>, <<"destroy">>)
                [] r = "COLLECTION_ACCESSOR_PAIR" ->
                     /\ ~args.library
                     /\ Has(<<"count">>) /\ ~Here(<<"count">>, <<"at">>)
                [] r = "MISSING_TEARDOWN" ->
                     /\ Has(<<"init">>)
                     /\ \A peer \in {"deinit", "destroy", "fini"} :
                          ~Anywhere(<<"init">>, <<peer>>)
                [] r = "MISSING_CLOSE" ->   \* reported as MISSING_TEARDOWN
                     Has(<<"open">>) /\ ~Anywhere(<<"open">>, <<"close">>)
                [] r = "NAME_CONVERSION_PAIR" ->
                     /\ Has(<<"from", "name">>)
                     /\ ~Here(<<"from", "name">>, <<"name">>)}

PrefixRules(t, i) ==
  IF SharesPrefix(t, t.modules[i].name, ~args.library) THEN {}
  ELSE {"MODULE_PREFIX"}

(* A source whose module has a header includes it, and before any other.   *)
OwnHeaderRules(t, i) ==
  LET path == t.files[i]
      own(f) == OwnHeader(Target(f), ModuleOf(path))
      here == {f \in Includes(t) : f.path = path}
  IN  IF /\ ~path.header /\ HasHeader(t, ModuleOf(path))
         /\ \/ ~ \E f \in here : own(f)
            \/ ~args.library /\ \E f \in Leading(Includes(t), path) : ~own(f)
      THEN {"OWN_HEADER_FIRST"} ELSE {}

SuffixRules(t, i) ==
  IF Ends(t.types[i].name, <<"t">>) /\ t.types[i].name # <<"errno", "t">>
  THEN {"RESERVED_TYPE_SUFFIX"} ELSE {}

NoteRules(t, i) ==
  LET f == t.notes[i] IN
  CASE f.name = "ALLOC_SIZEOF_TYPE" -> {"ALLOCATION_SIZE_TYPE"}
    [] f.name = "SIGNATURE_ENV_ORDER" /\ ~f.path.header ->
         {"CONTEXT_ARGUMENT_ORDER"}
    [] OTHER -> {}

(* The guard is the header's first macro and ends with the header's name.  *)
GuardRules(t, i) ==
  LET path  == t.files[i]
      guard == Leading(ToSet(t.macros), path)
  IN  IF /\ path.header
         /\ \/ guard = {}
            \/ \E f \in guard : ~Ends(f.name, Append(path.base, "h"))
      THEN {"INCLUDE_GUARD"} ELSE {}

-----------------------------------------------------------------------------
(* The report: one section per loop of write_findings.                     *)

Sections == <<"modules", "functions", "macros", "types", "includes", "functions",
              "modules", "files", "types", "notes", "files">>
Broken(t, n, i) ==
  CASE n = 1 -> ModuleRules(t, i)   [] n = 2 -> FunctionRules(t, i)
    [] n = 3 -> MacroRules(t, i)    [] n = 4 -> TypeRules(t, i)
    [] n = 5 -> IncludeRules(t, i)  [] n = 6 -> PairRules(t, i)
    [] n = 7 -> PrefixRules(t, i)   [] n = 8 -> OwnHeaderRules(t, i)
    [] n = 9 -> SuffixRules(t, i)   [] n = 10 -> NoteRules(t, i)
    [] n = 11 -> GuardRules(t, i)

(* Where a finding is: what its record says, not where in the table it is. *)
Place(t, n, i) ==
  CASE Sections[n] = "modules" -> t.modules[i].name
    [] Sections[n] = "files"   -> t.files[i]
    [] OTHER -> LET f == t[Sections[n]][i] IN <<f.path, f.line, f.name, f.symbol>>
SectionOf(t, n) ==
  UNION {{[rule |-> r, place |-> Place(t, n, i)] : r \in Broken(t, n, i)} :
           i \in DOMAIN t[Sections[n]]}

(* The layer file is opened for each local include that it may forbid.     *)
LayerFails(t, n) ==
  /\ n = 5 /\ args.layer.is = "unreadable"
  /\ \E f \in Includes(t) : LayerAsked(f)

(* The envelope of the report cannot be written: nothing else is.          *)
BeginFails ==
  /\ stage = "report" /\ section = 0 /\ Fails
  /\ UNCHANGED <<args, loadVars, reportVars, output, status>>

(* Mutant of WriteSection: a section that failed is tried again.           *)
WriteSectionAgain ==
  LET n == section + 1
      broken == SectionOf(tables, n)
  IN  /\ stage = "report" /\ n <= Len(Sections)
      /\ wrote' = (wrote \/ broken # {})
      /\ \/ ~err /\ ~LayerFails(tables, n) /\ section' = n
            /\ report' = report \cup broken /\ UNCHANGED err
         \/ err' = TRUE /\ UNCHANGED <<section, report>>
      /\ UNCHANGED <<stage, args, loadVars, outcome, output, status>>
(* Once an error is set nothing more is emitted, but rules that are broken *)
(* still count; a write may fail with any finding.                         *)
WriteSection ==
  LET n == section + 1
      broken == SectionOf(tables, n)
  IN  /\ stage = "report" /\ n <= Len(Sections)
      /\ section' = n
      /\ wrote' = (wrote \/ broken # {})
      /\ \/ ~err /\ ~LayerFails(tables, n)
            /\ report' = report \cup broken /\ UNCHANGED err
         \/ ~err /\ err' = TRUE
            /\ report' \in {report \cup b : b \in SUBSET broken}
         \/ err /\ UNCHANGED <<err, report>>
      /\ UNCHANGED <<stage, args, loadVars, outcome, output, status>>

(* report_end may fail before the status is chosen, fclose after it.       *)
EndReport ==
  /\ stage = "report" /\ section = Len(Sections)
  /\ outcome' = IF wrote THEN "findings" ELSE "clean"
  /\ \/ err' = TRUE /\ status' = ExitTrouble /\ UNCHANGED output
     \/ /\ ~err
        /\ status' = IF wrote THEN ExitFindings ELSE Success
        /\ \/ UNCHANGED err /\ output' = "whole"
           \/ args.file /\ err' = TRUE /\ UNCHANGED output
  /\ stage' = "end"
  /\ UNCHANGED <<args, loadVars, section, report, wrote>>

(* Mutant of Exit: an error after the report goes unnoticed.               *)
ExitAsReported ==
  /\ stage = "end" /\ stage' = "ended"
  /\ UNCHANGED <<args, loadVars, err, reportVars, output, status>>
(* main: an error overrides the status.                                    *)
Exit ==
  /\ stage = "end"
  /\ status' = IF err THEN ExitTrouble ELSE status
  /\ stage' = "ended"
  /\ UNCHANGED <<args, loadVars, err, reportVars, output>>

Run ==
  \/ Arguments \/ Read \/ ReadFails \/ EndLoad \/ Open \/ BeginFails
  \/ WriteSection \/ EndReport \/ Exit

Ended == stage = "ended" /\ UNCHANGED vars

Next == Run \/ Ended

(* One thread; the analysis library's scan is assumed to end.              *)
Spec == Init /\ [][Next]_vars /\ WF_vars(Run)

-----------------------------------------------------------------------------
(* Properties.                                                             *)

Facts == {r.fact : r \in {x \in DOMAIN stream.copies : x.is = "fact"}}

Paths == {f.path : f \in Facts}
OfTable(n) == {f \in Facts : Recorded(f) /\ TableOf(f) = n}
SourcesAt(m) == {p \in Paths : ModuleOf(p) = m /\ ~p.header}
HeadersAt(m) == {p \in Paths : ModuleOf(p) = m /\ p.header}
DefinedAt(m) == {f \in OfTable("functions") : f.definition /\ ModuleOf(f.path) = m}
PublicAt(m) == {f \in DefinedAt(m) : ~f.static}

(* The tables that hold each fact once, in no order in particular.         *)
IdealModule(m) ==
  [NewModule(m) EXCEPT
     !.sources = Cardinality(SourcesAt(m)),
     !.headers = Cardinality(HeadersAt(m)),
     !.functions = Cardinality(DefinedAt(m)),
     !.public = Cardinality(PublicAt(m))]
IdealTables ==
  [n \in TableNames |-> SetToSeq(
     CASE n = "files"   -> Paths
       [] n = "modules" -> {IdealModule(ModuleOf(p)) : p \in Paths}
       [] OTHER         -> OfTable(n))]

(* A site of functions tells one story: of two facts about the same name   *)
(* in the same place only the first is kept, whatever else they say.       *)
Site(f) == <<f.name, f.symbol, f.path, f.line>>
SitesAgree ==
  \A f, g \in OfTable("functions") : Site(f) = Site(g) => f = g

Reported == stage = "ended" /\ ~args.help /\ status # ExitTrouble

(* Status 0 or 1, the outcome the report ends with and the findings in it  *)
(* tell the same story, although each is worked out on its own.            *)
VerdictIsOfTheReport ==
  Reported =>
    /\ outcome = IF status = Success THEN "clean" ELSE "findings"
    /\ (status = Success) <=> (report = {})

(* A report that comes with status 0 or 1 is a function of the set of      *)
(* facts: neither their order, nor a header being parsed once for each     *)
(* source, nor a full table shows in what it says, and status and outcome  *)
(* agree with it.  There are two exceptions: what comes after the table of *)
(* the notes is full is lost without a word, and of two contradictory      *)
(* facts about one site of a function the first one counts.                *)
ReportIsOfTheFacts ==
  /\ VerdictIsOfTheReport
  /\ Reported /\ ~Full(tables, "notes") /\ SitesAgree =>
       report = UNION {SectionOf(IdealTables, n) : n \in DOMAIN Sections}

(* What a reader may conclude from status 0, said of the facts that were   *)
(* delivered and not of the tables: nothing that came was a diagnostic or  *)
(* invalid, a saved stream held some fact, no module is too large, what    *)
(* headers declare is defined, what is public is declared or used          *)
(* elsewhere, and the includes lead somewhere, in the allowed direction,   *)
(* without a cycle.  It does not say that the input was whole: a fact on a *)
(* saved line longer than the buffer is passed over and status 0 can       *)
(* follow (fact_loader.c:277, which test_cli.sh:194 expects).  Nor does it *)
(* speak of contradictory facts about one site (SitesAgree).               *)
CleanMapIsEarned ==
  Reported /\ status = Success /\ SitesAgree =>
    LET functions == OfTable("functions")
        public    == {f \in functions : f.definition /\ ~f.static}
        includes  == {f \in Facts : f.kind = "INCLUDE" /\ f.local}
        edge(m, n) == \E f \in includes : ModuleOf(f.path) = m /\ Target(f) = Module(n)
        modules   == {ModuleOf(f.path) : f \in Facts}
    IN  /\ \A r \in DOMAIN stream.copies : r.is \notin {"diagnostic", "invalid"}
        /\ args.facts =>
             \E r \in DOMAIN stream.copies : r.is \in {"fact", "pathless"}
        /\ \A f \in includes :
             /\ \E m \in modules : Target(f) = Module(m)
             /\ LayerAllows(f)
        /\ \A m, n \in modules : edge(m, n) /\ edge(n, m) => m = n
        /\ ~args.library =>
             /\ \A m \in modules :
                  LET here == {f \in functions : ModuleOf(f.path) = m} IN
                  /\ Cardinality(here \cap public) <= args.maxPublic
                  /\ Cardinality({f \in here : f.definition}) <= args.maxFunctions
             /\ \A f \in functions \ public : ~f.definition =>
                  \E g \in public : g.usr = f.usr
             /\ \A f \in public : f.usr # MainUsr =>
                  \/ \E g \in functions : ~g.definition /\ g.usr = f.usr
                  \/ \E c \in Facts : c.kind = "CALL" /\ c.usr = f.usr
                                        /\ ModuleOf(c.path) # ModuleOf(f.path)

(* An earlier report is not touched by a run whose facts are incomplete.   *)
OldReportKept ==
  [][output = "old" /\ output' # "old" =>
       ~err /\ \A r \in DOMAIN pending : pending[r] = 0]_vars

(* audit-modules implements AuditTool, with its report as the only thing   *)
(* it can be asked to write.                                               *)
Promise == INSTANCE AuditTool WITH
  Artifacts <- {"report"},
  wanted    <- IF stage = "arguments" \/ args.help \/ ~Acceptable(args) THEN {}
               ELSE {"report"},
  written   <- IF output = "whole" THEN {"report"} ELSE {},
  trouble   <- err,
  status    <- IF stage # "ended" THEN "none"
               ELSE CASE status = Success      -> "clean"
                      [] status = ExitFindings -> "findings"
                      [] status = ExitTrouble  -> "trouble"

KeepsPromise == Promise!ToolSpec

(* Every run ends.                                                         *)
EventuallyEnds == <>(stage = "ended")
=============================================================================
