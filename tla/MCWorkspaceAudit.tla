-------------------------- MODULE MCWorkspaceAudit -------------------------
(***************************************************************************)
(* Instances of WorkspaceAudit for TLC: one library with every pair of     *)
(* manifests of up to two rows, two libraries with few, contracts of up to *)
(* two rows, with five sets of facts; classified libraries with what the   *)
(* contract demands of them; registers of up to three rows with two tests  *)
(* each; tables of three, and a findings array that starts with one.       *)
(***************************************************************************)
EXTENDS MCPolicyWorkspaces

Call(path, usr, caller, line) ==
  [kind |-> "CALL", path |-> path, usr |-> usr, caller |-> caller, line |-> line,
   name |-> ""]
MacroUse(path, name, caller, line) ==
  [Call(path, "", caller, line) EXCEPT !.kind = "MACRO", !.name = name]

Sources ==
  {Malformed, Facts({}),
   Facts({Call("t1", "w1", "f", 1), Call("t1", "n1", "f", 2), Call("t1", "w2", "g", 3),
          MacroUse("t1", "two", "g", 3)}),
   Facts({Call("t1", "w1", "f", 1), Call("t1", "n1", "g", 2), Call("t2", "w2", "g", 3),
          Call("t2", "n2", "g", 4)}),
   Facts({Call("t1", "w1", "f", 1), Call("t1", "sys", "f", 1), Call("lib", "sys", "w1", 9),
          Call("t1", "w2", "", 3), Call("t1", "n2", "", 4)})}

-----------------------------------------------------------------------------
Api(usr) == [is |-> "api", usr |-> usr]
Test(usr, kind, test) ==
  [is |-> "test", usr |-> usr, kind |-> kind, test |-> test, exists |-> TRUE,
   long |-> FALSE]
OddRow(is) == [is |-> is]
Rows(rs) == [is |-> "rows", rows |-> rs]
(* A manifest, of which some rows at the end may stay unread.              *)
Torn(rs, unread) == [is |-> "rows", rows |-> rs, unread |-> unread]
Intact(rs) == Torn(rs, 0)
Missing == [is |-> "missing"]

ApiManifests ==
  {Missing, Torn(<<Api("w1"), Api("w2")>>, 1)}
  \cup {Intact(rs) : rs \in
          {<<>>, <<Api("w1")>>, <<Api("w1"), Api("w2")>>, <<Api("w1"), Api("w1")>>,
           <<Api("w1"), OddRow("ragged")>>, <<Api("w1"), OddRow("overlong"), Api("w2")>>,
           <<Api("w1"), Api("w2"), Api("w3"), Api("w4")>>,
           <<Api("w1"), Api("w2"), Api("w3"), OddRow("overlong")>>}}
TestRowChoices ==
  {Test("w1", "fault", "t1"), Test("w1", "behavior", "t2"), Test("w2", "fault", "t1"),
   Test("w2", "unit", "t1"), [Test("w1", "fault", "t3") EXCEPT !.exists = FALSE],
   [Test("w9", "fault", "t1") EXCEPT !.long = TRUE], Test("w9", "fault", "t1"),
   OddRow("ragged"), OddRow("overlong")}
TestManifests ==
  {Missing} \cup {Intact(rs) : rs \in BoundedSeq(TestRowChoices, 2)}
  \cup {Torn(<<Test("w1", "fault", "t1"), row>>, 1) :
          row \in {Test("w2", "fault", "t1"), OddRow("ragged")}}

Library(name, as, ts) ==
  [name |-> name, infrastructure |-> FALSE, apis |-> as, tests |-> ts]
Infrastructure ==
  [Library("lib_env", Missing, Missing) EXCEPT !.infrastructure = TRUE]
Good(name, n) ==
  Library(name, Intact([i \in 1 .. n |-> Api(IF i = 1 THEN "w1" ELSE "w2")]),
          Intact([i \in 1 .. n |-> Test(IF i = 1 THEN "w1" ELSE "w2", "fault", "t1")]))

LibraryLists ==
  {<<Library("lib_a", as, ts)>> : as \in ApiManifests, ts \in TestManifests}
  \cup {<<Good("lib_a", n), Infrastructure, Good("lib_b", m)>> : n, m \in 1 .. 2}
  \cup {<<Infrastructure>>, <<Good("lib_a", 1), Good("lib_a", 1)>>}

NoContract == [is |-> "unreadable"]
UnitWorkspaces ==
  {[roles |-> "valid", libraries |-> ls, source |-> src, contract |-> NoContract] :
     ls \in LibraryLists, src \in Sources}
  \cup {[roles |-> r, libraries |-> <<>>, source |-> Facts({}), contract |-> NoContract] :
          r \in {"invalid", "unreadable"}}

-----------------------------------------------------------------------------
Source(is) == [is |-> is, path |-> "t1"]
First == [is |-> "row", library |-> "lib_a", wrapper |-> "w1", native |-> "n1",
          name |-> "one", source |-> Source("there"), listed |-> TRUE, long |-> FALSE]
Second == [First EXCEPT !.wrapper = "w2", !.native = "n2", !.name = "two"]
ContractRows ==
  {First, Second, [First EXCEPT !.native = "w1"], [First EXCEPT !.listed = FALSE],
   [Second EXCEPT !.long = TRUE], [Second EXCEPT !.source = [is |-> "there", path |-> "t2"]],
   OddRow("incomplete")}
  \cup {[Second EXCEPT !.source = Source(is)] :
          is \in {"missing", "overlong", "truncated", "vanishing"}}
Contracts ==
  {NoContract, [is |-> "empty"],
   Rows(<<First, Second, [First EXCEPT !.library = "lib_b"]>>)}
  \cup {Rows(rs) : rs \in BoundedSeq(ContractRows, 2)}
ParityWorkspaces ==
  {[roles |-> "valid", libraries |-> <<>>, source |-> src, contract |-> c] :
     src \in Sources, c \in Contracts}

-----------------------------------------------------------------------------
Function(path, usr, env, error, can) ==
  [kind |-> "FUNCTION", path |-> path, usr |-> usr, definition |-> TRUE,
   public |-> TRUE, env |-> env, error |-> error, can |-> can]
OneC == <<"lib_a/src", "one.c">>
Traced == {"trace_entry", "trace_exit"}
Whole1 == Function(<<"/ws">> \o OneC, "w1", TRUE, TRUE, Traced \cup Capabilities)
Whole2 == Function(OneC, "w2", TRUE, FALSE, Traced \cup {"fd"})
CapableFacts ==
  {{}, {Whole1}, {Whole1, Whole2}, {[Whole1 EXCEPT !.can = {"trace_entry"}], Whole2},
   {[Whole1 EXCEPT !.can = Traced], Whole2}, {[Whole1 EXCEPT !.definition = FALSE]},
   {[Whole1 EXCEPT !.public = FALSE]}, {[Whole1 EXCEPT !.path = <<"/ws", "one.c">>]},
   {Whole1, [Whole1 EXCEPT !.path = <<"/old">> \o OneC, !.can = Traced]}}
Listing(usr) == [is |-> "api", usr |-> usr, source |-> OneC]
Role(lib, role) == [library |-> lib, role |-> role, unread |-> 0]
RoleLists ==
  {<<Role("lib_a", "native-wrapper")>>, <<Role("lib_a", "traced-api")>>,
   <<Role("lib_env", "infrastructure"), Role("lib_a", "native-wrapper"),
     Role("lib_b", "traced-api")>>, <<Role("lib_a", "wrapper")>>,
   <<[Role("lib_a", "native-wrapper") EXCEPT !.unread = 1]>>}
EntryManifests ==
  {Missing, Rows(<<Listing("w1")>>), Rows(<<Listing("w1"), Listing("w2")>>),
   Rows(<<Listing("w1"), Listing("w1")>>), Rows(<<Listing("w1"), OddRow("ragged")>>),
   Rows(<<OddRow("overlong"), Listing("w1")>>),
   Rows([i \in 1 .. 4 |-> Listing(IF i = 1 THEN "w1" ELSE ToString(i))])}
Require(usr, names) == [is |-> "array", usr |-> usr, names |-> names]
RequiredLists ==
  {<<>>, <<Require("w1", <<"fault", "allocation">>)>>,
   <<Require("w2", <<"fd">>), Require("w1", <<"pipe">>)>>,
   <<Require("w9", <<"fd">>)>>, <<[is |-> "odd", usr |-> "w1", names |-> <<>>]>>}
ValidContract(roles, required) ==
  [is |-> "valid", roles |-> roles, required |-> required]
InstrumentWorkspaces ==
  {[contract |-> ValidContract(roles, required), source |-> Facts(facts),
    manifests |-> [lib_a |-> manifest, lib_b |-> Rows(<<Listing("w3")>>)]] :
     roles \in RoleLists, required \in RequiredLists, facts \in CapableFacts,
     manifest \in EntryManifests}
  \cup {[contract |-> [is |-> is], source |-> Facts({})] : is \in {"invalid", "unreadable"}}
  \cup {[contract |-> ValidContract(<<>>, <<>>), source |-> Malformed],
        [contract |-> ValidContract(<<Role("lib_a", "native-wrapper")>>, <<>>),
         source |-> Facts({Whole1, Whole2, [Whole2 EXCEPT !.usr = "w3"]}),
         manifests |-> [lib_a |-> Rows([i \in 1 .. 4 |->
                                          Listing(<<"w1", "w2", "w3", "w1">>[i])])]]}

(* Those that are also looked at without a receipt.                        *)
UnwrittenWorkspaces ==
  {w \in InstrumentWorkspaces :
     w.contract.is = "valid" =>
       Len(w.contract.required) = 1 /\ w.source = Facts({Whole1, Whole2})}

-----------------------------------------------------------------------------
(* "link" is another name of the file "a".                                 *)
Paths == [a |-> "/a.c", b |-> "/b.c", link |-> "/a.c", t |-> "/t.c", s |-> "/s.sh",
          u |-> "/u.sh", v |-> "/v.sh"]
Scripts ==
  ("/s.sh" :> [markers |-> {"m1", "m2"}, build |-> "lists"])
  @@ ("/u.sh" :> [markers |-> {"m1"}, build |-> "omits"])
  @@ ("/v.sh" :> [markers |-> {"m1"}, build |-> "none"])
Owner(path, usr) ==
  [Function(path, usr, FALSE, FALSE, {}) EXCEPT !.definition = FALSE]
RoleNote(name, caller, line) ==
  [kind |-> "NOTE", path |-> "/t.c", name |-> name, caller |-> caller, usr |-> NoText,
   line |-> line]
Owners == {Owner("/a.c", "o1"), Owner("/b.c", "o2")}
Helped == {Call("/t.c", "help", "f2", 2), Call("/b.c", "o1", "help", 9)}
Indirect == {Call("/t.c", NoText, "f2", 2), Call("/b.c", "o1", NoText, 9)}
InTests == {RoleNote("r1", "f1", 1), RoleNote("r2", "f2", 2), Call("/t.c", "o1", "f1", 1)}
WiredFacts ==
  {Owners \cup InTests \cup Helped, InTests \cup Helped, Owners \cup InTests,
   Owners \cup InTests \cup Helped \cup {RoleNote("r1", "f2", 3)},
   Owners \cup InTests \cup Indirect}

Marker(path, value) ==
  [is |-> "given", by |-> "marker", path |-> path, value |-> value, usr |-> NoText,
   shape |-> TRUE]
ByRole(value) == [Marker("t", value) EXCEPT !.by = "role", !.usr = "o1"]
NotApplicable == [is |-> "not-applicable", proper |-> TRUE]
Evidences ==
  {ByRole("r1"), ByRole("r2"), Marker("s", "m1"), Marker("u", "m1"), Marker("v", "m1"),
   Marker("s", "m9"), Marker(NoText, "m1"), [Marker("s", "m2") EXCEPT !.shape = FALSE],
   NotApplicable, [NotApplicable EXCEPT !.proper = FALSE], OddRow("missing")}
Matrix(es) == [is |-> "matrix", of |-> es]
FirstBoundary ==
  [is |-> "row", canonical |-> TRUE, id |-> "boundary:1", missing |-> 0, source |-> "a",
   usr |-> "o1", composed |-> TRUE, repository |-> "repo1", fits |-> TestCount,
   tests |-> Matrix(<<ByRole("r1"), Marker("s", "m1")>>)]
SecondBoundary ==
  [FirstBoundary EXCEPT !.id = "boundary:2", !.source = "b", !.usr = "o2",
                        !.repository = "repo2"]
OddBoundaries ==
  {[SecondBoundary EXCEPT !.is = "odd"], [SecondBoundary EXCEPT !.canonical = FALSE],
   [SecondBoundary EXCEPT !.missing = 1, !.repository = NoText],
   [SecondBoundary EXCEPT !.source = NoText], [SecondBoundary EXCEPT !.usr = "o9"],
   [SecondBoundary EXCEPT !.id = "boundary:1"], [SecondBoundary EXCEPT !.composed = FALSE],
   [SecondBoundary EXCEPT !.source = "link", !.usr = "o1"],
   [SecondBoundary EXCEPT !.source = "a", !.usr = "o1"],
   [SecondBoundary EXCEPT !.fits = 1], [SecondBoundary EXCEPT !.source = "none"],
   [SecondBoundary EXCEPT !.tests = [is |-> "incomplete"]]}
WithTests(es) == [FirstBoundary EXCEPT !.tests = Matrix(es)]
RegisterRows ==
  {<<WithTests(<<e, d>>)>> : e, d \in Evidences}
  \cup {<<FirstBoundary, q>> : q \in OddBoundaries \cup {SecondBoundary}}
  \cup {<<q, FirstBoundary>> : q \in OddBoundaries}
  \cup {<<FirstBoundary, SecondBoundary,
          [FirstBoundary EXCEPT !.id = id, !.usr = usr]>> :
            id \in {"boundary:1", "boundary:3"}, usr \in {"o1", "o2"}}
Record(repository, unit) == [is |-> "record", repository |-> repository, unit |-> unit]
Executions ==
  {[is |-> "unreadable"], [is |-> "unclean", records |-> <<>>]}
  \cup {[is |-> "clean", records |-> rs] :
          rs \in {<<>>, <<Record("repo1", "FAIL"), Record("repo1", "PASS")>>,
                  <<Record("repo1", "FAIL"), Record("repo2", "PASS")>>,
                  <<Record("repo1", "REUSED")>>, <<OddRow("odd"), Record("repo1", "PASS")>>}}
BoundaryWorkspace(register, facts, executed) ==
  [register |-> register, source |-> Facts(facts), paths |-> Paths, scripts |-> Scripts,
   leftover |-> {[path |-> "s", value |-> "m1"]}, executed |-> executed]
NotAsked == [is |-> "none", records |-> <<>>]
Valid(rs) == [is |-> "valid", rows |-> rs]
BoundaryWorkspaces ==
  {BoundaryWorkspace(Valid(rs), f, NotAsked) : rs \in RegisterRows, f \in WiredFacts}
  \cup {BoundaryWorkspace([is |-> is], {}, NotAsked) : is \in {"invalid", "unreadable"}}
ExecutedWorkspaces ==
  {BoundaryWorkspace(Valid(<<FirstBoundary>>), Owners \cup InTests, e) : e \in Executions}

-----------------------------------------------------------------------------
Line(policy) ==
  [policy |-> policy, help |-> FALSE, malformed |-> FALSE, facts |-> TRUE,
   receipt |-> FALSE, execution |-> FALSE]
FewOptions ==
  {Line("none"), Line("unknown"),
   [Line("wrapper-unit-tests") EXCEPT !.facts = FALSE],
   [Line("none") EXCEPT !.help = TRUE],
   [Line("none") EXCEPT !.help = TRUE, !.malformed = TRUE],
   [Line("wrapper-unit-tests") EXCEPT !.malformed = TRUE]}

Small == CHOOSE w \in UnitWorkspaces : w.libraries = <<Infrastructure>>
With(o, ws) == {[options |-> o, workspace |-> w] : w \in ws}
FewRuns ==
  UNION {With(o, {Small}) : o \in FewOptions}
  \cup With(Line("wrapper-unit-tests"), UnitWorkspaces)
  \cup With(Line("native-wrapper-parity"), ParityWorkspaces)
  \cup With(Line("instrumentation"), UnwrittenWorkspaces)
  \cup With([Line("instrumentation") EXCEPT !.receipt = TRUE], InstrumentWorkspaces)
  \cup With(Line("boundaries"), BoundaryWorkspaces)
  \cup With([Line("boundaries") EXCEPT !.execution = TRUE], ExecutedWorkspaces)
  \cup With(Line("wrapper-fault-semantics"), FaultWorkspaces)
  \cup With(Line("test-inventory"), InventoryWorkspaces)
  \cup With(Line("source-responsibilities"), DutyWorkspaces)
  \cup With([Line("source-responsibilities") EXCEPT !.facts = FALSE],
            {GoodDuties, [GoodDuties EXCEPT !.sources = 4]})
  \cup With(Line("functional-library-split"), SplitWorkspaces)
  \cup With(Line("quality-contract"), CatalogueWorkspaces)
  \cup With([Line("quality-contract") EXCEPT !.facts = FALSE], {GoodCatalogue})
=============================================================================
