------------------------- MODULE MCPolicyWorkspaces ------------------------
(***************************************************************************)
(* Workspaces for the policies of audit-workspace that read contracts: of  *)
(* each one in which the contract is kept, and others that differ from it  *)
(* in one or two places.                                                   *)
(***************************************************************************)
EXTENDS WorkspaceAudit

Facts(facts) == [is |-> "facts", facts |-> facts]
Malformed == [is |-> "malformed", facts |-> {}]
Unusable == {[is |-> "invalid"], [is |-> "unreadable"]}

-----------------------------------------------------------------------------
(* wrapper-fault-semantics: two wrappers admit short and uncertain calls.  *)
Scan1(kind, usr, caller, name) ==
  [kind |-> kind, usr |-> usr, caller |-> caller, name |-> name]
Mode(i) ==
  [is |-> "mode", whole |-> TRUE, kind |-> KindOf[i], phase |-> PhaseOf[i],
   disposition |-> DispositionOf[i], supported |-> <<"w1", "w2">>,
   retry |-> "automatic-retry-forbidden", role |-> "role", wrapper |-> "w1"]
FiveModes == [is |-> "five", of |-> [i \in FaultModes |-> Mode(i)]]
Modes(i, field, value) == [FiveModes EXCEPT !.of[i] = [@ EXCEPT ![field] = value]]
ModeChoices ==
  {FiveModes, [is |-> "absent"], [is |-> "more"], [FiveModes EXCEPT !.of[2] = [is |-> "missing"]],
   [FiveModes EXCEPT !.of[4] = [is |-> "missing"]], Modes(1, "whole", FALSE),
   Modes(1, "kind", Absent), Modes(5, "kind", Absent), Modes(3, "kind", "SHORT"),
   Modes(2, "phase", "after-dispatch"), Modes(4, "disposition", Absent),
   Modes(4, "supported", Absent), Modes(5, "supported", Absent),
   Modes(5, "supported", <<"w2", "w1">>), Modes(5, "supported", <<"w1">>),
   Modes(5, "retry", "retry"), Modes(5, "role", Absent), Modes(5, "role", "other")}
TheMechanism == [is |-> "mechanism", whole |-> TRUE, selector |-> "sel", recorder |-> "rec"]
Mechanisms ==
  {[is |-> "missing"], [TheMechanism EXCEPT !.whole = FALSE],
   [TheMechanism EXCEPT !.recorder = Absent]}
Faulted(modes, mechanism) == [is |-> "valid", modes |-> modes, mechanism |-> mechanism]
FaultFacts ==
  {Scan1("ENUMERATOR", k, "", k) : k \in ToSet(KindOf)}
  \cup {Scan1("CALL", u, c, "") : u \in {"sel", "rec"}, c \in {"w1", "w2"}}
  \cup {Scan1("NOTE", "", "test", "role"), Scan1("CALL", "w1", "test", "")}
FactChoices ==
  {FaultFacts \cup {Scan1("CALL", "sel", "w3", "")},
   FaultFacts \cup {Scan1("NOTE", "", "other", "role")},
   FaultFacts \ {Scan1("CALL", "rec", "w2", "")},
   FaultFacts \ {Scan1("CALL", "w1", "test", "")},
   FaultFacts \ {Scan1("ENUMERATOR", "SHORT", "", "SHORT")}, {}}
Generated(usr, short) == [usr |-> usr, short |-> short]
BothShort == <<Generated("w1", TRUE), Generated("w2", TRUE), Generated("w3", FALSE)>>
Failure(semantics, wrappers) == [semantics |-> semantics, wrappers |-> wrappers]
GoodFault ==
  [semantics |-> Faulted(FiveModes, TheMechanism), source |-> Facts(FaultFacts),
   manifest |-> {"w1", "w2", "w3"}, failure |-> Failure("kept", BothShort),
   scenarios |-> BothShort]
FaultWorkspaces ==
  {[GoodFault EXCEPT !.semantics = Faulted(m, TheMechanism)] : m \in ModeChoices}
  \cup {[GoodFault EXCEPT !.semantics = Faulted(FiveModes, m)] : m \in Mechanisms}
  \cup {[GoodFault EXCEPT !.source = Facts(fs)] : fs \in FactChoices}
  \cup {[GoodFault EXCEPT !.failure = f] :
          f \in {Failure(Absent, BothShort), Failure("drifted", BothShort),
                 Failure("kept", <<Generated("w1", TRUE)>>),
                 Failure("kept", <<Generated("w1", TRUE), Generated("w1", TRUE)>>)}}
  \cup {[GoodFault EXCEPT !.scenarios = <<Generated("w2", TRUE), Generated("w1", FALSE)>>],
        [GoodFault EXCEPT !.manifest = {"w2"}],
        [GoodFault EXCEPT !.semantics = Faulted(Modes(1, "kind", Absent), TheMechanism),
                          !.source = Facts({})]}
  \cup {[GoodFault EXCEPT !.semantics = s] : s \in Unusable}

-----------------------------------------------------------------------------
(* test-inventory: the graph runs one script and the checker, one script   *)
(* is excluded.                                                            *)
File(path, top, deep) ==
  [path |-> path, top |-> top, directory |-> FALSE, named |-> TRUE, deep |-> deep]
Point(name) ==
  [is |-> "object", name |-> name, owner |-> "there", oracle |-> "there",
   runner |-> "there", runs |-> TRUE]
Exclude(path) ==
  [path |-> path, text |-> "there", exists |-> TRUE, texts |-> <<"there", "there">>]
Excluding(rs) == [is |-> "rows", rows |-> rs]
Node(is, path) == [is |-> is, path |-> path]
Nodes1(ns) == [is |-> "nodes", nodes |-> ns]
Repo(path, language) ==
  [is |-> "row", path |-> path, language |-> language, exists |-> TRUE, buildable |-> TRUE]
GoodInventory ==
  [inventory |-> [is |-> "valid", texts |-> <<"there", "there">>,
                  entries |-> <<Point("e1")>>,
                  exclusions |-> Excluding(<<Exclude("checks/old.sh")>>)],
   graph |-> Nodes1(<<Node("script", "run.sh"), Node("other", "")>>),
   tree |-> {File("run.sh", "", FALSE), File("checks/old.sh", "checks", TRUE)},
   repositories |-> [is |-> "rows", rows |-> <<Repo("r1", "c"), [is |-> "comment"]>>],
   executables |-> {"run.sh", Checker}]
WithEntries(es) == [GoodInventory EXCEPT !.inventory.entries = es]
WithExclusions(x) == [GoodInventory EXCEPT !.inventory.exclusions = x]
WithGraph(g) == [GoodInventory EXCEPT !.graph = g]
WithFiles(fs) == [GoodInventory EXCEPT !.tree = @ \cup fs]
WithRepositories(rs) == [GoodInventory EXCEPT !.repositories = [is |-> "rows", rows |-> rs]]
InventoryWorkspaces ==
  {GoodInventory, [GoodInventory EXCEPT !.executables = {Checker}],
   [GoodInventory EXCEPT !.repositories = [is |-> "unreadable"]],
   [GoodInventory EXCEPT !.tree = {File("run.sh", "", FALSE)}]}
  \cup {[GoodInventory EXCEPT !.inventory = i] : i \in Unusable}
  \cup {[GoodInventory EXCEPT !.inventory.texts = t] :
          t \in {<<"absent", "there">>, <<"absent", "long">>}}
  \cup {WithEntries(es) : es \in
          {<<>>, <<[is |-> "odd", name |-> "e1"]>>, <<[Point("e1") EXCEPT !.runs = FALSE]>>,
           <<[Point("e1") EXCEPT !.owner = "absent", !.runner = "long"]>>,
           <<[Point("e1") EXCEPT !.oracle = "absent"], Point("e2")>>,
           <<Point("e1"), Point("e2"), Point("e3"), Point("e3")>>}}
  \cup {WithExclusions(x) : x \in
          {[is |-> "missing"], Excluding(<<Exclude("checks/old.sh"), Exclude("checks/old.sh")>>),
           Excluding(<<[Exclude("checks/old.sh") EXCEPT !.exists = FALSE]>>),
           Excluding(<<[Exclude("checks/old.sh") EXCEPT !.texts = <<"there", "absent">>]>>),
           Excluding(<<Exclude("checks/old.sh"), [Exclude("x") EXCEPT !.text = "absent"]>>),
           Excluding(<<Exclude("checks/old.sh"), [Exclude("x") EXCEPT !.text = "long"]>>),
           Excluding(<<>>)}}
  \cup {WithGraph(g) : g \in
          {[is |-> "none"], Nodes1(<<>>), Nodes1(<<Node("odd", ""), Node("script", "run.sh")>>),
           Nodes1(<<Node("script", "run.sh"), Node("long", "")>>),
           Nodes1([i \in 1 .. 3 |-> Node("script", <<"run.sh", "a", "b">>[i])]),
           Nodes1([i \in 1 .. 4 |-> Node("script", <<"run.sh", "a", "b", "c">>[i])])}}
  \cup {WithFiles(fs) : fs \in
          {{File("checks/a.sh", "checks", FALSE)}, {File("tests/b.sh", "tests", TRUE)},
           {[File("d.sh", "", FALSE) EXCEPT !.directory = TRUE]},
           {[File("checks/d.sh", "checks", FALSE) EXCEPT !.directory = TRUE],
            [File("checks/e", "checks", FALSE) EXCEPT !.named = FALSE]}}}
  \cup {WithRepositories(rs) : rs \in
          {<<Repo("r1", "cobol")>>, <<[Repo("r1", "cxx") EXCEPT !.buildable = FALSE]>>,
           <<[Repo("r1", "python") EXCEPT !.buildable = FALSE], [is |-> "malformed"]>>,
           <<Repo("r1", "c"), Repo("r1", "c")>>, <<[Repo("r1", "c") EXCEPT !.exists = FALSE]>>,
           <<Repo("r1", "c"), Repo("r2", "c"), Repo("r3", "c"), Repo("r4", "c")>>}}

-----------------------------------------------------------------------------
(* source-responsibilities: the library owns what the program must not     *)
(* define or call; each has a configuration.                               *)
Seen(kind, path, usr, name) == [kind |-> kind, path |-> path, usr |-> usr, name |-> name]
InLib == <<"ws", "lib", "a.c">>
InProg == <<"ws", "prog", "b.c">>
InTest == <<"ws", "prog", "test", "c.c">>
InBuild == <<"ws", "prog", "build-x", "d.c">>
GoodFacts ==
  {Seen("FUNCTION", InLib, "m1", ""), Seen("FUNCTION", InLib, "owned", ""),
   Seen("CALL", InLib, "exit", ""), Seen("FILE", InLib, "", ""), Seen("FILE", InProg, "", ""),
   Seen("CALL", InTest, "exit", ""), Seen("FILE", InTest, "", ""),
   Seen("FUNCTION", InBuild, "owned", ""), Seen("CALL", InProg, "owned", ""),
   Seen("INCLUDE", InProg, "", "p101_env"), Seen("INCLUDE", InTest, "", "p101_io"),
   Seen("INCLUDE", InProg, "", NoTarget)}
TheOwner ==
  [id |-> "there", owner |-> "there", root |-> <<"lib">>, markers |-> <<"m1">>,
   consumers |-> <<<<"prog">>>>, definitions |-> <<"owned">>, calls |-> <<"exit">>]
TheFacade ==
  [path |-> "there", reason |-> "there", maximum |-> 2, exists |-> TRUE, lines |-> 2]
TheConfigs == <<"ws", "lib">> :> {} @@ <<"ws", "prog">> :> {"p101_env"}
GoodDuties ==
  [duties |-> [is |-> "valid", text |-> "there", owners |-> <<TheOwner>>,
               facades |-> <<TheFacade>>],
   root |-> <<"ws">>, source |-> Facts(GoodFacts), sources |-> 3, configs |-> TheConfigs]
WithOwners(os) == [GoodDuties EXCEPT !.duties.owners = os]
WithFacades(fs) == [GoodDuties EXCEPT !.duties.facades = fs]
Besides(facts) == [GoodDuties EXCEPT !.source.facts = @ \cup facts]
WithConfigs(c) == [GoodDuties EXCEPT !.configs = c]
DutyWorkspaces ==
  {GoodDuties, [GoodDuties EXCEPT !.source = Malformed], [GoodDuties EXCEPT !.sources = 4],
   [GoodDuties EXCEPT !.duties.text = "absent"],
   [GoodDuties EXCEPT !.root = <<"tests", "ws">>]}
  \cup {[GoodDuties EXCEPT !.duties = d] : d \in Unusable}
  \cup {WithOwners(os) : os \in
          {<<>>, <<[TheOwner EXCEPT !.id = "absent", !.owner = "absent"]>>,
           <<[TheOwner EXCEPT !.markers = <<>>]>>, <<[TheOwner EXCEPT !.consumers = <<>>]>>,
           <<TheOwner, [TheOwner EXCEPT !.markers = <<"m1", "m2">>]>>,
           <<[TheOwner EXCEPT !.root = <<"prog">>]>>,
           <<[TheOwner EXCEPT !.calls = <<>>, !.consumers = <<<<"lib">>>>]>>}}
  \cup {WithFacades(fs) : fs \in
          {<<>>, <<[TheFacade EXCEPT !.lines = 3]>>, <<[TheFacade EXCEPT !.exists = FALSE]>>,
           <<[TheFacade EXCEPT !.reason = "absent"], TheFacade>>,
           <<[TheFacade EXCEPT !.maximum = 0]>>}}
  \cup {Besides(fs) : fs \in
          {{Seen("CALL", InProg, "exit", "")}, {Seen("FUNCTION", InProg, "owned", "")},
           {Seen("INCLUDE", InLib, "", "p101_env")}, {Seen("INCLUDE", InProg, "", "p101_io")},
           {Seen("INCLUDE", InProg, "", "p101_record")},
           {Seen("CALL", <<"ws", "prog", "build-x">>, "exit", "")},
           {Seen("FILE", <<"ws", "other", "e.c">>, "", "")}}}
  \cup {WithConfigs(c) : c \in
          {<<"ws", "prog">> :> {"p101_env", "p101_tool_event"} @@ TheConfigs,
           <<"ws">> :> {} @@ TheConfigs, <<"ws", "prog">> :> {"p101_env"}}}

-----------------------------------------------------------------------------
(* functional-library-split: two domains share one library, a third has    *)
(* its own; the native header of w1 is sys/one.h.                          *)
ThreeDomains ==
  <<[name |-> "math", repository |-> "sci", namespaced |-> TRUE],
    [name |-> "rand", repository |-> "sci", namespaced |-> TRUE],
    [name |-> "io", repository |-> "io", namespaced |-> FALSE]>>
Native(stem) == [is |-> "header", name |-> stem \o ".h", stem |-> stem]
Split(d, usr, source) ==
  [is |-> "row", usr |-> usr, domain |-> d.name, provenance |-> "posix",
   source |-> <<"libraries", d.repository>> \o source,
   header |-> <<"libraries", d.repository, "include", d.name, usr \o ".h">>]
Math == Split(ThreeDomains[1], "w1", <<"src", "math", "w1">>)
Rand == Split(ThreeDomains[2], "w2", <<"src", "rand", "w2">>)
Io == Split(ThreeDomains[3], "w3", <<"src", "w3">>)
Local(c) ==
  [is |-> "row", usr |-> c.usr, native |-> Native(c.usr), provenance |-> c.provenance,
   source |-> c.source, header |-> c.header, admitted |-> TRUE]
List(files) == [given |-> TRUE, files |-> files]
ListOf(c) ==
  [sources |-> List(<<SubSeq(c.source, 3, Len(c.source))>>),
   headers |-> List(<<SubSeq(c.header, 3, Len(c.header))>>)]
FilesOf(cs) ==
  [sources |-> {SubSeq(c.source, 3, Len(c.source)) : c \in cs},
   headers |-> {SubSeq(c.header, 3, Len(c.header)) : c \in cs}, origins |-> {"lib"},
   listed |-> [d \in {c.domain : c \in cs} |-> ListOf(CHOOSE c \in cs : c.domain = d)]]
GoodSplit ==
  [central |-> <<Math, Rand, Io>>,
   manifests |-> [sci |-> <<Local(Math), Local(Rand)>>, io |-> <<Local(Io)>>],
   files |-> [sci |-> FilesOf({Math, Rand}), io |-> FilesOf({Io})],
   admitted |-> {"sci", "io", "env"},
   texts |-> {[root |-> "libraries", name |-> "a.c", scanned |-> TRUE, includes |-> FALSE,
               builds |-> FALSE, links |-> TRUE]}]
WithCentral(cs) == [GoodSplit EXCEPT !.central = cs]
WithIo(rs) == [GoodSplit EXCEPT !.manifests.io = rs]
IoRow(field, value) == WithIo(<<[Local(Io) EXCEPT ![field] = value]>>)
WithIoFiles(fs) == [GoodSplit EXCEPT !.files.io = fs]
Text(name, includes, builds) ==
  [root |-> "programs", name |-> name, scanned |-> TRUE, includes |-> includes,
   builds |-> builds, links |-> builds]
SplitWorkspaces ==
  {GoodSplit, [GoodSplit EXCEPT !.admitted = {"io"}],
   [GoodSplit EXCEPT !.admitted = @ \cup {"old"}],
   [GoodSplit EXCEPT !.manifests.sci = @ \o <<Local(Rand)>>],
   [GoodSplit EXCEPT !.texts = @ \cup {Text("b.c", TRUE, FALSE)}],
   [GoodSplit EXCEPT !.texts = @ \cup {Text("config.cmake", FALSE, TRUE)}],
   [GoodSplit EXCEPT !.texts = @ \cup {[Text("b.o", TRUE, FALSE) EXCEPT !.scanned = FALSE]}]}
  \cup {WithCentral(cs) : cs \in
          {<<Math, Rand, [Io EXCEPT !.provenance = "c"]>>, <<Math, Rand, Io, Io>>,
           <<Math, [is |-> "incomplete"], Rand, Io>>, <<Math, Rand>>,
           <<Math, Rand, Io, [Io EXCEPT !.usr = "w4"]>>,
           <<Math, Rand, [Io EXCEPT !.domain = "math"]>>}}
  \cup {WithIo(rs) : rs \in
          {<<>>, <<[is |-> "incomplete"], Local(Io)>>,
           <<Local(Io), [Local(Io) EXCEPT !.usr = "w9"]>>}}
  \cup {IoRow("admitted", FALSE), IoRow("source", Rand.source), IoRow("header", Rand.header),
        IoRow("native", [is |-> "overlong"]), IoRow("native", [is |-> "misplaced"])}
  \cup {WithIoFiles(fs) : fs \in
          {[FilesOf({Io}) EXCEPT !.sources = {}], [FilesOf({Io}) EXCEPT !.headers = {}],
           [FilesOf({Io}) EXCEPT !.origins = {"old"}],
           [FilesOf({Io}) EXCEPT !.origins = {"old", "older"}],
           [FilesOf({Io}) EXCEPT !.listed["io"].sources = List(<<>>)],
           [FilesOf({Io}) EXCEPT !.listed["io"].headers = [given |-> FALSE, files |-> <<>>]],
           [FilesOf({Io}) EXCEPT !.listed["io"].sources = List(<<<<"src", "x">>>>)]}}

-----------------------------------------------------------------------------
(* quality-contract: one tool, one surface, an outcome and an enum that is *)
(* none, an audit, a boundary.                                             *)
Header == <<"lib", "a.h">>
Tool == [name |-> "p101-x", tool |-> TRUE, readable |-> TRUE, says |-> {"usage", "exit"}]
Concept(patterns) == [texts |-> "there", patterns |-> patterns]
Surface ==
  [texts |-> "there", id |-> "public:1", contract |-> <<"c">>, checker |-> <<"k">>,
   oracle |-> "n1"]
Outcome(usr, variants) ==
  [texts |-> "there", usr |-> usr, name |-> "name", source |-> Header, oracle |-> "n1",
   variants |-> variants]
Audit ==
  [texts |-> "there", id |-> "audit:1", mode |-> "local", source |-> <<"k">>, oracle |-> "n1",
   kind |-> "function-usr", value |-> "run"]
AuditBySchema == [Audit EXCEPT !.kind = "json-schema", !.source = <<"c">>, !.value = "v1"]
Bounded(id) == [texts |-> "there", id |-> id, oracle |-> "n1"]
Rows1(rs) == [is |-> "array", rows |-> rs]
NoArray == [is |-> "other", rows |-> <<>>]
GoodQuality ==
  [is |-> "valid", concepts |-> Rows1(<<Concept({"usage", "help"})>>),
   surfaces |-> <<Surface>>, outcomes |-> Rows1(<<Outcome("e1", <<"A", "B">>)>>),
   excluded |-> Rows1(<<Outcome("e2", <<>>)>>), audits |-> Rows1(<<Audit>>),
   boundaries |-> <<Bounded("b1")>>,
   termination |-> [texts |-> "there", checker |-> <<"k">>, oracle |-> "n1", usrs |-> {"exit"},
                    roles |-> {"child"}],
   platforms |-> [texts |-> "there", required |-> <<"linux", "macos", "freebsd">>,
                  producer |-> <<"k">>, merge |-> <<"k">>, oracle |-> "n1"],
   oracles |-> <<[texts |-> "there", oracle |-> "n1"]>>]
Known(kind, usr, name, path) ==
  [kind |-> kind, usr |-> usr, name |-> name, path |-> path, exported |-> path # <<"ws", "k">>,
   parent |-> NoText, caller |-> NoText, program |-> FALSE]
EnumFact(usr) == Known("ENUM", usr, "name", <<"ws">> \o Header)
VariantFact(usr, name) ==
  [Known("ENUMERATOR", "", name, <<"ws">> \o Header) EXCEPT !.parent = usr]
Exits(caller) ==
  [Known("CALL", "exit", "", <<"ws", "p">>) EXCEPT !.caller = caller, !.program = TRUE]
RoleOf(caller) == [Known("NOTE", "", "child", <<"ws", "p">>) EXCEPT !.caller = caller]
QualityFacts ==
  {EnumFact("e1"), EnumFact("e2"), VariantFact("e1", "A"), VariantFact("e1", "B"),
   Known("FUNCTION", "run", "run", <<"ws", "k">>), Exits("main"), Exits("kid"), RoleOf("kid")}
GoodCatalogue ==
  [quality |-> GoodQuality, source |-> Facts(QualityFacts), base |-> <<"ws">>,
   programs |-> <<Tool, [Tool EXCEPT !.tool = FALSE, !.readable = FALSE]>>,
   existing |-> {Header, <<"c">>, <<"k">>}, nodes |-> {"n1"},
   schemas |-> {[file |-> <<"c">>, schema |-> "v1"]},
   registered |-> [is |-> "array", ids |-> <<"b1">>]]
Differing(field, value) == [GoodCatalogue EXCEPT !.quality = [@ EXCEPT ![field] = value]]
WithPrograms(ps) == [GoodCatalogue EXCEPT !.programs = ps]
WithFacts(fs) == [GoodCatalogue EXCEPT !.source = Facts(fs)]
CatalogueWorkspaces ==
  {GoodCatalogue, [GoodCatalogue EXCEPT !.source = Malformed],
   [GoodCatalogue EXCEPT !.existing = {Header, <<"k">>}],
   [GoodCatalogue EXCEPT !.registered = [is |-> "missing"]]}
  \cup {[GoodCatalogue EXCEPT !.quality = q] : q \in Unusable}
  \cup {WithPrograms(<<p>>) : p \in {[Tool EXCEPT !.readable = FALSE], [Tool EXCEPT !.says = {}]}}
  \cup {WithFacts(fs) : fs \in
          {QualityFacts \cup {EnumFact("e3")}, QualityFacts \cup {VariantFact("e1", "C")},
           QualityFacts \cup {Exits("aid")}, QualityFacts \ {RoleOf("kid")},
           QualityFacts \ {EnumFact("e2")}, QualityFacts \ {VariantFact("e1", "B")},
           {f \in QualityFacts : f.kind # "FUNCTION"}}}
  \cup {Differing("concepts", c) : c \in
          {NoArray, Rows1(<<Concept({"help"}), [Concept({"exit"}) EXCEPT !.texts = "absent"]>>)}}
  \cup {Differing("surfaces", s) : s \in
          {<<>>, <<Surface, Surface>>, <<[Surface EXCEPT !.oracle = "n9"]>>}}
  \cup {Differing("outcomes", Rows1(rs)) : rs \in
          {<<[Outcome("e1", <<"A", "B">>) EXCEPT !.oracle = "n9"]>>, <<Outcome("e1", <<>>)>>,
           <<Outcome("e1", <<"A", "B">>), Outcome("e1", <<"A", "B">>)>>,
           <<Outcome("e1", <<"A">>)>>, <<Outcome("e1", <<"A", "B">>), Outcome("e2", <<"A">>)>>}}
  \cup {Differing("excluded", Rows1(rs)) : rs \in
          {<<Outcome("e1", <<>>), Outcome("e2", <<>>)>>, <<>>,
           <<Outcome("e2", <<>>), Outcome("e4", <<>>)>>,
           <<[Outcome("e2", <<>>) EXCEPT !.source = <<"a.h">>]>>}}
  \cup {Differing(f, NoArray) : f \in {"outcomes", "excluded", "audits"}}
  \cup {Differing("audits", Rows1(rs)) : rs \in
          {<<AuditBySchema>>, <<Audit, [Audit EXCEPT !.mode = "delegated"]>>,
           <<[AuditBySchema EXCEPT !.value = "v2"]>>, <<[Audit EXCEPT !.mode = "remote"]>>,
           <<[Audit EXCEPT !.kind = "text"]>>, <<[Audit EXCEPT !.texts = "absent"]>>, <<[Audit EXCEPT !.texts = "long"]>>}}
  \cup {Differing("boundaries", rs) : rs \in
          {<<>>, <<Bounded("b2")>>, <<Bounded("b1"), Bounded("b1")>>}}
  \cup {[Differing("boundaries", <<Bounded("b1"), Bounded(id)>>)
           EXCEPT !.registered.ids = <<"b1", "b2">>] : id \in {"b1", "b2"}}
  \cup {Differing("termination", [GoodQuality.termination EXCEPT !.texts = t]) :
          t \in {"absent", "long"}}
  \cup {Differing("platforms", [GoodQuality.platforms EXCEPT !.texts = "long"]),
        Differing("surfaces", <<[Surface EXCEPT !.texts = "long"]>>),
        Differing("concepts", Rows1(<<[Concept({"usage"}) EXCEPT !.texts = "long"]>>)),
        Differing("platforms", [GoodQuality.platforms EXCEPT !.required = <<"linux", "macos">>]),
        Differing("oracles", <<>>), Differing("oracles", <<[texts |-> "there", oracle |-> "n9"]>>)}
=============================================================================
