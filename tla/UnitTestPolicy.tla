--------------------------- MODULE UnitTestPolicy --------------------------
(***************************************************************************)
(* The policy wrapper-unit-tests: every public API of every library has    *)
(* one row in its library's unit-test manifest, naming a test that calls   *)
(* it.  A manifest has rows, of which a read error may leave some unread.  *)
(* A row is "api" or "test", "ragged", or "overlong" where a field does    *)
(* not fit.  The name a test row begins with is stored nowhere, so it *)
(* may be too long for a message; "long" says so.                          *)
(***************************************************************************)
EXTENDS WorkspaceResult

CONSTANT ApiCapacity   \* UNIT_API_CAPACITY

ASSUME ApiCapacityAssumption == ApiCapacity \in Nat

VARIABLES
  library,   \* which library of the contract's roles
  apis       \* the table of APIs: [library, usr, test], "" untested

unitVars == <<library, apis>>

Libraries == workspace.libraries
Here == Libraries[library]
Untested == ""
(* A read error after the header is the end of a manifest.                 *)
Read(manifest) == Delivered(manifest.rows, manifest.unread)
TestKinds == {"fault", "behavior", "behavior-existing"}

-----------------------------------------------------------------------------
UnitInit == library = 0 /\ apis = <<>>

(* The facts are asked for, the contract is read, then the bundle.         *)
UnitStart ==
  /\ stage = "wrapper-unit-tests"
  /\ \/ /\ options.facts /\ workspace.roles = "valid" /\ Loads(workspace.source)
        /\ library' = 1 /\ stage' = "apis" /\ UNCHANGED <<findings, err>>
     \/ /\ options.facts /\ workspace.roles = "invalid"
        /\ Add(Finding("roles", "contract"))
        /\ stage' = (IF err' THEN "end" ELSE "write") /\ UNCHANGED library
     \/ GiveUp /\ UNCHANGED <<library, findings>>
  /\ UNCHANGED <<options, workspace, checks, position, apis>>

(* unit_load_api_manifest: rows up to the first that is no good, or for    *)
(* which there is no room, are kept.                                       *)
Fit(rows) == GoodRows(rows, ApiCapacity - Len(apis))
(* Mutant of Complete: rows that were not read are not missed.             *)
CompleteAnyway(manifest) == manifest.is = "rows"
Complete(manifest) ==
  manifest.is = "rows" /\ Fit(Read(manifest)) = Len(Read(manifest))
Entered(manifest) ==
  IF manifest.is # "rows" THEN <<>>
  ELSE [i \in 1 .. Fit(Read(manifest)) |->
          [library |-> Here.name, usr |-> Read(manifest)[i].usr, test |-> Untested]]
(* A row is copied only if there is room for it.                           *)
Overlong(manifest) ==
  /\ manifest.is = "rows" /\ ~Complete(manifest)
  /\ Len(apis) + Fit(Read(manifest)) < ApiCapacity
  /\ Read(manifest)[Fit(Read(manifest)) + 1].is = "overlong"

(* Infrastructure has no wrappers to test.                                 *)
SkipLibrary ==
  /\ stage = "apis" /\ library <= Len(Libraries) /\ Here.infrastructure
  /\ library' = library + 1
  /\ UNCHANGED <<stage, options, workspace, resultVars, position, apis>>

LoadApis ==
  /\ stage = "apis" /\ library <= Len(Libraries) /\ ~Here.infrastructure
  /\ apis' = apis \o Entered(Here.apis)
  /\ \/ Complete(Here.apis) /\ UNCHANGED <<findings, err>>
     \/ ~Complete(Here.apis) /\ ~Overlong(Here.apis)
        /\ Add(Finding("api-manifest", Here.name))
     \/ Overlong(Here.apis) /\ AddAnyway(Finding("api-manifest", Here.name))
  /\ stage' = "tests" /\ position' = 0
  /\ UNCHANGED <<options, workspace, checks, library>>

(* The first API with this identity in this library.                       *)
Matching(usr) == {i \in DOMAIN apis : apis[i].library = Here.name /\ apis[i].usr = usr}
Match(usr) == CHOOSE i \in Matching(usr) : \A j \in Matching(usr) : i <= j

TestRows == IF Here.tests.is = "rows" THEN Read(Here.tests) ELSE <<>>
Row == TestRows[position + 1]
ReadingTests == stage = "tests" /\ position < Len(TestRows)
TellRow(what) == Tell(Finding(what, Row.usr), ~Row.long)

(* unit_load_test_manifest, one row.                                       *)
UnknownTest ==
  /\ ReadingTests /\ Row.is = "test"
  /\ Matching(Row.usr) = {} /\ TellRow("no-api")
  /\ position' = position + 1
  /\ UNCHANGED <<stage, options, workspace, checks, unitVars>>
RefusedTest ==
  /\ ReadingTests /\ Row.is = "test" /\ Matching(Row.usr) # {}
  /\ \/ apis[Match(Row.usr)].test # Untested /\ TellRow("duplicate")
     \/ /\ apis[Match(Row.usr)].test = Untested
        /\ Row.kind \notin TestKinds /\ TellRow("kind")
  /\ position' = position + 1
  /\ UNCHANGED <<stage, options, workspace, checks, unitVars>>
(* A test source that stat does not find is told, and the API counts as    *)
(* tested.                                                                 *)
AcceptedTest ==
  /\ ReadingTests /\ Row.is = "test" /\ Matching(Row.usr) # {}
  /\ apis[Match(Row.usr)].test = Untested /\ Row.kind \in TestKinds
  /\ apis' = [apis EXCEPT ![Match(Row.usr)].test = Row.test]
  /\ \/ Row.exists /\ UNCHANGED <<findings, err>>
     \/ ~Row.exists /\ TellMissing(Finding("source", Row.usr), ~Row.long)
  /\ position' = position + 1
  /\ UNCHANGED <<stage, options, workspace, checks, library>>
OverlongTest ==
  /\ ReadingTests /\ Row.is = "overlong"
  /\ err' = TRUE /\ position' = position + 1
  /\ UNCHANGED <<stage, options, workspace, findings, checks, unitVars>>

(* The manifest ends, is missing, or has a row that is not one.            *)
TestsEnd ==
  /\ stage = "tests"
  /\ \/ /\ Here.tests.is = "rows" /\ position = Len(TestRows)
        /\ UNCHANGED <<findings, err>>
     \/ /\ \/ Here.tests.is # "rows"
           \/ ReadingTests /\ Row.is = "ragged"
        /\ Add(Finding("test-manifest", Here.name))
  /\ stage' = "apis" /\ library' = library + 1
  /\ UNCHANGED <<options, workspace, checks, position, apis>>

LibrariesEnd ==
  /\ stage = "apis" /\ library > Len(Libraries)
  /\ stage' = "verdicts" /\ position' = 0
  /\ UNCHANGED <<options, workspace, resultVars, unitVars>>

(* Mutant of HasCall: any file will do.                                    *)
HasCallAnywhere(api) == \E c \in Calls : c.usr = api.usr
HasCall(api) == \E c \in Calls : c.path = api.test /\ c.usr = api.usr

JudgeApi ==
  /\ stage = "verdicts" /\ position < Len(apis)
  /\ LET api == apis[position + 1] IN
     \/ /\ api.test = Untested
        /\ Add(Finding("untested", api.usr)) /\ UNCHANGED checks
     \/ /\ api.test # Untested /\ checks' = checks + 1
        /\ IF HasCall(api) THEN UNCHANGED <<findings, err>>
           ELSE Add(Finding("no-call", api.usr))
  /\ position' = position + 1
  /\ UNCHANGED <<stage, options, workspace, unitVars>>

UnitEnds ==
  /\ stage = "verdicts" /\ position = Len(apis)
  /\ PolicyEnds
  /\ UNCHANGED <<options, workspace, checks, position, unitVars>>

UnitTests ==
  \/ UnitStart \/ SkipLibrary \/ LoadApis
  \/ UnknownTest \/ RefusedTest \/ AcceptedTest \/ OverlongTest \/ TestsEnd
  \/ LibrariesEnd \/ JudgeApi \/ UnitEnds

-----------------------------------------------------------------------------
(* What the policy is there to see, said of the workspace, as far as its   *)
(* manifests were read: of rows after a read error nothing is said.        *)

Tested(lib) ==
  LET public == Read(lib.apis)  tests == Read(lib.tests) IN
  /\ lib.apis.is = "rows" /\ \A r \in ToSet(public) : r.is = "api"
  /\ lib.tests.is = "rows" /\ \A r \in ToSet(tests) : r.is = "test"
  /\ \A t \in ToSet(tests) :
       /\ t.kind \in TestKinds /\ t.exists
       /\ \E a \in ToSet(public) : a.usr = t.usr
  /\ \A i \in DOMAIN public :
       LET usr == public[i].usr
           own == {j \in DOMAIN tests : tests[j].usr = usr}
       IN  /\ Cardinality(own) = 1
           /\ \A j \in own : \E c \in Calls : c.usr = usr /\ c.path = tests[j].test
           /\ \A k \in DOMAIN public : public[k].usr = usr => k = i
PublicApis ==
  UNION {{<<k, i>> : i \in DOMAIN Read(Libraries[k].apis)} :
           k \in {n \in DOMAIN Libraries : ~Libraries[n].infrastructure}}
Wrapping == {l \in ToSet(Libraries) : ~l.infrastructure}
AllTested ==
  /\ workspace.roles = "valid"
  /\ \A l \in Wrapping : Tested(l)
  /\ Cardinality(PublicApis) <= ApiCapacity
(* No name is too long for the message that would be about it.             *)
NothingLong ==
  \A l \in Wrapping : l.tests.is = "rows" =>
    \A t \in ToSet(Read(l.tests)) : t.is = "test" => ~t.long
(* The roles name each wrapping library once; nothing looks for a name     *)
(* that is there twice.                                                    *)
NamedOnce ==
  \A j, k \in DOMAIN Libraries :
    /\ ~Libraries[j].infrastructure /\ ~Libraries[k].infrastructure
    /\ Libraries[j].name = Libraries[k].name
    => j = k
(* Roles that can be read are a list, manifests lists of rows, and a row   *)
(* that is one names a test.                                               *)
LibrariesTyped(w) ==
  w.roles = "valid" =>
    /\ IsList(w.libraries)
    /\ \A l \in ToSet(w.libraries) : ~l.infrastructure =>
         /\ l.apis.is = "rows" => IsList(l.apis.rows) /\ l.apis.unread \in Nat
         /\ l.tests.is = "rows" =>
              /\ IsList(l.tests.rows) /\ l.tests.unread \in Nat
              /\ \A t \in ToSet(l.tests.rows) :
                   /\ t.is \in {"test", "ragged", "overlong"}
                   /\ t.is = "test" => t.test # Untested
=============================================================================
