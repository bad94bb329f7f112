----------------------- MODULE InstrumentationPolicy -----------------------
(***************************************************************************)
(* The policy instrumentation: every public API of the classified          *)
(* libraries is defined, traced if it takes an environment and, as a       *)
(* wrapper that reports errors, has a fault point; and has the             *)
(* capabilities the contract demands.  A receipt says so in a file.  What  *)
(* a function can do is a field of its fact here (see Instrumentation).    *)
(***************************************************************************)
EXTENDS WorkspaceResult

CONSTANT TableCapacity   \* INSTRUMENTATION_API_CAPACITY

ASSUME TableCapacityAssumption == TableCapacity \in Nat

VARIABLES
  table,     \* the APIs: [library, role, usr, source, fact]
  receipt    \* "untouched", "partial", "passed" or "failed"

instrumentationVars == <<table, receipt>>

Terms == workspace.contract
NoFact == [usr |-> "none"]
WrapperRoles == {"native-wrapper", "traced-api"}
Capabilities == {"fault", "fd", "allocation", "resource"}

-----------------------------------------------------------------------------
InstrumentationInit == table = <<>> /\ receipt = "untouched"

TermsRead ==
  /\ stage = "instrumentation"
  /\ \/ /\ options.facts /\ Terms.is = "valid"
        /\ stage' = "roles" /\ UNCHANGED <<findings, err>>
     \/ /\ options.facts /\ Terms.is = "invalid"
        /\ Add(Finding("schema", "contract"))
        /\ stage' = IF err' THEN "end" ELSE "write"
     \/ GiveUp /\ UNCHANGED findings
  /\ UNCHANGED <<options, workspace, checks, position, instrumentationVars>>

Classified == Terms.roles[position + 1]
ReadingRoles == stage = "roles" /\ position < Len(Terms.roles)

SkipInfrastructure ==
  /\ ReadingRoles /\ Classified.role = "infrastructure"
  /\ position' = position + 1
  /\ UNCHANGED <<stage, options, workspace, resultVars, instrumentationVars>>
UnknownRole ==
  /\ ReadingRoles /\ Classified.role \notin WrapperRoles \cup {"infrastructure"}
  /\ Add(Finding("role", Classified.library))
  /\ position' = position + 1
  /\ UNCHANGED <<stage, options, workspace, checks, instrumentationVars>>

(* instrumentation_load_manifest: the rows before the first that is no     *)
(* good, or for which there is no room, are kept.                          *)
Listed(library) == workspace.manifests[library]
(* A read error after the header is the end of the manifest, for the role  *)
(* r that it is read for.                                                  *)
ReadFor(r) == Delivered(Listed(r.library).rows, r.unread)
GoodEntries(r) ==
  IF Listed(r.library).is = "rows" THEN GoodRows(ReadFor(r), TableCapacity - Len(table))
  ELSE 0
WholeManifest(r) ==
  Listed(r.library).is = "rows" /\ GoodEntries(r) = Len(ReadFor(r))
EndsOverlong(r) ==
  /\ Listed(r.library).is = "rows" /\ ~WholeManifest(r)
  /\ Len(table) + GoodEntries(r) < TableCapacity
  /\ ReadFor(r)[GoodEntries(r) + 1].is = "overlong"
TableRows(r) ==
  [i \in 1 .. GoodEntries(r) |->
     [library |-> r.library, role |-> r.role, usr |-> ReadFor(r)[i].usr,
      source |-> ReadFor(r)[i].source, fact |-> NoFact]]
LoadManifest ==
  /\ ReadingRoles /\ Classified.role \in WrapperRoles
  /\ table' = table \o TableRows(Classified)
  /\ \/ WholeManifest(Classified) /\ UNCHANGED <<findings, err>>
     \/ /\ ~WholeManifest(Classified) /\ ~EndsOverlong(Classified)
        /\ Add(Finding("manifest", Classified.library))
     \/ /\ EndsOverlong(Classified)
        /\ AddAnyway(Finding("manifest", Classified.library))
  /\ position' = position + 1
  /\ UNCHANGED <<stage, options, workspace, checks, receipt>>

(* A path ends with the source of the manifest, wherever the workspace is. *)
Definitions(api) ==
  {f \in workspace.source.facts :
     /\ f.kind = "FUNCTION" /\ f.definition /\ f.public
     /\ f.usr = api.usr /\ IsSuffix(api.source, f.path)}
Unambiguous(entries) ==
  \A i, j \in DOMAIN entries : entries[i].usr = entries[j].usr => i = j

(* instrumentation_assign_facts, once the bundle is loaded: of several     *)
(* definitions the last one counts.                                        *)
AssignFacts ==
  /\ stage = "roles" /\ position = Len(Terms.roles)
  /\ \/ /\ Loads(workspace.source) /\ Unambiguous(table)
        /\ table' \in {[i \in DOMAIN table |-> [table[i] EXCEPT !.fact = f[i]]] :
             f \in {g \in [DOMAIN table -> workspace.source.facts \cup {NoFact}] :
                      \A i \in DOMAIN table :
                        LET all == Definitions(table[i]) IN
                        IF all = {} THEN g[i] = NoFact ELSE g[i] \in all}}
        /\ stage' = "instrumented" /\ UNCHANGED err
     \/ GiveUp /\ UNCHANGED table
  /\ position' = 0
  /\ UNCHANGED <<options, workspace, findings, checks, receipt>>

Can(api) == IF api.fact = NoFact THEN {} ELSE api.fact.can
Untraced(api) ==
  api.fact.env /\ ~({"trace_entry", "trace_exit"} \subseteq Can(api))
Faultless(api) ==
  api.role = "native-wrapper" /\ api.fact.error /\ "fault" \notin Can(api)

JudgeInstrumented ==
  /\ stage = "instrumented" /\ position < Len(table)
  /\ LET api == table[position + 1] IN
     \/ /\ api.fact = NoFact
        /\ Add(Finding("undefined", api.usr)) /\ UNCHANGED checks
     \/ /\ api.fact # NoFact
        /\ AddAll(If(Untraced(api), Finding("trace", api.usr))
                  \o If(Faultless(api), Finding("fault", api.usr)))
        /\ checks' = checks + 1
  /\ position' = position + 1
  /\ UNCHANGED <<stage, options, workspace, instrumentationVars>>
InstrumentedEnds ==
  /\ stage = "instrumented" /\ position = Len(table)
  /\ stage' = "required" /\ position' = 0
  /\ UNCHANGED <<options, workspace, resultVars, instrumentationVars>>

(* instrumentation_validate_required, one member of the contract.          *)
Lacking(api, names) ==
  LET lacking == {n \in DOMAIN names : names[n] \notin Capabilities \cap Can(api)}
  IN  ForEach(lacking, [n \in lacking |->
        Finding(IF names[n] \in Capabilities THEN "lacks" ELSE "capability", api.usr)])
(* Mutant of Demand: what an API with no definition must do is not asked.  *)
DemandOfDefined(entry) ==
  LET found == {a \in ToSet(table) : a.usr = entry.usr /\ a.fact # NoFact} IN
  IF found = {} THEN <<>> ELSE Lacking(CHOOSE a \in found : TRUE, entry.names)
(* The table has no two of an identity by now.                             *)
Demand(entry) ==
  LET found == {a \in ToSet(table) : a.usr = entry.usr}
      api == CHOOSE a \in found : TRUE
  IN  CASE entry.is # "array" -> <<Finding("required", entry.usr)>>
        [] entry.is = "array" /\ found = {} -> <<Finding("absent", entry.usr)>>
        [] OTHER -> If(api.role # "native-wrapper", Finding("no-wrapper", entry.usr))
                    \o Lacking(api, entry.names)
ValidateRequired ==
  /\ stage = "required" /\ position < Len(Terms.required)
  /\ LET entry == Terms.required[position + 1] IN
     \/ /\ AddAll(Demand(entry)) /\ UNCHANGED stage
        /\ checks' = IF entry.is = "array" /\ \E a \in ToSet(table) : a.usr = entry.usr
                     THEN checks + Len(entry.names) ELSE checks
     \/ GiveUp /\ UNCHANGED <<findings, checks>>
  /\ position' = position + 1
  /\ UNCHANGED <<options, workspace, instrumentationVars>>

(* Mutant of WriteReceipt: the file says what the APIs alone gave.         *)
WriteReceiptOfTable ==
  /\ stage = "required" /\ position = Len(Terms.required)
  /\ receipt' = IF ~options.receipt THEN receipt
                ELSE IF \A f \in ToSet(findings) : f.what \notin {"trace", "fault"}
                THEN "passed" ELSE "failed"
  /\ PolicyEnds
  /\ UNCHANGED <<options, workspace, checks, position, table>>
(* instrumentation_write_receipt: the file is opened and written if asked  *)
(* for, whatever error there is by now.                                    *)
WriteReceipt ==
  /\ stage = "required" /\ position = Len(Terms.required)
  /\ \/ ~options.receipt /\ PolicyEnds /\ UNCHANGED receipt
     \/ /\ options.receipt /\ PolicyEnds
        /\ receipt' = IF findings = <<>> THEN "passed" ELSE "failed"
     \/ /\ options.receipt /\ GiveUp /\ UNCHANGED findings
        /\ receipt' \in {"untouched", "partial"}
  /\ UNCHANGED <<options, workspace, checks, position, table>>

InstrumentationAudit ==
  \/ TermsRead \/ SkipInfrastructure \/ UnknownRole \/ LoadManifest
  \/ AssignFacts \/ JudgeInstrumented \/ InstrumentedEnds
  \/ ValidateRequired \/ WriteReceipt

-----------------------------------------------------------------------------
(* What the contract says, said of the workspace, as far as its manifests  *)
(* were read: of rows after a read error nothing is said.                  *)

ClassifiedApis ==
  UNION {{[library |-> r.library, role |-> r.role, usr |-> a.usr, source |-> a.source] :
            a \in ToSet(ReadFor(r))} :
           r \in {q \in ToSet(Terms.roles) : q.role \in WrapperRoles}}
ClassifiedRows ==
  UNION {{<<k, i>> : i \in DOMAIN ReadFor(Terms.roles[k])} :
           k \in {n \in DOMAIN Terms.roles : Terms.roles[n].role \in WrapperRoles}}
Demanded(usr) ==
  UNION {ToSet(e.names) : e \in {d \in ToSet(Terms.required) : d.usr = usr}}
WellClassified ==
  /\ \A r \in ToSet(Terms.roles) :
       \/ r.role = "infrastructure"
       \/ /\ r.role \in WrapperRoles /\ Listed(r.library).is = "rows"
          /\ \A a \in ToSet(ReadFor(r)) : a.is = "api"
  /\ \A e \in ToSet(Terms.required) :
       /\ e.is = "array" /\ ToSet(e.names) \subseteq Capabilities
       /\ \E a \in ClassifiedApis : a.usr = e.usr /\ a.role = "native-wrapper"
(* What the definition f of an API must have.                              *)
DoesItsPart(api, f) ==
  /\ f.env => {"trace_entry", "trace_exit"} \subseteq f.can
  /\ api.role = "native-wrapper" /\ f.error => "fault" \in f.can
  /\ Demanded(api.usr) \subseteq f.can
InstrumentedWell ==
  /\ Terms.is = "valid" /\ WellClassified
  /\ \A api \in ClassifiedApis : \E f \in Definitions(api) : DoesItsPart(api, f)
InstrumentedBadly ==
  \/ Terms.is # "valid" \/ ~WellClassified
  \/ Cardinality(ClassifiedRows) > TableCapacity
  \/ \E api \in ClassifiedApis :
       \/ Definitions(api) = {}
       \/ \E f \in Definitions(api) : ~DoesItsPart(api, f)
(* A contract that can be read has lists of roles and of demands, and a    *)
(* fact of a function is one.                                              *)
TermsTyped(w) ==
  w.contract.is = "valid" =>
    /\ IsList(w.contract.roles) /\ IsList(w.contract.required)
    /\ \A r \in ToSet(w.contract.roles) :
         r.role \in WrapperRoles /\ w.manifests[r.library].is = "rows" =>
           IsList(w.manifests[r.library].rows) /\ r.unread \in Nat
    /\ \A e \in ToSet(w.contract.required) : e.is = "array" => IsList(e.names)
    /\ w.source.is = "facts" => NoFact \notin w.source.facts
=============================================================================
