--------------------------- MODULE QualityPolicy ---------------------------
(***************************************************************************)
(* The policy quality-contract: the catalogue names what each tool has to  *)
(* document, the public surfaces, the enums that are outcomes and those    *)
(* that are not, who is responsible for each audit, the boundaries, what   *)
(* may end a process, and the oracles; each refers to files, to facts and  *)
(* to nodes of the check graph, which must be there.  The texts of a row   *)
(* are "there", "absent" (or not as they have to be), or "long".           *)
(***************************************************************************)
EXTENDS WorkspaceResult

CONSTANT EnumCapacity   \* QUALITY_ENUM_CAPACITY

ASSUME EnumCapacityAssumption == EnumCapacity \in Nat

VARIABLE enums          \* the identities in the table enums

Quality == workspace.quality
Recorded == workspace.source.facts
RequiredTop == 10
Platforms == {"freebsd", "linux", "macos"}

QualityInit == enums = {}

(* quality_workspace_file, quality_oracle_exists and                       *)
(* quality_fact_path_matches, which compares the ends of the two.          *)
Exists(file) == file \in workspace.existing
KnownOracle(oracle) == oracle \in workspace.nodes
PathMatches(path, file) == IsSuffix(file, path)
SourceHas(kind, usr, file) ==
  \E f \in Recorded : f.kind = kind /\ f.usr = usr /\ PathMatches(f.path, file)
(* quality_prior_text_unique                                               *)
UniqueText(list, i) ==
  \A j \in 1 .. i - 1 : list[j].id # NoText /\ list[j].id # list[i].id

-----------------------------------------------------------------------------
(* All files are read before one of them is looked at.                     *)
QualityRead ==
  /\ stage = "quality-contract"
  /\ \/ /\ options.facts /\ Loads(workspace.source) /\ Quality.is = "valid"
        /\ stage' = "documents" /\ UNCHANGED <<findings, err>>
        /\ checks' = checks + RequiredTop
     \/ /\ options.facts /\ Loads(workspace.source) /\ Quality.is = "invalid"
        /\ Add(Finding("schema", "quality")) /\ checks' = checks + RequiredTop
        /\ stage' = IF err' THEN "end" ELSE "write"
     \/ GiveUp /\ UNCHANGED <<findings, checks>>
  /\ UNCHANGED <<options, workspace, position, enums>>

Whole(row) == row.texts = "there"
(* One row of a catalogue; a text that is too long is an error besides.    *)
Judging(section, list, faults, long) ==
  /\ stage = section /\ position < Len(list)
  /\ AddAmid(faults, long)
  /\ position' = position + 1
  /\ UNCHANGED <<stage, options, workspace>>
SectionEnds(section, list, missing, next) ==
  /\ stage = section /\ position = Len(list)
  /\ AddAll(If(missing, Finding("missing", section)))
  /\ stage' = next /\ position' = 0
  /\ UNCHANGED <<options, workspace, checks, enums>>

(* quality_documentation: an error here is not acted on.                   *)
Tools == SelectSeq(workspace.programs, LAMBDA p : p.tool)
Documented == IF Quality.concepts.is = "array" THEN Tools ELSE <<>>
Concepts == Quality.concepts.rows
DocumentFaults(p) ==
  IF ~p.readable THEN <<Finding("readme", p.name)>>
  ELSE LET lacking ==
             SelectSeq(Concepts, LAMBDA c : ~Whole(c) \/ c.patterns \cap p.says = {})
       IN  [n \in DOMAIN lacking |-> Finding("concept", p.name)]
JudgeDocument ==
  /\ LET p == Documented[position + 1] IN
     Judging("documents", Documented, DocumentFaults(p),
             p.readable /\ \E c \in ToSet(Concepts) : c.texts = "long")
  /\ checks' = checks + IF Documented[position + 1].readable THEN Len(Concepts) ELSE 0
  /\ UNCHANGED enums
DocumentsLost ==
  /\ stage = "documents" /\ Quality.concepts.is = "array"
  /\ err' = TRUE /\ stage' = "surfaces" /\ position' = 0
  /\ UNCHANGED <<options, workspace, findings, checks, enums>>
DocumentsEnd ==
  SectionEnds("documents", Documented, Quality.concepts.is # "array", "surfaces")

(* Surfaces that are no array are passed over.                             *)
Surfaces == Quality.surfaces
SurfaceHolds(i) ==
  LET s == Surfaces[i] IN
  /\ Whole(s) /\ UniqueText(Surfaces, i)
  /\ Exists(s.contract) /\ Exists(s.checker) /\ KnownOracle(s.oracle)
JudgeSurface ==
  /\ Judging("surfaces", Surfaces,
             If(~SurfaceHolds(position + 1), Finding("stale", "surface")),
             Surfaces[position + 1].texts = "long")
  /\ checks' = checks + 1 /\ UNCHANGED enums
SurfacesEnd == SectionEnds("surfaces", Surfaces, FALSE, "outcomes")

-----------------------------------------------------------------------------
(* The enums that are outcomes, and then those that are not.               *)
Classes == [outcomes |-> Quality.outcomes, excluded |-> Quality.excluded]
EnumSeen(r) ==
  \E f \in Recorded : /\ f.kind = "ENUM" /\ f.usr = r.usr /\ f.name = r.name
                      /\ PathMatches(f.path, r.source)
Classifiable(class, r) ==
  /\ Whole(r) /\ (class = "outcomes" => KnownOracle(r.oracle))
  /\ r.usr \notin enums /\ Exists(r.source) /\ EnumSeen(r)
VariantsOf(usr) ==
  {f.name : f \in {g \in Recorded : g.kind = "ENUMERATOR" /\ g.parent = usr}}
(* Mutant of VariantsAgree: a variant that is new is not noticed.          *)
VariantsKnown(r) == r.variants # <<>> /\ ToSet(r.variants) \subseteq VariantsOf(r.usr)
(* A list that is not there is as good as one that is empty.               *)
VariantsAgree(r) == r.variants # <<>> /\ ToSet(r.variants) = VariantsOf(r.usr)

JudgeClass(class) ==
  LET list == Classes[class].rows  r == list[position + 1]
      fine == Classifiable(class, r) /\ (class = "outcomes" => VariantsAgree(r))
  IN  /\ Judging(class, list, If(~fine, Finding("drifted", class)), r.texts = "long")
      /\ Cardinality(enums) < EnumCapacity
      /\ enums' = IF Classifiable(class, r) THEN enums \cup {r.usr} ELSE enums
      /\ checks' = checks + 1
JudgeOutcome == JudgeClass("outcomes")
OutcomesEnd ==
  SectionEnds("outcomes", Quality.outcomes.rows, Quality.outcomes.is # "array", "excluded")
JudgeExcluded == JudgeClass("excluded")
ExcludedEnd ==
  SectionEnds("excluded", Quality.excluded.rows, Quality.excluded.is # "array", "publics")
(* The table is asked for room whether or not the row is any good.         *)
OutcomesFull ==
  /\ \E class \in {"outcomes", "excluded"} :
       stage = class /\ position < Len(Classes[class].rows)
  /\ Cardinality(enums) >= EnumCapacity
  /\ GiveUp
  /\ UNCHANGED <<options, workspace, findings, checks, position, enums>>

(* Each enum in a header of a library must be in the table.                *)
PublicEnums == {f \in Recorded : f.kind = "ENUM" /\ f.exported}
JudgePublics ==
  /\ stage = "publics"
  /\ LET unclassified == {f \in PublicEnums : f.usr \notin enums} IN
     AddAll([n \in 1 .. Cardinality(unclassified) |-> Finding("unclassified", "enum")])
  /\ checks' = checks + Cardinality(PublicEnums) /\ stage' = "audits"
  /\ UNCHANGED <<options, workspace, position, enums>>

-----------------------------------------------------------------------------
Audits == Quality.audits
EvidenceStands(a) ==
  CASE a.kind = "function-usr" -> SourceHas("FUNCTION", a.value, a.source)
    [] a.kind = "json-schema"  -> [file |-> a.source, schema |-> a.value] \in workspace.schemas
    [] OTHER                   -> FALSE
AuditHolds(i) ==
  LET a == Audits.rows[i] IN
  /\ Whole(a) /\ UniqueText(Audits.rows, i) /\ a.mode \in {"local", "delegated"}
  /\ Exists(a.source) /\ KnownOracle(a.oracle) /\ EvidenceStands(a)
JudgeAudit ==
  /\ Judging("audits", Audits.rows,
             If(~AuditHolds(position + 1), Finding("stale", "audit")),
             Audits.rows[position + 1].texts = "long")
  /\ checks' = checks + 1 /\ UNCHANGED enums
AuditsEnd == SectionEnds("audits", Audits.rows, Audits.is # "array", "registered")

(* The boundaries are those of the register, of which there are as many.   *)
Registered == Quality.boundaries
SameSize ==
  /\ workspace.registered.is = "array"
  /\ Len(Registered) = Len(workspace.registered.ids)
Compared == IF SameSize THEN Registered ELSE <<>>
BoundaryHolds(i) ==
  LET b == Registered[i] IN
  /\ Whole(b) /\ UniqueText(Registered, i) /\ KnownOracle(b.oracle)
  /\ b.id \in ToSet(workspace.registered.ids)
JudgeRegistered ==
  /\ Judging("registered", Compared,
             If(~BoundaryHolds(position + 1), Finding("differ", "boundary")),
             Compared[position + 1].texts = "long")
  /\ checks' = checks + 1 /\ UNCHANGED enums
RegisteredEnd == SectionEnds("registered", Compared, ~SameSize, "termination")

(* Calls in the programs that end the process, but those in main and those *)
(* of a function with a role that is excluded.                             *)
Termination == Quality.termination
TerminationHolds ==
  Whole(Termination) /\ Exists(Termination.checker) /\ KnownOracle(Termination.oracle)
Terminating ==
  {c \in Calls : c.program /\ c.usr \in Termination.usrs /\ c.caller # "main"}
HasRole(caller) ==
  \E f \in Recorded : f.kind = "NOTE" /\ f.caller = caller /\ f.name \in Termination.roles
TerminationFaults ==
  LET outside == {c \in Terminating : ~HasRole(c.caller)}
  IN  [n \in 1 .. Cardinality(outside) |-> Finding("terminates", "call")]
JudgeTermination ==
  /\ stage = "termination"
  /\ AddAmid(IF TerminationHolds THEN TerminationFaults
             ELSE <<Finding("scope", "termination")>>, Termination.texts = "long")
  /\ checks' = checks + IF TerminationHolds THEN Cardinality(Terminating) ELSE 0
  /\ stage' = "platforms"
  /\ UNCHANGED <<options, workspace, position, enums>>

Receipts == Quality.platforms
PlatformsHold ==
  /\ Whole(Receipts) /\ Len(Receipts.required) = Cardinality(Platforms)
  /\ Platforms \subseteq ToSet(Receipts.required)
  /\ Exists(Receipts.producer) /\ Exists(Receipts.merge) /\ KnownOracle(Receipts.oracle)
JudgePlatforms ==
  /\ stage = "platforms"
  /\ AddAmid(If(~PlatformsHold, Finding("receipts", "platforms")),
             Receipts.texts = "long")
  /\ checks' = checks + 1 /\ stage' = "oracles"
  /\ UNCHANGED <<options, workspace, position, enums>>

Oracles == Quality.oracles
JudgeOracle ==
  /\ LET o == Oracles[position + 1] IN
     Judging("oracles", Oracles,
             If(~(Whole(o) /\ KnownOracle(o.oracle)), Finding("unknown", "oracle")),
             o.texts = "long")
  /\ checks' = checks + 1 /\ UNCHANGED enums
OraclesEnd == SectionEnds("oracles", Oracles, Oracles = <<>>, "catalogued")
QualityEnds ==
  /\ stage = "catalogued" /\ PolicyEnds
  /\ UNCHANGED <<options, workspace, checks, position, enums>>

QualityContract ==
  \/ QualityRead \/ JudgeDocument \/ DocumentsLost \/ DocumentsEnd
  \/ JudgeSurface \/ SurfacesEnd
  \/ JudgeOutcome \/ OutcomesEnd \/ JudgeExcluded \/ ExcludedEnd \/ OutcomesFull
  \/ JudgePublics \/ JudgeAudit \/ AuditsEnd \/ JudgeRegistered \/ RegisteredEnd
  \/ JudgeTermination \/ JudgePlatforms \/ JudgeOracle \/ OraclesEnd \/ QualityEnds

-----------------------------------------------------------------------------
(* What the catalogue promises, said of the workspace.                     *)

Placed(file) == workspace.base \o file
Apart(list) ==
  \A i, j \in DOMAIN list : list[i].id = list[j].id => i = j
ToolKept(p) ==
  p.readable /\ \A c \in ToSet(Concepts) : Whole(c) /\ \E w \in c.patterns : w \in p.says
EnumKept(r) ==
  /\ Whole(r) /\ Exists(r.source)
  /\ \E f \in Recorded : f.kind = "ENUM" /\ f.usr = r.usr /\ f.name = r.name
                         /\ f.path = Placed(r.source)
OutcomeKept(r) ==
  /\ EnumKept(r) /\ KnownOracle(r.oracle) /\ r.variants # <<>>
  /\ \A f \in Recorded :
       f.kind = "ENUMERATOR" /\ f.parent = r.usr => f.name \in ToSet(r.variants)
  /\ \A v \in ToSet(r.variants) : \E f \in Recorded :
       f.kind = "ENUMERATOR" /\ f.parent = r.usr /\ f.name = v
AuditKept(a) ==
  /\ Whole(a) /\ a.mode \in {"local", "delegated"} /\ Exists(a.source) /\ KnownOracle(a.oracle)
  /\ \/ /\ a.kind = "function-usr"
        /\ \E f \in Recorded : f.kind = "FUNCTION" /\ f.usr = a.value /\ f.path = Placed(a.source)
     \/ a.kind = "json-schema" /\ [file |-> a.source, schema |-> a.value] \in workspace.schemas
QualityKept ==
  /\ Quality.is = "valid" /\ Quality.concepts.is = "array"
  /\ \A p \in ToSet(workspace.programs) : p.tool => ToolKept(p)
  /\ \A s \in ToSet(Surfaces) :
       Whole(s) /\ Exists(s.contract) /\ Exists(s.checker) /\ KnownOracle(s.oracle)
  /\ Quality.outcomes.is = "array" /\ Quality.excluded.is = "array"
  /\ LET classified == Quality.outcomes.rows \o Quality.excluded.rows IN
     /\ \A i, j \in DOMAIN classified : classified[i].usr = classified[j].usr => i = j
     /\ \A r \in ToSet(Quality.outcomes.rows) : OutcomeKept(r)
     /\ \A r \in ToSet(Quality.excluded.rows) : EnumKept(r)
     /\ \A f \in Recorded : f.kind = "ENUM" /\ f.exported =>
          \E r \in ToSet(classified) : r.usr = f.usr
  /\ Audits.is = "array" /\ \A a \in ToSet(Audits.rows) : AuditKept(a)
  /\ Apart(Surfaces) /\ Apart(Audits.rows) /\ Apart(Registered)
  /\ workspace.registered.is = "array"
  /\ {b.id : b \in ToSet(Registered)} = ToSet(workspace.registered.ids)
  /\ Len(Registered) = Len(workspace.registered.ids)
  /\ \A b \in ToSet(Registered) \cup ToSet(Oracles) : Whole(b) /\ KnownOracle(b.oracle)
  /\ Oracles # <<>> /\ TerminationHolds /\ PlatformsHold
  /\ \A c \in Calls : c.program /\ c.usr \in Termination.usrs =>
       \/ c.caller = "main"
       \/ \E r \in Termination.roles : \E f \in Recorded :
            f.kind = "NOTE" /\ f.caller = c.caller /\ f.name = r
(* A file is not taken for another whose path ends alike.                  *)
PathsAreApart ==
  \A f \in Recorded :
    \A r \in ToSet(Quality.outcomes.rows \o Quality.excluded.rows \o Audits.rows) :
      IsSuffix(r.source, f.path) => f.path = Placed(r.source)
=============================================================================
