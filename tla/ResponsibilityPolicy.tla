----------------------- MODULE ResponsibilityPolicy -----------------------
(***************************************************************************)
(* The policy source-responsibilities: each owner declares its markers,    *)
(* and no consumer defines or calls what is the owner's; a facade has no   *)
(* more lines than it may have; and the configuration of a repository      *)
(* names the p101 libraries its sources include, no more and no fewer.  A  *)
(* path is a sequence of names.  What is too long for its buffer is an     *)
(* error, after which nothing that is found will be told.                  *)
(***************************************************************************)
EXTENDS WorkspaceResult

CONSTANTS
  RepositoryLimit,   \* RESPONSIBILITY_CHECKED_REPOSITORY_LIMIT
  ScanCapacity,      \* P101_WRAPPER_MAX_PATHS
  BuildNames,        \* the names that begin with build-, build_ or build.
  OddItem            \* an item of a list that is no text, and is skipped

ASSUME RepositoryLimitAssumption == RepositoryLimit \in Nat
ASSUME ScanCapacityAssumption == ScanCapacity \in Nat

VARIABLE checked     \* checked_repositories

Duties == workspace.duties
Owned == Duties.owners
Facades == Duties.facades
SourceRoots == <<"libraries", "programs", "templates", "playgrounds">>

ResponsibilityInit == checked = {}

-----------------------------------------------------------------------------
(* A register without owners or facades ends the policy.                   *)
DutiesRead ==
  /\ stage = "source-responsibilities"
  /\ \/ /\ Duties.is = "valid" /\ Duties.text = "there" /\ <<>> \notin {Owned, Facades}
        /\ stage' = "gather" /\ UNCHANGED <<findings, err>>
     \/ /\ Duties.is = "invalid" /\ Add(Finding("schema", "duties"))
        /\ stage' = IF err' THEN "end" ELSE "write"
     \/ /\ Duties.is = "valid" /\ (Duties.text # "there" \/ <<>> \in {Owned, Facades})
        /\ AddAll(If(Duties.text = "absent", Finding("text", "duties"))
                  \o <<Finding("no-owners", "duties")>>)
        /\ stage' = IF err' THEN "end" ELSE "write"
     \/ GiveUp /\ UNCHANGED findings
  /\ UNCHANGED <<options, workspace, checks, position, checked>>

(* Without a bundle of facts the sources under four directories are        *)
(* collected; one that cannot be closed ends the policy without an error.  *)
Gather ==
  /\ stage = "gather" /\ ~options.facts /\ position < Len(SourceRoots)
  /\ position' = position + 1
  /\ \/ UNCHANGED <<stage, err>>
     \/ stage' = "end" /\ UNCHANGED err
     \/ GiveUp
  /\ UNCHANGED <<options, workspace, findings, checks, checked>>
Scan ==
  /\ stage = "gather" /\ (options.facts \/ position = Len(SourceRoots))
  /\ \/ /\ Loads(workspace.source)
        /\ options.facts \/ workspace.sources <= ScanCapacity
        /\ stage' = "owners" /\ UNCHANGED err
     \/ GiveUp
  /\ position' = 0
  /\ UNCHANGED <<options, workspace, findings, checks, checked>>

-----------------------------------------------------------------------------
(* path_beneath, and production_path, which looks at the whole path: a     *)
(* name anywhere above a file, or the beginning of any.                    *)
Beneath(path, root) == IsPrefix(root, path)
Production(path) ==
  /\ ToSet(Front(path)) \cap {"test", "tests", "fuzz", ".git"} = {}
  /\ ToSet(path) \cap BuildNames = {}
Declares(usr, root) ==
  \E f \in workspace.source.facts :
    f.kind = "FUNCTION" /\ f.usr = usr /\ Beneath(f.path, root)
Items(list) == SelectSeq(list, LAMBDA item : item # OddItem)
InWorkspace(name) == workspace.root \o name

(* Mutant of Reaches: what is called is not looked at.                     *)
ReachesDefining(f, o) == IF f.kind = "FUNCTION" THEN o.definitions ELSE <<>>
Reaches(f, o) ==
  CASE f.kind = "FUNCTION" -> o.definitions
    [] f.kind = "CALL"     -> o.calls
    [] OTHER               -> <<>>
Bypasses(o) ==
  LET at == {hit \in (DOMAIN o.consumers) \X workspace.source.facts
                       \X (1 .. Len(o.definitions) + Len(o.calls)) :
               LET c == hit[1]  f == hit[2]  i == hit[3] IN
               /\ o.consumers[c] # OddItem
               /\ Production(f.path) /\ Beneath(f.path, InWorkspace(o.consumers[c]))
               /\ i \in DOMAIN Reaches(f, o) /\ Reaches(f, o)[i] = f.usr}
  IN  [n \in 1 .. Cardinality(at) |-> Finding("bypass", SetToSeq(at)[n][2].path)]
Unmarked(o) ==
  LET lacking == SelectSeq(Items(o.markers),
                           LAMBDA usr : ~Declares(usr, InWorkspace(o.root)))
  IN  [n \in DOMAIN lacking |-> Finding("marker", lacking[n])]
OwnerFaults(o) ==
  IF o.id # "there" \/ o.owner # "there"
  THEN If(o.id = "absent", Finding("text", "owner"))
       \o If(o.owner = "absent", Finding("text", "owner"))
  ELSE If(o.markers = <<>>, Finding("no-markers", "owner")) \o Unmarked(o)
       \o (IF o.consumers = <<>> THEN <<Finding("no-consumers", "owner")>> ELSE Bypasses(o))

JudgeResponsibility ==
  /\ stage = "owners" /\ position < Len(Owned)
  /\ AddAll(OwnerFaults(Owned[position + 1])) /\ position' = position + 1
  /\ UNCHANGED <<stage, options, workspace, checks, checked>>
OwnedEnd ==
  /\ stage = "owners" /\ position = Len(Owned)
  /\ stage' = "facades" /\ position' = 0
  /\ UNCHANGED <<options, workspace, resultVars, checked>>

(* validate_facade: one that is missing is told, and is an error as well.  *)
FacadeFaults(f) ==
  IF "absent" \in {f.path, f.reason} \/ f.maximum = 0
  THEN If(f.path = "absent", Finding("text", "facade"))
       \o If(f.reason = "absent", Finding("text", "facade"))
       \o <<Finding("ratchet", "facade")>>
  ELSE If(f.exists /\ f.lines > f.maximum, Finding("grew", "facade"))
JudgeFacade ==
  /\ stage = "facades" /\ position < Len(Facades)
  /\ LET f == Facades[position + 1] IN
     \/ /\ f.exists \/ "absent" \in {f.path, f.reason} \/ f.maximum = 0
        /\ AddAll(FacadeFaults(f))
     \/ /\ "absent" \notin {f.path, f.reason} /\ f.maximum # 0
        /\ AddAnyway(Finding("missing", "facade"))
  /\ position' = position + 1
  /\ UNCHANGED <<stage, options, workspace, checks, checked>>
FacadesEnd ==
  /\ stage = "facades" /\ position = Len(Facades)
  /\ stage' = "dependencies" /\ position' = 0
  /\ UNCHANGED <<options, workspace, resultVars, checked>>
OverlongName ==
  /\ \/ stage = "owners" /\ position < Len(Owned)
     \/ stage = "facades" /\ position < Len(Facades)
  /\ err' = TRUE /\ position' = position + 1
  /\ UNCHANGED <<stage, options, workspace, findings, checks, checked>>

-----------------------------------------------------------------------------
(* validate_dependencies: the repository of a file is the nearest          *)
(* directory above it with a configuration.                                *)
Configured(path) ==
  {n \in 1 .. Len(path) - 1 : SubSeq(path, 1, n) \in DOMAIN workspace.configs}
ProductionFiles ==
  {f \in workspace.source.facts : f.kind = "FILE" /\ Production(f.path)}
RepositoriesOf(files) ==
  {SubSeq(f.path, 1, Max(Configured(f.path))) : f \in {g \in files : Configured(g.path) # {}}}
Unchecked == RepositoriesOf(ProductionFiles) \ checked

(* include_target: the directory an include begins with, if it is p101's.  *)
NoTarget == ""
IncludesIn(repository) ==
  {f \in workspace.source.facts : /\ f.kind = "INCLUDE" /\ f.name # NoTarget
                                  /\ Production(f.path) /\ Beneath(f.path, repository)}
Included(repository) == {f.name : f \in IncludesIn(repository)}
DependencyFaults(repository) ==
  LET declared == workspace.configs[repository]
      undeclared == {f \in IncludesIn(repository) : f.name \notin declared}
      used == Included(repository)
  IN  [n \in 1 .. Cardinality(undeclared) |-> Finding("undeclared", repository)]
      \o If("p101_tool_event" \in declared \ used, Finding("unused", repository))
      \o If("p101_record" \in used \ declared, Finding("undeclared-record", repository))

JudgeRepositoryOf ==
  /\ stage = "dependencies" /\ Cardinality(checked) < RepositoryLimit
  /\ \E repository \in Unchecked :
       /\ AddAll(DependencyFaults(repository))
       /\ checked' = checked \cup {repository}
       /\ checks' = checks + 1 + Cardinality(IncludesIn(repository))
  /\ UNCHANGED <<stage, options, workspace, position>>
(* One repository too many, or a configuration that cannot be read.        *)
LoseRepository ==
  /\ stage = "dependencies" /\ Unchecked # {}
  /\ GiveUp
  /\ UNCHANGED <<options, workspace, findings, checks, position, checked>>
ResponsibilitiesEnd ==
  /\ stage = "dependencies" /\ Unchecked = {}
  /\ checks' = checks + (IF options.facts THEN 0 ELSE workspace.sources)
                      + Cardinality(workspace.source.facts) + Len(Owned) + Len(Facades)
  /\ PolicyEnds
  /\ UNCHANGED <<options, workspace, position, checked>>

Responsibilities ==
  \/ DutiesRead \/ Gather \/ Scan
  \/ JudgeResponsibility \/ OwnedEnd \/ JudgeFacade \/ FacadesEnd \/ OverlongName
  \/ JudgeRepositoryOf \/ LoseRepository \/ ResponsibilitiesEnd

-----------------------------------------------------------------------------
(* What the register promises, said of the workspace.                      *)

OfTests == {"test", "tests", "fuzz", ".git"}
(* A file of the workspace that is not in a directory of tests or builds.  *)
Shipped(path) ==
  \A i \in Len(workspace.root) + 1 .. Len(path) - 1 :
    path[i] \notin OfTests \cup BuildNames
OwnerKept(o) ==
  /\ o.id = "there" /\ o.owner = "there" /\ o.markers # <<>> /\ o.consumers # <<>>
  /\ \A usr \in ToSet(o.markers) :
       \E f \in workspace.source.facts :
         f.kind = "FUNCTION" /\ f.usr = usr /\ IsPrefix(workspace.root \o o.root, f.path)
  /\ \A c \in ToSet(o.consumers), f \in workspace.source.facts :
       IsPrefix(workspace.root \o c, f.path) /\ Shipped(f.path) =>
         /\ f.kind = "FUNCTION" => f.usr \notin ToSet(o.definitions)
         /\ f.kind = "CALL" => f.usr \notin ToSet(o.calls)
FacadeKept(f) ==
  /\ f.path = "there" /\ f.reason = "there" /\ f.maximum > 0
  /\ f.exists /\ f.lines <= f.maximum
RepositoryKept(repository) ==
  LET used == {f.name : f \in {g \in workspace.source.facts :
                 g.kind = "INCLUDE" /\ g.name # NoTarget /\ Shipped(g.path)
                 /\ IsPrefix(repository, g.path)}}
      declared == workspace.configs[repository]
  IN  /\ used \subseteq declared
      /\ "p101_tool_event" \in declared => "p101_tool_event" \in used
DutiesKept ==
  /\ Duties.is = "valid" /\ Duties.text = "there"
  /\ Owned # <<>> /\ \A o \in ToSet(Owned) : OwnerKept(o)
  /\ Facades # <<>> /\ \A f \in ToSet(Facades) : FacadeKept(f)
  /\ \A repository \in DOMAIN workspace.configs :
       (\E f \in workspace.source.facts : f.kind = "FILE" /\ Shipped(f.path)
                                           /\ IsPrefix(repository, f.path))
         => RepositoryKept(repository)
(* The names that the policy misreads: of tests above the workspace, and   *)
(* of a file that begins as a directory of builds would; an item that is   *)
(* no text; a repository in a repository.                                  *)
NamesAreApart ==
  /\ ToSet(workspace.root) \cap (OfTests \cup BuildNames) = {}
  /\ \A f \in workspace.source.facts : Last(f.path) \notin BuildNames
  /\ \A o \in ToSet(Owned) :
       OddItem \notin ToSet(o.markers) /\ OddItem \notin ToSet(o.consumers)
  /\ \A r, q \in DOMAIN workspace.configs : IsPrefix(r, q) => r = q
=============================================================================
