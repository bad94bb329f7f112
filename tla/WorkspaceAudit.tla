--------------------------- MODULE WorkspaceAudit --------------------------
(***************************************************************************)
(* audit-workspace (components/workspace/src/main.c): the command line     *)
(* names one policy, which runs to its end or gives up; its findings are   *)
(* written, and the status follows from how many there are.                *)
(***************************************************************************)
EXTENDS UnitTestPolicy, ParityPolicy, InstrumentationPolicy, BoundaryPolicy,
        FaultPolicy, InventoryPolicy, ResponsibilityPolicy, LayoutPolicy,
        QualityPolicy

CONSTANT InputRuns   \* command lines, as parsed, with what a policy will read

(* What is read has the shape that the reader gives it.                    *)
ASSUME InputAssumption ==
  \A run \in InputRuns :
    /\ run.options.policy = "wrapper-unit-tests" => LibrariesTyped(run.workspace)
    /\ run.options.policy = "instrumentation" => TermsTyped(run.workspace)
    /\ run.options.policy = "native-wrapper-parity" => ContractTyped(run.workspace)
    /\ run.options.policy = "boundaries" => RegisterTyped(run.options, run.workspace)
    /\ run.options.policy = "wrapper-fault-semantics" => SemanticsTyped(run.workspace)

VARIABLES
  ran,       \* main's ran: the policy returned true
  written,   \* findings written so far
  output,    \* "none", "partial" or "whole"
  status,    \* main's status
  forgot     \* history: an error was reset that a look for a file found there

pathVars == <<lists, checked, layoutVars, enums>>
earlierVars == <<unitVars, rows, instrumentationVars, boundaryVars>>
tableVars == <<earlierVars, pathVars>>
policyVars == <<resultVars, position, tableVars>>
mainVars == <<ran, written, output, status, forgot>>
vars == <<stage, options, workspace, policyVars, mainVars>>

Success == 0
ExitFindings == 1
Trouble == 2

Policies ==
  {"wrapper-unit-tests", "native-wrapper-parity", "instrumentation", "boundaries",
   "wrapper-fault-semantics", "test-inventory", "source-responsibilities",
   "functional-library-split", "quality-contract"}

Init ==
  /\ \E run \in InputRuns : options = run.options /\ workspace = run.workspace
  /\ stage = "arguments"
  /\ findings = <<>> /\ checks = 0 /\ err = FALSE /\ position = 0
  /\ UnitInit /\ ParityInit /\ InstrumentationInit /\ BoundaryInit
  /\ InventoryInit /\ ResponsibilityInit /\ LayoutInit /\ QualityInit
  /\ ran = TRUE /\ written = 0 /\ output = "none" /\ status = Trouble
  /\ forgot = FALSE

(* parse_arguments: what follows -h is not looked at.                      *)
Acceptable(o) == ~o.malformed /\ ~o.help /\ o.policy # "none"
Arguments ==
  /\ stage = "arguments"
  /\ \/ Acceptable(options) /\ stage' = "resolve" /\ UNCHANGED <<err, status>>
     \/ /\ options.help /\ ~options.malformed
        /\ stage' = "end" /\ status' = Success /\ UNCHANGED err
     \/ /\ options.malformed \/ (~options.help /\ options.policy = "none")
        /\ GiveUp /\ UNCHANGED status
  /\ UNCHANGED <<options, workspace, findings, checks, position, tableVars, ran, written,
                 output, forgot>>

(* Both roots are made absolute, and the policy is looked up.              *)
Dispatch ==
  /\ stage = "resolve"
  /\ \/ options.policy \in Policies /\ stage' = options.policy /\ UNCHANGED err
     \/ GiveUp
  /\ UNCHANGED <<options, workspace, findings, checks, position, tableVars, mainVars>>

(* A policy that goes to the end without an error has returned false.      *)
Returns ==
  /\ ran' = ~(stage' = "end" /\ ~err')
  /\ forgot' = (forgot \/ (err /\ ~err'))
  /\ UNCHANGED <<written, output, status>>
UnitPolicy ==
  UnitTests /\ Returns /\ UNCHANGED <<rows, instrumentationVars, boundaryVars, pathVars>>
PairPolicy ==
  Parity /\ Returns /\ UNCHANGED <<unitVars, instrumentationVars, boundaryVars, pathVars>>
InstrumentPolicy ==
  InstrumentationAudit /\ Returns /\ UNCHANGED <<unitVars, rows, boundaryVars, pathVars>>
BoundariesPolicy ==
  Boundaries /\ Returns /\ UNCHANGED <<unitVars, rows, instrumentationVars, pathVars>>
SemanticsPolicy ==
  FaultSemantics /\ Returns /\ UNCHANGED tableVars
ScriptsPolicy ==
  TestInventory /\ Returns /\ UNCHANGED <<earlierVars, checked, layoutVars, enums>>
DutiesPolicy ==
  Responsibilities /\ Returns /\ UNCHANGED <<earlierVars, lists, layoutVars, enums>>
SplitPolicy ==
  FunctionalLayout /\ Returns /\ UNCHANGED <<earlierVars, lists, checked, enums>>
CataloguePolicy ==
  QualityContract /\ Returns /\ UNCHANGED <<earlierVars, lists, checked, layoutVars>>

(* Mutant of WriteFindings: when a finding cannot be written all of them   *)
(* are written again.                                                      *)
WriteFindingsAgain ==
  /\ stage = "write" /\ written < Len(findings)
  /\ output' = "partial"
  /\ \/ written' = written + 1 /\ UNCHANGED <<stage, err>>
     \/ err' = TRUE /\ written' = 0 /\ UNCHANGED stage
  /\ UNCHANGED <<options, workspace, findings, checks, position, tableVars, ran, status,
                 forgot>>
(* p101_workspace_audit_write: a finding that cannot be written ends it.   *)
WriteFindings ==
  /\ stage = "write" /\ written < Len(findings)
  /\ output' = "partial"
  /\ \/ written' = written + 1 /\ UNCHANGED <<stage, err>>
     \/ err' = TRUE /\ stage' = "written" /\ UNCHANGED written
  /\ UNCHANGED <<options, workspace, findings, checks, position, tableVars, ran, status,
                 forgot>>
(* The line with the counts.                                               *)
WriteEnds ==
  /\ stage = "write" /\ written = Len(findings)
  /\ stage' = "written"
  /\ \/ output' = "whole" /\ UNCHANGED err
     \/ err' = TRUE /\ output' = "partial"
  /\ UNCHANGED <<options, workspace, findings, checks, position, tableVars, ran, written,
                 status, forgot>>

Judge ==
  /\ stage = "written"
  /\ status' = IF findings = <<>> THEN Success ELSE ExitFindings
  /\ stage' = "end"
  /\ UNCHANGED <<options, workspace, policyVars, ran, written, output, forgot>>

Exit ==
  /\ stage = "end" /\ stage' = "ended"
  /\ status' = IF err THEN Trouble ELSE status
  /\ UNCHANGED <<options, workspace, policyVars, ran, written, output, forgot>>

Run ==
  \/ Arguments \/ Dispatch \/ UnitPolicy \/ PairPolicy
  \/ InstrumentPolicy \/ BoundariesPolicy \/ SemanticsPolicy \/ ScriptsPolicy
  \/ DutiesPolicy \/ SplitPolicy \/ CataloguePolicy
  \/ WriteFindings \/ WriteEnds \/ Judge \/ Exit

Ended == stage = "ended" /\ UNCHANGED vars

Next == Run \/ Ended

(* One thread, which goes on as long as it can.                            *)
Spec == Init /\ [][Next]_vars /\ WF_vars(Run)

-----------------------------------------------------------------------------
(* Properties.                                                             *)

Judged(policy) ==
  stage = "ended" /\ status # Trouble /\ Acceptable(options) /\ options.policy = policy

(* wrapper-unit-tests ends with status 0 only if each wrapping library is  *)
(* completely and truly tested as far as its manifests were read, and with *)
(* status 1 only if one is not or there are more APIs than the table       *)
(* holds.  A read error amid a manifest is its end for the code, so rows   *)
(* after it are not in this.  Where a test row's name is too long, what    *)
(* would be said of it is lost; a library that the roles name twice is     *)
(* read twice, and all its tests are duplicates then.                      *)
TestedIsEarned ==
  Judged("wrapper-unit-tests") /\ (workspace.roles = "valid" => NothingLong /\ NamedOnce) =>
    ((status = Success) <=> AllTested)

(* native-wrapper-parity ends with status 0 only if every row of the       *)
(* contract holds, and with status 1 only if one does not.  A row with a   *)
(* path or a message that is too long is the exception: it hides itself,   *)
(* and an overlong path all rows after it.                                 *)
ParityIsEarned ==
  Judged("native-wrapper-parity") /\ NoRowLong =>
    ((status = Success) <=> InParity)

(* instrumentation ends with status 0 only if the contract can be kept and *)
(* each API has a definition that does its part, and with status 1 only if *)
(* something of this is not so for some definition or there are more rows  *)
(* than the table holds.  A row that is there twice is one too many if the *)
(* table is full when it comes, and status 2 if it is not.  The rows of a  *)
(* manifest are those before a read error, which the code takes for its    *)
(* end: of an API after it nothing is said.                                *)
InstrumentedIsEarned ==
  Judged("instrumentation") =>
    IF status = Success THEN InstrumentedWell ELSE InstrumentedBadly

(* boundaries ends with status 0 exactly if the register is kept, as far   *)
(* as calls and notes have identities to go by and the receipt's records   *)
(* are records.                                                            *)
RegisterIsEarned ==
  Judged("boundaries") /\ (Register.is = "valid" => AllNamed)
  /\ (options.execution => \A r \in ToSet(Ran.records) : r.is = "record") =>
    ((status = Success) <=> RegisterKept)

(* wrapper-fault-semantics ends with status 0 exactly if the five modes    *)
(* are what they are meant to be, their enumerators are there, the two     *)
(* halves of the mechanism are called by the admitted wrappers alone, the  *)
(* evidence calls its wrapper, and both generated contracts have each.     *)
SemanticsAreEarned ==
  Judged("wrapper-fault-semantics") /\ (SemanticsReadable => NoneTwice) =>
    ((status = Success) <=> SemanticsKept)

(* test-inventory ends with status 0 exactly if each script is run by the  *)
(* graph or excluded, nothing excluded is missing or run under a name that *)
(* is not there, each entry point has its texts and its runner, and each   *)
(* repository is there once; status 2 where the tables are too small.      *)
InventoryIsEarned ==
  Judged("test-inventory") /\ (Inventory.is = "valid" => GraphReadable) =>
    ((status = Success) <=> InventoryKept)

(* source-responsibilities ends with status 0 exactly if no consumer does  *)
(* what an owner is to do, each owner has its markers, each facade is      *)
(* there and no longer than it may be, and each configuration is that of   *)
(* its sources, where no name is one that the policy misreads.             *)
DutiesAreEarned ==
  Judged("source-responsibilities") /\ (Duties.is = "valid" => NamesAreApart) =>
    ((status = Success) <=> DutiesKept)

(* functional-library-split ends with status 0 exactly if each identity of *)
(* the central map is one row of one library, which lies where its native  *)
(* header says and agrees with the map, and each library lists what it has *)
(* to and nothing retired is left.  If the look for something retired took *)
(* an earlier error with it, a finding may have been lost and status 0     *)
(* stands for the maps alone; status 1 is true in any case.                *)
SplitIsEarned ==
  Judged("functional-library-split") /\ ListedOnce =>
    /\ status = ExitFindings => ~SplitKept
    /\ status = Success => MapsKept /\ (forgot \/ SplitKept)

(* quality-contract ends with status 0 exactly if all that its catalogue   *)
(* refers to is there, each public enum of a library is classified with    *)
(* the variants it has, and nothing but main ends a process, as far as no  *)
(* file is taken for another.                                              *)
CatalogueIsEarned ==
  Judged("quality-contract") /\ (Quality.is = "valid" => PathsAreApart) =>
    ((status = Success) <=> QualityKept)

(* Each policy says 0 or 1 only if it is true.                             *)
PolicyIsEarned ==
  /\ TestedIsEarned /\ ParityIsEarned /\ InstrumentedIsEarned /\ RegisterIsEarned
  /\ SemanticsAreEarned /\ InventoryIsEarned /\ DutiesAreEarned /\ SplitIsEarned
  /\ CatalogueIsEarned

(* The receipt of the instrumentation policy says what the status says; a  *)
(* contract that cannot be used is the exception, where status 1 comes     *)
(* with no receipt and an earlier one stays.                               *)
ReceiptIsOfTheVerdict ==
  Judged("instrumentation") =>
    receipt = IF ~options.receipt \/ Terms.is # "valid" THEN "untouched"
              ELSE IF status = Success THEN "passed" ELSE "failed"

(* Where a file may still be looked for in vain, which may take an error   *)
(* with it (wrapper_unit_tests.c:365, native_parity.c:183,                 *)
(* functional_layout.c:803 and :919): until then trouble is not for good.  *)
MayForget == {"apis", "tests", "contract", "retired", "references", "root"}

(* audit-workspace implements AuditTool: it says 0 or 1 only when it met   *)
(* no trouble, but for what such a look made it forget, and has written    *)
(* all it has found.                                                       *)
Promise == INSTANCE AuditTool WITH
  Artifacts <- {"report"},
  wanted    <- IF stage = "arguments" \/ ~Acceptable(options) THEN {} ELSE {"report"},
  written   <- IF output = "whole" THEN {"report"} ELSE {},
  trouble   <- (err /\ stage \notin MayForget) \/ ~ran,
  status    <- IF stage # "ended" THEN "none"
               ELSE CASE status = Success      -> "clean"
                      [] status = ExitFindings -> "findings"
                      [] status = Trouble      -> "trouble"

KeepsPromise == Promise!ToolSpec

(* Every run ends.                                                         *)
EventuallyEnds == <>(stage = "ended")
=============================================================================
