# Verification of p101-audit

p101-audit is a family of command-line auditors for C code built on the p101
libraries. Each tool reads *facts* (declarations, calls, macros, includes,
notes, diagnostics) that the external library lib_c_facts delivers, judges
them, prints a report and ends with one of three statuses: `0` clean, `1`
findings, `2` trouble. A tool whose exit status cannot be relied on is worse
than none, so the question behind most of what follows is what a status of 0
or 1 is *worth*, whatever fails on the way there.

This directory holds TLA+ modules for all of the tools, the TLC
configurations that check them on small instances, and proofs checked by
TLAPS about each of them. Paths below are relative to the repository (`src/` is
its root).

1. [The system](#1-the-system)
2. [Modules and how they follow the code](#2-modules-and-how-they-follow-the-code)
3. [Runs, bounds and what they show](#3-runs-bounds-and-what-they-show)
4. [Fairness](#4-fairness)
5. [Proofs](#5-proofs)
6. [Where code and documents disagree](#6-where-code-and-documents-disagree)
7. [What is not modelled](#7-what-is-not-modelled)
8. [Plan](#8-plan)

## 1. The system

The programs are sequential and keep nothing between runs except the files
they write. What makes them hard is not threads. It is that every system
call, allocation and library call can fail, that an error does not unwind
but is kept in one object (`p101_error`) that each caller has to look at,
that facts arrive in an order and multiplicity nobody chose (once per
translation unit that includes a header), that bounded tables fill up, that
audit-doctor depends on child processes, and that the same conclusion is
often worked out by two cascades of conditions, one for the report and one
for the exit status.

| component | state | operations | what makes it correct |
|---|---|---|---|
| audit-doctor `components/doctor` | `struct arguments`, a directory of artifacts, `struct doctor_result` with the wait status of each tool, the error | parse; create the directory; record the command and the sources; run audit-wrappers, audit-errors and audit-modules (twice) as children; write summary, JSON, receipts; judge | 0 and 1 only when every required tool ran in *this* run and ended acceptably; receipt, evidence and status agree; an old directory is never reused; no argument vector overflows |
| wrapper audit: facts `src/src/model.c` | `facts`, `inventory`, `findings`: arrays that double; `parse_failures` | the observer the library calls back; macro owners; sort and deduplicate | nothing lost or invented, every diagnostic counted, strict order |
| wrapper audit: inventory `inventory.c` | the inventory, the loop positions over manifests and header roots | read a manifest row; scan a header root into the shared facts, read roles and public declarations, roll the facts back | each wrapper once and completely, whatever the order of its sources; header facts gone |
| wrapper audit: judgement `judge.c`, `judge_support.c` | the findings, the use counts of the allow rules | judge each fact; check that each rule was used | exactly the calls across the wrapper boundary that nothing allows are reported; printed identities work as rules; no dead rules |
| wrapper audit: capabilities `instrumentation.c` | an open-addressed hash table, capability sets, the changed flag | grow, insert, read notes, propagate over calls to a fixpoint | the table is a map; capabilities are the least fixpoint; the loop ends |
| wrapper audit: arguments `cli.c` | `struct p101_wrapper_arguments`: five bounded tables, switches, output paths | take one option after the other; read an allow file; settle the defaults | an option is in force or the run is trouble; no table overflows |
| wrapper audit: command `main.c`, `artifacts.c`, `output.c` | the mode, four optional files, stdout | the modes of `main`, the outputs in order, the report and the status | report, status and files agree; a clean run has judged everything |
| audit-errors `components/error-contract` | bounded tables of functions and events, ownership counts, `reachable`, findings | parse; load native or saved facts; judge each function with each event; ownership; handler closure; report | exits and contracts told exactly once; the closure is exact; a full table is trouble and never a clean result; what is lost without a word is named |
| audit-facts `facts_main.c` | as the wrapper audit | parse, scan, write facts and diagnostics | 0 only when everything was parsed and written |
| audit-modules `components/module-map` | bounded tables of modules, files, functions, calls, includes, macros, types, notes; the output file | parse; load native or saved facts; the rules in eleven sections of the report; the layer file | a report that comes with 0 or 1 is a function of the set of facts; a clean one is true of the facts that were delivered; an older report is untouched until the facts are complete |
| audit-workspace `components/workspace` | one of nine policies per run, with its bounded tables, a growing array of findings, contracts, manifests, directories, a semantic bundle or a scan | parse; run the policy; write the findings; judge | 0 and 1 are true of the workspace the contract describes |
| api snapshot and compare `components/api` | arrays of records, the snapshot files | read manifests and facts, check, sort, write; load two snapshots and walk them | a snapshot is exactly what the workspace offers; a comparison names exactly the APIs that were not kept; an older snapshot is replaced by a complete run only |

How they interact. audit-doctor starts the others as child processes, hands
the facts audit-wrappers writes to the next two as a file, and knows of them
only the wait status and the files they leave. audit-wrappers and
audit-errors are called back by lib_c_facts for every record, and a callback
that fails ends the scan. Inside the wrapper audit, the inventory, the source
scan and the judgement share one model object: header facts are put into the
array the source facts will use, and have to be taken out again. audit-modules
is called back in the same way; audit-workspace and the api tools read the
semantic bundle audit-facts wrote. `compare` reads files that two earlier
`snapshot` processes left, whole or torn.

`PROJECT.json` lists every component and every hazard of the code at its
line, with the properties that would catch it going wrong, or the reason why
none does.

## 2. Modules and how they follow the code

Conventions. `pc` or `stage` is the point the program has reached; one action
is one handler or loop body of the code, all its assignments included. `err`
says that the `p101_error` is set; it stays so, but where the code resets it. What the program does not control is chosen with
`\E`: whether a call fails, what a child returns, in which order records
arrive, which of two equal elements `qsort` puts first. Text is abstracted to
whether a file is absent, untouched, cut short (`partial`), `whole` or left
from an earlier run (`stale`), and for a child's file whether it is there at
all (`child`): its condition is not looked at by anybody. A definition that stands for a plausible bug
is marked "Mutant of" in its comment: it is used by no behaviour, and replacing
the definition it mutates by it must make a property fail. The map from
definitions to source lines is in `PROJECT.json`.

**audit-doctor**

- `Conductor` is the promise: a set of required checks, one result for each,
  and the worst one as the verdict; giving up is possible at any time and
  means trouble.
- `Doctor` is the program. `Option`, `ShowHelp`, `CheckArguments` are
  `cli.c` with its bounded tables; `MakePaths` to `WriteRecords` the set-up;
  `StartWrapper` / `WrapperEnds` and the like one child each, its argument
  vector (`argv`), its capture files, and its wait status, which is all
  `runner.c` takes of a child: its files may be there or not with any status
  (`test/test_cli.sh` has children that end with 0 and write nothing). A
  failure of fork, redirection or wait gives the plain `2` that `runner.c` returns;
  `ModuleJsonEnds` combines the two runs of audit-modules; `WriteSummary`,
  `WriteJson`, `WriteEvidence`, `WriteReceipt` are the four reports, written
  one after the other with no look at the error between them; `RunVerdict`,
  `FinalStatus` and `Exit` are the cascade of `p101_doctor_run` and the end of
  `main`. `KeepsPromise` is the refinement of `Conductor`.

**The wrapper audit**

- `WrapperFacts` holds what all of its modules share: the three arrays and
  their growth (`Doubled`, `MakeRoom`, `NoRoom`), the comparison of facts,
  whom a fact belongs to and which wrapper it is for.
- `WrapperObserver` is the callback; `WrapperScan` the scan of the sources
  with `assign_macro_callers` and `deduplicate_facts`.
- `WrapperInventory` is `p101_wrapper_model_load_inventory`: `ReadRow` and
  `ManifestEnds` for manifests; `StartRoot`, `ReadRole`, `ReadPublic`,
  `RolledBack` for header roots.
- `WrapperJudge` is `p101_wrapper_model_judge`: one action for each way the
  loop body ends (`JudgeInclude`, `JudgePassBy`, `JudgeAllowed`,
  `JudgeImplementation`, `JudgeCrossing`), and `CheckRules`.
- `Instrumentation` is `p101_instrumentation_collect`.
- `WrapperArguments` is `p101_wrapper_parse_arguments`: `ParseOption` takes
  one option (`TakeSwitch`, `TakeValue`, `TakeAllowFile`, `TakeNone`),
  `ParseEnd` is what follows the loop. `arguments` and `roots` start empty and
  hold what the later stages use.
- `AuditWrappers` composes the parse, the inventory, the scan and the
  judgement as `main` does, adds the modes, the four files and the report, and
  refines `AuditTool`, the promise any tool of the family makes: trouble is
  never forgotten, and who met none has written all it was asked for.
  (audit-workspace can forget an error; see its paragraph below.)
  `factsOnly` chooses the program: audit-facts (`facts_main.c`) goes from the
  parse to the scan at once and ends with `WriteFactsOnly`.

**audit-errors**

- `ContractModel` is the command line's data (`Arguments`) and the load: the observer, `add_function`, `add_event`, the
  markers and the ownership files, with the limits `MaxFunctions` and
  `MaxEvents`.
- `ErrorContract` is the program: `ParseArguments` (`Acceptable` is what
  `cli.c` demands of a line), the load of `ContractModel`, and the judgement:
  `JudgeFunction` (single exit),
  `JudgeEvent` (every event rule, `Broken`), `JudgeOwnership`,
  `MarkHandlers`, `FollowCall`, `PassEnds` (the do-while loop over the calls),
  `JudgeSignalEvent`, the report and the status.

**audit-modules**

- `ModuleMap` is the whole program. `Arguments` is `cli.c`. `Read` takes the
  next record: `Apply` is the observer or the loader of saved facts, `Store`
  the insertion into the table of the record's kind with its counters
  (`Counters`, `Repeated`, `Refused`: what is a duplicate, and what the limits
  do with the rest). `EndLoad`, `Open` and `BeginFails` come between the facts
  and the report, `WriteSection` writes one of the eleven `Sections`, each
  with its rules (`ModuleRules`, `FunctionRules`, ..., `GuardRules`), and
  `EndReport` and `Exit` close the file and choose the status. A name is the
  sequence of its words, so that prefixes and suffixes can be compared.
  `KeepsPromise` is the refinement of `AuditTool`.

**The api tools**

- `ApiSnapshot` runs a script of commands, each a process of its own, on files
  they share: `Start`; `LoadManifest`, `ManifestsEnd`, `ReadFact`,
  `SemanticsEnd` (completeness, sort, duplicates), `OpenOutput` (from here on
  the old file is gone), `WriteRecords` for a snapshot; `LoadSnapshots`,
  `CompareRecord`, `CompareEnds` for a comparison; `Exit`, `NextCommand`. The
  insertion sort, which is stable, is stated by the place it gives each record
  (`Place`), the rows of a manifest by their numbers among those that count
  (`Nth`).

**audit-workspace**

- `WorkspaceResult` holds what every policy shares: the array of findings that
  doubles, a message that may not fit, giving up, the loading of the bundle, a
  look for a file that is not found (`NotFound`, `TellMissing`), and the rows
  that are left of a file if a read error is taken for its end (`Delivered`).
- `UnitTestPolicy` is wrapper-unit-tests: the manifests of each library, row
  by row and as far as they were read (`Read`), then each API with the calls of
  its test.
- `ParityPolicy` is native-wrapper-parity: the contract row by row, then each
  pair with the calls that show it.
- `InstrumentationPolicy` is instrumentation: `TermsRead` (the contract),
  the roles of the libraries with a manifest each (`LoadManifest` keeps the rows
  before the first bad one; `ReadFor` are those before a read error), `AssignFacts` (the definition of each API; of
  several the last one counts), `JudgeInstrumented` and `ValidateRequired` (what
  each API must be able to do), `WriteReceipt` (the file).
- `BoundaryPolicy` is boundaries: `RegisterRead`; `JudgeBoundary` for each row
  of the register; `NoEvidence`, `JudgeEvidence` and `OverlongIdentity` for
  each of its tests, with the buffers `last` and `seen` that outlive a test;
  `ReceiptRead` and `JudgeOwner` for the execution receipt.
- `FaultPolicy` is wrapper-fault-semantics: `JudgeMode` for each of the five
  modes of the contract, `JudgeIdentity` for each wrapper that admits short
  calls, and then the parts of `validate_fact_mechanism` and
  `validate_derived_contracts` one after the other (`JudgeFaultPart`).
- `InventoryPolicy` is test-inventory: `GovernNode` (the scripts the check
  graph runs), `JudgeEntry`, `JudgeExclusion`, `CollectScripts` (a directory,
  with `LoseScripts` and `MissScripts` for what can go wrong there),
  `JudgeRepository`, and `JudgeInventory` for the three comparisons of the
  lists in `lists`.
- `ResponsibilityPolicy` is source-responsibilities: `JudgeResponsibility` for
  each owner, `JudgeFacade`, and `JudgeRepositoryOf` for each repository that a
  production file belongs to, with the table `checked`.
- `LayoutPolicy` is functional-library-split: `CollectCentral`; for each domain
  `EnterDomain`, `JudgeManifestRow` or `SkipManifestRow` for each row,
  `JudgeLayout`, and `LookForRetired` for each directory a retired library may
  have left; `JudgeOwnership`, `ScanReferences` and the roots that are looked
  for in vain (`LookInVain`, `RootEnds`) at the end.
- `QualityPolicy` is quality-contract: one section of the catalogue after the
  other, each with the same frame (`Judging`, `SectionEnds`), and the table
  `enums` that two sections fill and `JudgePublics` asks.
- `WorkspaceAudit` composes them: `Arguments`, `Dispatch`, one of the nine
  policies, `WriteFindings`, `WriteEnds`, `Judge`, `Exit`. It refines
  `AuditTool`, with one reservation. `file_exists` (`common.c:173`) and the
  search of a root (`functional_layout.c:917`) reset an ENOENT, and whether an
  error that was there before goes with it depends on lib_error, which is not
  part of the repository. So the model leaves it open: any such look may forget
  an error, and an error counts as trouble for good only where no look of this
  kind can follow (`MayForget`). `forgot` is a history variable: it says that
  this has happened, and no action asks for it.

In the contracts of these policies a text is there, absent or too long for its
buffer, because the code reacts in three ways: a finding for the second, an
error for the third, and no finding once there is an error (`Silenced`).

The modules `MC*` give the constants small values; `MCPolicyWorkspaces` has the
workspaces for the last five policies. The modules `*Proofs` hold the theorems:
`DoctorProofs`, `ErrorContractProofs`, `WrapperScanProofs` (of `WrapperScan` and
`WrapperInventory`), `WrapperJudgeProofs` (of `WrapperJudge` and
`Instrumentation`), `AuditWrappersProofs`, `ModuleMapProofs`,
`ApiSnapshotProofs` and `WorkspaceProofs` (of `WorkspaceAudit` and its policies).

## 3. Runs, bounds and what they show

Every run is exhaustive for its instance. Deadlock is checked in all of them:
a finished run stutters by an action of its own (`Terminated`, `Stopped`,
`Ended`). Every property has a mutant that breaks it.

**`doctor`** (1,974,890 distinct states). Any command line of up to three options
(flags, values present, empty or missing, sources), two source slots, so
that the table can overflow; every system call may fail; each child may end
with 0, 1, 2 or a signal and, whatever its status, leave each of its files or
not; the directory may be there already; `access` may fail on the artifacts of
a receipt (on one of audit-doctor's own and one of a child's together,
`FewBlindSets`). `VerdictMatchesTools`: 0 and 1 are true of this run's
tools. `ReceiptIsTrue`: the receipt's own cascade agrees with the status, and
a receipt that says clean is true even beside status 2. `VerdictHasEvidence`:
with a verdict of 0 or 1, the four files audit-doctor writes itself are
complete, every required child had its capture, and `receipt.txt` is a true
account of what is on disk in the end, missing artifacts included. It does
not say that the artifacts of a child are there: the code does not ask.
`LeftoverUntouched`, `ArgvFits`, `KeepsPromise`, `EventuallyExits`. Three
options are enough to combine any two values that interact with a third; codes
above 2 are treated as 2 by every condition of `status.c`. The reserves (12
and 10) are those of `constants.h`.

**`judge`** (23,346). Any two facts of a small program and any two with the
body of `main`, two inventories, eight sets of `--allow-usr` and allow rules;
the arrays start with capacity 1, so growth (and its failure) happens. The
judgement relates at most two facts at a time (a call and the body or macro
around it, a finding and an earlier one), so three facts show every relation.
`FindingsAreExact`: what the judgement reports is what crosses the boundary.
`IdentityIsCopyable`: the identity a finding prints allows that call when used
as a rule. `AuditMeansRulesMatch`: a run that reaches its report has no rule
that allowed nothing.

**`scan`** (92,843). Every sequence of up to four of nine records that two
translation units may deliver about one header, each growth failure, records
that do not fit, and every order `qsort` may leave equal facts in.
`ScannedIsWhatWasSeen` (the diagnostics counted included); `ExpansionsOwned`: an
expansion in a body has the owner its call, its body or its record gives it, and
one with a USR unless a record lacks one.
Four records hold a macro expansion, a call that can own it, a body around
it, and a duplicate of any of them.

**`inventory`** (84,598). Up to two manifests of up to two rows and two header
roots of up to three records, naming two wrappers in every order.
`InventoryIsTheSources`: one entry per wrapper, complete, and no fact of a
header left behind; and the action property `KnownIsKept`: a native identity
once known is never replaced.

**`instrumentation`** (10,489). Two, three and five functions whose hashes
collide at the end of the table (wrap-around), in a table that starts with
two slots and has to grow; up to three notes and calls, cycles and calls into
another repository included. `TableIsTheMap` (and never full),
`CapabilitiesAreLeast`, `EventuallyCollected`.

**`audit`** (108,580). Both programs as a whole. Forty command lines: each mode,
with and without a header root, allow file, strictness and output files; and
lines that fill a table exactly or with one entry too many (one path, two
names), hold a bad row, an unknown option, or `-h` in a place where it is no
success. A manifest or none, up to two of five source records, every stage may
fail. `StatusIsEarned`: the report agrees with the status, and status 0 means
that every option of the line is in force and everything was delivered and
judged. `EarlierOutputsWhole`, `KeepsPromise` (implements `AuditTool`). The
details of scan and judgement are the business of the runs above; this one
asks whether the stages hand on their failures. Options meet only in the table
they share and in the mode they choose, so pairs of them and one overflow of
each table show what there is.

**`errors`** (170,856). Seven command lines (strict or not, native or saved
facts, malformed, help). Up to three functions recorded once or twice, with up to
two of eighteen records inside the first; four call graphs with a handler
(cycles, a call of `exit`, shared objects), their records in every order;
ownership lists of up to three; and lists one too long for the tables, which
have room for three functions and four events; saved records on lines longer
than the read buffer. `ToldOnce`: a function with
more than one distinct exit, or a contract broken, is told exactly once,
although a header is recorded once per translation unit. `ReachableIsLeast`,
`UnsafeCallsReported`, `CleanIsEarned` (a clean run has judged every record it
was given, all but those on saved lines too long for the buffer, which
`p101_error_contract_load_facts` passes over), `EventuallyEnds`.

**`module_map`** (79,208). Twelve command lines; streams of up to six records
in every order, a header's records twice, native or saved; tables of three
records (includes four, notes one), so that each of them fills up. Each stream
is about a few rules or one limit, since the rules meet only in the tables
they read. `ReportIsOfTheFacts`: a report with status 0 or 1 is the one that
comes of tables with every fact once, which `IdealTables` takes from the set
of facts. This is what would break if a counter were counted per record or a
lookup depended on which record came first. `CleanMapIsEarned` says status 0
in terms of the facts alone, those that were delivered: a saved line longer than
the buffer is passed over, and a stream that has such lines besides others may
end with 0 (`test_cli.sh:194` expects it), so that the input was whole is not
claimed. Both ask that no two facts about one site of a
function (name, path, line) contradict each other (`SitesAgree`):
`same_declaration_site` looks no further, so the first would count. A header
parsed twice under different macros could say two things of one site.
`OldReportKept` (action property): a run whose facts are incomplete does not
touch an earlier report. `KeepsPromise`, `EventuallyEnds`.

**`api`** (43,376). Four sound workspaces (libraries and headers that move,
platforms, types, roles and values that change) compared pairwise, one whose
headers announce a value twice alike, twelve that contradict themselves or are
malformed, facts in every order; files left by versions 1 to 4, empty or torn.
`SnapshotIsTheSurface`, `CompareIsExact`, and the action property
`OldSnapshotKept`. A snapshot `Covers` its workspace if it has one record of
the surface for each identity; from which header a value is taken that two
announce alike depends on the order of the facts (`Shared`).

**`workspace`** (518,258). For the unit tests, every pair of small manifests of
one library, manifests whose last rows a read error leaves unread, lists of three
libraries, and one library that is listed twice. For parity, contracts of up to two
rows of eleven kinds and one of three, with five sets of facts. For
instrumentation, contracts with roles, demands and manifests that are good,
bad or too many for the table (of the last kind one whose last row repeats its
first), and definitions that lack one capability or another, or are there twice. For boundaries, registers of up to three rows
with two tests each, evidence by role and by marker, and execution receipts.
For each of the other five policies, a workspace in which the contract is kept
and 25 to 50 others that differ from it in one place, or in two that meet: a
field absent, wrong or too long, a row too many or twice, a fact, a file or a
caller that is missing or ought not to be there. A policy looks at most of its
rows one by one, so one deviation at a time shows what becomes of it; two are
there where the code relates two rows (an identity in two lists, two domains of
one library, a mode that takes over what the one before it left).
Tables hold three (repositories to check and classified enums two), and the
array of findings starts with one. Every policy reaches the statuses 0, 1 and 2.

`PolicyIsEarned` has a named part for each policy: status 0 and 1 are what the
workspace deserves, where what it deserves is said of the workspace itself, and
not by way of the tables, the order of the rows or the buffers the code uses.
Each names its exceptions, which are the places where the code does not do so
(section 6 tells more of them):

- names and paths too long for their buffers, calls and notes without an
  identity, records of a receipt that are none; of several definitions of one
  API, status 0 says only that one does its part;
- `Read` and `ReadFor`: the rows of a manifest behind a read error, which is taken
  for its end. In wrapper-unit-tests and instrumentation status 0 says nothing of
  them: an API there is in no table, and nobody misses it;
- `forgot`: in functional-library-split, a look for a retired directory or for a
  root may have taken an earlier error with it, so that a finding which was lost
  with that error is missing. Status 0 then says no more than that the maps are in
  order (`MapsKept`: no identity twice, each row where it belongs); status 1 is true in any case. In the two other policies
  that look for files nothing is excepted: what was not found is told itself;
- `NamedOnce`: a library that the roles name twice;
- `NoneTwice`: a generated contract that has one wrapper twice;
- `GraphReadable`: a node of the check graph whose command is no text;
- `NamesAreApart`: a workspace beneath a directory named `tests` or the like, a
  file whose name begins as that of a build directory, a list with an item that
  is no text, a repository in a repository;
- `ListedOnce`: a file that is listed twice, a native header whose derived
  name is too long;
- `PathsAreApart`: two files whose paths end alike.

`ReceiptIsOfTheVerdict`: the receipt of instrumentation says what the status
says. `KeepsPromise`: status 0 and 1 come only without trouble, as far as no
look in `MayForget` has taken it away, and after all findings were written.
`EventuallyEnds`. Two tests for the six of boundaries are
enough: a test has a predecessor and the last one is treated apart.

The two runs whose name has a suffix (`judge_two_wrappers`,
`errors_exit_in_handler`) each check one statement of the repository that the
code does not keep; see section 6.

`Doctor`, `WrapperScan` and `ErrorContract` have a type invariant; that of
`WrapperScan` contains `WithinCapacity`, that no array is filled beyond what
was allocated.

## 4. Fairness

Each specification has weak fairness of the program's own step and nothing
else: `WF_vars(Next)` in `Doctor`, `WF_vars(Main)` in `AuditWrappers`,
`WF_vars(Run)` in `ErrorContract`, `ModuleMap`, `ApiSnapshot` and
`WorkspaceAudit`, `WF_vars(Collect)` in `Instrumentation`, `WF_vars(Judge)` in
`WrapperJudge`. The programs have one thread, whose loops wait for nothing but
a child (`Doctor`) or the library's scan. That these end is an assumption: the
code puts no time limit on either. Liveness is checked where a loop could fail to end:
the closures (`Instrumentation`, `ErrorContract`) and the whole programs
`Doctor`, `ModuleMap` and `WorkspaceAudit`; the other runs claim none.

## 5. Proofs

Eight modules hold theorems; tlapm checks every one of them to the last leaf.
Each extends the module (or the two modules) it is about. What is assumed are
only the assumptions the modules declare, each evaluated by TLC on the
instance of a run:

- `DoctorAssumption`: the table sizes are natural numbers, the argument
  reserves are at least as large as the fixed options (12 and 7), exit codes
  are 8-bit and 0, 1 and 2 among them.
- `ContractAssumption`, `LimitAssumption` and the capacities of the policies:
  records and command lines have the right type, a table has a size (of those
  in which the code looks before it adds, at least one).
- `WrapperAssumption`: the relations that stand for what the library says of a
  text (`Rank`, the order of `strcmp`, is injective and puts "" first; an
  identity that is derived is not empty). `ScanAssumption`,
  `RecordsAssumption`, `InventoryAssumption`, `ArgumentsAssumption`: the types
  of records, manifests, roots and command lines.
- `JudgeAssumption` of `WrapperJudge` and `InstrumentationAssumption`: facts
  come as the scan leaves them, sorted and without duplicates; that
  only calls are indirect is how lib_c_facts fills a record.
- `JudgeAssumption` of `ErrorContract`: the safe functions are names.
- `StreamAssumption` and `ArgumentsAssumption` of `ModuleMap`: a stream is
  finite and each of its records comes at least once; the two limits of the
  command line are natural numbers (`unsigned` in `struct arguments`).
- `InputAssumption` of `WorkspaceAudit`: roles that can be read are a list of
  libraries whose manifests are lists of rows (`LibrariesTyped`), a contract for
  parity that can be read is a list (`ContractTyped`), one for instrumentation
  has lists of roles and of demands, and a fact is not the mark that stands for
  none (`TermsTyped`); a register and a receipt are lists, whose rows have the
  fields the reader gives them, and facts are finitely many (`RegisterTyped`);
  a fault mode and the mechanism are there or missing, the wrappers admitted and
  the entries of the generated contracts are lists, and a fact has its texts
  (`SemanticsTyped`).
- `AbsentAssumption` of `FaultPolicy`: the mark of a field that is not there is
  none of the texts that the contract is compared with.
- `ScriptAssumption` of `ApiSnapshot`: commands name files that the model has;
  identities are numbers; a type is no empty text and a role not the text
  that stands for none; the kind of a value is not that of a function, a role
  is said of functions and not of values, and no identity has both a type and
  an empty value. These are facts about what lib_c_facts emits: a USR names
  one declaration, and a note is written with its text.

None bounds the number of records, functions, rules, rows or findings.

### audit-doctor (`DoctorProofs`)

The safety properties of a verdict are not inductive by themselves: that a
status of 0 is true at the end depends on which statuses may be set at each
point before. `DoctorInv` says this: `TypeOK`; `ErrorChecked` (at the points
where the code has just looked, there is no error); `HelpOnlyPrints`;
`NotJudgedYet`; `ToolsSoFar` (at each point, which tools have reported);
`Concluded` (what is known once the verdict is); `LeftoverRefused` (a directory
from before is never entered). From `Invariance` (`Spec => []DoctorInv`) follow

- `TypeCorrect`, `VerdictSound` (`VerdictMatchesTools`),
  `NeverReusesLeftovers` (`LeftoverUntouched`), `ArgvAlwaysFits`: for every
  limit and every number of sources, so also for the real 16 of the code
  where TLC uses 2;
- `Refinement` (`KeepsPromise`): each action is a step of `Conductor` or a
  stutter, with one step of the proof per action.

`EvidenceInv`, proved on top of `DoctorInv`, follows the files: a record once
taken is kept (`RecordsKept`), so is the capture of a child that was started
(`SourcesKept`, `ModuleKept`), each report that was closed without an error is
whole and the evidence receipt says what is on disk (`ClosedSoFar`), the run
receipt, once written, is `ToolReceipt` of the statuses (`ReceiptSaid`),
and what ends has all of them (`Finished`). It gives `VerdictEvidenced`
(`VerdictHasEvidence`) and `ReceiptTrue` (`ReceiptIsTrue`).

### audit-errors (`ErrorContractProofs`)

- `TypeCorrect`: for all records and all table sizes, the tables stay within
  their limits, the positions that are judged exist, and only functions are
  reached. `First` (the smallest position with a property) is defined with
  `CHOOSE`; `FirstIsIn` shows that it exists, from the well-foundedness of
  strict inclusion between finite sets.
- `ClosureIsLeast` (`ReachableIsLeast`): the inductive invariant `ClosureInv`
  says that while the loop runs, `reachable` holds the handlers and lies in
  every closed set that does; that a pass without a change has every call it
  has passed inside `reachable`; and that the loop ends closed. Without the
  middle part, the end of a pass says nothing about the calls before the last
  change.
- `UnsafeCallsTold` (`UnsafeCallsReported`): `SignalInv` says that the calls
  told so far are those of the records passed so far that have to be told,
  that nothing else tells this rule, that the report is reached without error
  only, and that what is reached is the first record of a function with an
  identity.
- `CleanEarned` (`CleanIsEarned`): `CleanInv` relates the tables to the records.
  As long as no error is set, every record that has been delivered, and was not
  lost on an overlong saved line (`Taken`), is in the
  table it belongs to (`TablesMatch`), after the load that is every such record
  (`AllKept`), and from the handlers on an ownership list without a finding
  has none to find.
- `ToldOnlyOnce` (`ToldOnce`): `ToldInv` says what was told of each function by
  the events judged so far (`UpTo`), and that `covered`, the code's
  `env_reported` and `error_reported`, is set exactly if the function under
  judgement was told; the flags alone know nothing of the functions before.
  `TwoExits` shows that an exit recorded twice counts once.

### wrapper audit (`WrapperScanProofs`, `WrapperJudgeProofs`, `AuditWrappersProofs`)

- `ScanIsExact` (`ScannedIsWhatWasSeen`) and `OwnersFound` (`ExpansionsOwned`),
  from `SeenInv`: during the scan the facts are the records so far and the
  diagnostics are counted (`CountedInv`, `RecordedInv`, `CompleteInv`); the
  assignment of expansions changes the owner only (`AssignedInv`), so that
  facts alike before it are so afterwards; and of a class of duplicates
  one is kept (`KeptInv`). `qsort` is any order the comparison admits; the
  lemmas about sorting and removing duplicates speak of all of them. What an
  owner is could not be told from the facts at the end alone when the library
  leaves a USR out: `ExpansionsOwned` names that case (`Anonymous`).
- `InventoryIsExact` (`InventoryIsTheSources`) and the action property
  `NeverForgotten` (`KnownIsKept`), from `LoadInv`: the inventory holds exactly
  the rows, roles and public wrappers passed so far, each once (`UniqueInv`),
  and the facts of a root are behind `first` while it is read
  (`RootFactsInv`). The set of diagnostics counted is finite because it is a
  union of images of finite sets; `DiagnosticsInv` counts it root by root.
- `MapExact` (`TableIsTheMap`): `TableInv` says that a slot holds the first
  definition of its USR, none twice, and that every function behind the loop
  is reached by its probes without a gap. That the probing ends needs a free
  slot: `BigEnough`, with a table twice the number of the functions, and the
  pigeonhole argument in the lemmas. It holds for every hash function.
- `LeastCapabilities` (`CapabilitiesAreLeast`): `CapabilitiesInv`, for the
  closure under calls what `ClosureInv` is in audit-errors, for each capability.
- `FindingsExact` (`FindingsAreExact`), `IdentityCopyable`, `RulesMatch`
  (`AuditMeansRulesMatch`): `FindingsInv` says that each fact behind the loop
  that crosses the boundary has a finding of its name and place, that each
  finding has a reason among these facts, and that no two tell the same.
  `UsesInv`: a use that was counted was one.
- `EarlierFirst` (`EarlierOutputsWhole`) and `Refinement` (`KeepsPromise`) of the
  whole command, from `MainInv`: its parts say that a line that was not taken
  and any error lead to the exit (`ErrorsEnd`), that the files come after
  the scan and stdout last (`OutputsInv`), that a diagnostic among the facts has
  been counted (`FactsInv`: without it a removal of duplicates or a root that
  is rolled back could take a failure out of the status), and what the
  exit is reached with (`ExitEarned`). The lemmas about the scan are
  those of `WrapperScanProofs`, by `INSTANCE`; `SameTypes` and its neighbours
  show that the definitions mean the same in both.
- `StatusEarned` (`StatusIsEarned`), from `EarnedInv`, which adds to `MainInv`
  one invariant for each stage whose work status 0 vouches for: `LineInv` (each
  option looked at is in force as long as the line is valid, and all were
  looked at when the parse ends), `DeliveredInv` and `RootsInv` (a diagnostic
  that was delivered has been counted, for each root behind the loop too, and a
  scan is left without an error only at its end), `JudgedInv` (each crossing
  behind the loop has a finding) and `EndInv` (what a run that is over relies
  on). An option in force must stay so while later options are taken:
  `InForceStays`, with one lemma per kind of option. That the rows of an allow
  file all arrive, in their order and without the blank ones, rests on
  `NthOfFilled`: the count of the filled rows before one is a bijection
  from these rows to their numbers.

### audit-modules (`ModuleMapProofs`)

`RunInv`: an error ends the run unless the report is being written
(`TroubleInv`), the file is opened when every record is in (`FileInv`), the flag for
broken rules agrees with the findings told (`WroteInv`), and so with status and
outcome at the end (`EndInv`, `EndedInv`). It gives `OldReportSurvives`
(`OldReportKept`), `Refinement` (`KeepsPromise`), and `VerdictAgrees`, the
conjunct `VerdictIsOfTheReport` of `ReportIsOfTheFacts`.

What the report says takes a second invariant, `MapInv`. `TablesInv`: as long
as there is no error, the tables hold the facts of the records read. What that
means is said by `Holds(t, M, P, F)`, which does not speak of an order: the files
are the paths `P`, the modules the names `M`, each once and with the counts
its rows deserve (`Counted`), no table has a row that is not one of the facts `F`
(`NoneInvented`), none of the includes and calls is missing and of every other
site there is one row (`NoneLost`, `SitesOnce`), except that notes may be
missing once their table is full. `FileAdded` and `FactAdded` show that
`add_named_source_file` and the `add_` functions keep it: this is where a
counter counted per record, a module entered twice or a row dropped at a limit
without an error would show. `LoadInv`: when the file is opened no record is left.
`ReportInv`: the report has the findings of the sections written so far
(`Findings`).

`ReportExact` (`ReportIsOfTheFacts`) then needs no induction over the stream:
the tables of the run and `IdealTables` both hold the facts (`IdealHolds`), tables
that hold the same facts are `Alike` (`HoldersAlike`), the questions of
`model_query.c` have the same answers in like tables (`AnswersAlike`), and so each
rule says the same of like places (`ModuleRulesAlike` to `OwnHeaderRuleAlike`,
`SectionsAlike`). Rows of one site may differ in what nobody asks of them, which is
why likeness asks for the site alone of macros, types and notes.
`CleanEarned` (`CleanMapIsEarned`) reads the facts back from the rules that are
not broken. It speaks of the facts that were delivered and agree about each site
(`SitesAgree`); a fact on an overlong saved line is not among them.

### audit-workspace (`WorkspaceProofs`)

That the command keeps the promise of `AuditTool` depends on all nine
policies: one that cleared the error on its way, or went on in the stage of
another policy, would let a run that failed end with status 0. `ErrInv` says
in which stages there may be an error, and there is one lemma for each policy
(`UnitStep` to `QualityStep`). Six of the nine never clear it: their steps stay
`Within` their stages and leave an error set. The other three look for files
with the error object, and what is proved of them is weaker (`Roaming`): an
error can be lost only from one stage in `MayForget` to another, and a stage of
this kind is entered from outside without an error. So trouble met before or
after these stages is kept, and the model takes no view of lib_error inside
them. `ForgotInv` says that nothing was forgotten in a run of another policy.
For all this no more is needed of their tables. `RunInv` adds that there is no status
before the end, that the findings are whole only after the line with the
counts, and that a run that ends without an error has either a verdict
or a policy that gave up. From it `Refinement` (`KeepsPromise`). `ReceiptInv`
adds that only the instrumentation policy touches the receipt, in its last step,
and that nothing changes the findings from there to the status:
`ReceiptAgrees` (`ReceiptIsOfTheVerdict`).

Five conjuncts of `PolicyIsEarned`, what status 0 and 1 mean, are proved for
contracts of any length. `ParityEarned` (`ParityIsEarned`), from `ParityInv`: a
finding told means that the contract does not hold, and as long as there is
none the table has the rows read so far, in their order (`RowsTaken`), and each
pair passed is shown by a test. A row with a path or a message too long for its
buffer is the exception that the property names (`NoRowLong`, section 6). In
this policy and in wrapper-unit-tests an error can be forgotten, with a finding
that was lost on account of it. That the status is right nevertheless has an
argument of its own: while there is an error the table still has its shape
(`ParityShape`, `TestedShape`), and the look that takes the error with it has
found no file, which is a finding and a fault of the workspace (`ParityForgets`,
`TestedForgets`). From there on there is a finding, and it is right.
`RegisterEarned` (`RegisterIsEarned`), from `BoundaryInv`, says the same of the
register, stage by stage: its rows, the evidence of the tests, the suites. The
buffers that keep the last test's text matter only where a finding has been
told already.

`TestedEarned` (`TestedIsEarned`), from `TestedInv`, is about any number of
libraries with manifests of any length, of which any number of rows may be left
unread, and about a table of any size. Of the rows that were not read it says
nothing. Which
rows the table has depends on the order of the libraries and on where it is
full, so the invariant says it of sets: as long as nothing has been told, the
entries are one for one the APIs of the libraries loaded (`ApisLoaded`, with the
`Housed` bijection), and each row read has given its test to the first entry of
its identity in its own library and to no other (`TestsTaken`). Two results on
finite sets decide whether the table was large enough (`GoneBeyond`, `RoomFor`):
an injection from the rows into the APIs shows that a manifest that did not fit
is one too many (`IncompleteFault`), and the bijection that nothing is missing
if no finding was told (`NothingMissed`). The attempt to prove it without `NamedOnce` failed
at the row that finds its entry taken, and TLC confirmed the input: see
section 6.

`InstrumentedEarned` (`InstrumentedIsEarned`), from `InstrumentedInv`, treats the
table of instrumentation in the same way, and speaks of the rows that were read
too: role by role it is in one-to-one
correspondence with the rows of the manifests (`TableHolds`), so that a manifest
for which there is no room shows that the contract has too many (`RoleFault`).
Facts are given to the entries after that (`FactsAssigned`); with no identity
twice, what is asked of an API is asked of its one entry (`DemandOf`), an entry or
a demand that is told of is a fault (`EntryFault`, `DemandJudged`), and if none is
told the workspace is as the contract says (`NothingLacks`). The conjunct said
first that status 1 without another fault means more APIs than the table takes.
That is false, and the proof of `RoleFault` showed it: the injection is from the
table into the rows, and two rows may be of one API. It counts the rows now, and
the run has the input that tells the two apart (section 6).

`SemanticsEarned` (`SemanticsAreEarned`), from `SemanticsInv`, goes through
wrapper-fault-semantics in its order: as long as nothing has been told, the
modes looked at are as the code wants them (`ModeSound`), then the identities
looked at are in the manifest, then the parts of the mechanism are sound
(`PartSound`). That what the code looks for is what the contract promises
(`SoundIsKept`) is no matter of course in two places. A mode without a kind is
judged by that of a mode before it, so that what is told of the kinds is right
only where each mode has its own (`KindsJudged`). And the entries of a generated
contract are only counted: `MatchedAll` takes the pairs of an entry and an
admitted wrapper to the wrappers, one to one where no entry is there twice, so
that there are as many pairs as wrappers exactly if each wrapper has one.
Without `NoneTwice` that is false. The part of the code that leaves four parts
out, when the mechanism cannot be used, is sound because the first part has told
of it then.

### audit-api (`ApiSnapshotProofs`)

`SnapshotInvariant` (`Spec => []SnapshotInv`) has six parts. `ScriptInv`: which
command runs at which stage. `ManifestsInv`: the records are the rows of the
manifests read, and if no two have an identity in common the rows have none.
`FactsInv`: each record is a row with what has been said of it or a value that
was announced, each row has its record, and as long as there is no error every
type, role and value heard is in a record (`TypeHeard`, `RoleHeard`,
`ValueHeard`). This is why the order of the facts does not matter. `ReadyInv`: from
the sort on the records are the surface of a workspace that is consistent
(`SurfaceHeard`, `SpaceConsistent`). `MadeInv`: so is a file that is known to be
the snapshot of one. `CompareInv`: the findings are those of the records compared
so far. Three lemmas carry it: `Sorted` (the places that `Place` gives are a
permutation, by the pigeonhole argument `AllTaken`), `SortedDistinct` (no two
neighbours alike means no two records alike), and `BrokenMeans` (a record breaks
no rule exactly if the other table has one that keeps it). The results are
`SnapshotExact` (`SnapshotIsTheSurface`), `CompareExact` (`CompareIsExact`) and
`OldSnapshotStays` (`OldSnapshotKept`).

Each of these invariants was checked by TLC on the instance of the component's
run before it was proved; they live in the proof modules.

### Only model-checked

- Liveness (`EventuallyExits`, `EventuallyCollected`, the two `EventuallyEnds`):
  out of this prover's reach, as `ENABLED` is.
- Four of the nine conjuncts of `PolicyIsEarned`: those of test-inventory,
  source-responsibilities, functional-library-split and quality-contract. See
  section 8.

## 6. Where code and documents disagree

Two have a run that ends in a counterexample (`PROJECT.json`, "findings").

- `judge_two_wrappers`: with two wrappers of one native function, the call the
  second one makes to it is reported as missed, because `find_wrapper` stops
  at the first entry.
- `errors_exit_in_handler`: a handler that calls `exit` is not reported by
  P101-SIGNAL-002, because such a call is stored as another kind of event.

Observed while modelling, without a run:

- audit-doctor: `summary.md` links to file names that the directory never
  contains (`report.c:263` and `paths.c` have two lists). The receipt calls an
  artifact missing whenever `access` fails, for whatever reason (`report.c:175`).
- Wrapper audit: findings are deduplicated by name and place and not by kind
  (`judge.c:519`); an indirect call without a USR at the place of a direct one
  (one macro expanding to both) hides the missed wrapper. `--show-inventory`
  exits 0 after a header with a parse failure (`main.c:90`). An allow rule
  whose calls are all covered by an earlier rule fails the run as one that
  "did not match any call". `compare_facts` leaves out the resolved file of an
  include, so which resolution survives is up to `qsort`. A wrapper role is
  trusted also when it is declared outside the header root. Filling in a
  native identity from a row with an empty name loses the name.
- audit-errors: a contract note marks only the first of two records of a
  function, so the second can be reported (P101-ERR-001) in its stead. The
  load of saved facts reads on after an error; the status is 2 either way.
  A saved record on a line of 4095 characters or more is dropped without an
  error or a finding (`contract_model.c:49-67`, `:238-293`), so that a run may
  be clean and not have judged it.
- audit-modules: saved facts on lines too long for the buffer are lost in the
  same way (`fact_loader.c:277-287`). A guard that is exactly `LIST_H` in `list.h` is reported as
  one that does not end so (`report.c:1126` asks for a name that is longer).
  `module-map/README.md:38` says that missing optional layer files are
  skipped; `report.c:132` makes an error of them, which is what
  `test_cli.sh:187` expects. An include finding of a header is repeated once
  for each source that includes it.
- api: the duplicate check with EEXIST cannot be reached, because the second
  row of one identity never gets a signature and fails the completeness check
  first. A change of kind with the same signature is not reported. A snapshot
  cut short at the end of a line is compared as if it were whole (`api.c:612`).
  A role note that comes before the value note that introduces its identity is
  lost (`api.c:392`).
- audit-workspace: a message too long for its buffer is dropped
  (`wrapper_unit_tests.c:404`, `native_parity.c:255`), and an overlong source
  path ends the reading of the contract (`native_parity.c:134`), both without
  an error, so the status may be 0. Exactly 512 rows are too many
  (`native_parity.c:216`). The finding for a missing source needs a file that
  vanishes between `realpath` and `stat`. `file_exists` is called with an error
  that an earlier call may have left and resets the object on ENOENT
  (`common.c:173`; `wrapper_unit_tests.c:365`, `native_parity.c:183`). A read
  error amid a manifest is taken for its end, because `p101_fgets` is called with
  `P101_ERROR_OPTIONAL` (`wrapper_unit_tests.c:261`, `:305`): the APIs after it are
  not judged, and the status may be 0. A library that `library_roles` names
  under two keys alike is read twice (`wrapper_unit_tests.c:104`; `json.c` takes
  such keys), so that every test of it is told to be a duplicate.
- audit-workspace, instrumentation: a contract that cannot be used gives
  status 1 and writes no receipt, so an earlier receipt stays
  (`instrumentation.c:105`). If the only finding is lost for lack of memory,
  the receipt says `"passed":true` beside status 2. A definition belongs to an
  API if its path ends with the manifest's source, whatever stands before
  (`instrumentation.c:475`); the last such definition counts. A read error amid a
  manifest is taken for its end here as well (`instrumentation.c:309`). A row that repeats
  an identity gives status 2, but if the table is full when it comes the manifest
  is told to be invalid, with status 1 (`instrumentation.c:315`).
- audit-workspace, boundaries: every row after one without an identity or an
  owner is reported as reusing an identity (`boundaries.c:479`). The buffers of
  the evidence are read before anything was put there if the first test has no
  path, and hold the last test's text if a later one has none
  (`boundaries.c:222`). Calls without a USR can make a chain of two calls look
  wired (`boundaries.c:434`). A build file that is missing beside a script is
  trouble and no finding (`boundaries.c:525`). An identity too long for its
  buffer ends the policy with `false` and no error, which gives status 2 without
  a message (`boundaries.c:158`). A suite with a failed and a passed record
  counts as passed (`boundaries.c:305`).
- audit-workspace, wrapper-fault-semantics: a contract without a mode, or
  without the list of wrappers, gives findings and status 2, because
  `validate_modes` returns false (`fault_semantics.c:89`). The entries with a
  short mode are counted and not compared as sets, so one that is there twice
  makes up for one that is missing (`:699`, `:749`). A mode without `kind_usr`
  is judged by that of the mode before it (`:485`).
- audit-workspace, test-inventory: a command of the graph that is no text ends
  the collection without an error, so that the scripts after it are called
  ungoverned (`test_inventory.c:324`). No list of exclusions gives a finding and
  status 2 (`:434`). A directory or a list that cannot be closed is status 2
  without a message (`:548`, `:668`). Room for a path is asked before it is
  known whether the path is new (`path_list_add`).
- audit-workspace, source-responsibilities: `production_path` looks at the whole
  absolute path, so beneath a directory `tests` nothing is production, and at
  names of files, so `build.c` is none (`source_responsibilities.c:369`). A
  facade that is missing is reported and is status 2 as well (`:553`). The
  includes of a repository within another count for the outer one too (`:663`).
  A directory entry for which `stat` fails is passed over without a word
  (`:320`); in the model the files of a directory are those that are found.
- audit-workspace, functional-library-split: a name derived from a native header
  that does not fit ends the manifest without an error
  (`functional_layout.c:655`). A file that is listed twice makes up for one that
  is missing from the list (`:879`). A row of a library that the central map
  gives to nobody is passed over (`:650`). A directory or file that is not
  there resets the error object without a look at what was in it (`:803`,
  `:917`): a finding that was lost for lack of memory may be forgotten, and the
  status be 0.
- audit-workspace, quality-contract: surfaces that are no array are passed over
  (`quality_contract.c:140`), and an empty list of audit responsibilities is
  accepted though the message says "missing or empty" (`:278`, `:331`).
  `variants` is read before it has a value if the row has none (`:213`, `:234`;
  the verdict is the same). The roots in `source_roots` have to be texts and
  are not used. A fact belongs to a file if its path ends with the file's,
  whatever stands before (`quality_fact_path_matches`). A table of 128 enums is
  full for a row that is no good as well (`:198`). An error in the documentation
  does not stop the policy (`:136`).
- audit-workspace and the api tools have no tests in the repository's
  directory of tests.

## 7. What is not modelled

- Text: layout, wording and escaping of reports, JSON and usage, and string
  buffers (a path cut at its buffer's size by `p101_doctor_copy_text`), except
  where a property is about what does not fit; an overlong line of saved facts
  is a record that is lost.
  Records come as they were parsed.
- The search for a compilation database (`p101_c_facts_find_clang_compile_database`,
  external): one may be found whenever none was given.
- Finding manifests next to the executable (`find_workspace_libraries`): the
  manifests that are found are the input.
- lib_c_facts, lib_error and the other libraries, which are not part of the
  repository: the scan delivers any records of the instance and may fail.
- Of the policies of audit-workspace, how a text is found in another: which
  names are those of verification scripts, what in a README matches a concept,
  which target an include names. They are properties of the file or the fact.
  The JSON reader (`json.c`) is there by
  what it gives: a document that is valid, one that is not what was asked for,
  or none.
- SHA-256: a reference definition would be the same text again. Launchers,
  build files and fuzzers have no behaviour of the tools.

## 8. Plan

Order: what decides an exit status first, then what feeds it.

1. *Done.* `Doctor` with `Conductor`; the wrapper audit, part by part and
   composed; audit-errors with its command line; audit-modules; the api tools;
   audit-workspace with its nine policies; the proofs of section 5.
2. Left to model: `find_workspace_libraries`.
3. Left to prove: the conjuncts of `PolicyIsEarned` about the other four
   policies, where `SelectSeq` and `FlattenSeq` have to be restated position by
   position first, as `ForEach` of `WorkspaceResult` does it.
