------------------------------- MODULE Doctor -------------------------------
(***************************************************************************)
(* audit-doctor (src/components/doctor): the conductor that runs the three *)
(* source audits as child processes, keeps what they leave behind in one   *)
(* fresh directory, and turns their wait statuses into one exit status.    *)
(*                                                                         *)
(* The program is sequential; pc is the point it has reached.  What it     *)
(* does not control is nondeterministic: the options it is given, whether  *)
(* each system call fails, and how each child ends and what it wrote.      *)
(* err is the sticky p101_error: any failing call sets it and only main    *)
(* looks at it in the end.  Text (summary wording, JSON layout) is left    *)
(* out; which file a writer leaves behind, and in which condition, is not. *)
(***************************************************************************)
EXTENDS Integers, FiniteSets

CONSTANTS
  MaxSourcePaths,     \* MAX_SOURCE_PATHS: the capacity of the -s table
  StaticToolReserve,  \* STATIC_TOOL_RESERVE: argv slots beside the sources
  ModuleMapReserve,   \* MODULE_MAP_RESERVE: the same, for audit-modules
  ExitCodes,          \* the exit codes a child process may end with
  BlindSets,          \* sets of artifacts access(2) may fail on together
  MaxOptions          \* bound of the model: options on one command line

(* The enum of include/constants.h, and the 8-bit exit codes of a child.   *)
ASSUME DoctorAssumption ==
  /\ MaxSourcePaths \in Nat \ {0}
  /\ StaticToolReserve \in Nat /\ StaticToolReserve >= 12
  /\ ModuleMapReserve \in Nat /\ ModuleMapReserve >= 7
  /\ {0, 1, 2} \subseteq ExitCodes
  /\ ExitCodes \subseteq 0 .. 255
  /\ MaxOptions \in Nat

Tools == {"wrapper", "contract", "module"}

(* The members of struct doctor_paths; a stdout/stderr pair is one member. *)
Artifacts == {"command", "manifest", "wrapper-capture", "facts", "inputs",
              "contract-capture", "module-capture", "module-report",
              "module-json", "summary", "doctor-json", "receipt",
              "tool-receipt"}

(* A file is absent, left by an earlier run, written by a child (in        *)
(* whatever condition: audit-doctor does not look), or written by          *)
(* audit-doctor itself and cut short or complete.                          *)
FileStates == {"absent", "stale", "child", "partial", "whole"}

NoExit  == -1
Success == 0
Findings == 1
Trouble == 2

(* What waitpid reports of a child: it exited, or a signal ended it.       *)
Exited(code) == [how |-> "exit", code |-> code]
Killed       == [how |-> "signal", code |-> 0]
WaitStatuses == {Exited(c) : c \in ExitCodes} \cup {Killed}

IsClean(s)      == s = Exited(0)
HasFindings(s)  == s = Exited(1)
IsAcceptable(s) == IsClean(s) \/ HasFindings(s)
Classify(s)     == IF IsClean(s) THEN "clean"
                   ELSE IF HasFindings(s) THEN "findings" ELSE "trouble"

VARIABLES
  pc,         \* the point main and p101_doctor_run have reached
  err,        \* the sticky p101_error
  help,       \* args.show_help
  skip,       \* args.skip_source_contracts (-x)
  sources,    \* args.source_count
  sourceSet,  \* args.source_paths_set
  explicitDb, \* args.compile_db_path is not NULL (-C)
  blank,      \* the options whose value in force is the empty string
  command,    \* args.command_argv: "missing", "ok" or "long"
  options,    \* options still to be parsed
  dirExists,  \* the doctor directory is on disk
  files,      \* the artifacts in it
  status,     \* struct doctor_result, zero-initialised
  reported,   \* the tools whose status struct doctor_result really holds
  argv,       \* slots used of, and size of, the last tool_argv built
  moduleDb,   \* run_p101_module_map: compile_db_path is not empty
  evidence,   \* receipt.txt: what each line says it found of its artifact
  toolReceipt,\* the contents of tool-receipt.json
  ret,        \* ret_val
  exit        \* the exit status of the process; NoExit while it runs

parseVars == <<help, skip, sources, sourceSet, explicitDb, blank, command,
               options>>
diskVars  == <<dirExists, files, evidence, toolReceipt>>
runVars   == <<status, reported, argv, moduleDb>>
vars == <<pc, err, parseVars, diskVars, runVars, ret, exit>>

ValueOptions == {"o", "C", "A", "E", "M"}
Unlisted == [a \in Artifacts |-> "unlisted"]
NoReceipt == [outcome |-> "none", attempted |-> 0, completed |-> 0]
Locations == {"parse", "help", "check", "paths", "mkdir", "records",
              "wrapper", "wrapperChild", "contract", "contractChild",
              "module", "moduleChild", "moduleJson", "moduleJsonChild",
              "summary", "json", "evidence", "receipt", "judge", "exit",
              "done"}

TypeOK ==
  /\ pc \in Locations
  /\ err \in BOOLEAN
  /\ help \in BOOLEAN /\ skip \in BOOLEAN
  /\ sources \in 0 .. MaxSourcePaths
  /\ sourceSet \in BOOLEAN /\ explicitDb \in BOOLEAN
  /\ blank \in SUBSET (ValueOptions \cup {"s"})
  /\ command \in {"missing", "ok", "long"}
  /\ options \in 0 .. MaxOptions
  /\ dirExists \in BOOLEAN
  /\ files \in [Artifacts -> FileStates]
  /\ status \in [Tools -> WaitStatuses]
  /\ reported \in SUBSET Tools
  /\ argv \in [used : Nat, size : Nat]
  /\ moduleDb \in BOOLEAN
  /\ evidence \in [Artifacts -> FileStates \cup {"unseen", "unlisted"}]
  /\ toolReceipt \in [outcome : {"none", "clean", "findings", "tool_error"},
                      attempted : 0 .. 3, completed : 0 .. 3]
  /\ ret \in {Success, Findings, Trouble}
  /\ exit \in {NoExit, Success, Findings, Trouble}

(* main starts with ret_val = EXIT_TROUBLE and the default source path.    *)
(* The directory named by -o may be left over from an earlier run.         *)
Init ==
  /\ pc = "parse" /\ err = FALSE
  /\ help = FALSE /\ skip = FALSE
  /\ sources = 1 /\ sourceSet = FALSE
  /\ explicitDb = FALSE /\ blank = {} /\ command = "missing"
  /\ options \in 0 .. MaxOptions
  /\ dirExists \in BOOLEAN
  /\ files = [a \in Artifacts |-> IF dirExists THEN "stale" ELSE "absent"]
  /\ status = [t \in Tools |-> Exited(0)]
  /\ reported = {}
  /\ argv = [used |-> 0, size |-> 1]
  /\ moduleDb = FALSE
  /\ evidence = Unlisted /\ toolReceipt = NoReceipt
  /\ ret = Trouble /\ exit = NoExit

-----------------------------------------------------------------------------
(* p101_doctor_parse_arguments, one option of getopt at a time.            *)

(* Mutant of NextOption: the option under work is never left behind.       *)
NextOptionStuck == UNCHANGED options
NextOption == options' = options - 1

Option ==
  /\ pc = "parse" /\ ~err /\ options > 0
  /\ NextOption
  /\ UNCHANGED <<pc, command, diskVars, runVars, ret, exit>>

ParseFlag ==
  /\ Option
  /\ \/ help' = TRUE /\ UNCHANGED skip
     \/ skip' = TRUE /\ UNCHANGED help
  /\ UNCHANGED <<err, sources, sourceSet, explicitDb, blank>>

(* -o, -C, -A, -E and -M keep the last value they are given.               *)
ParseValue ==
  /\ Option
  /\ \E o \in ValueOptions, empty \in BOOLEAN :
       /\ blank' = IF empty THEN blank \cup {o} ELSE blank \ {o}
       /\ explicitDb' = (explicitDb \/ o = "C")
  /\ UNCHANGED <<err, help, skip, sources, sourceSet>>

(* Mutant of TableFull: the capacity check is off by one.                  *)
TableFullLate(count) == count > MaxSourcePaths
TableFull(count) == count >= MaxSourcePaths

(* The first -s replaces the default source path, later ones accumulate    *)
(* until the table is full.                                                *)
ParseSource ==
  /\ Option
  /\ LET count == IF sourceSet THEN sources ELSE 0 IN
       IF TableFull(count)
       THEN err' = TRUE /\ sources' = count /\ UNCHANGED blank
       ELSE /\ sources' = count + 1
            /\ \E empty \in BOOLEAN :
                 blank' = IF empty THEN blank \cup {"s"} ELSE blank
            /\ UNCHANGED err
  /\ sourceSet' = TRUE
  /\ UNCHANGED <<help, skip, explicitDb>>

(* getopt returned ':' or '?': an option without its value, or unknown.    *)
ParseBad ==
  /\ Option
  /\ err' = TRUE
  /\ UNCHANGED <<help, skip, sources, sourceSet, explicitDb, blank>>

(* The loop ends at the first operand or after an error; main then goes to *)
(* its help text, to its done label or to the argument checks.             *)
ParseEnd ==
  /\ pc = "parse"
  /\ err \/ options = 0
  /\ IF err THEN UNCHANGED command ELSE command' \in {"missing", "ok", "long"}
  /\ pc' = IF err THEN "exit" ELSE IF help THEN "help" ELSE "check"
  /\ UNCHANGED <<err, help, skip, sources, sourceSet, explicitDb, blank,
                 options, diskVars, runVars, ret, exit>>

(* Printing the help text may itself fail and leave an error behind.       *)
ShowHelp ==
  /\ pc = "help"
  /\ err' \in BOOLEAN
  /\ ret' = Success
  /\ pc' = "exit"
  /\ UNCHANGED <<parseVars, diskVars, runVars, exit>>

ArgumentsRejected ==
  \/ command # "ok"
  \/ sources <= 0
  \/ blank \cap {"o", "s", "C", "M"} # {}
  \/ ~skip /\ blank \cap {"A", "E"} # {}

CheckArguments ==
  /\ pc = "check"
  /\ err' = ArgumentsRejected
  /\ pc' = IF ArgumentsRejected THEN "exit" ELSE "paths"
  /\ UNCHANGED <<parseVars, diskVars, runVars, ret, exit>>

-----------------------------------------------------------------------------
(* p101_doctor_run.  After every stage that can fail the code checks err   *)
(* and, when it is set, leaves with the EXIT_TROUBLE it started from.      *)

Continue(next) == pc' = IF err' THEN "exit" ELSE next

MakePaths ==      \* a path of PATH_LEN or more characters is an error
  /\ pc = "paths"
  /\ err' \in BOOLEAN
  /\ Continue("mkdir")
  /\ UNCHANGED <<parseVars, diskVars, runVars, ret, exit>>

(* Mutant of MayCreate: an existing directory is accepted.                 *)
MayCreateAnyway == TRUE
MayCreate == ~dirExists

CreateDir ==      \* mkdir refuses a directory that is already there
  /\ pc = "mkdir"
  /\ \/ MayCreate /\ dirExists' = TRUE /\ UNCHANGED err
     \/ err' = TRUE /\ UNCHANGED dirExists
  /\ Continue("records")
  /\ UNCHANGED <<files, evidence, toolReceipt, parseVars, runVars, ret, exit>>

(* Mutant of Writable: the result of a write is not looked at.             *)
WritableUnnoticed(old) == [left : {old, "partial", "whole"}, failed : BOOLEAN]
(* A file written through fopen(.., "w"): the open may fail and change     *)
(* nothing, a write may fail and cut it short, the close may fail late.    *)
Writable(old) ==
  {w \in [left : {old, "partial", "whole"}, failed : BOOLEAN] :
     ~w.failed => w.left = "whole"}

WriteFile(a) ==
  \E w \in Writable(files[a]) :
    /\ files' = [files EXCEPT ![a] = w.left]
    /\ err' = (err \/ w.failed)

WriteRecords ==   \* both files are attempted before err is looked at
  /\ pc = "records"
  /\ \E c \in Writable(files["command"]), m \in Writable(files["manifest"]) :
       /\ files' = [files EXCEPT !["command"] = c.left, !["manifest"] = m.left]
       /\ err' = (err \/ c.failed \/ m.failed)
  /\ Continue(IF skip THEN "module" ELSE "wrapper")
  /\ UNCHANGED <<dirExists, evidence, toolReceipt, parseVars, runVars, ret,
                 exit>>

(* p101_doctor_resolve_compile_database: -C names the database; without    *)
(* it the search may find one, find none, or fail.                         *)
Resolve(found, failed) ==
  IF explicitDb THEN found = TRUE /\ failed = FALSE
  ELSE found \in BOOLEAN /\ failed \in BOOLEAN

(* Mutant of Slots: one more fixed option than the reserve allows for.     *)
SlotsOneMore(fixed, optional, given) == fixed + 1 + (IF given THEN optional ELSE 0)
Slots(fixed, optional, given) == fixed + (IF given THEN optional ELSE 0)

(* run_tool_capture opens the two capture files for the child and starts   *)
(* it; when that fails err is set and the run leaves for one of the given  *)
(* places.                                                                 *)
Spawn(capture, running, failing) ==
  \/ /\ files' = [files EXCEPT ![capture] = "child"]
     /\ pc' = running
     /\ UNCHANGED err
  \/ /\ \E f \in {files[capture], "child"} :
          files' = [files EXCEPT ![capture] = f]
     /\ err' = TRUE
     /\ pc' \in failing

(* run_p101_wrapper_audit up to the start of the child.                    *)
StartWrapper ==
  /\ pc = "wrapper"
  /\ \E found, failed, allowFile \in BOOLEAN :
       /\ Resolve(found, failed)
       /\ IF failed
          THEN /\ err' = TRUE /\ pc' = "exit"
               /\ UNCHANGED <<files, argv>>
          ELSE /\ argv' = [used |-> Slots(6, 3, found) + Slots(0, 2, allowFile)
                                      + sources + 1,
                           size |-> MaxSourcePaths + StaticToolReserve]
               /\ Spawn("wrapper-capture", "wrapperChild", {"exit"})
  /\ UNCHANGED <<dirExists, evidence, toolReceipt, parseVars, status,
                 reported, moduleDb, ret, exit>>

(* The audit-wrappers child ends.  Only its wait status is taken: with     *)
(* any status it may have written the fact snapshot and the input manifest *)
(* or left either out.                                                     *)
WrapperEnds ==
  /\ pc = "wrapperChild"
  /\ \E s \in WaitStatuses, f, i \in {"absent", "child"} :
       /\ files' = [files EXCEPT !["facts"] = f, !["inputs"] = i]
       /\ status' = [status EXCEPT !["wrapper"] = s]
  /\ reported' = reported \cup {"wrapper"}
  /\ pc' = "contract"
  /\ UNCHANGED <<err, dirExists, evidence, toolReceipt, parseVars, argv,
                 moduleDb, ret, exit>>

(* run_p101_error_contract up to the start of the child.                   *)
StartContract ==
  /\ pc = "contract"
  /\ argv' = [used |-> 3 + sources + 1,
              size |-> MaxSourcePaths + StaticToolReserve]
  /\ Spawn("contract-capture", "contractChild", {"exit"})
  /\ UNCHANGED <<dirExists, evidence, toolReceipt, parseVars, status,
                 reported, moduleDb, ret, exit>>

ContractEnds ==
  /\ pc = "contractChild"
  /\ \E s \in WaitStatuses : status' = [status EXCEPT !["contract"] = s]
  /\ reported' = reported \cup {"contract"}
  /\ pc' = "module"
  /\ UNCHANGED <<err, diskVars, parseVars, argv, moduleDb, ret, exit>>

(* run_p101_module_map up to the start of its first child: the snapshot    *)
(* when there is one, else a compile database of its own.  err is not      *)
(* looked at after the child: when it could not be started, the status     *)
(* that came back decides whether the JSON run is attempted all the same.  *)
StartModule ==
  /\ pc = "module"
  /\ \E found, failed \in BOOLEAN :
       /\ IF skip THEN Resolve(found, failed) ELSE ~found /\ ~failed
       /\ moduleDb' = found
       /\ IF failed
          THEN /\ err' = TRUE /\ pc' = "exit"
               /\ UNCHANGED <<files, argv>>
          ELSE /\ argv' = [used |-> Slots(3, 2, ~skip \/ found) + sources + 1,
                           size |-> MaxSourcePaths + ModuleMapReserve]
               /\ Spawn("module-capture", "moduleChild",
                        {"exit", "moduleJson"})
  /\ UNCHANGED <<dirExists, evidence, toolReceipt, parseVars, status,
                 reported, ret, exit>>

(* An audit-modules child leaves its report or does not, whatever status   *)
(* it ends with.                                                           *)
ModuleChild(report) ==
  \E f \in {"absent", "child"} : files' = [files EXCEPT ![report] = f]

(* The Markdown child ends; only an acceptable status leads to a second,   *)
(* JSON, run of the same tool over the same captures.                      *)
ModuleEnds ==
  /\ pc = "moduleChild"
  /\ \E s \in WaitStatuses :
       /\ ModuleChild("module-report")
       /\ status' = [status EXCEPT !["module"] = s]
       /\ IF IsAcceptable(s)
          THEN pc' = "moduleJson" /\ UNCHANGED reported
          ELSE pc' = "summary" /\ reported' = reported \cup {"module"}
  /\ UNCHANGED <<err, dirExists, evidence, toolReceipt, parseVars, argv,
                 moduleDb, ret, exit>>

StartModuleJson ==
  /\ pc = "moduleJson"
  /\ argv' = [used |-> Slots(4, 2, ~skip \/ moduleDb) + sources + 1,
              size |-> MaxSourcePaths + ModuleMapReserve]
  /\ Spawn("module-capture", "moduleJsonChild", {"exit"})
  /\ UNCHANGED <<dirExists, evidence, toolReceipt, parseVars, status,
                 reported, moduleDb, ret, exit>>

(* The two runs must agree; otherwise the stored status is EXIT_TROUBLE.   *)
AgreedStatus(markdown, json) ==
  IF json = markdown THEN markdown ELSE Exited(Trouble)

ModuleJsonEnds ==
  /\ pc = "moduleJsonChild"
  /\ \E s \in WaitStatuses :
       /\ ModuleChild("module-json")
       /\ status' = [status EXCEPT !["module"] = AgreedStatus(@, s)]
  /\ reported' = IF err THEN reported ELSE reported \cup {"module"}
  /\ pc' = IF err THEN "exit" ELSE "summary"
  /\ UNCHANGED <<err, dirExists, evidence, toolReceipt, parseVars, argv,
                 moduleDb, ret, exit>>

-----------------------------------------------------------------------------
(* The four closing writers run one after another whatever the earlier     *)
(* ones reported; err is looked at only after the last.                    *)

WriteSummary ==
  /\ pc = "summary"
  /\ WriteFile("summary")
  /\ pc' = "json"
  /\ UNCHANGED <<dirExists, evidence, toolReceipt, parseVars, runVars, ret,
                 exit>>

WriteJson ==
  /\ pc = "json"
  /\ WriteFile("doctor-json")
  /\ pc' = "evidence"
  /\ UNCHANGED <<dirExists, evidence, toolReceipt, parseVars, runVars, ret,
                 exit>>

(* The artifacts receipt.txt fingerprints; the first row only without -x.  *)
Fingerprinted ==
  (IF skip THEN {} ELSE {"wrapper-capture", "facts", "inputs",
                         "contract-capture"})
  \cup {"command", "manifest", "module-capture", "module-report",
        "module-json", "summary", "doctor-json"}

(* Mutant of Line: an artifact that is not there gets no line.             *)
LinePresentOnly(a, blind) ==
  IF files[a] = "absent" THEN "unlisted"
  ELSE IF a \in blind THEN "unseen" ELSE files[a]
(* The line of an artifact is a fingerprint of what is on disk; "missing"  *)
(* is said of one that is not there, and of one that is but on which       *)
(* access failed ("unseen"), for that error is not passed on.              *)
Line(a, blind) == IF a \in blind THEN "unseen" ELSE files[a]
Account(blind) ==
  [a \in Artifacts |->
     IF a \in Fingerprinted THEN Line(a, blind) ELSE "unlisted"]

(* An artifact that cannot be read, or is over the size limit, sets err    *)
(* and leaves no line.  A receipt without all its lines counts as none.    *)
WriteEvidence ==
  /\ pc = "evidence"
  /\ \E w \in Writable(files["receipt"]), allRead \in BOOLEAN,
        blind \in BlindSets :
       /\ files' = [files EXCEPT !["receipt"] = w.left]
       /\ evidence' = IF w.left = "whole" /\ allRead
                      THEN Account(blind) ELSE Unlisted
       /\ err' = (err \/ w.failed \/ ~allRead)
  /\ pc' = "receipt"
  /\ UNCHANGED <<dirExists, toolReceipt, parseVars, runVars, ret, exit>>

SourceTools == {"wrapper", "contract"}

(* Mutant of ResultHasTrouble: the error-contract status is forgotten.     *)
ResultHasTroubleWrapperOnly ==
  \/ ~skip /\ ~IsAcceptable(status["wrapper"])
  \/ ~IsAcceptable(status["module"])
ResultHasTrouble ==
  \/ ~skip /\ \E t \in SourceTools : ~IsAcceptable(status[t])
  \/ ~IsAcceptable(status["module"])

(* Mutant of ResultHasFindings: the module status is forgotten.            *)
ResultHasFindingsSourceOnly ==
  ~skip /\ \E t \in SourceTools : HasFindings(status[t])
ResultHasFindings ==
  \/ ~skip /\ \E t \in SourceTools : HasFindings(status[t])
  \/ HasFindings(status["module"])

CountIf(b) == IF b THEN 1 ELSE 0

CompletedChecks ==
  CountIf(IsAcceptable(status["module"]))
  + (IF skip THEN 0 ELSE CountIf(IsAcceptable(status["wrapper"]))
                         + CountIf(IsAcceptable(status["contract"])))

(* What the statuses come to in the run receipt.                           *)
ToolReceipt ==
  [outcome   |-> IF ResultHasTrouble THEN "tool_error"
                 ELSE IF ResultHasFindings THEN "findings" ELSE "clean",
   attempted |-> IF skip THEN 1 ELSE 3,
   completed |-> CompletedChecks]

(* The run receipt is written only when receipt.txt can be fingerprinted.  *)
WriteReceipt ==
  /\ pc = "receipt"
  /\ \/ err' = TRUE /\ UNCHANGED <<files, toolReceipt>>
     \/ /\ files["receipt"] # "absent"
        /\ WriteFile("tool-receipt")
        /\ IF files'["tool-receipt"] = "whole"
           THEN toolReceipt' = ToolReceipt ELSE UNCHANGED toolReceipt
  /\ Continue("judge")
  /\ UNCHANGED <<dirExists, evidence, parseVars, runVars, ret, exit>>

(* The return value of p101_doctor_run: trouble of any required tool, then *)
(* findings of any, then success.                                          *)
(* Mutant of RunVerdict: findings are looked for before trouble.           *)
RunVerdictFindingsFirst ==
  IF \/ ~skip /\ \E t \in SourceTools : HasFindings(status[t])
     \/ HasFindings(status["module"]) THEN Findings
  ELSE IF \/ ~skip /\ \E t \in SourceTools : ~IsAcceptable(status[t])
          \/ ~IsAcceptable(status["module"]) THEN Trouble
  ELSE Success
(* Mutant of RunVerdict: the -x guard is inverted.                         *)
RunVerdictSkipInverted ==
  IF \/ skip /\ \E t \in SourceTools : ~IsAcceptable(status[t])
     \/ ~IsAcceptable(status["module"]) THEN Trouble
  ELSE IF \/ skip /\ \E t \in SourceTools : HasFindings(status[t])
          \/ HasFindings(status["module"]) THEN Findings
  ELSE Success
RunVerdict ==
  IF \/ ~skip /\ \E t \in SourceTools : ~IsAcceptable(status[t])
     \/ ~IsAcceptable(status["module"]) THEN Trouble
  ELSE IF \/ ~skip /\ \E t \in SourceTools : HasFindings(status[t])
          \/ HasFindings(status["module"]) THEN Findings
  ELSE Success

(* The report line is printed first, and the statuses are judged even when *)
(* that failed.                                                            *)
Judge ==
  /\ pc = "judge"
  /\ err' \in BOOLEAN
  /\ ret' = RunVerdict
  /\ pc' = "exit"
  /\ UNCHANGED <<parseVars, diskVars, runVars, exit>>

(* main's done label: an error overrides whatever the run concluded.       *)
FinalStatus == IF err THEN Trouble ELSE ret

Exit ==
  /\ pc = "exit"
  /\ exit' = FinalStatus
  /\ pc' = "done"
  /\ UNCHANGED <<err, parseVars, diskVars, runVars, ret>>

Terminated == pc = "done" /\ UNCHANGED vars

Parse == ParseFlag \/ ParseValue \/ ParseSource \/ ParseBad \/ ParseEnd
Prepare == ShowHelp \/ CheckArguments \/ MakePaths \/ CreateDir \/ WriteRecords
RunTools == StartWrapper \/ WrapperEnds \/ StartContract \/ ContractEnds
            \/ StartModule \/ ModuleEnds \/ StartModuleJson \/ ModuleJsonEnds
Close == WriteSummary \/ WriteJson \/ WriteEvidence \/ WriteReceipt
         \/ Judge \/ Exit

Next == Parse \/ Prepare \/ RunTools \/ Close \/ Terminated

(* The conductor is one thread that runs until it exits, and a child it    *)
(* waits for is assumed to end: the code puts no limit on that wait.       *)
Spec == Init /\ [][Next]_vars /\ WF_vars(Next)

-----------------------------------------------------------------------------
(* What an exit status promises.                                           *)

RequiredTools == IF skip THEN {"module"} ELSE Tools
Judged == exit # NoExit /\ ~help

(* Exit 0 means that every required audit ran in this invocation and was   *)
(* clean, exit 1 that every one ran acceptably and one had findings.  The  *)
(* zeroed statuses of tools that never ran (p101_doctor_run's memset) must *)
(* not pass for results, nor findings hide another tool's trouble.         *)
VerdictMatchesTools ==
  Judged /\ exit # Trouble =>
    /\ ~err
    /\ RequiredTools \subseteq reported
    /\ \A t \in RequiredTools : IsAcceptable(status[t])
    /\ exit = Findings <=> \E t \in RequiredTools : HasFindings(status[t])

(* When main has no error to report, tool-receipt.json is complete and     *)
(* tells the same story as the exit status, although report.c and runner.c *)
(* each derive it from the statuses with a cascade of their own.  A        *)
(* receipt that says "clean" is true whatever failed after it or before:   *)
(* it may lie beside exit status 2, but never beside a tool that had       *)
(* something to say.                                                       *)
ReceiptIsTrue ==
  /\ toolReceipt.outcome = "clean" =>
       \A t \in RequiredTools : t \in reported /\ IsClean(status[t])
  /\ Judged /\ ~err =>
       /\ files["tool-receipt"] = "whole"
       /\ exit = Success  <=> toolReceipt.outcome = "clean"
       /\ exit = Findings <=> toolReceipt.outcome = "findings"
       /\ exit # Trouble  <=> toolReceipt.completed = toolReceipt.attempted

(* A verdict of 0 or 1 leaves the evidence audit-doctor answers for: the   *)
(* four files it writes itself are complete, each required child had a     *)
(* capture of this run, and receipt.txt still gives a true account of      *)
(* every artifact, as it is on disk when the process exits or as missing   *)
(* (also of one that could not be looked up).  What a child left in its    *)
(* own files no status vouches for: it may end with 0 and leave nothing.   *)
OwnFiles == {"command", "manifest", "summary", "doctor-json"}
Captures == IF skip THEN {"module-capture"}
            ELSE {"wrapper-capture", "contract-capture", "module-capture"}
TrueAccount == \A a \in Fingerprinted : evidence[a] \in {files[a], "unseen"}
VerdictHasEvidence ==
  Judged /\ exit # Trouble =>
    /\ \A a \in OwnFiles : files[a] = "whole"
    /\ \A a \in Captures : files[a] = "child"
    /\ TrueAccount

(* Nothing an earlier run left behind is ever fingerprinted as evidence of *)
(* this one, and the leftover directory is not written into: mkdir must    *)
(* refuse it before anything else is done.                                 *)
LeftoverUntouched ==
  (\E a \in Artifacts : files[a] = "stale") =>
    /\ evidence = Unlisted
    /\ \A a \in Artifacts : files[a] = "stale"
    /\ reported = {}

(* The argv of every child, with its terminating NULL, fits the array it   *)
(* is built in, for every mix of options and source paths.                 *)
ArgvFits == argv.used <= argv.size

(* The run always comes to an exit status.                                 *)
EventuallyExits == <>(pc = "done")

(* audit-doctor as a Conductor of the three tools: what is required is     *)
(* known once the arguments are accepted, a result once struct             *)
(* doctor_result holds it, the verdict when the process exits.             *)
RequiredSoFar ==
  IF pc \in {"parse", "help", "check"} THEN {} ELSE RequiredTools
ResultSoFar ==
  [t \in Tools |-> IF t \in reported THEN Classify(status[t]) ELSE "none"]
VerdictSoFar ==
  IF exit = NoExit \/ (help /\ exit = Success) THEN "none"
  ELSE IF exit = Success THEN "clean"
  ELSE IF exit = Findings THEN "findings"
  ELSE "trouble"

Promise == INSTANCE Conductor WITH
  Checks   <- Tools,
  required <- RequiredSoFar,
  result   <- ResultSoFar,
  verdict  <- VerdictSoFar

(* Every behaviour of the conductor is one its promise allows: one result  *)
(* per required tool, and the worst of them as the verdict unless the run  *)
(* gives up with trouble.                                                  *)
KeepsPromise == Promise!ConductorSpec

-----------------------------------------------------------------------------
(* The inductive invariant behind the theorems: what is known at each      *)
(* point of the run.                                                       *)

Closing == {"summary", "json", "evidence", "receipt", "judge"}
UsingDir == {"records", "wrapper", "wrapperChild", "contract",
             "contractChild", "module", "moduleChild", "moduleJson",
             "moduleJsonChild"} \cup Closing

ErrorChecked ==
  pc \in {"help", "check", "paths", "mkdir", "records", "wrapper",
          "wrapperChild", "contract", "contractChild", "module",
          "moduleChild", "summary", "judge"} => ~err

HelpOnlyPrints ==
  /\ pc \notin {"parse", "help", "exit", "done"} => ~help
  /\ pc = "help" => help

NotJudgedYet ==
  /\ pc \notin {"exit", "done"} => ret = Trouble
  /\ pc # "done" => exit = NoExit

ToolsSoFar ==
  /\ pc \notin UsingDir \cup {"exit", "done"} => reported = {}
  /\ pc \in {"records", "wrapper", "wrapperChild"} => reported = {}
  /\ pc \in {"wrapper", "wrapperChild", "contract", "contractChild"} => ~skip
  /\ pc \in {"contract", "contractChild"} => reported = {"wrapper"}
  /\ pc \in {"module", "moduleChild", "moduleJson", "moduleJsonChild"} =>
       reported = IF skip THEN {} ELSE SourceTools
  /\ pc \in Closing => reported = RequiredTools

Concluded ==
  /\ pc \in {"exit", "done"} /\ ret # Trouble /\ ~help =>
       reported = RequiredTools /\ ret = RunVerdict
  /\ pc \in {"exit", "done"} /\ help => ret # Findings
  /\ pc = "done" => exit = FinalStatus

LeftoverRefused ==
  (\E a \in Artifacts : files[a] = "stale") =>
    /\ \A a \in Artifacts : files[a] = "stale"
    /\ evidence = Unlisted
    /\ reported = {}
    /\ dirExists
    /\ pc \notin UsingDir

DoctorInv ==
  /\ TypeOK
  /\ ErrorChecked
  /\ HelpOnlyPrints
  /\ NotJudgedYet
  /\ ToolsSoFar
  /\ Concluded
  /\ LeftoverRefused

(* What the run has left on disk at each point, as far as the verdict      *)
(* rests on it.                                                            *)
Whole(a) == files[a] = "whole"

RecordsKept ==
  pc \in UsingDir \ {"records"} => Whole("command") /\ Whole("manifest")

Started(capture) == files[capture] = "child"
SourcesKept ==
  /\ pc \in {"wrapperChild", "contract", "contractChild"} =>
       Started("wrapper-capture")
  /\ pc = "contractChild" => Started("contract-capture")
  /\ ~skip /\ pc \in {"module", "moduleChild", "moduleJson",
                       "moduleJsonChild"} \cup Closing =>
       Started("wrapper-capture") /\ Started("contract-capture")

(* When the Markdown child could not be started, the JSON child runs with  *)
(* the error set and its own capture.                                      *)
ModuleKept ==
  /\ pc \in {"moduleChild", "moduleJsonChild"} \cup Closing =>
       Started("module-capture")
  /\ pc = "moduleJson" /\ ~err => Started("module-capture")

ClosedSoFar ==
  ~err =>
    /\ pc \in {"json", "evidence", "receipt", "judge"} => Whole("summary")
    /\ pc \in {"evidence", "receipt", "judge"} => Whole("doctor-json")
    /\ pc \in {"receipt", "judge"} => TrueAccount
    /\ pc = "judge" => Whole("tool-receipt") /\ toolReceipt = ToolReceipt

ReceiptSaid ==
  \/ toolReceipt = NoReceipt
  \/ /\ pc \in {"judge", "exit", "done"}
     /\ reported = RequiredTools /\ toolReceipt = ToolReceipt

Finished ==
  pc \in {"exit", "done"} /\ ~help /\ (~err \/ ret # Trouble) =>
    /\ reported = RequiredTools /\ ret = RunVerdict
    /\ Whole("tool-receipt") /\ toolReceipt = ToolReceipt
    /\ TrueAccount
    /\ \A a \in OwnFiles : Whole(a)
    /\ \A a \in Captures : Started(a)

EvidenceInv ==
  /\ RecordsKept
  /\ SourcesKept
  /\ ModuleKept
  /\ ClosedSoFar
  /\ ReceiptSaid
  /\ Finished

=============================================================================
