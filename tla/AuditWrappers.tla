--------------------------- MODULE AuditWrappers ----------------------------
(***************************************************************************)
(* The command audit-wrappers as a whole (src/src/main.c, artifacts.c and  *)
(* the end of output.c): parse the arguments, load the inventory, scan the *)
(* sources, write the files asked for, then either emit the facts or judge *)
(* them and report.  The stages are those of WrapperInventory, WrapperScan *)
(* and WrapperJudge, run one after the other on one model.  audit-facts    *)
(* (facts_main.c) is the same program with fewer stages: it scans and      *)
(* writes the facts.                                                       *)
(***************************************************************************)
EXTENDS WrapperArguments

CONSTANT InputRecords   \* of WrapperScan

ASSUME RecordsAssumption == InputRecords \subseteq Seq(Record)

VARIABLES
  output,    \* what this run has done with each file and with stdout
  outcome,   \* the outcome the report ends with; "none" before
  status     \* main's status; 2 from the start

mainVars == <<output, outcome, status>>
vars == <<stage, err, modelVars, observerVars, inventoryVars, argumentVars,
          judgeVars, mainVars>>

Outputs == FileNames \cup {"stdout"}

Success == 0
ExitFindings == 1
ExitTrouble == 2

Sources == INSTANCE WrapperScan

Init ==
  /\ stage = "arguments" /\ err = FALSE
  /\ facts = <<>> /\ inventory = <<>> /\ findings = <<>>
  /\ parseFailures = 0
  /\ capacity = [a \in Arrays |-> 0]
  /\ records = <<>> /\ delivered = 0
  /\ manifests \in InputManifests /\ manifest = 0 /\ row = 0
  /\ root = 0 /\ first = 0 /\ at = 0
  /\ ArgumentsInit
  /\ output = [o \in Outputs |-> "untouched"]
  /\ outcome = "none" /\ status = ExitTrouble

-----------------------------------------------------------------------------
(* audit-facts takes the options for the other outputs and looks at none.  *)
Showing == arguments.show /\ ~factsOnly

ParseArguments == ParseOption /\ UNCHANGED mainVars

(* A parse that failed ends the run; only a lone -h makes that a success.  *)
EndArguments ==
  /\ ParseEnd
  /\ status' = IF ~valid' /\ argv = <<[is |-> "help"]>> THEN Success ELSE status
  /\ UNCHANGED <<output, outcome>>

LoadInventory == Load /\ UNCHANGED <<argumentVars, judgeVars, mainVars>>

(* A write that fails leaves its part and sets the sticky error.           *)
Whole(o) == output' = [output EXCEPT ![o] = "whole"]
Cut(o) == output' \in {output, [output EXCEPT ![o] = "partial"]}

(* p101_wrapper_write_inventory; whether a header root had parse failures  *)
(* is not asked.                                                           *)
ShowInventory ==
  /\ stage = "loaded" /\ Showing
  /\ stage' = "exit"
  /\ \/ Whole("stdout") /\ status' = Success /\ UNCHANGED err
     \/ Cut("stdout") /\ err' = TRUE /\ UNCHANGED status
  /\ UNCHANGED <<modelVars, observerVars, inventoryVars, argumentVars,
                 judgeVars, outcome>>

StartSources ==
  /\ stage = "loaded" /\ ~Showing
  /\ \E list \in InputRecords : StartScan(list)
  /\ stage' = "scan"
  /\ UNCHANGED <<err, modelVars, inventoryVars, argumentVars, judgeVars,
                 mainVars>>

ScanSources ==
  Sources!Scan /\ UNCHANGED <<inventoryVars, argumentVars, judgeVars, mainVars>>

-----------------------------------------------------------------------------
(* p101_wrapper_write_optional_outputs.                                    *)

Scanned == stage = "scanned" /\ ~factsOnly
Asked(n) == Files[n] \in arguments.files
Pending == {n \in DOMAIN Files : Asked(n) /\ output[Files[n]] = "untouched"}

(* Mutant of WriteOutput: the next file is tried after a failed one.       *)
WriteOutputRegardless ==
  /\ Scanned /\ Pending # {}
  /\ LET o == Files[First(Pending)] IN
       \/ Whole(o) /\ UNCHANGED <<stage, err>>
       \/ output' = [output EXCEPT ![o] = "partial"] /\ err' = TRUE
          /\ UNCHANGED stage
  /\ UNCHANGED <<modelVars, observerVars, inventoryVars, argumentVars,
                 judgeVars, outcome, status>>
WriteOutput ==
  /\ Scanned /\ Pending # {}
  /\ LET o == Files[First(Pending)] IN
       \/ Whole(o) /\ UNCHANGED <<stage, err>>
       \/ Cut(o) /\ Fails
  /\ UNCHANGED <<modelVars, observerVars, inventoryVars, argumentVars,
                 judgeVars, outcome, status>>

(* Mutant of StatusOf: a parse failure is left to the reader of the report.*)
StatusOfWithoutParser(found) ==
  IF err' THEN ExitTrouble ELSE IF found THEN ExitFindings ELSE Success
(* main's cascade: the error, the parse failures, then the findings.       *)
StatusOf(found) ==
  IF err' \/ parseFailures > 0 THEN ExitTrouble
  ELSE IF found THEN ExitFindings ELSE Success

(* Mutant of EmitFacts: the facts are judged after they were emitted.      *)
EmitFactsAndGoOn ==
  /\ Scanned /\ Pending = {} /\ arguments.emit
  /\ stage' = "judge" /\ Whole("stdout")
  /\ UNCHANGED err /\ status' = StatusOf(FALSE)
  /\ UNCHANGED <<modelVars, observerVars, inventoryVars, argumentVars,
                 judgeVars, outcome>>
EmitFacts ==
  /\ Scanned /\ Pending = {} /\ arguments.emit
  /\ stage' = "exit"
  /\ \/ Whole("stdout") /\ UNCHANGED err
     \/ Cut("stdout") /\ err' = TRUE
  /\ status' = StatusOf(FALSE)
  /\ UNCHANGED <<modelVars, observerVars, inventoryVars, argumentVars,
                 judgeVars, outcome>>

(* The rest of audit-facts: the facts go to stdout, then the diagnostics,  *)
(* if there are any, to stderr, whatever became of the facts.              *)
WriteFactsOnly ==
  /\ stage = "scanned" /\ factsOnly
  /\ stage' = "exit"
  /\ \/ Whole("stdout") /\ UNCHANGED err
     \/ Cut("stdout") /\ err' = TRUE
     \/ /\ \E i \in DOMAIN facts : facts[i].kind = "DIAGNOSTIC"
        /\ Whole("stdout") /\ err' = TRUE
  /\ status' = StatusOf(FALSE)
  /\ UNCHANGED <<modelVars, observerVars, inventoryVars, argumentVars,
                 judgeVars, outcome>>

(* Mutant of StartJudgement: the files are left for --emit-facts runs.     *)
StartJudgementAtOnce ==
  /\ Scanned /\ ~arguments.emit
  /\ stage' = "judge"
  /\ UNCHANGED <<err, modelVars, observerVars, inventoryVars, argumentVars,
                 judgeVars, mainVars>>
StartJudgement ==
  /\ Scanned /\ Pending = {} /\ ~arguments.emit
  /\ stage' = "judge"
  /\ UNCHANGED <<err, modelVars, observerVars, inventoryVars, argumentVars,
                 judgeVars, mainVars>>

JudgeFacts ==
  Judgement!Judge /\ UNCHANGED <<observerVars, inventoryVars, argumentVars, mainVars>>

-----------------------------------------------------------------------------
(* The end of p101_wrapper_write_audit and of main.                        *)

(* The findings that decide the outcome; main.c spells the rule again.     *)
Counts(k) ==
  \/ k \in {"MISSED", "PORTABILITY"}
  \/ arguments.strict /\ k \in {"EXTERNAL", "INDIRECT"}

(* Mutant of ReportOutcome: findings are looked at before parse failures.  *)
ReportOutcomeFindingsFirst ==
  IF \E n \in DOMAIN findings : Counts(findings[n].kind) THEN "findings"
  ELSE IF parseFailures > 0 THEN "trouble" ELSE "clean"
ReportOutcome ==
  IF parseFailures > 0 THEN "trouble"
  ELSE IF \E n \in DOMAIN findings : Counts(findings[n].kind) THEN "findings"
  ELSE "clean"

WriteAudit ==
  /\ stage = "report"
  /\ stage' = "exit"
  /\ \/ /\ Whole("stdout") /\ outcome' = ReportOutcome /\ UNCHANGED err
     \/ /\ Cut("stdout") /\ err' = TRUE
        /\ outcome' \in {"none", ReportOutcome}
  /\ status' = StatusOf(\E n \in DOMAIN findings : Counts(findings[n].kind))
  /\ UNCHANGED <<modelVars, observerVars, inventoryVars, argumentVars,
                 judgeVars>>

(* done: an error overrides whatever status was set before.                *)
Exit ==
  /\ stage = "exit"
  /\ status' = IF err THEN ExitTrouble ELSE status
  /\ stage' = "ended"
  /\ UNCHANGED <<err, modelVars, observerVars, inventoryVars, argumentVars,
                 judgeVars, output, outcome>>

Main ==
  \/ ParseArguments \/ EndArguments \/ LoadInventory
  \/ ShowInventory \/ StartSources \/ ScanSources \/ WriteOutput \/ EmitFacts
  \/ WriteFactsOnly
  \/ StartJudgement \/ JudgeFacts \/ WriteAudit \/ Exit

Ended == stage = "ended" /\ UNCHANGED vars

Next == Main \/ Ended

(* One thread; the analysis library's scans are assumed to end.            *)
Spec == Init /\ [][Next]_vars /\ WF_vars(Main)
-----------------------------------------------------------------------------
AuditMode == valid /\ ~arguments.show /\ ~arguments.emit
Wanted ==
  IF stage = "arguments" \/ ~valid THEN {}
  ELSE IF Showing \/ factsOnly THEN {"stdout"}
  ELSE arguments.files \cup {"stdout"}

(* The report and the exit status tell the same story, although output.c   *)
(* and main.c each work it out with a cascade of their own.  And status 0  *)
(* is earned.  Of a run with a valid line: every option of it is in force. *)
(* Of one that scans the sources: everything was delivered, and no         *)
(* translation unit and no header root it read had a diagnostic.  Of an    *)
(* audit: all that was delivered has been judged too, and every call that  *)
(* crosses the boundary either is reported as a note that does not count   *)
(* or shares its name and place with one that is.                          *)
StatusIsEarned ==
  /\ stage = "ended" /\ output["stdout"] = "whole" /\ AuditMode =>
       /\ (outcome = "clean"    <=> status = Success)
       /\ (outcome = "findings" <=> status = ExitFindings)
       /\ (outcome = "trouble"  <=> status = ExitTrouble)
  /\ stage = "ended" /\ status = Success /\ valid =>
       /\ LineInForce
       /\ ~Showing =>
            /\ delivered = Len(records)
            /\ ~ \E n \in DOMAIN records : records[n].fact.kind = "DIAGNOSTIC"
            /\ factsOnly \/
                 ~ \E r \in DOMAIN roots :
                     \E f \in Seen(roots[r]) : f.kind = "DIAGNOSTIC"
       /\ AuditMode =>
            /\ next = Len(facts) + 1
            /\ \A i \in DOMAIN facts : Judgement!Crosses(i) =>
                 \E n \in DOMAIN findings :
                   ~Counts(findings[n].kind) /\ Judgement!Reported(facts[i], n)

(* The files are written in order, each only after the one before it is    *)
(* whole: a consumer that finds a later one can rely on the earlier ones.  *)
EarlierOutputsWhole ==
  \A n, m \in DOMAIN Files :
    n < m /\ Asked(n) /\ output[Files[m]] # "untouched" =>
      output[Files[n]] = "whole"

(* What the whole command promises its caller: it implements AuditTool.    *)
Trouble ==
  \/ err
  \/ parseFailures > 0 /\ ~Showing
  \/ ~valid /\ stage # "arguments" /\ status = ExitTrouble

Promise == INSTANCE AuditTool WITH
  Artifacts <- Outputs,
  wanted    <- Wanted,
  written   <- {o \in Outputs : output[o] = "whole"},
  trouble   <- Trouble,
  status    <- IF stage # "ended" THEN "none"
               ELSE CASE status = Success      -> "clean"
                      [] status = ExitFindings -> "findings"
                      [] status = ExitTrouble  -> "trouble"

KeepsPromise == Promise!ToolSpec

-----------------------------------------------------------------------------
=============================================================================
