---------------------------- MODULE DoctorProofs ----------------------------
(***************************************************************************)
(* Theorems about Doctor, for every table size, reserve and set of child   *)
(* exit codes that satisfies DoctorAssumption.                             *)
(***************************************************************************)
EXTENDS Doctor, TLAPS

(* Every way a file can be left by a writer is a state of a file.          *)
LEMMA WritableType ==
  ASSUME NEW old \in FileStates, NEW w \in Writable(old)
  PROVE  w.left \in FileStates /\ w.failed \in BOOLEAN
BY DEF Writable, FileStates

LEMMA StatusType ==
  Exited(0) \in WaitStatuses /\ Exited(Trouble) \in WaitStatuses
BY DoctorAssumption DEF WaitStatuses, Exited, Trouble

(* What starting a child does to the variables it touches.                 *)
LEMMA SpawnType ==
  ASSUME NEW capture \in Artifacts, NEW running, NEW failing,
         files \in [Artifacts -> FileStates], err \in BOOLEAN,
         Spawn(capture, running, failing)
  PROVE  /\ files' \in [Artifacts -> FileStates]
         /\ err' \in BOOLEAN
         /\ pc' = running \/ pc' \in failing
<1>1. files' \in [Artifacts -> FileStates]
  BY DEF Spawn, FileStates
<1>2. err' \in BOOLEAN
  BY Zenon DEF Spawn
<1>3. QED
  BY <1>1, <1>2 DEF Spawn

LEMMA TypeInit == Init => TypeOK
<1> SUFFICES ASSUME Init PROVE TypeOK
  OBVIOUS
<1> USE DoctorAssumption, StatusType DEF Init
<1>1. pc \in Locations /\ exit \in {NoExit, Success, Findings, Trouble}
  BY DEF Locations
<1>2. sources \in 0 .. MaxSourcePaths /\ options \in 0 .. MaxOptions
  OBVIOUS
<1>3. files \in [Artifacts -> FileStates]
  BY DEF FileStates
<1>4. status \in [Tools -> WaitStatuses] /\ argv \in [used : Nat, size : Nat]
  OBVIOUS
<1>5. toolReceipt \in [outcome : {"none", "clean", "findings", "tool_error"},
                       attempted : 0 .. 3, completed : 0 .. 3]
  BY DEF NoReceipt
<1>6. evidence \in [Artifacts -> FileStates \cup {"unseen", "unlisted"}]
  BY DEF Unlisted
<1>7. QED
  BY <1>1, <1>2, <1>3, <1>4, <1>5, <1>6 DEF TypeOK

LEMMA TypeStep == TypeOK /\ [Next]_vars => TypeOK'
<1> SUFFICES ASSUME TypeOK, [Next]_vars PROVE TypeOK'
  OBVIOUS
<1> USE DoctorAssumption DEF TypeOK, Locations
<1>1. CASE ParseFlag
  <2>1. help' \in BOOLEAN /\ skip' \in BOOLEAN
    BY <1>1, Zenon DEF ParseFlag
  <2>2. QED
    BY <1>1, <2>1, SMTT(30) DEF ParseFlag, Option, NextOption, diskVars,
       runVars
<1>2. CASE ParseValue
  BY <1>2 DEF ParseValue, Option, NextOption, diskVars, runVars, ValueOptions
<1>3. CASE ParseSource
  <2> DEFINE count == IF sourceSet THEN sources ELSE 0
  <2>1. CASE TableFull(count)
    BY <1>3, <2>1, SMTT(60)
    DEF ParseSource, Option, NextOption, diskVars, runVars
  <2>2. CASE ~TableFull(count)
    BY <1>3, <2>2, SMTT(60)
    DEF ParseSource, TableFull, Option, NextOption, diskVars, runVars
  <2>3. QED
    BY <2>1, <2>2
<1>4. CASE ParseBad
  BY <1>4 DEF ParseBad, Option, NextOption, diskVars, runVars
<1>5. CASE ParseEnd
  BY <1>5 DEF ParseEnd, diskVars, runVars
<1>6. CASE ShowHelp
  BY <1>6 DEF ShowHelp, parseVars, diskVars, runVars
<1>7. CASE CheckArguments
  BY <1>7 DEF CheckArguments, ArgumentsRejected, parseVars, diskVars, runVars
<1>8. CASE MakePaths
  BY <1>8 DEF MakePaths, Continue, parseVars, diskVars, runVars
<1>9. CASE CreateDir
  <2>1. dirExists' \in BOOLEAN /\ err' \in BOOLEAN
    BY <1>9, Zenon DEF CreateDir
  <2>2. QED
    BY <1>9, <2>1 DEF CreateDir, Continue, parseVars, runVars
<1>10. CASE WriteRecords
  BY <1>10, WritableType DEF WriteRecords, Continue, parseVars, runVars,
     Artifacts
<1>11. CASE StartWrapper
  <2>1. PICK found, failed, allowFile \in BOOLEAN :
          StartWrapper!2!(found, failed, allowFile)
    BY <1>11 DEF StartWrapper
  <2>2. CASE failed
    BY <1>11, <2>1, <2>2 DEF StartWrapper, parseVars
  <2>3. CASE ~failed
    <3>1. Spawn("wrapper-capture", "wrapperChild", {"exit"})
      BY <2>1, <2>3
    <3>2. argv' \in [used : Nat, size : Nat]
      BY <2>1, <2>3 DEF Slots
    <3>3. QED
      BY <1>11, <3>1, <3>2, SpawnType DEF StartWrapper, parseVars, Artifacts
  <2>4. QED
    BY <2>2, <2>3
<1>12. CASE WrapperEnds
  BY <1>12 DEF WrapperEnds, parseVars, Artifacts, FileStates, Tools
<1>13. CASE StartContract
  <2>1. argv' \in [used : Nat, size : Nat]
    BY <1>13 DEF StartContract
  <2>2. QED
    BY <1>13, <2>1, SpawnType DEF StartContract, parseVars, Artifacts
<1>14. CASE ContractEnds
  BY <1>14 DEF ContractEnds, parseVars, diskVars, Tools
<1>15. CASE StartModule
  <2>1. PICK found, failed \in BOOLEAN : StartModule!2!(found, failed)
    BY <1>15 DEF StartModule
  <2>2. CASE failed
    BY <1>15, <2>1, <2>2 DEF StartModule, parseVars
  <2>3. CASE ~failed
    <3>1. Spawn("module-capture", "moduleChild", {"exit", "moduleJson"})
      BY <2>1, <2>3
    <3>2. argv' \in [used : Nat, size : Nat]
      BY <2>1, <2>3 DEF Slots
    <3>3. QED
      BY <1>15, <2>1, <3>1, <3>2, SpawnType
      DEF StartModule, parseVars, Artifacts
  <2>4. QED
    BY <2>2, <2>3
<1>16. CASE ModuleEnds
  <2>1. PICK s \in WaitStatuses : ModuleEnds!2!(s)
    BY <1>16 DEF ModuleEnds
  <2>2. files' \in [Artifacts -> FileStates]
    BY <2>1 DEF ModuleChild, Artifacts, FileStates
  <2>3. reported' \in SUBSET Tools /\ pc' \in Locations
    BY <2>1 DEF Tools
  <2>4. status' \in [Tools -> WaitStatuses]
    BY <2>1 DEF Tools
  <2>5. QED
    BY <1>16, <2>2, <2>3, <2>4 DEF ModuleEnds, parseVars
<1>17. CASE StartModuleJson
  <2>1. argv' \in [used : Nat, size : Nat]
    BY <1>17 DEF StartModuleJson, Slots
  <2>2. QED
    BY <1>17, <2>1, SpawnType DEF StartModuleJson, parseVars, Artifacts
<1>18. CASE ModuleJsonEnds
  BY <1>18, StatusType DEF ModuleJsonEnds, ModuleChild, AgreedStatus,
     parseVars, Artifacts, FileStates, Tools
<1>19. CASE WriteSummary
  BY <1>19, WritableType DEF WriteSummary, WriteFile, parseVars, runVars,
     Artifacts
<1>20. CASE WriteJson
  BY <1>20, WritableType DEF WriteJson, WriteFile, parseVars, runVars,
     Artifacts
<1>21. CASE WriteEvidence
  <2>1. evidence' \in [Artifacts -> FileStates \cup {"unseen", "unlisted"}]
    BY <1>21 DEF WriteEvidence, Account, Line, Unlisted
  <2>2. QED
    BY <1>21, <2>1, WritableType DEF WriteEvidence, parseVars, runVars,
       Artifacts
<1>22. CASE WriteReceipt
  <2>1. CASE err' = TRUE /\ UNCHANGED <<files, toolReceipt>>
    BY <1>22, <2>1 DEF WriteReceipt, Continue, parseVars, runVars
  <2>2. CASE WriteReceipt!2!2
    <3>1. files' \in [Artifacts -> FileStates] /\ err' \in BOOLEAN
      BY <2>2, WritableType DEF WriteFile, Artifacts
    <3>2. CompletedChecks \in 0 .. 3
      BY DEF CompletedChecks, CountIf
    <3>3. toolReceipt' \in [outcome : {"none", "clean", "findings",
                                      "tool_error"},
                            attempted : 0 .. 3, completed : 0 .. 3]
      BY <2>2, <3>2, SMTT(30) DEF ToolReceipt
    <3>4. QED
      BY <1>22, <3>1, <3>3 DEF WriteReceipt, Continue, parseVars, runVars
  <2>3. QED
    BY <1>22, <2>1, <2>2 DEF WriteReceipt
<1>23. CASE Judge
  BY <1>23 DEF Judge, RunVerdict, parseVars, diskVars, runVars, Success,
     Findings, Trouble
<1>24. CASE Exit
  BY <1>24 DEF Exit, FinalStatus, parseVars, diskVars, runVars
<1>25. CASE UNCHANGED vars
  BY <1>25 DEF vars, parseVars, diskVars, runVars
<1>26. QED
  BY <1>1, <1>2, <1>3, <1>4, <1>5, <1>6, <1>7, <1>8, <1>9, <1>10, <1>11,
     <1>12, <1>13, <1>14, <1>15, <1>16, <1>17, <1>18, <1>19, <1>20, <1>21,
     <1>22, <1>23, <1>24, <1>25
  DEF Next, Parse, Prepare, RunTools, Close, Terminated

(* The variables keep their types: p101_doctor_run and main never leave    *)
(* the ranges their tables and statuses have.                              *)
THEOREM TypeCorrect == Spec => []TypeOK
BY TypeInit, TypeStep, PTL DEF Spec

-----------------------------------------------------------------------------
(* The inductive invariant.                                                *)

LEMMA InvInit == Init => DoctorInv
<1> SUFFICES ASSUME Init PROVE DoctorInv
  OBVIOUS
<1>1. TypeOK
  BY TypeInit
<1>2. LeftoverRefused
  BY DEF Init, LeftoverRefused, UsingDir, Closing, Artifacts
<1>3. QED
  BY <1>1, <1>2
  DEF Init, DoctorInv, ErrorChecked, HelpOnlyPrints, NotJudgedYet, ToolsSoFar,
      Concluded, UsingDir, Closing, NoExit, Trouble

(* The control part of the invariant, kept by every step.                  *)
LEMMA ControlStep ==
  ASSUME DoctorInv, [Next]_vars, TypeOK'
  PROVE  /\ ErrorChecked' /\ HelpOnlyPrints' /\ NotJudgedYet'
         /\ ToolsSoFar' /\ Concluded'
<1> USE DEF DoctorInv, ErrorChecked, HelpOnlyPrints, NotJudgedYet, ToolsSoFar,
            Concluded, UsingDir, Closing, RequiredTools, SourceTools, Success,
            Findings, Trouble
<1>1. CASE ParseFlag
  BY <1>1 DEF ParseFlag, Option, parseVars, diskVars, runVars
<1>2. CASE ParseValue
  BY <1>2 DEF ParseValue, Option, diskVars, runVars
<1>3. CASE ParseSource
  BY <1>3 DEF ParseSource, Option, diskVars, runVars
<1>4. CASE ParseBad
  BY <1>4 DEF ParseBad, Option, diskVars, runVars
<1>5. CASE ParseEnd
  BY <1>5 DEF ParseEnd, diskVars, runVars
<1>6. CASE ShowHelp
  BY <1>6 DEF ShowHelp, parseVars, diskVars, runVars
<1>7. CASE CheckArguments
  BY <1>7 DEF CheckArguments, parseVars, diskVars, runVars
<1>8. CASE MakePaths
  BY <1>8 DEF MakePaths, Continue, parseVars, diskVars, runVars
<1>9. CASE CreateDir
  BY <1>9 DEF CreateDir, Continue, parseVars, runVars
<1>10. CASE WriteRecords
  BY <1>10 DEF WriteRecords, Continue, parseVars, runVars
<1>11. CASE StartWrapper
  BY <1>11 DEF StartWrapper, Spawn, parseVars
<1>12. CASE WrapperEnds
  BY <1>12 DEF WrapperEnds, parseVars
<1>13. CASE StartContract
  BY <1>13 DEF StartContract, Spawn, parseVars
<1>14. CASE ContractEnds
  BY <1>14 DEF ContractEnds, parseVars, diskVars
<1>15. CASE StartModule
  BY <1>15 DEF StartModule, Spawn, parseVars
<1>16. CASE ModuleEnds
  BY <1>16 DEF ModuleEnds, parseVars, Tools
<1>17. CASE StartModuleJson
  BY <1>17 DEF StartModuleJson, Spawn, parseVars
<1>18. CASE ModuleJsonEnds
  BY <1>18 DEF ModuleJsonEnds, parseVars, Tools
<1>19. CASE WriteSummary
  BY <1>19 DEF WriteSummary, parseVars, runVars
<1>20. CASE WriteJson
  BY <1>20 DEF WriteJson, parseVars, runVars
<1>21. CASE WriteEvidence
  BY <1>21 DEF WriteEvidence, parseVars, runVars
<1>22. CASE WriteReceipt
  BY <1>22 DEF WriteReceipt, Continue, parseVars, runVars
<1>23. CASE Judge
  BY <1>23 DEF Judge, RunVerdict, parseVars, diskVars, runVars
<1>24. CASE Exit
  BY <1>24 DEF Exit, FinalStatus, RunVerdict, parseVars, diskVars, runVars
<1>25. CASE UNCHANGED vars
  BY <1>25 DEF vars, parseVars, diskVars, runVars, FinalStatus, RunVerdict
<1>26. QED
  BY <1>1, <1>2, <1>3, <1>4, <1>5, <1>6, <1>7, <1>8, <1>9, <1>10, <1>11,
     <1>12, <1>13, <1>14, <1>15, <1>16, <1>17, <1>18, <1>19, <1>20, <1>21,
     <1>22, <1>23, <1>24, <1>25
  DEF Next, Parse, Prepare, RunTools, Close, Terminated

(* Writing a file of this run never turns it into a leftover.              *)
LEMMA WritesAreFresh ==
  ASSUME NEW old \in FileStates \ {"stale"}, NEW w \in Writable(old)
  PROVE  w.left # "stale"
BY DEF Writable, FileStates

(* The directory is used only after mkdir created it, and it is empty of   *)
(* leftovers then and afterwards.                                          *)
LEMMA LeftoverStep ==
  ASSUME DoctorInv, [Next]_vars
  PROVE  LeftoverRefused'
<1> USE DEF DoctorInv, TypeOK, LeftoverRefused, UsingDir, Closing
<1> DEFINE Fresh(f) == \A a \in Artifacts : f[a] # "stale"
<1>1. pc \in UsingDir => Fresh(files)
  OBVIOUS
<1>2. CASE Parse
  BY <1>2 DEF Parse, ParseFlag, ParseValue, ParseSource, ParseBad, ParseEnd,
     Option, diskVars, runVars
<1>3. CASE ShowHelp \/ CheckArguments \/ MakePaths
  BY <1>3 DEF ShowHelp, CheckArguments, MakePaths, Continue, diskVars, runVars
<1>4. CASE CreateDir
  BY <1>4 DEF CreateDir, MayCreate, Continue, runVars
<1>5. CASE pc \in UsingDir
  <2> SUFFICES Fresh(files')
    OBVIOUS
  <2> USE <1>1, <1>5
  <2>1. CASE WriteRecords
    BY <2>1, WritesAreFresh DEF WriteRecords, Artifacts
  <2>2. CASE StartWrapper \/ StartContract \/ StartModule \/ StartModuleJson
    <3>1. ASSUME NEW c \in Artifacts, NEW r, NEW f, Spawn(c, r, f)
          PROVE  Fresh(files')
      BY <3>1 DEF Spawn
    <3>2. CASE UNCHANGED files
      BY <3>2
    <3>3. QED
      BY <2>2, <3>1, <3>2 DEF StartWrapper, StartContract, StartModule,
         StartModuleJson, Artifacts
  <2>3. CASE WrapperEnds
    BY <2>3 DEF WrapperEnds
  <2>4. CASE ModuleEnds \/ ModuleJsonEnds
    BY <2>4 DEF ModuleEnds, ModuleJsonEnds, ModuleChild, Artifacts
  <2>5. CASE WriteSummary \/ WriteJson \/ WriteReceipt
    <3>1. ASSUME NEW a \in Artifacts, WriteFile(a)
          PROVE  Fresh(files')
      BY <3>1, WritesAreFresh DEF WriteFile
    <3>2. QED
      BY <2>5, <3>1 DEF WriteSummary, WriteJson, WriteReceipt, Artifacts
  <2>6. CASE WriteEvidence
    BY <2>6, WritesAreFresh DEF WriteEvidence, Artifacts
  <2>7. CASE ContractEnds \/ Judge \/ UNCHANGED vars
    BY <2>7 DEF ContractEnds, Judge, vars, diskVars
  <2>8. QED
    BY <1>5, <2>1, <2>2, <2>3, <2>4, <2>5, <2>6, <2>7
    DEF Next, Parse, ParseFlag, ParseValue, ParseSource, ParseBad, ParseEnd,
        Option, Prepare, ShowHelp, CheckArguments, MakePaths, CreateDir,
        RunTools, Close, Exit, Terminated
<1>6. CASE Exit \/ UNCHANGED vars
  BY <1>6 DEF Exit, vars, diskVars, runVars
<1>7. QED
  BY <1>2, <1>3, <1>4, <1>5, <1>6
  DEF Next, Prepare, RunTools, Close, Terminated, WriteRecords, StartWrapper,
      WrapperEnds, StartContract, ContractEnds, StartModule, ModuleEnds,
      StartModuleJson, ModuleJsonEnds, WriteSummary, WriteJson, WriteEvidence,
      WriteReceipt, Judge

LEMMA InvStep == DoctorInv /\ [Next]_vars => DoctorInv'
<1>1. DoctorInv /\ [Next]_vars => TypeOK'
  BY TypeStep DEF DoctorInv
<1>2. QED
  BY <1>1, ControlStep, LeftoverStep DEF DoctorInv

THEOREM Invariance == Spec => []DoctorInv
BY InvInit, InvStep, PTL DEF Spec

(* Exit 0 and 1 are earned: by every required audit, in this run.          *)
THEOREM VerdictSound == Spec => []VerdictMatchesTools
<1>1. DoctorInv => VerdictMatchesTools
  BY DEF DoctorInv, TypeOK, NotJudgedYet, ToolsSoFar, Concluded, RunVerdict,
     VerdictMatchesTools, Judged, FinalStatus, RequiredTools, SourceTools,
     Tools, Locations, IsAcceptable, IsClean, HasFindings, Exited, NoExit,
     Success, Findings, Trouble
<1>2. QED
  BY <1>1, Invariance, PTL

(* A run never touches, and never vouches for, what another run left.      *)
THEOREM NeverReusesLeftovers == Spec => []LeftoverUntouched
<1>1. DoctorInv => LeftoverUntouched
  BY DEF DoctorInv, LeftoverRefused, LeftoverUntouched
<1>2. QED
  BY <1>1, Invariance, PTL

-----------------------------------------------------------------------------
(* What a verdict rests on.                                                *)

LEMMA EvidenceInit == Init => EvidenceInv
BY DEF Init, EvidenceInv, RecordsKept, SourcesKept, ModuleKept, ClosedSoFar,
   ReceiptSaid, Finished, UsingDir, Closing, NoReceipt

(* Starting a child touches no file but its capture, which is the child's  *)
(* when it runs, and stays what it was or becomes it when it does not.     *)
LEMMA SpawnKeeps ==
  ASSUME NEW capture \in Artifacts, NEW running, NEW failing,
         files \in [Artifacts -> FileStates],
         Spawn(capture, running, failing)
  PROVE  /\ \A a \in Artifacts \ {capture} : files'[a] = files[a]
         /\ Started(capture) => Started(capture)'
         /\ \/ pc' = running /\ err' = err /\ Started(capture)'
            \/ pc' \in failing /\ err'
BY DEF Spawn, Started

(* A writer touches no file but its own, and leaves it whole unless it     *)
(* reports an error.                                                       *)
LEMMA WriteKeeps ==
  ASSUME NEW a \in Artifacts, files \in [Artifacts -> FileStates],
         err \in BOOLEAN, WriteFile(a)
  PROVE  /\ \A b \in Artifacts \ {a} : files'[b] = files[b]
         /\ err => err'
         /\ ~err' => Whole(a)'
<1>1. PICK w \in Writable(files[a]) :
        /\ files' = [files EXCEPT ![a] = w.left]
        /\ err' = (err \/ w.failed)
  BY DEF WriteFile
<1>2. ~w.failed => w.left = "whole"
  BY DEF Writable
<1>3. QED
  BY <1>1, <1>2 DEF Whole

(* The record part: what each stage needs of the earlier ones stays whole. *)
LEMMA KeptStep ==
  ASSUME DoctorInv, EvidenceInv, [Next]_vars, TypeOK'
  PROVE  RecordsKept' /\ SourcesKept' /\ ModuleKept'
<1> USE DEF EvidenceInv, RecordsKept, SourcesKept, ModuleKept, UsingDir,
            Closing, Artifacts
<1>0. /\ files \in [Artifacts -> FileStates] /\ err \in BOOLEAN
      /\ status \in [Tools -> WaitStatuses] /\ pc \in Locations
  BY DEF DoctorInv, TypeOK
<1>e. ErrorChecked /\ ToolsSoFar
  BY DEF DoctorInv
<1> USE <1>0
<1>1. CASE Parse \/ ShowHelp \/ CheckArguments \/ MakePaths
  <2>1. pc' \notin UsingDir
    BY <1>1
    DEF Parse, ParseFlag, ParseValue, ParseSource, ParseBad, ParseEnd, Option,
        ShowHelp, CheckArguments, MakePaths, Continue
  <2>2. reported' = {}
    BY <1>1, <1>e
    DEF ToolsSoFar, Parse, ParseFlag, ParseValue, ParseSource, ParseBad,
        ParseEnd, Option, ShowHelp, CheckArguments, MakePaths, runVars
  <2>3. QED
    BY <2>1, <2>2
<1>2. CASE CreateDir
  BY <1>2, <1>e DEF ToolsSoFar, CreateDir, Continue, runVars
<1>3. CASE WriteRecords
  <2>1. PICK c \in Writable(files["command"]),
             m \in Writable(files["manifest"]) :
          /\ files' = [files EXCEPT !["command"] = c.left,
                                    !["manifest"] = m.left]
          /\ err' = (err \/ c.failed \/ m.failed)
    BY <1>3 DEF WriteRecords
  <2>2. (~c.failed => c.left = "whole") /\ (~m.failed => m.left = "whole")
    BY DEF Writable
  <2>3. pc' # "exit" => Whole("command")' /\ Whole("manifest")'
    BY <1>3, <2>1, <2>2 DEF WriteRecords, Continue, Whole, Started
  <2>4. reported' = {} /\ pc' \in {"exit", "module", "wrapper"}
        /\ (pc' = "module" => skip') 
    BY <1>3, <1>e DEF ToolsSoFar, WriteRecords, Continue, runVars, parseVars
  <2>5. QED
    BY <2>3, <2>4
<1>4. CASE StartWrapper
  <2>1. CASE UNCHANGED files /\ pc' = "exit"
    BY <1>4, <2>1, <1>e DEF StartWrapper, Whole, Started, ToolsSoFar
  <2>2. CASE Spawn("wrapper-capture", "wrapperChild", {"exit"})
    BY <1>4, <2>2, <1>e, SpawnKeeps
    DEF StartWrapper, Whole, Started, parseVars, ToolsSoFar
  <2>3. QED
    BY <1>4, <2>1, <2>2 DEF StartWrapper
<1>5. CASE WrapperEnds
  <2>1. \A a \in Artifacts \ {"facts", "inputs"} : files'[a] = files[a]
    BY <1>5 DEF WrapperEnds
  <2>2. QED
    BY <1>5, <2>1, <1>e DEF WrapperEnds, Whole, Started, parseVars, ToolsSoFar
<1>6. CASE StartContract
  BY <1>6, <1>e, SpawnKeeps DEF StartContract, Whole, Started, parseVars, ToolsSoFar
<1>7. CASE ContractEnds
  BY <1>7, <1>e DEF ContractEnds, Whole, Started, parseVars, diskVars, ToolsSoFar, Tools
<1>8. CASE StartModule
  <2>1. CASE UNCHANGED files /\ pc' = "exit"
    BY <1>8, <2>1, <1>e DEF StartModule, Whole, Started, ToolsSoFar
  <2>2. CASE Spawn("module-capture", "moduleChild", {"exit", "moduleJson"})
    BY <1>8, <2>2, <1>e, SpawnKeeps
    DEF StartModule, Whole, Started, parseVars, ToolsSoFar
  <2>3. QED
    BY <1>8, <2>1, <2>2 DEF StartModule
<1>9. CASE ModuleEnds
  <2>1. PICK s \in WaitStatuses : ModuleEnds!2!(s)
    BY <1>9 DEF ModuleEnds
  <2>2. \A a \in Artifacts \ {"module-report"} : files'[a] = files[a]
    BY <2>1 DEF ModuleChild
  <2>3. pc' \in {"moduleJson", "summary"}
    BY <2>1
  <2>4. QED
    BY <1>9, <2>2, <2>3, <1>e
    DEF ModuleEnds, Whole, Started, parseVars, ToolsSoFar
<1>10. CASE StartModuleJson
  BY <1>10, <1>e, SpawnKeeps
  DEF StartModuleJson, Whole, Started, parseVars, ToolsSoFar
<1>11. CASE ModuleJsonEnds
  <2>1. PICK s \in WaitStatuses : ModuleJsonEnds!2!(s)
    BY <1>11 DEF ModuleJsonEnds
  <2>2. \A a \in Artifacts \ {"module-json"} : files'[a] = files[a]
    BY <2>1 DEF ModuleChild
  <2>3. QED
    BY <1>11, <2>2, <1>e
    DEF ModuleJsonEnds, Whole, Started, parseVars, ToolsSoFar
<1>12. CASE WriteSummary
  BY <1>12, WriteKeeps DEF WriteSummary, Whole, Started, parseVars, runVars
<1>13. CASE WriteJson
  BY <1>13, WriteKeeps DEF WriteJson, Whole, Started, parseVars, runVars
<1>14. CASE WriteEvidence
  <2>1. \A a \in Artifacts \ {"receipt"} : files'[a] = files[a]
    BY <1>14 DEF WriteEvidence
  <2>2. QED
    BY <1>14, <2>1 DEF WriteEvidence, Whole, Started, parseVars, runVars
<1>15. CASE WriteReceipt
  <2>1. \A a \in Artifacts \ {"tool-receipt"} : files'[a] = files[a]
    BY <1>15, WriteKeeps DEF WriteReceipt
  <2>2. QED
    BY <1>15, <2>1 DEF WriteReceipt, Continue, Whole, Started, parseVars, runVars
<1>16. CASE Judge \/ Exit \/ UNCHANGED vars
  BY <1>16 DEF Judge, Exit, vars, Whole, Started, parseVars, diskVars, runVars
<1>17. QED
  BY <1>1, <1>2, <1>3, <1>4, <1>5, <1>6, <1>7, <1>8, <1>9, <1>10, <1>11,
     <1>12, <1>13, <1>14, <1>15, <1>16
  DEF Next, Prepare, RunTools, Close, Terminated

(* What the receipts are made of is fixed once the tools are done.         *)
LEMMA SameStatuses ==
  ASSUME UNCHANGED <<skip, status>>
  PROVE  ToolReceipt' = ToolReceipt /\ RunVerdict' = RunVerdict
BY DEF ToolReceipt, ResultHasTrouble, ResultHasFindings, CompletedChecks,
   RunVerdict

LEMMA SameFiles ==
  ASSUME UNCHANGED skip,
         \A a \in Artifacts \ {"receipt", "tool-receipt"} :
           files'[a] = files[a]
  PROVE  /\ Fingerprinted' = Fingerprinted
         /\ \A a \in Fingerprinted : files'[a] = files[a]
BY DEF Fingerprinted, Artifacts

(* What the receipt is given is a true account.                            *)
LEMMA AccountIsTrue ==
  ASSUME NEW blind
  PROVE  \A a \in Fingerprinted : Account(blind)[a] \in {files[a], "unseen"}
<1>1. Fingerprinted \subseteq Artifacts
  BY DEF Fingerprinted, Artifacts
<1>2. QED
  BY <1>1 DEF Account, Line

(* The closing part: each writer reports what the run has left behind.    *)
LEMMA ClosingStep ==
  ASSUME DoctorInv, EvidenceInv, [Next]_vars, TypeOK'
  PROVE  ClosedSoFar' /\ ReceiptSaid' /\ Finished'
<1> USE DEF EvidenceInv, ClosedSoFar, ReceiptSaid, Finished, UsingDir, Closing
<1>0. /\ files \in [Artifacts -> FileStates] /\ err \in BOOLEAN
      /\ pc \in Locations /\ ret \in {Success, Findings, Trouble}
  BY DEF DoctorInv, TypeOK
<1>e. ErrorChecked /\ ToolsSoFar /\ HelpOnlyPrints /\ NotJudgedYet
  BY DEF DoctorInv
<1>1. ASSUME pc' \notin {"json", "evidence", "receipt", "judge", "done"},
             pc' # "exit" \/ help' \/ (err' /\ ret' = Trouble),
             pc \notin {"judge", "exit", "done"},
             UNCHANGED toolReceipt
      PROVE  ClosedSoFar' /\ ReceiptSaid' /\ Finished'
  BY <1>1
<1>2. CASE Parse \/ Prepare \/ RunTools
  <2> USE DEF NotJudgedYet
  <2>1. CASE Parse
    BY <2>1, <1>1, <1>e
    DEF Parse, ParseFlag, ParseValue, ParseSource, ParseBad, ParseEnd, Option,
        diskVars
  <2>2. CASE Prepare
    BY <2>2, <1>1, <1>e
    DEF Prepare, ShowHelp, CheckArguments, MakePaths, CreateDir, WriteRecords,
        Continue, HelpOnlyPrints, parseVars, diskVars
  <2>3. CASE RunTools
    BY <2>3, <1>1, <1>e
    DEF RunTools, StartWrapper, WrapperEnds, StartContract, ContractEnds,
        StartModule, ModuleEnds, StartModuleJson, ModuleJsonEnds, Spawn,
        diskVars
  <2>4. QED
    BY <1>2, <2>1, <2>2, <2>3
<1>3. CASE WriteSummary
  <2>1. (err => err') /\ (~err' => Whole("summary")')
    BY <1>3, <1>0, WriteKeeps DEF WriteSummary, Artifacts
  <2>2. QED
    BY <1>3, <2>1 DEF WriteSummary
<1>4. CASE WriteJson
  <2>1. /\ (err => err') /\ (~err' => Whole("doctor-json")')
        /\ files'["summary"] = files["summary"]
    BY <1>4, <1>0, WriteKeeps DEF WriteJson, Artifacts
  <2>2. QED
    BY <1>4, <2>1 DEF WriteJson, Whole
<1>5. CASE WriteEvidence
  <2>1. PICK w \in Writable(files["receipt"]), allRead \in BOOLEAN,
             blind \in BlindSets : WriteEvidence!2!(w, allRead, blind)
    BY <1>5 DEF WriteEvidence
  <2>2. \A a \in Artifacts \ {"receipt"} : files'[a] = files[a]
    BY <1>0, <2>1
  <2>3. /\ Fingerprinted' = Fingerprinted
        /\ \A a \in Fingerprinted : files'[a] = files[a]
    BY <1>5, <2>2, SameFiles DEF WriteEvidence, parseVars
  <2>4. ~err' => ~err /\ w.left = "whole" /\ allRead
    BY <2>1 DEF Writable
  <2>5. ~err' => TrueAccount'
    BY <2>1, <2>3, <2>4, AccountIsTrue DEF TrueAccount
  <2>6. QED
    BY <1>5, <2>2, <2>3, <2>4, <2>5 DEF WriteEvidence, Whole, Artifacts
<1>6. CASE WriteReceipt
  <2>1. UNCHANGED <<ToolReceipt, RunVerdict>>
    BY <1>6, SameStatuses DEF WriteReceipt, parseVars, runVars
  <2>2. /\ \A a \in Artifacts \ {"tool-receipt"} : files'[a] = files[a]
        /\ ~err' => Whole("tool-receipt")' /\ ~err
    BY <1>6, <1>0, WriteKeeps DEF WriteReceipt, Artifacts
  <2>3. TrueAccount' <=> TrueAccount
    BY <1>6, <2>2, SameFiles DEF WriteReceipt, TrueAccount, parseVars
  <2>4. \/ toolReceipt' = toolReceipt
        \/ toolReceipt' = ToolReceipt /\ Whole("tool-receipt")'
    BY <1>6 DEF WriteReceipt, Whole
  <2>5. ~err' => toolReceipt' = ToolReceipt
    BY <1>6, <2>2 DEF WriteReceipt, Whole
  <2>6. reported = RequiredTools /\ RequiredTools' = RequiredTools /\ ~help
    BY <1>6, <1>e
    DEF WriteReceipt, ToolsSoFar, HelpOnlyPrints, RequiredTools, parseVars
  <2>7. UNCHANGED <<skip, reported, evidence, ret, help>>
        /\ pc' = IF err' THEN "exit" ELSE "judge"
    BY <1>6 DEF WriteReceipt, Continue, parseVars, runVars
  <2>8. ClosedSoFar'
    BY <1>6, <2>1, <2>2, <2>3, <2>5, <2>7
    DEF WriteReceipt, Whole, Artifacts
  <2>9. ReceiptSaid'
    <3>1. toolReceipt = NoReceipt
      BY <1>6 DEF WriteReceipt
    <3>2. CASE toolReceipt' = toolReceipt
      BY <3>1, <3>2
    <3>3. CASE toolReceipt' = ToolReceipt /\ Whole("tool-receipt")'
      <4>1. pc' \in {"judge", "exit"}
        BY <2>7
      <4>2. QED
        BY <3>3, <4>1, <2>1, <2>6, <2>7
    <3>4. QED
      BY <2>4, <3>2, <3>3
  <2>10. Finished'
    BY <1>6, <1>e, <2>7 DEF WriteReceipt, NotJudgedYet
  <2>11. QED
    BY <2>8, <2>9, <2>10
<1>7. CASE Judge
  <2>1. /\ UNCHANGED <<ToolReceipt, RunVerdict, RequiredTools>>
        /\ TrueAccount' <=> TrueAccount
    BY <1>7, SameStatuses, SameFiles
    DEF Judge, TrueAccount, RequiredTools, parseVars, diskVars, runVars
  <2>2. ~err /\ reported = RequiredTools
    BY <1>7, <1>e DEF Judge, ErrorChecked, ToolsSoFar
  <2>3. UNCHANGED <<skip, help, reported, evidence, toolReceipt, files>>
        /\ pc' = "exit" /\ ret' = RunVerdict
    BY <1>7 DEF Judge, parseVars, diskVars, runVars
  <2>4. /\ \A a \in OwnFiles : Whole(a)
        /\ \A a \in Captures : Started(a)
    BY <1>7, <2>2
    DEF Judge, RecordsKept, SourcesKept, ModuleKept, OwnFiles, Captures
  <2>5. /\ \A a : Whole(a)' <=> Whole(a)
        /\ \A a : Started(a)' <=> Started(a)
        /\ Captures' = Captures
    BY <2>3 DEF Whole, Started, Captures
  <2>6. ReceiptSaid'
    BY <1>7, <2>1, <2>2, <2>3 DEF Judge
  <2>7. Finished'
    BY <1>7, <2>1, <2>2, <2>3, <2>4, <2>5 DEF Judge
  <2>8. ClosedSoFar'
    BY <2>3
  <2>9. QED
    BY <2>6, <2>7, <2>8
<1>8. CASE Exit \/ UNCHANGED vars
  <2>1. /\ UNCHANGED <<ToolReceipt, RunVerdict, RequiredTools>>
        /\ TrueAccount' <=> TrueAccount
    BY <1>8, SameStatuses, SameFiles
    DEF Exit, TrueAccount, RequiredTools, vars, parseVars, diskVars, runVars
  <2>2. /\ UNCHANGED <<skip, help, reported, evidence, toolReceipt, files,
                       ret, err>>
        /\ pc' = pc \/ (pc = "exit" /\ pc' = "done")
    BY <1>8 DEF Exit, vars, parseVars, diskVars, runVars
  <2>3. /\ \A a : Whole(a)' <=> Whole(a)
        /\ \A a : Started(a)' <=> Started(a)
        /\ Captures' = Captures
    BY <2>2 DEF Whole, Started, Captures
  <2>4. ClosedSoFar'
    BY <2>1, <2>2, <2>3
  <2>5. ReceiptSaid'
    BY <2>1, <2>2
  <2>6. Finished'
    BY <2>1, <2>2, <2>3
  <2>7. QED
    BY <2>4, <2>5, <2>6
<1>9. QED
  BY <1>2, <1>3, <1>4, <1>5, <1>6, <1>7, <1>8 DEF Next, Close, Terminated

LEMMA EvidenceStep ==
  DoctorInv /\ EvidenceInv /\ [Next]_vars => EvidenceInv'
BY TypeStep, KeptStep, ClosingStep DEF DoctorInv, EvidenceInv

THEOREM Evidence == Spec => []EvidenceInv
BY EvidenceInit, EvidenceStep, Invariance, PTL DEF Spec

(* tool-receipt.json tells what the exit status tells, and a receipt that  *)
(* says clean is true however the rest of the run ended.                   *)
THEOREM ReceiptTrue == Spec => []ReceiptIsTrue
<1>1. DoctorInv /\ EvidenceInv => ReceiptIsTrue
  <2> SUFFICES ASSUME DoctorInv, EvidenceInv PROVE ReceiptIsTrue
    OBVIOUS
  <2>1. /\ ResultHasTrouble <=>
             \E t \in RequiredTools : ~IsAcceptable(status[t])
        /\ ResultHasFindings <=>
             \E t \in RequiredTools : HasFindings(status[t])
    BY DEF ResultHasTrouble, ResultHasFindings, RequiredTools, SourceTools,
       Tools
  <2>2. CompletedChecks = (IF skip THEN 1 ELSE 3) <=> ~ResultHasTrouble
    BY DEF CompletedChecks, CountIf, ResultHasTrouble, SourceTools
  <2>3. RunVerdict = IF ResultHasTrouble THEN Trouble
                     ELSE IF ResultHasFindings THEN Findings ELSE Success
    BY DEF RunVerdict, ResultHasTrouble, ResultHasFindings
  <2>4. toolReceipt.outcome = "clean" =>
          \A t \in RequiredTools : t \in reported /\ IsClean(status[t])
    <3>1. NoReceipt.outcome # "clean"
      BY DEF NoReceipt
    <3>2. toolReceipt.outcome = "clean" =>
            reported = RequiredTools /\ toolReceipt = ToolReceipt
      BY <3>1 DEF EvidenceInv, ReceiptSaid
    <3>3. ToolReceipt.outcome = "clean" =>
            ~ResultHasTrouble /\ ~ResultHasFindings
      BY DEF ToolReceipt
    <3>4. QED
      BY <2>1, <3>2, <3>3 DEF IsAcceptable
  <2>5. ASSUME Judged, ~err
        PROVE  /\ files["tool-receipt"] = "whole"
               /\ exit = Success  <=> toolReceipt.outcome = "clean"
               /\ exit = Findings <=> toolReceipt.outcome = "findings"
               /\ exit # Trouble  <=>
                    toolReceipt.completed = toolReceipt.attempted
    <3>1. pc = "done" /\ ~help
      BY <2>5 DEF Judged, DoctorInv, NotJudgedYet
    <3>2. exit = ret
      BY <3>1, <2>5 DEF DoctorInv, Concluded, FinalStatus
    <3>3. /\ ret = RunVerdict /\ files["tool-receipt"] = "whole"
          /\ toolReceipt = ToolReceipt
      BY <3>1, <2>5 DEF EvidenceInv, Finished, Whole
    <3>4. /\ toolReceipt.outcome =
               IF ResultHasTrouble THEN "tool_error"
               ELSE IF ResultHasFindings THEN "findings" ELSE "clean"
          /\ toolReceipt.completed = CompletedChecks
          /\ toolReceipt.attempted = IF skip THEN 1 ELSE 3
      BY <3>3 DEF ToolReceipt
    <3>5. QED
      BY <3>2, <3>3, <3>4, <2>2, <2>3 DEF Success, Findings, Trouble
  <2>6. QED
    BY <2>4, <2>5 DEF ReceiptIsTrue
<1>2. QED
  BY <1>1, Invariance, Evidence, PTL

(* A verdict of 0 or 1 leaves the evidence audit-doctor answers for: its   *)
(* own files complete, a capture of every child, and a receipt that is a   *)
(* true account of every artifact, whatever the children left.             *)
THEOREM VerdictEvidenced == Spec => []VerdictHasEvidence
<1>1. DoctorInv /\ EvidenceInv => VerdictHasEvidence
  <2> SUFFICES ASSUME DoctorInv, EvidenceInv, Judged, exit # Trouble
               PROVE  /\ \A a \in OwnFiles : files[a] = "whole"
                      /\ \A a \in Captures : files[a] = "child"
                      /\ TrueAccount
    BY DEF VerdictHasEvidence
  <2>1. pc = "done" /\ ~help
    BY DEF Judged, DoctorInv, NotJudgedYet
  <2>2. ~err /\ ret = exit
    BY <2>1 DEF DoctorInv, Concluded, FinalStatus
  <2>3. /\ \A a \in OwnFiles : Whole(a)
        /\ \A a \in Captures : Started(a)
        /\ TrueAccount
    BY <2>1, <2>2 DEF EvidenceInv, Finished
  <2>4. QED
    BY <2>3 DEF Whole, Started
<1>2. QED
  BY <1>1, Invariance, Evidence, PTL

-----------------------------------------------------------------------------
(* The argv arrays.                                                        *)

(* With the reserves of constants.h the longest command line of a child,   *)
(* its terminating NULL included, fits the array it is built in, whatever  *)
(* MAX_SOURCE_PATHS is: audit-wrappers' reserve of 12 is the exact fit.    *)
THEOREM ArgvAlwaysFits == Spec => []ArgvFits
<1>1. Init => ArgvFits
  BY DEF Init, ArgvFits
<1>2. TypeOK /\ ArgvFits /\ [Next]_vars => ArgvFits'
  <2> SUFFICES ASSUME TypeOK, ArgvFits, [Next]_vars PROVE ArgvFits'
    OBVIOUS
  <2> USE DoctorAssumption DEF TypeOK, ArgvFits, Slots
  <2>1. CASE StartWrapper
    BY <2>1 DEF StartWrapper
  <2>2. CASE StartContract
    BY <2>2 DEF StartContract
  <2>3. CASE StartModule
    BY <2>3 DEF StartModule
  <2>4. CASE StartModuleJson
    BY <2>4 DEF StartModuleJson
  <2>5. CASE UNCHANGED argv
    BY <2>5
  <2>6. QED
    BY <2>1, <2>2, <2>3, <2>4, <2>5
    DEF Next, Parse, ParseFlag, ParseValue, ParseSource, ParseBad, ParseEnd,
        Option, Prepare, ShowHelp, CheckArguments, MakePaths, CreateDir,
        WriteRecords, RunTools, WrapperEnds, ContractEnds, ModuleEnds,
        ModuleJsonEnds, Close, WriteSummary, WriteJson, WriteEvidence,
        WriteReceipt, Judge, Exit, Terminated, runVars, vars
<1>3. QED
  BY <1>1, <1>2, TypeCorrect, PTL DEF Spec

-----------------------------------------------------------------------------
(* Refinement.                                                             *)

(* A wait status earns exactly one grade.                                  *)
LEMMA Grading ==
  ASSUME NEW s
  PROVE  /\ Classify(s) = "trouble" <=> ~IsAcceptable(s)
         /\ Classify(s) = "findings" <=> HasFindings(s)
<1>1. ~(IsClean(s) /\ HasFindings(s))
  <2>1. Exited(0).code # Exited(1).code
    BY DEF Exited
  <2>2. QED
    BY <2>1, Zenon DEF IsClean, HasFindings
<1>2. QED
  BY <1>1 DEF Classify, IsAcceptable

(* The conductor keeps the promise of Conductor: it learns at most one     *)
(* result per required tool and its verdict is the worst of them, unless   *)
(* it gives up with trouble.                                               *)
THEOREM Refinement == Spec => KeepsPromise
<1> USE DEF RequiredSoFar, ResultSoFar, VerdictSoFar
<1>1. Init => Promise!ConductorInit
  BY DEF Init, Promise!ConductorInit, Tools
<1>2. DoctorInv /\ DoctorInv' /\ [Next]_vars
        => [Promise!ConductorNext]_(Promise!conductorVars)
  <2> SUFFICES ASSUME DoctorInv, DoctorInv', [Next]_vars
               PROVE  [Promise!ConductorNext]_(Promise!conductorVars)
    OBVIOUS
  <2> DEFINE Early(p) == p \in {"parse", "help", "check"}
             Same == UNCHANGED Promise!conductorVars
  <2> USE DEF Promise!conductorVars
  <2>1. CASE /\ UNCHANGED <<skip, exit, help, reported>>
             /\ Early(pc) <=> Early(pc')
             /\ \A t \in reported : status'[t] = status[t]
    <3>1. RequiredTools' = RequiredTools
      BY <2>1 DEF RequiredTools
    <3>2. ResultSoFar' = ResultSoFar
      BY <2>1
    <3>3. QED
      BY <2>1, <3>1, <3>2
  <2>2. CASE /\ UNCHANGED <<skip, exit, help, reported, status>>
             /\ Early(pc) /\ ~Early(pc')
    <3>1. RequiredTools' \in SUBSET Tools
      BY DEF RequiredTools, Tools
    <3>2. RequiredTools' # {}
      BY DEF RequiredTools, Tools
    <3>3. RequiredSoFar = {} /\ RequiredSoFar' = RequiredTools'
      BY <2>2
    <3>4. VerdictSoFar = "none" /\ VerdictSoFar' = "none"
      BY <2>2 DEF DoctorInv, NotJudgedYet
    <3>5. ResultSoFar' = ResultSoFar
      BY <2>2
    <3> HIDE DEF RequiredSoFar, ResultSoFar, VerdictSoFar
    <3>6. Promise!Configure
      BY <3>1, <3>2, <3>3, <3>4, <3>5 DEF Promise!Configure
    <3>7. QED
      BY <3>6 DEF Promise!ConductorNext
  <2>3. ASSUME NEW t \in RequiredTools, t \notin reported,
               reported' = reported \cup {t},
               \A u \in reported : status'[u] = status[u],
               ~Early(pc), ~Early(pc'), exit = NoExit,
               UNCHANGED <<skip, exit, help>>
        PROVE  Promise!ConductorNext
    <3>1. t \in Tools /\ Classify(status'[t]) \in Promise!Grades
      BY DEF RequiredTools, Tools, Classify, Promise!Grades
    <3>2. ResultSoFar' = [ResultSoFar EXCEPT ![t] = Classify(status'[t])]
      BY <2>3, <3>1
    <3>3. RequiredSoFar' = RequiredSoFar /\ VerdictSoFar' = VerdictSoFar
      BY <2>3 DEF RequiredTools
    <3>4. Promise!Report(t)
      BY <2>3, <3>1, <3>2, <3>3 DEF Promise!Report
    <3>5. QED
      BY <3>1, <3>4 DEF Promise!ConductorNext
  <2> USE DEF DoctorInv, TypeOK
  <2>4. CASE Parse
    <3>1. CASE ParseEnd
      BY <2>1, <2>2, <3>1 DEF ParseEnd, runVars
    <3>2. CASE Option
      <4>1. Early(pc) /\ Early(pc') /\ exit = NoExit
        BY <3>2 DEF Option, NotJudgedYet
      <4>2. UNCHANGED <<exit, reported, status>>
        BY <3>2 DEF Option, runVars
      <4>3. QED
        BY <4>1, <4>2
    <3>3. QED
      BY <2>4, <3>1, <3>2
      DEF Parse, ParseFlag, ParseValue, ParseSource, ParseBad
  <2>5. CASE Prepare
    BY <2>5, <2>1, <2>2
    DEF Prepare, ShowHelp, CheckArguments, MakePaths, CreateDir, WriteRecords,
        Continue, parseVars, runVars
  <2>6. CASE RunTools
    <3> USE DEF ToolsSoFar, NotJudgedYet, RequiredTools, SourceTools, Tools
    <3>1. CASE StartWrapper \/ StartContract \/ StartModule \/ StartModuleJson
      BY <2>1, <3>1
      DEF StartWrapper, StartContract, StartModule, StartModuleJson, Spawn,
          parseVars
    <3>2. CASE WrapperEnds
      BY <2>3, <3>2 DEF WrapperEnds, parseVars
    <3>3. CASE ContractEnds
      BY <2>3, <3>3 DEF ContractEnds, parseVars
    <3>4. CASE ModuleEnds
      <4>1. CASE pc' = "moduleJson"
        BY <2>1, <3>4, <4>1 DEF ModuleEnds, parseVars
      <4>2. CASE pc' # "moduleJson"
        BY <2>3, <3>4, <4>2 DEF ModuleEnds, parseVars
      <4>3. QED
        BY <4>1, <4>2
    <3>5. CASE ModuleJsonEnds
      <4>1. CASE err
        BY <2>1, <3>5, <4>1 DEF ModuleJsonEnds, parseVars
      <4>2. CASE ~err
        BY <2>3, <3>5, <4>2 DEF ModuleJsonEnds, parseVars
      <4>3. QED
        BY <4>1, <4>2
    <3>6. QED
      BY <2>6, <3>1, <3>2, <3>3, <3>4, <3>5 DEF RunTools
  <2>7. CASE Close
    <3>1. CASE \/ WriteSummary \/ WriteJson \/ WriteEvidence
               \/ WriteReceipt \/ Judge
      BY <2>1, <3>1
      DEF WriteSummary, WriteJson, WriteEvidence, WriteReceipt, Judge,
          Continue, parseVars, runVars
    <3>2. CASE Exit
      <4>1. /\ UNCHANGED <<RequiredSoFar, ResultSoFar>>
            /\ VerdictSoFar = "none"
        BY <3>2
        DEF Exit, NotJudgedYet, RequiredTools, parseVars, runVars
      <4>2. CASE VerdictSoFar' = "none"
        BY <4>1, <4>2
      <4>3. CASE VerdictSoFar' = "trouble"
        BY <4>1, <4>3 DEF Promise!GiveUp, Promise!ConductorNext
      <4>4. CASE VerdictSoFar' \in {"clean", "findings"}
        <5>1. /\ reported = RequiredTools /\ ret = RunVerdict /\ ~help
              /\ exit' = ret
          BY <3>2, <4>4
          DEF Exit, FinalStatus, Concluded, parseVars, Success, Findings,
              Trouble, NoExit
        <5>2. /\ RequiredSoFar = RequiredTools /\ RequiredTools # {}
              /\ RequiredTools \subseteq Tools
          BY <3>2 DEF Exit, RequiredTools, Tools
        <5>3. \A t \in RequiredTools : ResultSoFar[t] = Classify(status[t])
          BY <5>1, <5>2
        <5>4. VerdictSoFar' = Promise!Worst(ResultSoFar, RequiredSoFar)
          <6>1. \A t \in RequiredTools :
                  /\ ResultSoFar[t] = "trouble" <=> ~IsAcceptable(status[t])
                  /\ ResultSoFar[t] = "findings" <=> HasFindings(status[t])
            BY <5>3, Grading
          <6>2. RunVerdict =
                  IF \E t \in RequiredTools : ~IsAcceptable(status[t])
                  THEN Trouble
                  ELSE IF \E t \in RequiredTools : HasFindings(status[t])
                  THEN Findings ELSE Success
            BY DEF RunVerdict, RequiredTools, SourceTools, Tools
          <6>3. /\ ret = Success => VerdictSoFar' = "clean"
                /\ ret = Findings => VerdictSoFar' = "findings"
                /\ ret # Trouble
            BY <5>1, <4>4, <3>2
            DEF Exit, parseVars, Success, Findings, Trouble, NoExit
          <6> HIDE DEF ResultSoFar, VerdictSoFar
          <6>4. \A t \in RequiredTools : ResultSoFar[t] # "trouble"
            BY <5>1, <6>1, <6>2, <6>3
          <6>5. CASE \E t \in RequiredTools : HasFindings(status[t])
            BY <5>1, <5>2, <6>1, <6>2, <6>3, <6>4, <6>5 DEF Promise!Worst
          <6>6. CASE ~ \E t \in RequiredTools : HasFindings(status[t])
            BY <5>1, <5>2, <6>1, <6>2, <6>3, <6>4, <6>6 DEF Promise!Worst
          <6>7. QED
            BY <6>5, <6>6
        <5>5. Promise!Conclude
          BY <4>1, <5>2, <5>3, <5>4 DEF Promise!Conclude, Classify
        <5>6. QED
          BY <5>5 DEF Promise!ConductorNext
      <4>5. QED
        BY <4>2, <4>3, <4>4
    <3>3. QED
      BY <2>7, <3>1, <3>2 DEF Close
  <2>8. CASE UNCHANGED vars
    BY <2>8, <2>1 DEF vars, parseVars, runVars
  <2>9. QED
    BY <2>4, <2>5, <2>6, <2>7, <2>8 DEF Next, Terminated
<1>3. QED
  BY <1>1, <1>2, Invariance, PTL DEF Spec, KeepsPromise, Promise!ConductorSpec
=============================================================================
