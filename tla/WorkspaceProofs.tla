--------------------------- MODULE WorkspaceProofs --------------------------
(***************************************************************************)
(* Theorems about WorkspaceAudit: for every workspace, every command line  *)
(* and every size of the tables, no policy forgets an error but the three  *)
(* that look for a file with it, the status and the receipt of             *)
(* audit-workspace say what the findings say, and native-wrapper-parity,   *)
(* boundaries, wrapper-unit-tests, instrumentation and                     *)
(* wrapper-fault-semantics judge their contracts truly.                    *)
(***************************************************************************)
EXTENDS WorkspaceAudit, FiniteSetTheorems, FunctionTheorems, TLAPS

-----------------------------------------------------------------------------
(* The stages of each policy.                                              *)

UnitStages == {"wrapper-unit-tests", "apis", "tests", "verdicts"}
ParityStages == {"native-wrapper-parity", "contract", "close", "pairs"}
InstrumentationStages == {"instrumentation", "roles", "instrumented", "required"}
BoundaryStages == {"boundaries", "register", "evidence", "execution"}
FaultStages == {"wrapper-fault-semantics", "modes", "admitted", "mechanism"}
InventoryStages ==
  {"test-inventory", "graph", "nodes", "checker", "entries", "exclusions", "scripts",
   "repositories", "inventoried"}
DutyStages == {"source-responsibilities", "gather", "owners", "facades", "dependencies"}
SplitStages ==
  {"functional-library-split", "central", "domain", "manifest", "layout", "retired",
   "references", "root"}
QualityStages ==
  {"quality-contract", "documents", "surfaces", "outcomes", "excluded", "publics",
   "audits", "registered", "termination", "platforms", "oracles", "catalogued"}

(* Nothing has gone wrong before a policy starts, nor when the graph is    *)
(* read, the one place where the model sets the error afresh, nor when a   *)
(* domain is entered and when its layout is judged.                        *)
ErrInv ==
  /\ err \in BOOLEAN
  /\ stage \in {"arguments", "resolve", "graph", "domain", "layout"} \cup Policies =>
       ~err

(* What every step of six policies keeps: an error that is there stays,    *)
(* and only a policy without one goes on to write its findings.            *)
ErrStays == err' = err \/ err' = TRUE
Within(stages) ==
  /\ stage \in stages
  /\ stage' \in (stages \ Policies) \cup {"write", "end"}
  /\ ErrStays
  /\ stage' \in {"write", "graph"} => ~err'
  /\ UNCHANGED <<options, workspace>>

(* The other three may lose one from where a file is looked for to where   *)
(* the next one is, and come to such a place without one.                  *)
Remembers ==
  ErrStays \/ (stage \in MayForget /\ stage' \in MayForget /\ err' \in BOOLEAN)
Roaming(stages) ==
  /\ stage \in stages
  /\ stage' \in (stages \ Policies) \cup {"write", "end"}
  /\ Remembers
  /\ stage' \in {"write", "graph", "domain", "layout"} => ~err'
  /\ stage' \in MayForget => stage \in MayForget \/ ~err
  /\ UNCHANGED <<options, workspace>>

LEMMA Adding ==
  ASSUME err \in BOOLEAN
  PROVE  /\ \A f : Add(f) => ErrStays
         /\ \A f, fits : Tell(f, fits) => ErrStays
         /\ \A fs, trouble : AddAmid(fs, trouble) => ErrStays
         /\ \A fs : AddAll(fs) => ErrStays
         /\ \A f : AddAnyway(f) => ErrStays
         /\ \A f, fits : TellMissing(f, fits) => err' \in BOOLEAN
<1>1. \A f : Add(f) => ErrStays
  BY DEF Add, ErrStays
<1>2. \A f, fits : Tell(f, fits) => ErrStays
  BY <1>1, Zenon DEF Tell, ErrStays
<1>3. \A fs, trouble : AddAmid(fs, trouble) => ErrStays
  <2> SUFFICES ASSUME NEW fs, NEW trouble, AddAmid(fs, trouble)
               PROVE  err' = err \/ err' = TRUE
    BY DEF ErrStays
  <2>1. err' \in BOOLEAN /\ (err => err')
    BY Zenon DEF AddAmid
  <2>2. QED
    BY <2>1
<1>4. \A f, fits : TellMissing(f, fits) => err' \in BOOLEAN
  BY Zenon DEF TellMissing, NotFound
<1>5. QED
  BY <1>1, <1>2, <1>3, <1>4 DEF AddAll, AddAnyway

LEMMA Leaving ==
  ASSUME err \in BOOLEAN
  PROVE  /\ GiveUp => stage' = "end" /\ ErrStays
         /\ PolicyEnds => /\ stage' \in {"write", "end"} /\ ErrStays
                          /\ stage' = "write" => ~err'
<1>1. GiveUp => stage' = "end" /\ ErrStays
  BY Zenon DEF GiveUp, ErrStays
<1>2. PolicyEnds => ErrStays
  BY DEF PolicyEnds, ErrStays
<1>3. PolicyEnds => /\ stage' \in {"write", "end"}
                    /\ stage' = "write" => ~err'
  BY DEF PolicyEnds
<1>4. QED
  BY <1>1, <1>2, <1>3

LEMMA UnitStep ==
  ASSUME ErrInv, UnitTests
  PROVE  Roaming(UnitStages)
<1> USE DEF MayForget, Remembers, Roaming, UnitStages
<1>0. err \in BOOLEAN
  BY DEF ErrInv
<1>1. CASE UnitStart
  BY <1>0, <1>1, Leaving DEF UnitStart, Add, ErrStays, ErrInv, Policies
<1>2. CASE SkipLibrary \/ LibrariesEnd
  BY <1>0, <1>2 DEF SkipLibrary, LibrariesEnd, resultVars, ErrStays, Policies
<1>3. CASE LoadApis
  BY <1>0, <1>3, Adding DEF LoadApis, ErrStays, Policies
<1>4. CASE UnknownTest \/ RefusedTest \/ OverlongTest
  BY <1>0, <1>4, Adding
  DEF UnknownTest, RefusedTest, OverlongTest, ReadingTests, TellRow, ErrStays, Policies
<1>5. CASE AcceptedTest
  <2>1. err' \in BOOLEAN
    BY <1>0, <1>5, Adding DEF AcceptedTest
  <2>2. QED
    BY <1>5, <2>1 DEF AcceptedTest, ReadingTests, Policies
<1>6. CASE TestsEnd
  BY <1>0, <1>6, Adding DEF TestsEnd, ErrStays, Policies
<1>7. CASE JudgeApi
  BY <1>0, <1>7, Adding DEF JudgeApi, ErrStays, Policies
<1>8. CASE UnitEnds
  BY <1>0, <1>8, Leaving DEF UnitEnds, ErrStays, Policies
<1>9. QED
  BY <1>1, <1>2, <1>3, <1>4, <1>5, <1>6, <1>7, <1>8 DEF UnitTests

LEMMA ParityStep ==
  ASSUME ErrInv, Parity
  PROVE  Roaming(ParityStages)
<1> USE DEF MayForget, Remembers, Roaming, ParityStages
<1>0. err \in BOOLEAN
  BY DEF ErrInv
<1>1. CASE ParityStart
  BY <1>0, <1>1, Adding, Leaving DEF ParityStart, ErrInv, ErrStays, Policies
<1>2. CASE RefusedRow \/ TakeRow
  BY <1>0, <1>2, Adding
  DEF RefusedRow, TakeRow, Usable, Proper, Reading, NextRow, ErrStays, Policies
<1>3. CASE RepeatedRow
  <2>1. err' \in BOOLEAN
    BY <1>0, <1>3, Adding DEF RepeatedRow, ErrStays
  <2>2. QED
    BY <1>3, <2>1 DEF RepeatedRow, Usable, Proper, Reading, NextRow, Policies
<1>4. CASE UnusableRow
  BY <1>0, <1>4 DEF UnusableRow, Proper, Reading, NextRow, ErrStays, Policies
<1>5. CASE ContractEnds
  <2>1. ErrStays
    <3>1. err' \in BOOLEAN /\ (err => err')
      BY <1>5, Zenon DEF ContractEnds
    <3>2. QED
      BY <1>0, <3>1 DEF ErrStays
  <2>2. QED
    BY <1>5, <2>1 DEF ContractEnds, Policies
<1>6. CASE CloseContract
  BY <1>0, <1>6, Leaving DEF CloseContract, ErrStays, Policies
<1>7. CASE JudgePair
  BY <1>0, <1>7, Adding DEF JudgePair, ErrStays, Policies
<1>8. CASE ParityEnds
  BY <1>0, <1>8, Leaving DEF ParityEnds, ErrStays, Policies
<1>9. QED
  BY <1>1, <1>2, <1>3, <1>4, <1>5, <1>6, <1>7, <1>8 DEF Parity

LEMMA InstrumentationStep ==
  ASSUME ErrInv, InstrumentationAudit
  PROVE  Within(InstrumentationStages)
<1>0. err \in BOOLEAN
  BY DEF ErrInv
<1>1. CASE TermsRead
  BY <1>0, <1>1, Adding, Leaving
  DEF TermsRead, ErrStays, Policies, Within, InstrumentationStages
<1>2. CASE SkipInfrastructure \/ InstrumentedEnds
  BY <1>0, <1>2
  DEF SkipInfrastructure, InstrumentedEnds, ReadingRoles, resultVars, ErrStays,
      Policies, Within, InstrumentationStages
<1>3. CASE UnknownRole
  BY <1>0, <1>3, Adding
  DEF UnknownRole, ReadingRoles, ErrStays, Policies, Within, InstrumentationStages
<1>4. CASE LoadManifest
  BY <1>0, <1>4, Adding
  DEF LoadManifest, ReadingRoles, ErrStays, Policies, Within, InstrumentationStages
<1>5. CASE AssignFacts
  BY <1>0, <1>5, Leaving
  DEF AssignFacts, ErrStays, Policies, Within, InstrumentationStages
<1>6. CASE JudgeInstrumented
  BY <1>0, <1>6, Adding
  DEF JudgeInstrumented, ErrStays, Policies, Within, InstrumentationStages
<1>7. CASE ValidateRequired
  BY <1>0, <1>7, Adding, Leaving
  DEF ValidateRequired, ErrStays, Policies, Within, InstrumentationStages
<1>8. CASE WriteReceipt
  BY <1>0, <1>8, Leaving
  DEF WriteReceipt, ErrStays, Policies, Within, InstrumentationStages
<1>9. QED
  BY <1>1, <1>2, <1>3, <1>4, <1>5, <1>6, <1>7, <1>8 DEF InstrumentationAudit

LEMMA BoundaryStep ==
  ASSUME ErrInv, Boundaries
  PROVE  Within(BoundaryStages)
<1>0. err \in BOOLEAN
  BY DEF ErrInv
<1>1. CASE RegisterRead
  BY <1>0, <1>1, Adding, Leaving
  DEF RegisterRead, ErrStays, Policies, Within, BoundaryStages
<1>2. CASE JudgeBoundary
  BY <1>0, <1>2, Adding DEF JudgeBoundary, ErrStays, Policies, Within, BoundaryStages
<1>3. CASE NoEvidence \/ JudgeEvidence
  BY <1>0, <1>3, Adding
  DEF NoEvidence, JudgeEvidence, AtTest, Looking, ErrStays, Policies, Within,
      BoundaryStages
<1>4. CASE OverlongIdentity \/ TestsDone
  BY <1>0, <1>4
  DEF OverlongIdentity, TestsDone, Looking, resultVars, ErrStays, Policies, Within,
      BoundaryStages
<1>5. CASE ReceiptRead
  BY <1>0, <1>5, Adding, Leaving
  DEF ReceiptRead, ErrStays, Policies, Within, BoundaryStages
<1>6. CASE JudgeOwner
  BY <1>0, <1>6, Adding DEF JudgeOwner, ErrStays, Policies, Within, BoundaryStages
<1>7. CASE OwnersEnd
  BY <1>0, <1>7, Leaving DEF OwnersEnd, ErrStays, Policies, Within, BoundaryStages
<1>8. QED
  BY <1>1, <1>2, <1>3, <1>4, <1>5, <1>6, <1>7 DEF Boundaries

LEMMA FaultStep ==
  ASSUME ErrInv, FaultSemantics
  PROVE  Within(FaultStages)
<1>0. err \in BOOLEAN
  BY DEF ErrInv
<1>1. CASE FaultRead
  BY <1>0, <1>1, Adding, Leaving
  DEF FaultRead, ErrStays, Policies, Within, FaultStages
<1>2. CASE ModesDrifted \/ JudgeMode
  BY <1>0, <1>2, Adding
  DEF ModesDrifted, JudgeMode, ErrStays, Policies, Within, FaultStages
<1>3. CASE ModesEnd
  BY <1>0, <1>3 DEF ModesEnd, resultVars, ErrStays, Policies, Within, FaultStages
<1>4. CASE JudgeIdentity
  BY <1>0, <1>4, Adding DEF JudgeIdentity, ErrStays, Policies, Within, FaultStages
<1>5. CASE Analyse
  BY <1>0, <1>5, Leaving DEF Analyse, ErrStays, Policies, Within, FaultStages
<1>6. CASE JudgeFaultPart
  BY <1>0, <1>6, Adding DEF JudgeFaultPart, ErrStays, Policies, Within, FaultStages
<1>7. CASE FaultsEnd
  BY <1>0, <1>7, Leaving DEF FaultsEnd, ErrStays, Policies, Within, FaultStages
<1>8. QED
  BY <1>1, <1>2, <1>3, <1>4, <1>5, <1>6, <1>7 DEF FaultSemantics

LEMMA InventoryStep ==
  ASSUME ErrInv, TestInventory
  PROVE  Within(InventoryStages)
<1>0. err \in BOOLEAN
  BY DEF ErrInv
<1>1. CASE InventoryRead
  <2>1. /\ stage = "test-inventory" /\ ~err /\ ErrStays
        /\ stage' \in {"graph", "write", "end"}
        /\ stage' \in {"write", "graph"} => ~err'
    <3>1. ~err
      BY <1>1 DEF InventoryRead, ErrInv, Policies
    <3>2. /\ stage = "test-inventory" /\ ErrStays
          /\ \/ stage' = "graph" /\ err' = err
             \/ stage' = (IF err' THEN "end" ELSE "write")
             \/ stage' = "end"
      BY <1>0, <1>1, Adding, Leaving DEF InventoryRead, ErrStays
    <3>3. QED
      BY <1>0, <3>1, <3>2 DEF ErrStays
  <2>2. QED
    BY <1>1, <2>1 DEF InventoryRead, Policies, Within, InventoryStages
<1>2. CASE GraphRead
  <2>1. err' \in BOOLEAN
    BY <1>2, Zenon DEF GraphRead
  <2>2. ErrStays
    BY <1>0, <2>1, <1>2 DEF ErrInv, ErrStays, GraphRead
  <2>3. /\ stage = "graph" /\ stage' = "nodes"
        /\ UNCHANGED <<options, workspace>>
    BY <1>2 DEF GraphRead
  <2>4. QED
    BY <2>2, <2>3 DEF Policies, Within, InventoryStages
<1>3. CASE GovernNode
  <2>1. ~err /\ err' \in BOOLEAN
    BY <1>0, <1>3, Zenon DEF GovernNode, GiveUp
  <2>2. ErrStays
    BY <1>0, <2>1 DEF ErrStays
  <2>3. /\ stage = "nodes" /\ stage' \in {"nodes", "checker", "end"}
        /\ UNCHANGED <<options, workspace>>
    BY <1>3 DEF GovernNode, GiveUp
  <2>4. QED
    BY <2>2, <2>3 DEF Policies, Within, InventoryStages
<1>4. CASE GraphEnds
  BY <1>0, <1>4, Leaving DEF GraphEnds, ErrStays, Policies, Within, InventoryStages
<1>5. CASE JudgeEntry \/ JudgeExclusion
  BY <1>0, <1>5, Adding
  DEF JudgeEntry, JudgeExclusion, ErrStays, Policies, Within, InventoryStages
<1>6. CASE RefusePath
  BY <1>0, <1>6, Leaving DEF RefusePath, ErrStays, Policies, Within, InventoryStages
<1>7. CASE EntriesEnd \/ NoExclusions
  BY <1>0, <1>7, Adding
  DEF EntriesEnd, NoExclusions, ErrStays, Policies, Within, InventoryStages
<1>8. CASE ExclusionsEnd \/ CollectScripts \/ RepositoriesEnd
  BY <1>0, <1>8
  DEF ExclusionsEnd, CollectScripts, RepositoriesEnd, resultVars, ErrStays, Policies,
      Within, InventoryStages
<1>9. CASE LoseScripts \/ MissScripts \/ ScriptsEnd
  BY <1>0, <1>9, Leaving
  DEF LoseScripts, MissScripts, ScriptsEnd, ErrStays, Policies, Within,
      InventoryStages
<1>10. CASE SkipRepository \/ MalformedRepository \/ JudgeRepository
  BY <1>0, <1>10, Adding
  DEF SkipRepository, MalformedRepository, JudgeRepository, RepositoryRow, resultVars,
      ErrStays, Policies, Within, InventoryStages
<1>11. CASE JudgeInventory
  BY <1>0, <1>11, Adding DEF JudgeInventory, ErrStays, Policies, Within, InventoryStages
<1>12. CASE InventoryEnds
  BY <1>0, <1>12, Leaving DEF InventoryEnds, ErrStays, Policies, Within, InventoryStages
<1>13. QED
  BY <1>1, <1>2, <1>3, <1>4, <1>5, <1>6, <1>7, <1>8, <1>9, <1>10, <1>11, <1>12
  DEF TestInventory

LEMMA DutyStep ==
  ASSUME ErrInv, Responsibilities
  PROVE  Within(DutyStages)
<1>0. err \in BOOLEAN
  BY DEF ErrInv
<1>1. CASE DutiesRead
  BY <1>0, <1>1, Adding, Leaving
  DEF DutiesRead, ErrStays, Policies, Within, DutyStages
<1>2. CASE Gather \/ Scan
  BY <1>0, <1>2, Leaving DEF Gather, Scan, ErrStays, Policies, Within, DutyStages
<1>3. CASE JudgeResponsibility \/ JudgeFacade \/ JudgeRepositoryOf
  BY <1>0, <1>3, Adding
  DEF JudgeResponsibility, JudgeFacade, JudgeRepositoryOf, ErrStays, Policies, Within,
      DutyStages
<1>4. CASE OwnedEnd \/ FacadesEnd \/ OverlongName
  BY <1>0, <1>4
  DEF OwnedEnd, FacadesEnd, OverlongName, resultVars, ErrStays, Policies, Within,
      DutyStages
<1>5. CASE LoseRepository
  BY <1>0, <1>5, Leaving DEF LoseRepository, ErrStays, Policies, Within, DutyStages
<1>6. CASE ResponsibilitiesEnd
  BY <1>0, <1>6, Leaving DEF ResponsibilitiesEnd, ErrStays, Policies, Within, DutyStages
<1>7. QED
  BY <1>1, <1>2, <1>3, <1>4, <1>5, <1>6 DEF Responsibilities

LEMMA SplitStep ==
  ASSUME ErrInv, FunctionalLayout
  PROVE  Roaming(SplitStages)
<1> USE DEF MayForget, Remembers, Roaming, SplitStages
<1>0. err \in BOOLEAN
  BY DEF ErrInv
<1>1. CASE LayoutRead \/ CentralEnds \/ ManifestEnds
  BY <1>0, <1>1 DEF LayoutRead, CentralEnds, ManifestEnds, resultVars, ErrStays, Policies
<1>2. CASE LayoutTrouble \/ MisplacedHeader
  BY <1>0, <1>2, Leaving
  DEF LayoutTrouble, MisplacedHeader, AtRowOf, AtRow, ErrStays, Policies
<1>3. CASE CollectCentral
  BY <1>0, <1>3, Adding DEF CollectCentral, ErrStays, Policies
<1>4. CASE EnterDomain \/ SkipManifestRow \/ JudgeManifestRow
  BY <1>0, <1>4, Adding
  DEF EnterDomain, SkipManifestRow, JudgeManifestRow, AtRowOf, AtRow, ErrStays, Policies
<1>5. CASE JudgeLayout \/ JudgeOwnership \/ ScanReferences
  BY <1>0, <1>5, Adding
  DEF JudgeLayout, JudgeOwnership, ScanReferences, ErrInv, ErrStays, Policies
<1>6. CASE LookForRetired
  <2>1. err' \in BOOLEAN
    BY <1>0, <1>6, Adding, Zenon DEF LookForRetired, NotFound, Add
  <2>2. QED
    BY <1>6, <2>1 DEF LookForRetired, Policies
<1>7. CASE RetiredEnds \/ RootEnds
  BY <1>0, <1>7 DEF RetiredEnds, RootEnds, resultVars, ErrStays, Policies
<1>8. CASE LookInVain
  BY <1>8 DEF LookInVain, Policies
<1>9. CASE LayoutEnds
  BY <1>0, <1>9, Leaving DEF LayoutEnds, ErrStays, Policies
<1>10. QED
  BY <1>1, <1>2, <1>3, <1>4, <1>5, <1>6, <1>7, <1>8, <1>9 DEF FunctionalLayout

LEMMA QualityStep ==
  ASSUME ErrInv, QualityContract
  PROVE  Within(QualityStages)
<1>0. err \in BOOLEAN
  BY DEF ErrInv
<1>1. CASE QualityRead
  BY <1>0, <1>1, Adding, Leaving
  DEF QualityRead, ErrStays, Policies, Within, QualityStages
<1>2. \A section, list, faults, long :
        Judging(section, list, faults, long) =>
          /\ stage = section /\ stage' = section /\ ErrStays
          /\ UNCHANGED <<options, workspace>>
  BY <1>0, Adding DEF Judging
<1>3. CASE JudgeDocument \/ JudgeSurface \/ JudgeOutcome \/ JudgeExcluded
           \/ JudgeAudit \/ JudgeRegistered \/ JudgeOracle
  <2>1. /\ stage' = stage /\ ErrStays /\ UNCHANGED <<options, workspace>>
        /\ stage \in {"documents", "surfaces", "outcomes", "excluded", "audits",
                      "registered", "oracles"}
    BY <1>2, <1>3
    DEF JudgeDocument, JudgeSurface, JudgeOutcome, JudgeExcluded, JudgeClass,
        JudgeAudit, JudgeRegistered, JudgeOracle
  <2>2. QED
    BY <2>1 DEF Policies, Within, QualityStages
<1>4. CASE DocumentsEnd \/ SurfacesEnd \/ OutcomesEnd \/ ExcludedEnd \/ AuditsEnd
           \/ RegisteredEnd \/ OraclesEnd
  <2>1. /\ ErrStays /\ UNCHANGED <<options, workspace>>
        /\ stage \in {"documents", "surfaces", "outcomes", "excluded", "audits",
                      "registered", "oracles"}
        /\ stage' \in {"surfaces", "outcomes", "excluded", "publics", "registered",
                       "termination", "catalogued"}
    BY <1>0, <1>4, Adding
    DEF SectionEnds, DocumentsEnd, SurfacesEnd, OutcomesEnd, ExcludedEnd, AuditsEnd,
        RegisteredEnd, OraclesEnd
  <2>2. QED
    BY <2>1 DEF Policies, Within, QualityStages
<1>5. CASE DocumentsLost \/ OutcomesFull
  BY <1>0, <1>5, Leaving
  DEF DocumentsLost, OutcomesFull, ErrStays, Policies, Within, QualityStages
<1>6. CASE JudgePublics \/ JudgeTermination \/ JudgePlatforms
  BY <1>0, <1>6, Adding
  DEF JudgePublics, JudgeTermination, JudgePlatforms, ErrStays, Policies, Within,
      QualityStages
<1>7. CASE QualityEnds
  BY <1>0, <1>7, Leaving DEF QualityEnds, ErrStays, Policies, Within, QualityStages
<1>8. QED
  BY <1>1, <1>3, <1>4, <1>5, <1>6, <1>7 DEF QualityContract

-----------------------------------------------------------------------------
(* The invariant of the command.                                           *)

SteadyStages ==
  BoundaryStages \cup FaultStages \cup InventoryStages \cup DutyStages \cup QualityStages
ForgetfulStages == UnitStages \cup ParityStages \cup SplitStages
OtherStages == SteadyStages \cup ForgetfulStages
PolicyStages == OtherStages \cup InstrumentationStages

(* Until the end the policy has returned true and no status is earned.     *)
RanInv ==
  /\ ran \in BOOLEAN
  /\ status \in {Success, ExitFindings, Trouble}
  /\ stage \notin {"end", "ended"} => ran /\ status = Trouble

(* The findings are whole only after the line with the counts.             *)
OutputInv ==
  /\ stage \notin {"written", "end", "ended"} => output # "whole"
  /\ stage = "written" /\ ~err => output = "whole"

(* A run that ends without an error has a verdict, or its policy gave up.  *)
EndInv ==
  stage = "end" /\ ~err =>
    \/ ran /\ status # Trouble /\ (Acceptable(options) => output = "whole")
    \/ ~ran /\ status = Trouble

(* An error is forgotten by no other policy than those that look for a     *)
(* file with it.                                                           *)
Forgetful == {"wrapper-unit-tests", "native-wrapper-parity", "functional-library-split"}
ForgotInv ==
  /\ forgot \in BOOLEAN
  /\ forgot => options.policy \in Forgetful
  /\ stage \in ForgetfulStages => options.policy \in Forgetful

RunInv == ErrInv /\ RanInv /\ OutputInv /\ EndInv /\ ForgotInv

LEMMA RunStart == Init => RunInv
BY DEF Init, RunInv, ErrInv, RanInv, OutputInv, EndInv, ForgotInv, ForgetfulStages,
       UnitStages, ParityStages, SplitStages, Policies

(* A step of any policy stays within its stages and writes nothing.        *)
AnyPolicy ==
  \/ UnitPolicy \/ PairPolicy \/ InstrumentPolicy \/ BoundariesPolicy
  \/ SemanticsPolicy \/ ScriptsPolicy \/ DutiesPolicy \/ SplitPolicy
  \/ CataloguePolicy

LEMMA PolicySteps ==
  ASSUME ErrInv, AnyPolicy
  PROVE  /\ Returns
         /\ \/ Within(InstrumentationStages) /\ InstrumentationAudit
            \/ Within(SteadyStages) /\ receipt' = receipt
            \/ Roaming(ForgetfulStages) /\ receipt' = receipt
<1>1. CASE InstrumentPolicy
  BY <1>1, InstrumentationStep DEF InstrumentPolicy
<1>2. ASSUME NEW stages \in SUBSET SteadyStages, Within(stages)
      PROVE  Within(SteadyStages)
  BY <1>2 DEF Within
<1>3. ASSUME NEW stages \in SUBSET ForgetfulStages, Roaming(stages)
      PROVE  Roaming(ForgetfulStages)
  BY <1>3 DEF Roaming
<1>4. CASE UnitPolicy
  <2>1. Roaming(UnitStages)
    BY <1>4, UnitStep DEF UnitPolicy
  <2>2. QED
    BY <1>3, <1>4, <2>1
    DEF UnitPolicy, instrumentationVars, ForgetfulStages
<1>5. CASE PairPolicy
  <2>1. Roaming(ParityStages)
    BY <1>5, ParityStep DEF PairPolicy
  <2>2. QED
    BY <1>3, <1>5, <2>1
    DEF PairPolicy, instrumentationVars, ForgetfulStages
<1>6. CASE BoundariesPolicy
  <2>1. Within(BoundaryStages)
    BY <1>6, BoundaryStep DEF BoundariesPolicy
  <2>2. QED
    BY <1>2, <1>6, <2>1
    DEF BoundariesPolicy, instrumentationVars, SteadyStages
<1>7. CASE SemanticsPolicy
  <2>1. Within(FaultStages)
    BY <1>7, FaultStep DEF SemanticsPolicy
  <2>2. QED
    BY <1>2, <1>7, <2>1
    DEF SemanticsPolicy, tableVars, earlierVars, instrumentationVars, SteadyStages
<1>8. CASE ScriptsPolicy
  <2>1. Within(InventoryStages)
    BY <1>8, InventoryStep DEF ScriptsPolicy
  <2>2. QED
    BY <1>2, <1>8, <2>1
    DEF ScriptsPolicy, earlierVars, instrumentationVars, SteadyStages
<1>9. CASE DutiesPolicy
  <2>1. Within(DutyStages)
    BY <1>9, DutyStep DEF DutiesPolicy
  <2>2. QED
    BY <1>2, <1>9, <2>1
    DEF DutiesPolicy, earlierVars, instrumentationVars, SteadyStages
<1>10. CASE SplitPolicy
  <2>1. Roaming(SplitStages)
    BY <1>10, SplitStep DEF SplitPolicy
  <2>2. QED
    BY <1>3, <1>10, <2>1
    DEF SplitPolicy, earlierVars, instrumentationVars, ForgetfulStages
<1>11. CASE CataloguePolicy
  <2>1. Within(QualityStages)
    BY <1>11, QualityStep DEF CataloguePolicy
  <2>2. QED
    BY <1>2, <1>11, <2>1
    DEF CataloguePolicy, earlierVars, instrumentationVars, SteadyStages
<1>12. QED
  BY <1>1, <1>4, <1>5, <1>6, <1>7, <1>8, <1>9, <1>10, <1>11 DEF AnyPolicy

LEMMA StageNames ==
  /\ PolicyStages \cap {"arguments", "resolve", "write", "written", "end", "ended"} = {}
  /\ OtherStages \cap InstrumentationStages = {}
  /\ SteadyStages \cap ForgetfulStages = {}
  /\ Policies \subseteq PolicyStages
  /\ Policies \cap ForgetfulStages = Forgetful
  /\ "instrumentation" \notin OtherStages
BY DEF PolicyStages, OtherStages, SteadyStages, ForgetfulStages, Forgetful, UnitStages,
       ParityStages, InstrumentationStages, BoundaryStages, FaultStages, InventoryStages,
       DutyStages, SplitStages, QualityStages, Policies

(* The places where a file may be looked for, and those that are come to   *)
(* without an error, are of the three policies alone.                      *)
LEMMA LookingStages ==
  /\ MayForget \subseteq ForgetfulStages
  /\ {"domain", "layout"} \subseteq ForgetfulStages
BY DEF MayForget, ForgetfulStages, UnitStages, ParityStages, SplitStages

(* What a policy's step means for the command.                             *)
LEMMA PolicyShown ==
  ASSUME RunInv, AnyPolicy
  PROVE  /\ stage \in PolicyStages
         /\ stage' \in (PolicyStages \ Policies) \cup {"write", "end"}
         /\ Remembers
         /\ err' \in BOOLEAN
         /\ stage' \in {"write", "graph", "domain", "layout"} => ~err'
         /\ stage' \in MayForget => stage \in MayForget \/ ~err
         /\ ForgotInv'
         /\ ran' \in BOOLEAN
         /\ stage' # "end" => ran'
         /\ stage' = "end" => (ran' <=> err')
         /\ UNCHANGED <<options, workspace, written, output, status>>
<1>0. err \in BOOLEAN /\ forgot \in BOOLEAN
  BY DEF RunInv, ErrInv, ForgotInv
<1>1. Returns
  BY PolicySteps DEF RunInv
<1>2. ASSUME NEW stages, Within(stages), stages \subseteq PolicyStages,
             stages \cap ForgetfulStages = {}
      PROVE  /\ stage \in PolicyStages
             /\ stage' \in (PolicyStages \ Policies) \cup {"write", "end"}
             /\ Remembers /\ err' \in BOOLEAN
             /\ stage' \in {"write", "graph", "domain", "layout"} => ~err'
             /\ stage' \in MayForget => stage \in MayForget \/ ~err
             /\ ForgotInv'
             /\ UNCHANGED <<options, workspace>>
  <2>1. /\ stage \in stages /\ stage' \in (stages \ Policies) \cup {"write", "end"}
        /\ ErrStays /\ UNCHANGED <<options, workspace>>
        /\ stage' \in {"write", "graph"} => ~err'
    BY <1>2 DEF Within
  <2>2. err' \in BOOLEAN /\ ~(err /\ ~err')
    <3>1. CASE err' = err
      BY <1>0, <3>1
    <3>2. CASE err' = TRUE
      BY <3>2
    <3>3. QED
      BY <2>1, <3>1, <3>2 DEF ErrStays
  <2>3. stage' \notin ForgetfulStages
    BY <1>2, <2>1, StageNames DEF PolicyStages, OtherStages
  <2>4. forgot' = forgot
    BY <1>0, <1>1, <2>2 DEF Returns
  <2>5. ForgotInv'
    BY <2>1, <2>3, <2>4 DEF RunInv, ForgotInv
  <2>6. QED
    BY <1>2, <2>1, <2>2, <2>3, <2>5, LookingStages DEF Remembers
<1>3. ASSUME Roaming(ForgetfulStages)
      PROVE  /\ stage \in PolicyStages
             /\ stage' \in (PolicyStages \ Policies) \cup {"write", "end"}
             /\ Remembers /\ err' \in BOOLEAN
             /\ stage' \in {"write", "graph", "domain", "layout"} => ~err'
             /\ stage' \in MayForget => stage \in MayForget \/ ~err
             /\ ForgotInv'
             /\ UNCHANGED <<options, workspace>>
  <2>1. /\ stage \in ForgetfulStages
        /\ stage' \in (ForgetfulStages \ Policies) \cup {"write", "end"}
        /\ Remembers /\ UNCHANGED <<options, workspace>>
        /\ stage' \in {"write", "graph", "domain", "layout"} => ~err'
        /\ stage' \in MayForget => stage \in MayForget \/ ~err
    BY <1>3 DEF Roaming
  <2>2. err' \in BOOLEAN
    BY <1>0, <2>1 DEF Remembers, ErrStays
  <2>3. forgot' \in BOOLEAN
    BY <1>1, Zenon DEF Returns
  <2>4. ForgotInv'
    BY <2>1, <2>3 DEF RunInv, ForgotInv
  <2>5. stage \in PolicyStages /\ stage' \in (PolicyStages \ Policies) \cup {"write", "end"}
    BY <2>1 DEF PolicyStages, OtherStages
  <2>6. QED
    BY <2>1, <2>2, <2>4, <2>5
<1>4. /\ stage \in PolicyStages
      /\ stage' \in (PolicyStages \ Policies) \cup {"write", "end"}
      /\ Remembers /\ err' \in BOOLEAN
      /\ stage' \in {"write", "graph", "domain", "layout"} => ~err'
      /\ stage' \in MayForget => stage \in MayForget \/ ~err
      /\ ForgotInv'
      /\ UNCHANGED <<options, workspace>>
  <2>1. /\ InstrumentationStages \subseteq PolicyStages
        /\ SteadyStages \subseteq PolicyStages
        /\ InstrumentationStages \cap ForgetfulStages = {}
        /\ SteadyStages \cap ForgetfulStages = {}
    BY StageNames DEF PolicyStages, OtherStages
  <2>2. CASE Within(InstrumentationStages)
    BY <1>2, <2>1, <2>2
  <2>3. CASE Within(SteadyStages)
    BY <1>2, <2>1, <2>3
  <2>4. QED
    BY <1>3, <2>2, <2>3, PolicySteps DEF RunInv
<1>5. /\ ran' \in BOOLEAN
      /\ stage' # "end" => ran'
      /\ stage' = "end" => (ran' <=> err')
  <2>1. ran' = ~(stage' = "end" /\ ~err')
    BY <1>1 DEF Returns
  <2>2. QED
    BY <1>4, <2>1, Zenon
<1>6. QED
  BY <1>1, <1>4, <1>5 DEF Returns

LEMMA RunStep ==
  ASSUME RunInv, [Next]_vars
  PROVE  RunInv'
<1> USE DEF RunInv
<1>1. CASE Arguments
  <2>1. /\ stage = "arguments" /\ err = FALSE /\ ran /\ status = Trouble
        /\ output # "whole"
        /\ UNCHANGED <<options, ran, output, forgot>>
        /\ \/ stage' = "resolve" /\ err' = FALSE /\ status' = status
           \/ /\ stage' = "end" /\ err' = FALSE /\ status' = Success
              /\ ~Acceptable(options)
           \/ stage' = "end" /\ err' = TRUE /\ status' = status
    BY <1>1 DEF Arguments, Acceptable, GiveUp, ErrInv, RanInv, OutputInv
  <2>2. ErrInv' /\ RanInv' /\ OutputInv'
    BY <2>1 DEF ErrInv, RanInv, OutputInv, Policies
  <2>3. EndInv'
    BY <2>1 DEF EndInv, RanInv, Acceptable, Success, Trouble
  <2>4. ForgotInv'
    <3>1. stage' \notin ForgetfulStages
      BY <2>1, StageNames DEF PolicyStages, OtherStages
    <3>2. QED
      BY <2>1, <3>1 DEF ForgotInv
  <2>5. QED
    BY <2>2, <2>3, <2>4
<1>2. CASE Dispatch
  <2>1. /\ stage = "resolve" /\ err = FALSE
        /\ UNCHANGED <<options, ran, output, status, forgot>>
        /\ \/ stage' \in Policies /\ stage' = options.policy /\ err' = FALSE
           \/ stage' = "end" /\ err' = TRUE
    BY <1>2 DEF Dispatch, GiveUp, mainVars, ErrInv
  <2>2. ForgotInv'
    <3>1. stage' \in ForgetfulStages => options.policy \in Forgetful
      BY <2>1, StageNames DEF PolicyStages, OtherStages
    <3>2. QED
      BY <2>1, <3>1 DEF ForgotInv
  <2>3. QED
    BY <2>1, <2>2 DEF ErrInv, RanInv, OutputInv, EndInv, Policies
<1>3. CASE AnyPolicy
  <2>1. /\ stage \notin {"written", "end", "ended"}
        /\ stage' \notin {"arguments", "resolve", "written", "ended"} \cup Policies
    BY <1>3, PolicyShown, StageNames
  <2>2. ErrInv' /\ ForgotInv'
    BY <1>3, <2>1, PolicyShown DEF ErrInv
  <2>3. RanInv' /\ OutputInv'
    BY <1>3, <2>1, PolicyShown DEF RanInv, OutputInv
  <2>4. EndInv'
    BY <1>3, <2>1, PolicyShown DEF RanInv, EndInv
  <2>5. QED
    BY <2>2, <2>3, <2>4
<1>4. CASE WriteFindings \/ WriteEnds
  <2>1. /\ stage = "write" /\ stage' \in {"write", "written"}
        /\ UNCHANGED <<options, ran, status, forgot>>
        /\ \/ stage' = "write" /\ output' = "partial" /\ err' = err
           \/ stage' = "written" /\ output' = "partial" /\ err' = TRUE
           \/ stage' = "written" /\ output' = "whole" /\ err' = err
    BY <1>4 DEF WriteFindings, WriteEnds
  <2>2. stage' \notin ForgetfulStages
    BY <2>1, StageNames DEF PolicyStages, OtherStages
  <2>3. QED
    BY <2>1, <2>2 DEF ErrInv, RanInv, OutputInv, EndInv, ForgotInv, Policies
<1>5. CASE Judge
  <2>1. /\ stage = "written" /\ stage' = "end"
        /\ status' \in {Success, ExitFindings}
        /\ UNCHANGED <<options, err, ran, output, forgot>>
    BY <1>5 DEF Judge, policyVars, resultVars
  <2>2. stage' \notin ForgetfulStages
    BY <2>1, StageNames DEF PolicyStages, OtherStages
  <2>3. QED
    BY <2>1, <2>2
    DEF ErrInv, RanInv, OutputInv, EndInv, ForgotInv, Acceptable, Policies, Success,
        ExitFindings, Trouble
<1>6. CASE Exit
  <2>1. /\ stage = "end" /\ stage' = "ended"
        /\ status' \in {status, Trouble}
        /\ UNCHANGED <<options, err, ran, output, forgot>>
    BY <1>6 DEF Exit, policyVars, resultVars
  <2>2. stage' \notin ForgetfulStages
    BY <2>1, StageNames DEF PolicyStages, OtherStages
  <2>3. QED
    BY <2>1, <2>2 DEF ErrInv, RanInv, OutputInv, EndInv, ForgotInv, Policies
<1>7. CASE UNCHANGED vars
  BY <1>7
  DEF vars, policyVars, resultVars, mainVars, ErrInv, RanInv, OutputInv, EndInv,
      ForgotInv, Acceptable
<1>8. QED
  BY <1>1, <1>2, <1>3, <1>4, <1>5, <1>6, <1>7 DEF Next, Run, Ended, AnyPolicy

(* Every state of every run satisfies RunInv: the six policies that look   *)
(* for no file with their error never forget one (AcceptedTest,            *)
(* RepeatedRow, LookForRetired and LookInVain are of the other three), and *)
(* a run that ends without an error has written its findings and judged    *)
(* them, or its policy has returned false.                                 *)
THEOREM RunInvariant == Spec => []RunInv
BY RunStart, RunStep, PTL DEF Spec

-----------------------------------------------------------------------------
(* The receipt of the instrumentation policy.                              *)

(* No other policy runs when this one was asked for, and the receipt is    *)
(* left alone until its last step.                                         *)
UntouchedInv ==
  /\ stage \in OtherStages => options.policy # "instrumentation"
  /\ stage \in {"arguments", "resolve"} \cup PolicyStages => receipt = "untouched"
  /\ stage \in {"roles", "instrumented", "required"} => Terms.is = "valid"

(* From then on it says of the findings what the status will say.          *)
ReceiptSaid ==
  receipt = IF ~options.receipt \/ Terms.is # "valid" THEN "untouched"
            ELSE IF findings = <<>> THEN "passed" ELSE "failed"
SaidInv ==
  options.policy = "instrumentation" =>
    /\ stage \in {"write", "written"} => ReceiptSaid
    /\ stage \in {"end", "ended"} /\ status # Trouble /\ Acceptable(options) =>
         ReceiptSaid /\ (status = Success <=> findings = <<>>)

ReceiptInv == UntouchedInv /\ SaidInv

LEMMA ReceiptStart == Init => ReceiptInv
<1>1. {"arguments"} \cap PolicyStages = {}
  BY StageNames
<1>2. "arguments" \notin OtherStages
  BY <1>1 DEF PolicyStages
<1>3. QED
  BY <1>2 DEF Init, InstrumentationInit, ReceiptInv, UntouchedInv, SaidInv

(* A step of the instrumentation policy touches the receipt in the last    *)
(* one only.                                                               *)
LEMMA ReceiptWritten ==
  ASSUME ReceiptInv, InstrumentationAudit, UNCHANGED <<options, workspace>>,
         stage' \in (InstrumentationStages \ Policies) \cup {"write", "end"}
  PROVE  /\ stage' \in InstrumentationStages =>
              receipt' = "untouched" /\ Terms'.is = "valid"
         /\ stage' = "write" => ReceiptSaid'
<1>1. receipt = "untouched"
  <2>1. stage \in InstrumentationStages
    BY DEF InstrumentationAudit, TermsRead, SkipInfrastructure, UnknownRole,
           LoadManifest, AssignFacts, JudgeInstrumented, InstrumentedEnds,
           ValidateRequired, WriteReceipt, ReadingRoles, InstrumentationStages
  <2>2. QED
    BY <2>1 DEF ReceiptInv, UntouchedInv, PolicyStages
<1>2. Terms' = Terms
  BY DEF Terms
<1>3. CASE TermsRead
  <2>1. /\ receipt' = receipt
        /\ \/ stage' = "roles" /\ Terms.is = "valid"
           \/ stage' \in {"write", "end"} /\ Terms.is = "invalid"
           \/ stage' = "end"
    BY <1>3 DEF TermsRead, GiveUp, instrumentationVars
  <2>2. QED
    BY <1>1, <1>2, <2>1 DEF ReceiptSaid, InstrumentationStages
<1>4. CASE WriteReceipt
  <2>1. /\ stage = "required" /\ stage' \in {"write", "end"}
        /\ findings' = findings /\ Terms.is = "valid"
    BY <1>4
    DEF WriteReceipt, PolicyEnds, GiveUp, ReceiptInv, UntouchedInv
  <2>2. stage' = "write" =>
          receipt' = IF ~options.receipt THEN receipt
                     ELSE IF findings = <<>> THEN "passed" ELSE "failed"
    BY <1>4 DEF WriteReceipt, GiveUp
  <2>3. QED
    BY <1>1, <1>2, <2>1, <2>2 DEF ReceiptSaid, InstrumentationStages
<1>5. CASE SkipInfrastructure \/ UnknownRole \/ LoadManifest \/ AssignFacts
           \/ JudgeInstrumented \/ InstrumentedEnds \/ ValidateRequired
  <2>1. /\ receipt' = receipt /\ stage \in {"roles", "instrumented", "required"}
        /\ stage' # "write"
    BY <1>5
    DEF SkipInfrastructure, UnknownRole, LoadManifest, AssignFacts, JudgeInstrumented,
        InstrumentedEnds, ValidateRequired, ReadingRoles, GiveUp, instrumentationVars
  <2>2. QED
    BY <1>1, <1>2, <2>1 DEF ReceiptInv, UntouchedInv
<1>6. QED
  BY <1>3, <1>4, <1>5 DEF InstrumentationAudit

LEMMA ReceiptStep ==
  ASSUME RunInv, ReceiptInv, [Next]_vars
  PROVE  ReceiptInv'
<1>1. CASE Arguments
  <2>1. /\ UNCHANGED <<options, workspace, receipt>> /\ stage = "arguments"
        /\ \/ stage' = "resolve"
           \/ stage' = "end" /\ status' = Success /\ ~Acceptable(options)
           \/ stage' = "end" /\ status' = status
    BY <1>1
    DEF Arguments, GiveUp, Acceptable, tableVars, earlierVars, instrumentationVars
  <2>2. status = Trouble
    BY <2>1 DEF RunInv, RanInv
  <2>3. UntouchedInv'
    <3>1. stage' \notin PolicyStages /\ stage' \notin OtherStages
      BY <2>1, StageNames DEF PolicyStages
    <3>2. stage' \notin {"roles", "instrumented", "required"}
      BY <2>1
    <3>3. receipt = "untouched"
      BY <2>1 DEF ReceiptInv, UntouchedInv
    <3>4. QED
      BY <2>1, <3>1, <3>2, <3>3 DEF UntouchedInv
  <2>4. SaidInv'
    BY <2>1, <2>2 DEF SaidInv, Acceptable
  <2>5. QED
    BY <2>3, <2>4 DEF ReceiptInv
<1>2. CASE Dispatch
  <2>1. /\ UNCHANGED <<options, workspace, receipt>> /\ stage = "resolve"
        /\ status' = status
        /\ \/ stage' \in Policies /\ stage' = options.policy
           \/ stage' = "end"
    BY <1>2
    DEF Dispatch, GiveUp, tableVars, earlierVars, instrumentationVars, mainVars
  <2>2. status = Trouble
    BY <2>1 DEF RunInv, RanInv
  <2>3. UntouchedInv'
    <3>1. stage' \in OtherStages => options'.policy # "instrumentation"
      BY <2>1, StageNames DEF PolicyStages
    <3>2. stage' \notin {"roles", "instrumented", "required"}
      BY <2>1 DEF Policies
    <3>3. receipt = "untouched"
      BY <2>1 DEF ReceiptInv, UntouchedInv
    <3>4. QED
      BY <2>1, <3>1, <3>2, <3>3 DEF UntouchedInv
  <2>4. SaidInv'
    BY <2>1, <2>2 DEF SaidInv, Policies
  <2>5. QED
    BY <2>3, <2>4 DEF ReceiptInv
<1>3. CASE AnyPolicy
  <2>1. /\ stage \in PolicyStages
        /\ stage' \in (PolicyStages \ Policies) \cup {"write", "end"}
        /\ UNCHANGED <<options, workspace>>
        /\ status' = Trouble
    BY <1>3, PolicyShown, StageNames DEF RunInv, RanInv
  <2>2. CASE Within(InstrumentationStages) /\ InstrumentationAudit
    <3>1. stage' \in (InstrumentationStages \ Policies) \cup {"write", "end"}
      BY <2>2 DEF Within
    <3>2. /\ stage' \in InstrumentationStages =>
               receipt' = "untouched" /\ Terms'.is = "valid"
          /\ stage' = "write" => ReceiptSaid'
      BY <2>1, <2>2, <3>1, ReceiptWritten
    <3>3. stage' \notin OtherStages /\ stage' \notin {"arguments", "resolve"}
      BY <2>1, <3>1, StageNames DEF PolicyStages
    <3>4. UntouchedInv'
      <4>1. stage' \in {"roles", "instrumented", "required"} =>
              stage' \in InstrumentationStages
        BY DEF InstrumentationStages
      <4>2. QED
        BY <3>2, <3>3, <4>1 DEF UntouchedInv, PolicyStages
    <3>5. SaidInv'
      BY <2>1, <3>2, StageNames DEF SaidInv
    <3>6. QED
      BY <3>4, <3>5 DEF ReceiptInv
  <2>3. CASE (Within(SteadyStages) \/ Roaming(ForgetfulStages)) /\ receipt' = receipt
    <3>1. /\ stage \in OtherStages
          /\ stage' \in OtherStages \cup {"write", "end"}
      BY <2>3 DEF Within, Roaming, OtherStages
    <3>2. options.policy # "instrumentation" /\ receipt = "untouched"
      BY <3>1 DEF ReceiptInv, UntouchedInv, PolicyStages
    <3>3. stage' \notin {"roles", "instrumented", "required"}
      BY <3>1, StageNames DEF InstrumentationStages
    <3>4. QED
      BY <2>1, <2>3, <3>2, <3>3 DEF ReceiptInv, UntouchedInv, SaidInv
  <2>4. QED
    BY <1>3, <2>2, <2>3, PolicySteps DEF RunInv
<1>4. CASE WriteFindings \/ WriteEnds \/ Judge \/ Exit
  <2>1. /\ UNCHANGED <<options, workspace, receipt, findings>>
        /\ \/ stage = "write" /\ stage' \in {"write", "written"}
           \/ /\ stage = "written" /\ stage' = "end"
              /\ status' = IF findings = <<>> THEN Success ELSE ExitFindings
           \/ /\ stage = "end" /\ stage' = "ended"
              /\ status' \in {status, Trouble}
    BY <1>4
    DEF WriteFindings, WriteEnds, Judge, Exit, policyVars, resultVars, tableVars,
        earlierVars, instrumentationVars
  <2>2. UntouchedInv'
    <3>1. stage' \notin PolicyStages /\ stage' \notin {"arguments", "resolve"}
      BY <2>1, StageNames
    <3>2. QED
      BY <3>1 DEF UntouchedInv, PolicyStages, InstrumentationStages
  <2>3. (ReceiptSaid' <=> ReceiptSaid) /\ (Acceptable(options)' <=> Acceptable(options))
    BY <2>1 DEF ReceiptSaid, Terms, Acceptable
  <2>4. SaidInv'
    BY <2>1, <2>3 DEF ReceiptInv, SaidInv, Success, ExitFindings, Trouble
  <2>5. QED
    BY <2>2, <2>4 DEF ReceiptInv
<1>5. CASE UNCHANGED vars
  <2>1. UNCHANGED <<stage, options, workspace, receipt, findings, status>>
    BY <1>5
    DEF vars, policyVars, resultVars, tableVars, earlierVars, instrumentationVars,
        mainVars
  <2>2. (ReceiptSaid' <=> ReceiptSaid) /\ (Acceptable(options)' <=> Acceptable(options))
    BY <2>1 DEF ReceiptSaid, Terms, Acceptable
  <2>3. QED
    BY <2>1, <2>2 DEF ReceiptInv, UntouchedInv, SaidInv, Terms
<1>6. QED
  BY <1>1, <1>2, <1>3, <1>4, <1>5 DEF Next, Run, Ended, AnyPolicy

(* The receipt of the instrumentation policy says what the status says,    *)
(* whatever the facts are and wherever an error comes in between.          *)
THEOREM ReceiptAgrees == Spec => []ReceiptIsOfTheVerdict
<1>1. Init => RunInv /\ ReceiptInv
  BY RunStart, ReceiptStart
<1>2. RunInv /\ ReceiptInv /\ [Next]_vars => (RunInv /\ ReceiptInv)'
  BY RunStep, ReceiptStep
<1>3. ReceiptInv => ReceiptIsOfTheVerdict
  BY DEF ReceiptInv, SaidInv, ReceiptSaid, ReceiptIsOfTheVerdict, Judged
<1>4. QED
  BY <1>1, <1>2, <1>3, PTL DEF Spec

-----------------------------------------------------------------------------
(* What the command shows of itself to AuditTool.                          *)

Wanted == IF stage = "arguments" \/ ~Acceptable(options) THEN {} ELSE {"report"}
Written == IF output = "whole" THEN {"report"} ELSE {}
Troubled == (err /\ stage \notin MayForget) \/ ~ran
StatusSoFar ==
  IF stage # "ended" THEN "none"
  ELSE CASE status = Success      -> "clean"
         [] status = ExitFindings -> "findings"
         [] status = Trouble      -> "trouble"

ShownStep == [Promise!ToolNext]_(Promise!toolVars)

LEMMA ShownQuiet ==
  ASSUME UNCHANGED <<Wanted, Written, StatusSoFar>>, StatusSoFar = "none",
         Troubled' = Troubled \/ Troubled' = TRUE
  PROVE  ShownStep
BY DEF ShownStep, Promise!ToolNext, Promise!MeetTrouble, Promise!Running,
       Promise!toolVars, Wanted, Written, Troubled, StatusSoFar

LEMMA TroubleStays ==
  ASSUME err' \in {err, TRUE}, ran' = ran, stage \notin MayForget, stage' \notin MayForget
  PROVE  Troubled' = Troubled \/ Troubled' = TRUE
<1>1. CASE err' = err
  BY <1>1 DEF Troubled
<1>2. CASE err' = TRUE
  BY <1>2 DEF Troubled
<1>3. QED
  BY <1>1, <1>2

LEMMA ShownSame ==
  ASSUME UNCHANGED vars
  PROVE  ShownStep
<1>1. UNCHANGED <<Wanted, Written, Troubled, StatusSoFar>>
  BY DEF vars, policyVars, resultVars, mainVars, Wanted, Written, Troubled,
         StatusSoFar, Acceptable
<1>2. QED
  BY <1>1 DEF ShownStep, Promise!toolVars, Wanted, Written, Troubled, StatusSoFar

(* audit-workspace implements AuditTool, whichever policy is asked for: it *)
(* says 0 or 1 only when its report stands there as a whole, and it met no *)
(* trouble but for an error that was lost before the last look for a file  *)
(* (file_exists in common.c) was done.                                     *)
THEOREM Refinement == Spec => KeepsPromise
<1>1. Init => Promise!ToolInit
  <2> SUFFICES ASSUME Init PROVE Promise!ToolInit
    OBVIOUS
  <2>1. /\ stage = "arguments" /\ output = "none" /\ err = FALSE /\ ran = TRUE
    BY DEF Init
  <2>2. ((err /\ stage \notin MayForget) \/ ~ran) \in BOOLEAN
    OBVIOUS
  <2>3. QED
    BY <2>1, <2>2 DEF Promise!ToolInit
<1>2. RunInv /\ [Next]_vars => ShownStep
  <2> SUFFICES ASSUME RunInv, [Next]_vars PROVE ShownStep
    OBVIOUS
  <2>0. err \in BOOLEAN /\ ran \in BOOLEAN /\ Troubled \in BOOLEAN
    BY DEF RunInv, ErrInv, RanInv, Troubled
  <2> USE DEF MayForget
  <2>1. CASE Arguments
    <3>1. /\ stage = "arguments" /\ stage' \in {"resolve", "end"}
          /\ err = FALSE /\ ran = TRUE /\ output # "whole"
          /\ UNCHANGED <<options, ran, output>>
          /\ \/ Acceptable(options) /\ err' = err
             \/ ~Acceptable(options) /\ err' \in {err, TRUE}
      BY <2>1 DEF Arguments, GiveUp, Acceptable, RunInv, ErrInv, RanInv, OutputInv
    <3>2. Wanted = {} /\ Written = {} /\ Written' = {}
      BY <3>1 DEF Wanted, Written
    <3>3. StatusSoFar = "none" /\ StatusSoFar' = "none"
      BY <3>1 DEF StatusSoFar
    <3>4. CASE Acceptable(options) /\ err' = err
      <4>1. Wanted' \in SUBSET {"report"} /\ Troubled' = Troubled
        BY <3>1, <3>4 DEF Wanted, Troubled
      <4>2. Promise!Ask
        BY <3>2, <3>3, <4>1
        DEF Promise!Ask, Promise!Running, Wanted, Written, Troubled, StatusSoFar
      <4>3. QED
        BY <4>2 DEF ShownStep, Promise!ToolNext
    <3>5. CASE ~Acceptable(options) /\ err' \in {err, TRUE}
      <4>1. Wanted' = {}
        BY <3>1, <3>5 DEF Wanted, Acceptable
      <4>2. Troubled' = Troubled \/ Troubled' = TRUE
        BY <3>1, <3>5 DEF Troubled
      <4>3. QED
        BY <3>2, <3>3, <4>1, <4>2, ShownQuiet
    <3>6. QED
      BY <3>1, <3>4, <3>5
  <2>2. CASE Dispatch
    <3>1. /\ stage = "resolve" /\ stage' \in Policies \cup {"end"}
          /\ UNCHANGED <<options, ran, output>> /\ err' \in {err, TRUE}
          /\ stage' \notin MayForget
      BY <2>2 DEF Dispatch, GiveUp, mainVars, Policies
    <3>2. UNCHANGED <<Wanted, Written, StatusSoFar>> /\ StatusSoFar = "none"
      BY <3>1 DEF Wanted, Written, StatusSoFar, Policies, Acceptable
    <3>3. Troubled' = Troubled \/ Troubled' = TRUE
      BY <2>0, <3>1, TroubleStays
    <3>4. QED
      BY <3>2, <3>3, ShownQuiet
  <2>3. CASE AnyPolicy
    <3>1. /\ stage \notin {"arguments", "ended"} /\ stage' \notin {"arguments", "ended"}
          /\ UNCHANGED <<options, output>>
          /\ ran /\ ran' \in BOOLEAN /\ err' \in BOOLEAN /\ Remembers
          /\ stage' \in MayForget => stage \in MayForget \/ ~err
          /\ ~err' => (stage' # "end" => ran')
      BY <2>3, PolicyShown, StageNames DEF RunInv, RanInv
    <3>2. UNCHANGED <<Wanted, Written, StatusSoFar>> /\ StatusSoFar = "none"
      BY <3>1 DEF Wanted, Written, StatusSoFar, Acceptable
    <3>3. Troubled' = Troubled \/ Troubled' = TRUE
      <4>1. Troubled => Troubled'
        BY <2>0, <3>1 DEF Remembers, ErrStays, Troubled
      <4>2. Troubled' \in BOOLEAN
        BY <3>1 DEF Troubled
      <4>3. QED
        BY <2>0, <4>1, <4>2
    <3>4. QED
      BY <3>2, <3>3, ShownQuiet
  <2>4. CASE WriteFindings
    <3>1. /\ stage = "write" /\ stage' \in {"write", "written"}
          /\ output # "whole" /\ output' = "partial"
          /\ UNCHANGED <<options, ran>> /\ err' \in {err, TRUE}
      BY <2>4 DEF WriteFindings, RunInv, OutputInv
    <3>2. UNCHANGED <<Wanted, Written, StatusSoFar>> /\ StatusSoFar = "none"
      BY <3>1 DEF Wanted, Written, StatusSoFar, Acceptable
    <3>3. Troubled' = Troubled \/ Troubled' = TRUE
      BY <2>0, <3>1, TroubleStays
    <3>4. QED
      BY <3>2, <3>3, ShownQuiet
  <2>5. CASE WriteEnds
    <3>1. /\ stage = "write" /\ stage' = "written"
          /\ output # "whole" /\ UNCHANGED <<options, ran>>
          /\ \/ output' = "whole" /\ err' = err
             \/ output' = "partial" /\ err' = TRUE
      BY <2>5 DEF WriteEnds, RunInv, OutputInv
    <3>2. /\ Wanted' = Wanted /\ Written = {}
          /\ StatusSoFar = "none" /\ StatusSoFar' = "none"
      BY <3>1 DEF Wanted, Written, StatusSoFar, Acceptable
    <3>3. CASE output' = "whole" /\ err' = err
      <4>1. Written' = Written \cup {"report"} /\ Troubled' = Troubled
        BY <3>1, <3>2, <3>3 DEF Written, Troubled
      <4>2. Promise!Write("report")
        BY <3>2, <4>1
        DEF Promise!Write, Promise!Running, Wanted, Written, Troubled, StatusSoFar
      <4>3. QED
        BY <4>2 DEF ShownStep, Promise!ToolNext
    <3>4. CASE output' = "partial" /\ err' = TRUE
      <4>1. Written' = Written /\ Troubled' = TRUE
        BY <3>1, <3>2, <3>4 DEF Written, Troubled
      <4>2. QED
        BY <3>2, <4>1, ShownQuiet
    <3>5. QED
      BY <3>1, <3>3, <3>4
  <2>6. CASE Judge
    <3>1. /\ stage = "written" /\ stage' = "end"
          /\ UNCHANGED <<options, err, ran, output>>
      BY <2>6 DEF Judge, policyVars, resultVars
    <3>2. UNCHANGED <<Wanted, Written, Troubled, StatusSoFar>> /\ StatusSoFar = "none"
      BY <3>1 DEF Wanted, Written, Troubled, StatusSoFar, Acceptable
    <3>3. QED
      BY <3>2, ShownQuiet
  <2>7. CASE Exit
    <3>1. /\ stage = "end" /\ stage' = "ended"
          /\ status' = IF err THEN Trouble ELSE status
          /\ UNCHANGED <<options, err, ran, output>>
      BY <2>7 DEF Exit, policyVars, resultVars
    <3>2. UNCHANGED <<Wanted, Written, Troubled>> /\ StatusSoFar = "none"
      BY <3>1 DEF Wanted, Written, Troubled, StatusSoFar, Acceptable
    <3>3. CASE Troubled
      <4>1. status' = Trouble
        BY <2>0, <3>1, <3>3 DEF Troubled, RunInv, EndInv
      <4>2. StatusSoFar' = "trouble"
        BY <3>1, <4>1 DEF StatusSoFar, Success, ExitFindings, Trouble
      <4>3. /\ StatusSoFar' \in IF Troubled THEN {"trouble"} ELSE {"clean", "findings"}
            /\ ~Troubled => Wanted \subseteq Written
        BY <3>3, <4>2
      <4>4. Promise!Conclude
        BY <3>2, <4>3, Zenon
        DEF Promise!Conclude, Promise!Running, Wanted, Written, Troubled, StatusSoFar
      <4>5. QED
        BY <4>4 DEF ShownStep, Promise!ToolNext
    <3>4. CASE ~Troubled
      <4>1. /\ status' \in {Success, ExitFindings}
            /\ Acceptable(options) => output = "whole"
        BY <2>0, <3>1, <3>4 DEF Troubled, RunInv, RanInv, EndInv
      <4>2. StatusSoFar' \in {"clean", "findings"}
        BY <3>1, <4>1 DEF StatusSoFar, Success, ExitFindings, Trouble
      <4>3. Wanted \subseteq Written
        BY <4>1 DEF Wanted, Written
      <4>4. Promise!Conclude
        BY <3>2, <3>4, <4>2, <4>3
        DEF Promise!Conclude, Promise!Running, Wanted, Written, Troubled, StatusSoFar
      <4>5. QED
        BY <4>4 DEF ShownStep, Promise!ToolNext
    <3>5. QED
      BY <3>3, <3>4
  <2>8. QED
    BY <2>1, <2>2, <2>3, <2>4, <2>5, <2>6, <2>7, ShownSame
    DEF Next, Run, Ended, AnyPolicy
<1>3. QED
  BY <1>1, <1>2, RunInvariant, PTL
  DEF Spec, KeepsPromise, Promise!ToolSpec, ShownStep

-----------------------------------------------------------------------------
(* What every policy has in common on its way from findings to a status.   *)

CommonStages == {"arguments", "resolve", "write", "written", "end", "ended"}

(* A step is of one policy, whose stages are no other's, or of main, which *)
(* finds nothing and leaves the tables alone.                              *)
MainStep ==
  /\ UNCHANGED <<options, workspace, findings, checks, position, tableVars>>
  /\ \/ stage = "arguments" /\ stage' = "resolve" /\ UNCHANGED <<err, status>>
     \/ /\ stage = "arguments" /\ stage' = "end"
        /\ status' = Trouble \/ ~Acceptable(options)
     \/ stage = "resolve" /\ stage' = options.policy /\ UNCHANGED <<err, status>>
     \/ stage = "resolve" /\ stage' = "end" /\ UNCHANGED status
     \/ /\ stage = "write" /\ stage' \in {"write", "written"}
        /\ err' \in {err, TRUE} /\ UNCHANGED status
     \/ /\ stage = "written" /\ stage' = "end" /\ UNCHANGED err
        /\ status' = IF findings = <<>> THEN Success ELSE ExitFindings
     \/ /\ stage = "end" /\ stage' = "ended" /\ UNCHANGED err
        /\ status' = IF err THEN Trouble ELSE status
     \/ UNCHANGED <<stage, err, status>>

LEMMA MainSteps ==
  ASSUME RunInv, [Next]_vars
  PROVE  AnyPolicy \/ MainStep
<1>1. CASE Arguments
  <2>1. stage = "arguments" /\ status = Trouble
    BY <1>1 DEF Arguments, RunInv, RanInv
  <2>2. QED
    BY <1>1, <2>1 DEF Arguments, GiveUp, Acceptable, MainStep
<1>2. CASE Dispatch
  BY <1>2 DEF Dispatch, GiveUp, mainVars, MainStep
<1>3. CASE WriteFindings \/ WriteEnds
  BY <1>3 DEF WriteFindings, WriteEnds, MainStep
<1>4. CASE Judge
  BY <1>4 DEF Judge, policyVars, resultVars, MainStep
<1>5. CASE Exit
  BY <1>5 DEF Exit, policyVars, resultVars, MainStep
<1>6. CASE UNCHANGED vars
  BY <1>6 DEF vars, policyVars, resultVars, mainVars, MainStep
<1>7. QED
  BY <1>1, <1>2, <1>3, <1>4, <1>5, <1>6 DEF Next, Run, Ended, AnyPolicy

LEMMA StagesApart ==
  /\ InstrumentationStages \cap (UnitStages \cup ParityStages \cup BoundaryStages
        \cup FaultStages \cup InventoryStages \cup DutyStages \cup SplitStages
        \cup QualityStages) = {}
  /\ UnitStages \cap (InstrumentationStages \cup ParityStages \cup BoundaryStages
        \cup FaultStages \cup InventoryStages \cup DutyStages \cup SplitStages
        \cup QualityStages) = {}
  /\ ParityStages \cap (UnitStages \cup InstrumentationStages \cup BoundaryStages
        \cup FaultStages \cup InventoryStages \cup DutyStages \cup SplitStages
        \cup QualityStages) = {}
  /\ BoundaryStages \cap (UnitStages \cup InstrumentationStages \cup ParityStages
        \cup FaultStages \cup InventoryStages \cup DutyStages \cup SplitStages
        \cup QualityStages) = {}
  /\ FaultStages \cap (UnitStages \cup InstrumentationStages \cup ParityStages
        \cup BoundaryStages \cup InventoryStages \cup DutyStages \cup SplitStages
        \cup QualityStages) = {}
BY DEF UnitStages, ParityStages, InstrumentationStages, BoundaryStages, FaultStages,
       InventoryStages, DutyStages, SplitStages, QualityStages

LEMMA PolicyOfStage ==
  ASSUME ErrInv, AnyPolicy
  PROVE  /\ stage \in UnitStages => UnitTests /\ Roaming(UnitStages)
         /\ stage \in InstrumentationStages =>
              InstrumentationAudit /\ Within(InstrumentationStages)
         /\ stage \in ParityStages => Parity /\ Roaming(ParityStages)
         /\ stage \in BoundaryStages => Boundaries /\ Within(BoundaryStages)
         /\ stage \in FaultStages => FaultSemantics /\ Within(FaultStages)
<1>1. CASE UnitPolicy
  <2>1. UnitTests /\ Roaming(UnitStages)
    BY <1>1, UnitStep DEF UnitPolicy
  <2>2. stage \in UnitStages
    BY <2>1 DEF Roaming
  <2>3. QED
    BY <2>1, <2>2, StagesApart
<1>2. CASE InstrumentPolicy
  <2>1. InstrumentationAudit /\ Within(InstrumentationStages)
    BY <1>2, InstrumentationStep DEF InstrumentPolicy
  <2>2. stage \in InstrumentationStages
    BY <2>1 DEF Within
  <2>3. QED
    BY <2>1, <2>2, StagesApart
<1>3. CASE PairPolicy
  <2>1. Parity /\ Roaming(ParityStages)
    BY <1>3, ParityStep DEF PairPolicy
  <2>2. stage \in ParityStages
    BY <2>1 DEF Roaming
  <2>3. QED
    BY <2>1, <2>2, StagesApart
<1>4. CASE BoundariesPolicy
  <2>1. Boundaries /\ Within(BoundaryStages)
    BY <1>4, BoundaryStep DEF BoundariesPolicy
  <2>2. stage \in BoundaryStages
    BY <2>1 DEF Within
  <2>3. QED
    BY <2>1, <2>2, StagesApart
<1>5. CASE SemanticsPolicy
  <2>1. FaultSemantics /\ Within(FaultStages)
    BY <1>5, FaultStep DEF SemanticsPolicy
  <2>2. stage \in FaultStages
    BY <2>1 DEF Within
  <2>3. QED
    BY <2>1, <2>2, StagesApart
<1>6. CASE ScriptsPolicy
  <2>1. Within(InventoryStages)
    BY <1>6, InventoryStep DEF ScriptsPolicy
  <2>2. stage \in InventoryStages
    BY <2>1 DEF Within
  <2>3. QED
    BY <2>2, StagesApart
<1>7. CASE DutiesPolicy
  <2>1. Within(DutyStages)
    BY <1>7, DutyStep DEF DutiesPolicy
  <2>2. stage \in DutyStages
    BY <2>1 DEF Within
  <2>3. QED
    BY <2>2, StagesApart
<1>8. CASE SplitPolicy
  <2>1. Roaming(SplitStages)
    BY <1>8, SplitStep DEF SplitPolicy
  <2>2. stage \in SplitStages
    BY <2>1 DEF Roaming
  <2>3. QED
    BY <2>2, StagesApart
<1>9. CASE CataloguePolicy
  <2>1. Within(QualityStages)
    BY <1>9, QualityStep DEF CataloguePolicy
  <2>2. stage \in QualityStages
    BY <2>1 DEF Within
  <2>3. QED
    BY <2>2, StagesApart
<1>10. QED
  BY <1>1, <1>2, <1>3, <1>4, <1>5, <1>6, <1>7, <1>8, <1>9 DEF AnyPolicy

(* The verdict that findings and a status give, where "truth" is what the  *)
(* policy was there to see.                                                *)
LEMMA VerdictKept ==
  ASSUME RunInv, MainStep, Acceptable(options), NEW truth \in BOOLEAN,
         stage \in {"write", "written"} /\ ~err => ((findings = <<>>) <=> truth),
         stage \in {"end", "ended"} /\ (stage = "end" => ~err) /\ status # Trouble =>
           ((status = Success) <=> truth)
  PROVE  stage' \in {"end", "ended"} /\ (stage' = "end" => ~err') /\ status' # Trouble =>
           ((status' = Success) <=> truth)
<1>1. CASE stage \in {"arguments", "resolve"}
  BY <1>1 DEF RunInv, RanInv, MainStep, Policies
<1>2. CASE stage = "write"
  BY <1>2 DEF RunInv, RanInv, MainStep
<1>3. CASE stage = "written"
  BY <1>3 DEF RunInv, RanInv, MainStep, Success, ExitFindings, Trouble
<1>4. CASE stage = "end"
  <2>1. err \in BOOLEAN
    BY DEF RunInv, ErrInv
  <2>2. QED
    BY <1>4, <2>1 DEF RunInv, MainStep
<1>5. CASE UNCHANGED <<stage, err, status>>
  BY <1>5
<1>6. QED
  BY <1>1, <1>2, <1>3, <1>4, <1>5 DEF MainStep

LEMMA ListOf ==
  ASSUME NEW S, NEW s \in Seq(S)
  PROVE  IsList(s)
BY DEF ToSet, IsList

LEMMA ListJoined ==
  ASSUME NEW s, NEW t, IsList(s), IsList(t)
  PROVE  IsList(s \o t) /\ ((s \o t = <<>>) <=> (s = <<>> /\ t = <<>>))
<1>1. PICK S : S = ToSet(s) \cup ToSet(t)
  OBVIOUS
<1>2. s \in Seq(S) /\ t \in Seq(S)
  BY <1>1 DEF IsList
<1>3. s \o t \in Seq(S) /\ ((s \o t = <<>>) <=> (s = <<>> /\ t = <<>>))
  BY <1>2
<1>4. QED
  BY <1>3, ListOf

LEMMA ListIf ==
  ASSUME NEW c, NEW f
  PROVE  IsList(If(c, f)) /\ ((If(c, f) = <<>>) <=> ~c)
<1>1. CASE c
  <2>1. If(c, f) = <<f>> /\ <<f>> \in Seq({f}) /\ <<f>> # <<>>
    BY <1>1 DEF If
  <2>2. QED
    BY <1>1, <2>1, ListOf
<1>2. CASE ~c
  <2>1. If(c, f) = <<>> /\ <<>> \in Seq({f})
    BY <1>2 DEF If
  <2>2. QED
    BY <1>2, <2>1, ListOf
<1>3. QED
  BY <1>1, <1>2

LEMMA ListFrom ==
  ASSUME NEW k \in Nat, NEW s, s = [n \in 1 .. k |-> s[n]]
  PROVE  IsList(s) /\ (s = <<>> <=> k = 0)
<1>1. PICK S : S = {s[n] : n \in 1 .. k}
  OBVIOUS
<1>2. \A n \in 1 .. k : s[n] \in S
  BY <1>1
<1>3. s \in [1 .. k -> S]
  BY <1>2, Zenon
<1>4. s \in Seq(S) /\ Len(s) = k
  BY <1>3
<1>5. QED
  BY <1>4, ListOf

LEMMA Found ==
  ASSUME NEW f, Add(f), ~err', IsList(findings)
  PROVE  IsList(findings') /\ findings' # <<>>
<1>1. findings' = Append(findings, f)
  BY DEF Add
<1>2. findings \in Seq(ToSet(findings) \cup {f})
  BY DEF IsList
<1>3. PICK S : findings \in Seq(S) /\ f \in S
  BY <1>2
<1>4. findings' \in Seq(S) /\ findings' # <<>>
  BY <1>1, <1>3
<1>5. QED
  BY <1>4, ListOf

LEMMA ListMore ==
  ASSUME NEW f, IsList(findings)
  PROVE  IsList(Append(findings, f)) /\ Append(findings, f) # <<>>
<1>1. findings \in Seq(ToSet(findings) \cup {f})
  BY DEF IsList
<1>2. PICK S : findings \in Seq(S) /\ f \in S
  BY <1>1
<1>3. Append(findings, f) \in Seq(S) /\ Append(findings, f) # <<>>
  BY <1>2
<1>4. QED
  BY <1>3, ListOf

(* Findings stay a list, whatever is found and whatever is lost of it.     *)
LEMMA ListKept ==
  ASSUME IsList(findings)
  PROVE  /\ \A f : Add(f) => IsList(findings')
         /\ \A f, fits : Tell(f, fits) => IsList(findings')
         /\ \A f, fits : TellMissing(f, fits) => IsList(findings')
<1>1. \A f : Add(f) => IsList(findings')
  BY ListMore DEF Add
<1>2. \A f, fits : Tell(f, fits) => IsList(findings')
  BY <1>1 DEF Tell
<1>3. \A f, fits : TellMissing(f, fits) => IsList(findings')
  BY ListMore DEF TellMissing
<1>4. QED
  BY <1>1, <1>2, <1>3

(* So it is where there was trouble before the finding, which is for good. *)
LEMMA AnywayKept ==
  ASSUME NEW f, IsList(findings), AddAnyway(f)
  PROVE  IsList(findings') /\ err'
<1>1. PICK kept \in SUBSET DOMAIN <<f>> :
        /\ findings' = findings \o [n \in 1 .. Cardinality(kept) |->
                                      <<f>>[SetToSortSeq(kept, <)[n]]]
        /\ err'
  BY Zenon DEF AddAnyway, AddAmid
<1> DEFINE more == [n \in 1 .. Cardinality(kept) |-> <<f>>[SetToSortSeq(kept, <)[n]]]
<1>2. Cardinality(kept) \in Nat
  <2>1. IsFiniteSet({1}) /\ DOMAIN <<f>> = {1}
    BY FS_Singleton
  <2>2. QED
    BY <2>1, FS_Subset, FS_CardinalityType
<1>3. IsList(more)
  <2>1. more = [n \in 1 .. Cardinality(kept) |-> more[n]]
    BY Zenon
  <2> HIDE DEF more
  <2>2. QED
    BY <1>2, <2>1, ListFrom
<1>4. findings' = findings \o more
  BY <1>1
<1> HIDE DEF more
<1>5. QED
  BY <1>1, <1>3, <1>4, ListJoined

(* Where no error comes amid several findings, the first of them is kept.  *)
LEMMA FoundAll ==
  ASSUME NEW fs, IsList(fs), IsList(findings), AddAll(fs), err \in BOOLEAN, ~err'
  PROVE  /\ IsList(findings')
         /\ (findings' = <<>>) <=> (findings = <<>> /\ fs = <<>>)
<1>1. PICK kept \in SUBSET DOMAIN fs :
        LET lost == {i \in DOMAIN fs \ kept : ~Silenced(fs, kept, i)} IN
        /\ findings' = findings \o [n \in 1 .. Cardinality(kept) |->
                                      fs[SetToSortSeq(kept, <)[n]]]
        /\ err' = (err \/ FALSE \/ lost # {})
  BY Zenon DEF AddAll, AddAmid
<1> DEFINE lost == {i \in DOMAIN fs \ kept : ~Silenced(fs, kept, i)}
           more == [n \in 1 .. Cardinality(kept) |-> fs[SetToSortSeq(kept, <)[n]]]
<1>2. ~err /\ lost = {}
  BY <1>1
<1>3. fs \in Seq(ToSet(fs)) /\ Len(fs) \in Nat /\ DOMAIN fs = 1 .. Len(fs)
  BY DEF IsList
<1>4. IsFiniteSet(kept) /\ Cardinality(kept) \in Nat
  <2>1. IsFiniteSet(1 .. Len(fs))
    BY <1>3, FS_Interval
  <2>2. IsFiniteSet(kept)
    BY <1>3, <2>1, FS_Subset
  <2>3. QED
    BY <2>2, FS_CardinalityType
<1>5. Cardinality(kept) = 0 <=> fs = <<>>
  <2>1. ASSUME fs # <<>> PROVE kept # {}
    <3>1. 1 \in DOMAIN fs
      BY <1>3, <2>1
    <3>2. ~Silenced(fs, kept, 1)
      BY <1>2, <1>3 DEF Silenced
    <3>3. QED
      BY <1>2, <3>1, <3>2
  <2>2. ASSUME fs = <<>> PROVE kept = {}
    BY <1>3, <2>2
  <2>3. Cardinality(kept) = 0 <=> kept = {}
    BY <1>4, FS_EmptySet
  <2>4. QED
    BY <2>1, <2>2, <2>3
<1>6. IsList(more) /\ (more = <<>> <=> Cardinality(kept) = 0)
  <2>1. more = [n \in 1 .. Cardinality(kept) |-> more[n]]
    BY Zenon
  <2> HIDE DEF more
  <2>2. QED
    BY <1>4, <2>1, ListFrom
<1>7. findings' = findings \o more
  BY <1>1
<1>8. QED
  BY <1>5, <1>6, <1>7, ListJoined

(***************************************************************************)
(* What native-wrapper-parity says is earned.                              *)
(***************************************************************************)

(* The i-th row is a proper one, and none before it is of its wrapper.     *)
RowFine(i) ==
  LET row == Contract.rows[i] IN
  /\ row.is = "row" /\ row.wrapper # row.native
  /\ row.source.is = "there" /\ row.listed
  /\ \A j \in 1 .. i - 1 : \/ Contract.rows[j].library # row.library
                           \/ Contract.rows[j].wrapper # row.wrapper
(* What the table holds as long as nothing was found.                      *)
RowsTaken(n) ==
  /\ Contract.is = "rows" /\ n \in 0 .. Len(Contract.rows)
  /\ rows \in Seq(ToSet(Contract.rows)) /\ Len(rows) = n
  /\ \A i \in 1 .. n : rows[i] = Contract.rows[i] /\ RowFine(i)

ParityAsked ==
  options.policy = "native-wrapper-parity" /\ Acceptable(options) /\ NoRowLong

(* As long as there is no error: what was found is a fault of the          *)
(* contract, and where nothing was found there was none so far.            *)
ParitySoFar ==
  /\ IsList(findings)
  /\ findings # <<>> => ~InParity
  /\ stage \in {"arguments", "resolve", "native-wrapper-parity"} =>
       findings = <<>> /\ rows = <<>> /\ position = 0
  /\ findings = <<>> =>
       /\ stage = "contract" => RowsTaken(position)
       /\ stage \in {"close", "pairs"} => RowsTaken(Len(Contract.rows))
       /\ stage = "pairs" =>
            /\ position \in 0 .. Len(Contract.rows)
            /\ \A i \in 1 .. position : HasPair(Contract.rows[i])
       /\ stage \in {"write", "written"} => InParity

(* What holds whatever error there is.                                     *)
ParityShape ==
  /\ IsList(findings) /\ position \in Nat
  /\ stage = "contract" => Contract.is = "rows"

ParityInv ==
  ParityAsked =>
    /\ ParityShape
    /\ stage \in CommonStages \cup ParityStages
    /\ ContractTyped(workspace)
    /\ stage \notin {"end", "ended"} /\ ~err => ParitySoFar
    /\ stage \in {"end", "ended"} /\ (stage = "end" => ~err) /\ status # Trouble =>
         ((status = Success) <=> InParity)

(* A test of a source shows the pair exactly if some caller in it is seen  *)
(* with both, or expands the wrapper.                                      *)
LEMMA PairShown ==
  ASSUME NEW row
  PROVE  HasPair(row) <=> Paired(row)
<1>1. ASSUME HasPair(row) PROVE Paired(row)
  <2>1. PICK c \in Calls : /\ c.caller # "" /\ c.path = row.source.path
                           /\ c.usr = row.wrapper
                           /\ NativeSeen(row, c) \/ LoweredPair(row, c)
    BY <1>1 DEF HasPair
  <2>2. CASE NativeSeen(row, c)
    <3>1. c.caller \in Callers(row.source.path, row.wrapper)
      BY <2>1 DEF Callers
    <3>2. PICK n \in workspace.source.facts :
            /\ n.caller = c.caller
            /\ \/ n.kind = "CALL" /\ n.usr = row.native
               \/ n.kind = "MACRO" /\ n.name = row.name
      BY <2>2 DEF NativeSeen
    <3>3. c.caller \in NativeUsers(row)
      BY <3>2 DEF NativeUsers, Calls
    <3>4. QED
      BY <2>1, <3>1, <3>3 DEF Paired
  <2>3. CASE LoweredPair(row, c)
    <3>1. PICK w \in Calls, t \in Calls :
            /\ w.caller = row.wrapper
            /\ t.line = c.line /\ t.caller = c.caller
            /\ t.usr = w.usr /\ t.usr # row.wrapper
      BY <2>3 DEF LoweredPair
    <3>2. c.caller \in Expansions(row)
      BY <2>1, <3>1 DEF Expansions
    <3>3. QED
      BY <2>1, <3>2 DEF Paired
  <2>4. QED
    BY <2>1, <2>2, <2>3
<1>2. ASSUME Paired(row) PROVE HasPair(row)
  <2>1. PICK x : /\ x # ""
                 /\ \/ x \in Callers(row.source.path, row.wrapper) \cap NativeUsers(row)
                    \/ x \in Expansions(row)
    BY <1>2 DEF Paired
  <2>2. CASE x \in Callers(row.source.path, row.wrapper) \cap NativeUsers(row)
    <3>1. PICK c \in Calls :
            c.path = row.source.path /\ c.usr = row.wrapper /\ c.caller = x
      BY <2>2 DEF Callers
    <3>2. PICK n \in workspace.source.facts :
            /\ n.caller = x
            /\ \/ n.kind = "CALL" /\ n.usr = row.native
               \/ n.kind = "MACRO" /\ n.name = row.name
      BY <2>2 DEF NativeUsers, Calls
    <3>3. NativeSeen(row, c)
      BY <3>1, <3>2 DEF NativeSeen
    <3>4. QED
      BY <2>1, <3>1, <3>3 DEF HasPair
  <2>3. CASE x \in Expansions(row)
    <3>1. PICK c \in Calls, w \in Calls, t \in Calls :
            /\ c.caller = x
            /\ c.path = row.source.path /\ c.usr = row.wrapper
            /\ w.caller = row.wrapper /\ w.usr = t.usr /\ t.usr # row.wrapper
            /\ t.caller = c.caller /\ t.line = c.line
      BY <2>3 DEF Expansions
    <3>2. LoweredPair(row, c)
      BY <3>1 DEF LoweredPair
    <3>3. QED
      BY <2>1, <3>1, <3>2 DEF HasPair
  <2>4. QED
    BY <2>1, <2>2, <2>3
<1>3. QED
  BY <1>1, <1>2

(* A contract all of whose rows are fine and have their pairs is kept.     *)
LEMMA ContractKept ==
  ASSUME Contract.is = "rows", Contract.rows \in Seq(ToSet(Contract.rows)),
         \A i \in 1 .. Len(Contract.rows) : RowFine(i) /\ HasPair(Contract.rows[i])
  PROVE  InParity
<1>0. DOMAIN Contract.rows = 1 .. Len(Contract.rows) /\ Len(Contract.rows) \in Nat
  OBVIOUS
<1> SUFFICES ASSUME NEW i \in DOMAIN Contract.rows
             PROVE  LET row == Contract.rows[i] IN
                    /\ row.is = "row" /\ row.wrapper # row.native
                    /\ row.source.is = "there" /\ row.listed /\ Paired(row)
                    /\ \A j \in DOMAIN Contract.rows :
                         Contract.rows[j].is = "row" =>
                           (<<Contract.rows[j].library, Contract.rows[j].wrapper>>
                              = <<row.library, row.wrapper>> => i = j)
  BY Zenon DEF InParity
<1>1. RowFine(i) /\ Paired(Contract.rows[i])
  BY <1>0, PairShown
<1>2. ASSUME NEW j \in DOMAIN Contract.rows,
             Contract.rows[j].library = Contract.rows[i].library,
             Contract.rows[j].wrapper = Contract.rows[i].wrapper
      PROVE  i = j
  <2>1. ~(j < i)
    BY <1>0, <1>1, <1>2 DEF RowFine
  <2>2. RowFine(j)
    BY <1>0
  <2>3. ~(i < j)
    BY <1>0, <1>2, <2>2 DEF RowFine
  <2>4. QED
    BY <1>0, <2>1, <2>3
<1>3. QED
  BY <1>1, <1>2 DEF RowFine

LEMMA ContractSame ==
  ASSUME UNCHANGED <<options, workspace>>
  PROVE  /\ Contract' = Contract /\ InParity' = InParity /\ NoRowLong' = NoRowLong
         /\ ParityAsked' = ParityAsked
         /\ \A i : RowFine(i)' = RowFine(i)
         /\ \A row : HasPair(row)' = HasPair(row)
<1>1. Contract' = Contract
  BY DEF Contract
<1>2. Calls' = Calls
  BY DEF Calls
<1>3. \A row : Paired(row)' = Paired(row)
  BY <1>2 DEF Paired, Callers, NativeUsers, Expansions
<1>4. InParity' = InParity
  BY <1>1, <1>3 DEF InParity
<1>5. NoRowLong' = NoRowLong
  BY <1>1 DEF NoRowLong
<1>6. \A i : RowFine(i)' = RowFine(i)
  BY <1>1 DEF RowFine
<1>7. \A row : HasPair(row)' = HasPair(row)
  BY <1>2 DEF HasPair, NativeSeen, LoweredPair
<1>8. ParityAsked' = ParityAsked
  BY <1>5 DEF ParityAsked, Acceptable
<1>9. QED
  BY <1>1, <1>4, <1>5, <1>6, <1>7, <1>8

(* What was found before stays found; what is found now is a fault.        *)
LEMMA ParityFound ==
  ASSUME ParitySoFar, ~err', NEW f, Add(f), ~InParity, InParity' = InParity,
         stage' \in {"contract", "close", "pairs"}
  PROVE  ParitySoFar'
<1>1. IsList(findings') /\ findings' # <<>>
  BY Found DEF ParitySoFar
<1>2. QED
  BY <1>1 DEF ParitySoFar

LEMMA ParityStarts ==
  ASSUME ParitySoFar, ~err', ParityStart, UNCHANGED <<options, workspace>>,
         Contract.is = "rows" => Contract.rows \in Seq(ToSet(Contract.rows))
  PROVE  ParitySoFar'
<1>1. findings = <<>> /\ rows = <<>> /\ position = 0
  BY DEF ParityStart, ParitySoFar
<1>2. UNCHANGED <<position, rows>>
  BY DEF ParityStart
<1>3. CASE Contract.is = "rows" /\ stage' = "contract" /\ UNCHANGED findings
  <2>1. RowsTaken(position)'
    BY <1>1, <1>2, <1>3, ContractSame DEF RowsTaken
  <2>2. QED
    BY <1>1, <1>3, <2>1, ContractSame DEF ParitySoFar
<1>4. CASE Contract.is = "empty" /\ Add(Finding("header", "contract")) /\ stage' = "close"
  <2>1. ~InParity
    BY <1>4 DEF InParity
  <2>2. QED
    BY <1>4, <2>1, ParityFound, ContractSame
<1>5. QED
  BY <1>3, <1>4 DEF ParityStart, GiveUp

(* The next row of the contract.                                           *)
LEMMA RowRead ==
  ASSUME Contract.is = "rows", Contract.rows \in Seq(ToSet(Contract.rows)),
         RowsTaken(position), Reading
  PROVE  /\ position + 1 \in 1 .. Len(Contract.rows)
         /\ ContractRow = Contract.rows[position + 1]
         /\ position + 1 \in DOMAIN Contract.rows
         /\ ContractRow \in ToSet(Contract.rows)
         /\ position \in Nat
BY DEF RowsTaken, Reading, ContractRow, ToSet

LEMMA ParityReads ==
  ASSUME NoRowLong, ParitySoFar, ~err, ~err', UNCHANGED <<options, workspace>>,
         Contract.is = "rows" => Contract.rows \in Seq(ToSet(Contract.rows)),
         RefusedRow \/ UnusableRow \/ RepeatedRow \/ TakeRow, ParityShape
  PROVE  ParitySoFar'
<1>0. stage = "contract" /\ Reading /\ position' = position + 1
  BY DEF RefusedRow, UnusableRow, RepeatedRow, TakeRow, Usable, Proper, Reading, NextRow
<1>1. CASE findings # <<>>
  <2>1. ~InParity
    BY <1>1 DEF ParitySoFar
  <2>2. stage' \in {"contract", "close"}
    BY <1>0 DEF RefusedRow, UnusableRow, RepeatedRow, TakeRow
  <2>3. UNCHANGED findings \/ (\E f : Add(f)) \/ (\E f : findings' = Append(findings, f))
    BY DEF RefusedRow, UnusableRow, RepeatedRow, TakeRow, Tell, TellMissing
  <2>4. CASE UNCHANGED findings
    BY <1>1, <2>1, <2>2, <2>4, ContractSame DEF ParitySoFar
  <2>5. CASE \E f : Add(f)
    BY <2>1, <2>2, <2>5, ParityFound, ContractSame
  <2>6. CASE \E f : findings' = Append(findings, f)
    <3>1. IsList(findings') /\ findings' # <<>>
      BY <2>6, ListMore DEF ParityShape
    <3>2. QED
      BY <2>1, <2>2, <3>1, ContractSame DEF ParitySoFar
  <2>7. QED
    BY <2>3, <2>4, <2>5, <2>6
<1>2. CASE findings = <<>>
  <2>1. RowsTaken(position)
    BY <1>0, <1>2 DEF ParitySoFar
  <2>2. Contract.is = "rows" /\ Contract.rows \in Seq(ToSet(Contract.rows))
    BY <2>1 DEF RowsTaken
  <2> DEFINE n == position + 1
             row == Contract.rows[n]
  <2>3. /\ n \in 1 .. Len(Contract.rows) /\ n \in DOMAIN Contract.rows
        /\ ContractRow = row /\ row \in ToSet(Contract.rows) /\ position \in Nat
    BY <1>0, <2>1, <2>2, RowRead
  <2>4. row.is = "row" => ~row.long /\ row.source.is # "truncated"
    BY <2>2, <2>3 DEF NoRowLong
  <2>5. /\ rows \in Seq(ToSet(Contract.rows)) /\ Len(rows) = position
        /\ \A i \in 1 .. position : rows[i] = Contract.rows[i] /\ RowFine(i)
    BY <2>1 DEF RowsTaken
  <2>6. InParity => /\ row.is = "row" /\ row.wrapper # row.native
                    /\ row.source.is = "there" /\ row.listed
    BY <2>3, Zenon DEF InParity
  <2>7. Taken => ~InParity
    <3> SUFFICES ASSUME Taken, InParity PROVE FALSE
      OBVIOUS
    <3>1. PICK i \in DOMAIN rows : rows[i].library = row.library /\ rows[i].wrapper = row.wrapper
      BY <2>3, Zenon DEF Taken
    <3>2. /\ i \in 1 .. position /\ i \in DOMAIN Contract.rows /\ i # n
          /\ Contract.rows[i].library = row.library
          /\ Contract.rows[i].wrapper = row.wrapper
      BY <2>2, <2>3, <2>5, <3>1
    <3>3. Contract.rows[i].is = "row"
      BY <2>5, <3>2 DEF RowFine
    <3>4. i = n
      BY <2>3, <3>2, <3>3, Zenon DEF InParity
    <3>5. QED
      BY <3>2, <3>4
  <2>8. CASE RefusedRow
    <3>1. PICK f : Add(f) /\ stage' = "contract" /\ ~InParity
      BY <1>0, <2>3, <2>6, <2>8 DEF RefusedRow
    <3>2. QED
      BY <3>1, ParityFound, ContractSame
  <2>9. CASE UnusableRow
    BY <2>3, <2>4, <2>9 DEF UnusableRow, Proper
  <2>10. CASE RepeatedRow
    <3>1. stage' = "contract" /\ ~InParity
      BY <1>0, <2>3, <2>6, <2>7, <2>10 DEF RepeatedRow
    <3>2. \/ \E f : Add(f)
          \/ TellMissing(Finding("missing", row.wrapper), TRUE)
      BY <2>3, <2>4, <2>10 DEF RepeatedRow, Usable, Proper
    <3>3. CASE \E f : Add(f)
      BY <3>1, <3>3, ParityFound, ContractSame
    <3>4. CASE TellMissing(Finding("missing", row.wrapper), TRUE)
      <4>1. IsList(findings') /\ findings' # <<>>
        BY <3>4, ListMore DEF TellMissing, ParityShape
      <4>2. QED
        BY <3>1, <4>1, ContractSame DEF ParitySoFar
    <3>5. QED
      BY <3>2, <3>3, <3>4
  <2>11. CASE TakeRow
    <3>1. /\ row.is = "row" /\ row.wrapper # row.native /\ row.source.is = "there"
          /\ ~Taken /\ rows' = Append(rows, row) /\ stage' = "contract"
      BY <1>0, <2>3, <2>11 DEF TakeRow, Usable, Proper
    <3>2. CASE row.listed /\ UNCHANGED findings
      <4>1. RowFine(n)
        <5>1. ASSUME NEW j \in 1 .. n - 1
              PROVE  \/ Contract.rows[j].library # row.library
                     \/ Contract.rows[j].wrapper # row.wrapper
          <6>1. j \in DOMAIN rows /\ rows[j] = Contract.rows[j]
            BY <2>3, <2>5, <5>1
          <6>2. QED
            BY <2>3, <3>1, <6>1 DEF Taken
        <5>2. QED
          BY <3>1, <3>2, <5>1 DEF RowFine
      <4>2. /\ rows' \in Seq(ToSet(Contract.rows)) /\ Len(rows') = n
            /\ \A i \in 1 .. n : rows'[i] = Contract.rows[i]
        BY <2>3, <2>5, <3>1
      <4>3. \A i \in 1 .. n : RowFine(i)
        BY <2>3, <2>5, <4>1
      <4>4. RowsTaken(position)'
        BY <1>0, <2>2, <2>3, <4>2, <4>3, ContractSame DEF RowsTaken
      <4>5. QED
        BY <1>2, <3>1, <3>2, <4>4, ContractSame DEF ParitySoFar
    <3>3. CASE ~row.listed /\ \E f : Add(f)
      BY <2>6, <3>1, <3>3, ParityFound, ContractSame
    <3>4. QED
      BY <2>3, <2>4, <2>11, <3>1, <3>2, <3>3 DEF TakeRow, Tell
  <2>12. QED
    BY <2>8, <2>9, <2>10, <2>11
<1>3. QED
  BY <1>1, <1>2

(* The error that a look for a source takes with it leaves a finding.      *)
LEMMA ParityForgets ==
  ASSUME NoRowLong, ParityShape, err, ~err', UNCHANGED <<options, workspace>>, RepeatedRow,
         Contract.is = "rows" => Contract.rows \in Seq(ToSet(Contract.rows))
  PROVE  ParitySoFar'
<1>1. /\ stage = "contract" /\ stage' = "contract" /\ position < Len(Contract.rows)
      /\ ContractRow.is = "row" /\ ContractRow.source.is = "vanishing"
      /\ TellMissing(Finding("missing", ContractRow.wrapper), ~ContractRow.long)
  BY DEF RepeatedRow, Usable, Proper, Reading, Add
<1>2. /\ Contract.is = "rows" /\ position + 1 \in DOMAIN Contract.rows
      /\ ContractRow = Contract.rows[position + 1]
      /\ ContractRow \in ToSet(Contract.rows)
  BY <1>1 DEF ParityShape, ContractRow, ToSet
<1>3. ~ContractRow.long
  BY <1>1, <1>2 DEF NoRowLong
<1>4. ~InParity
  BY <1>1, <1>2 DEF InParity
<1>5. IsList(findings') /\ findings' # <<>>
  BY <1>1, <1>3, ListMore DEF TellMissing, ParityShape
<1>6. QED
  BY <1>1, <1>4, <1>5, ContractSame DEF ParitySoFar

LEMMA ParityShaped ==
  ASSUME ParityShape, Parity, UNCHANGED <<options, workspace>>,
         Contract.is = "rows" => Contract.rows \in Seq(ToSet(Contract.rows))
  PROVE  ParityShape'
<1> USE ContractSame DEF ParityShape
<1>1. CASE ParityStart
  BY <1>1, ListKept DEF ParityStart, GiveUp
<1>2. CASE RefusedRow \/ RepeatedRow \/ TakeRow
  BY <1>2, ListKept
  DEF RefusedRow, RepeatedRow, TakeRow, Usable, Proper, Reading, NextRow
<1>3. CASE UnusableRow
  BY <1>3 DEF UnusableRow, Proper, Reading, NextRow
<1>4. CASE ContractEnds \/ CloseContract
  BY <1>4 DEF ContractEnds, CloseContract, GiveUp
<1>5. CASE JudgePair
  BY <1>5, ListKept DEF JudgePair
<1>6. CASE ParityEnds
  BY <1>6 DEF ParityEnds, PolicyEnds
<1>7. QED
  BY <1>1, <1>2, <1>3, <1>4, <1>5, <1>6 DEF Parity

LEMMA ParityCloses ==
  ASSUME ParitySoFar, ~err, ~err', UNCHANGED <<options, workspace>>,
         Contract.is = "rows" => Contract.rows \in Seq(ToSet(Contract.rows)),
         ContractEnds \/ CloseContract
  PROVE  ParitySoFar'
<1>1. CASE ContractEnds
  <2>1. /\ stage = "contract" /\ stage' = "close" /\ UNCHANGED <<findings, rows>>
        /\ Len(rows) # RowCapacity
    BY <1>1 DEF ContractEnds
  <2>2. findings = <<>> => RowsTaken(Len(Contract.rows))'
    <3>1. position = Len(Contract.rows)
      BY <1>1, <2>1 DEF ContractEnds
    <3>2. QED
      BY <2>1, <3>1, ContractSame DEF RowsTaken, ParitySoFar
  <2>3. QED
    BY <2>1, <2>2, ContractSame DEF ParitySoFar
<1>2. CASE CloseContract
  <2>1. /\ stage = "close" /\ stage' = "pairs" /\ UNCHANGED <<findings, rows>>
        /\ position' = 0
    BY <1>2 DEF CloseContract, GiveUp
  <2>2. findings = <<>> => RowsTaken(Len(Contract.rows))' /\ Len(Contract.rows) \in Nat
    BY <2>1, ContractSame DEF RowsTaken, ParitySoFar
  <2>3. QED
    BY <2>1, <2>2, ContractSame DEF ParitySoFar
<1>3. QED
  BY <1>1, <1>2

LEMMA ParityJudges ==
  ASSUME NoRowLong, ParitySoFar, ~err, ~err', UNCHANGED <<options, workspace>>,
         Contract.is = "rows" => Contract.rows \in Seq(ToSet(Contract.rows)),
         JudgePair \/ ParityEnds
  PROVE  ParitySoFar'
<1>1. CASE JudgePair
  <2>1. /\ stage = "pairs" /\ stage' = "pairs" /\ position' = position + 1
        /\ position < Len(rows) /\ UNCHANGED rows
        /\ UNCHANGED findings \/ \E f : Add(f)
    BY <1>1 DEF JudgePair, Tell
  <2>2. CASE findings # <<>>
    <3>1. CASE UNCHANGED findings
      BY <2>1, <2>2, <3>1, ContractSame DEF ParitySoFar
    <3>2. CASE \E f : Add(f)
      BY <2>1, <2>2, <3>2, ParityFound, ContractSame DEF ParitySoFar
    <3>3. QED
      BY <2>1, <3>1, <3>2
  <2>3. CASE findings = <<>>
    <3>1. /\ RowsTaken(Len(Contract.rows)) /\ position \in 0 .. Len(Contract.rows)
          /\ \A i \in 1 .. position : HasPair(Contract.rows[i])
      BY <2>1, <2>3 DEF ParitySoFar
    <3> DEFINE row == Contract.rows[position + 1]
    <3>2. /\ position + 1 \in 1 .. Len(Contract.rows) /\ position \in Nat
          /\ rows[position + 1] = row /\ RowFine(position + 1)
          /\ row \in ToSet(Contract.rows) /\ position + 1 \in DOMAIN Contract.rows
      BY <2>1, <3>1 DEF RowsTaken, ToSet
    <3>3. row.is = "row" /\ ~row.long
      BY <3>1, <3>2 DEF RowFine, NoRowLong, RowsTaken
    <3>4. CASE HasPair(row) /\ UNCHANGED findings
      <4>1. \A i \in 1 .. position + 1 : HasPair(Contract.rows[i])
        BY <3>1, <3>2, <3>4
      <4>2. RowsTaken(Len(Contract.rows))'
        BY <2>1, <3>1, ContractSame DEF RowsTaken
      <4>3. /\ position' \in 0 .. Len(Contract'.rows)
            /\ \A i \in 1 .. position' : HasPair(Contract.rows[i])'
        BY <2>1, <3>2, <4>1, ContractSame
      <4>4. QED
        BY <2>1, <2>3, <3>4, <4>2, <4>3, ContractSame DEF ParitySoFar
    <3>5. CASE ~HasPair(row) /\ \E f : Add(f)
      <4>1. ~InParity
        BY <3>2, <3>5, PairShown DEF InParity
      <4>2. QED
        BY <2>1, <3>5, <4>1, ParityFound, ContractSame
    <3>6. QED
      BY <1>1, <3>2, <3>3, <3>4, <3>5 DEF JudgePair, Tell
  <2>4. QED
    BY <2>2, <2>3
<1>2. CASE ParityEnds
  <2>1. /\ stage = "pairs" /\ stage' = "write" /\ UNCHANGED findings
        /\ position = Len(rows)
    BY <1>2 DEF ParityEnds, PolicyEnds
  <2>2. findings = <<>> => InParity
    <3> SUFFICES ASSUME findings = <<>> PROVE InParity
      OBVIOUS
    <3>1. /\ RowsTaken(Len(Contract.rows))
          /\ \A i \in 1 .. position : HasPair(Contract.rows[i])
      BY <2>1 DEF ParitySoFar
    <3>2. \A i \in 1 .. Len(Contract.rows) : RowFine(i) /\ HasPair(Contract.rows[i])
      BY <2>1, <3>1 DEF RowsTaken
    <3>3. QED
      BY <3>1, <3>2, ContractKept DEF RowsTaken
  <2>3. QED
    BY <2>1, <2>2, ContractSame DEF ParitySoFar
<1>3. QED
  BY <1>1, <1>2

LEMMA ParityBegins == Init => ParityInv
<1> SUFFICES ASSUME Init, ParityAsked PROVE ParityInv
  BY DEF ParityInv
<1>1. PICK run \in InputRuns : options = run.options /\ workspace = run.workspace
  BY DEF Init
<1>2. ContractTyped(workspace)
  BY <1>1, InputAssumption DEF ParityAsked
<1>3. /\ stage = "arguments" /\ findings = <<>> /\ position = 0 /\ rows = <<>>
  BY DEF Init, ParityInit
<1>4. IsList(findings)
  BY <1>3 DEF ToSet, IsList
<1>5. QED
  BY <1>2, <1>3, <1>4 DEF ParityInv, ParitySoFar, ParityShape, CommonStages

LEMMA ParityPolicyStep ==
  ASSUME RunInv, ParityInv, ParityAsked, AnyPolicy
  PROVE  ParityInv'
<1>1. stage \in PolicyStages /\ status = Trouble /\ status' = Trouble
  BY PolicyShown, StageNames DEF RunInv, RanInv
<1>2. stage \in ParityStages /\ stage \notin {"end", "ended"}
  BY <1>1, StageNames DEF ParityInv, CommonStages
<1>3. Parity /\ Roaming(ParityStages)
  BY <1>2, PolicyOfStage DEF RunInv
<1>4. /\ stage' \in CommonStages \cup ParityStages
      /\ UNCHANGED <<options, workspace>>
  BY <1>3 DEF Roaming, CommonStages
<1>5. /\ Contract.is = "rows" => Contract.rows \in Seq(ToSet(Contract.rows))
      /\ ParityShape /\ NoRowLong
  BY DEF ParityInv, ParityAsked, ContractTyped, IsList, Contract
<1>6. ASSUME stage' \notin {"end", "ended"}, ~err' PROVE ParitySoFar'
  <2>1. CASE ~err
    <3>1. ParitySoFar
      BY <1>2, <2>1 DEF ParityInv
    <3>2. QED
      BY <1>3, <1>4, <1>5, <1>6, <2>1, <3>1, ParityStarts, ParityReads, ParityCloses,
         ParityJudges DEF Parity
  <2>2. CASE err
    <3>1. RepeatedRow
      <4>1. err \in BOOLEAN
        BY DEF RunInv, ErrInv
      <4>2. \/ ErrStays
            \/ stage' \in MayForget
        BY <1>3 DEF Roaming, Remembers
      <4>3. ~ErrStays
        BY <1>6, <2>2, <4>1 DEF ErrStays
      <4>4. stage' = "contract" /\ stage = "contract"
        BY <1>3, <4>2, <4>3 DEF Roaming, Remembers, MayForget, ParityStages
      <4>5. RefusedRow \/ RepeatedRow \/ TakeRow
        BY <1>3, <4>4
        DEF Parity, ParityStart, UnusableRow, ContractEnds, CloseContract, GiveUp,
            JudgePair, ParityEnds
      <4>6. CASE RefusedRow \/ TakeRow
        BY <4>1, <4>3, <4>6, Adding DEF RefusedRow, TakeRow, ErrStays
      <4>7. QED
        BY <4>5, <4>6
    <3>2. QED
      BY <1>4, <1>5, <1>6, <2>2, <3>1, ParityForgets
  <2>3. QED
    BY <2>1, <2>2
<1>7. ParityShape'
  BY <1>3, <1>4, <1>5, ParityShaped
<1>8. QED
  BY <1>1, <1>4, <1>6, <1>7, ContractSame DEF ParityInv, ContractTyped

LEMMA ParityMainStep ==
  ASSUME RunInv, ParityInv, ParityAsked, MainStep
  PROVE  ParityInv'
<1>1. /\ UNCHANGED <<options, workspace, findings, position, rows>>
      /\ Acceptable(options) /\ options.policy = "native-wrapper-parity"
  BY DEF MainStep, tableVars, earlierVars, ParityAsked
<1>2. stage' \in CommonStages \cup ParityStages
  BY <1>1 DEF MainStep, ParityInv, CommonStages, ParityStages
<1>3. InParity \in BOOLEAN
  BY DEF InParity
<1>4. stage \in {"write", "written"} /\ ~err => ((findings = <<>>) <=> InParity)
  BY DEF ParityInv, ParitySoFar
<1>5. stage' \in {"end", "ended"} /\ (stage' = "end" => ~err') /\ status' # Trouble =>
        ((status' = Success) <=> InParity)
  BY <1>1, <1>3, <1>4, VerdictKept DEF ParityInv
<1>6. ASSUME stage' \notin {"end", "ended"}, ~err' PROVE ParitySoFar'
  <2>1. stage \notin {"end", "ended"} /\ ~err
    <3>1. err \in BOOLEAN
      BY DEF RunInv, ErrInv
    <3>2. stage \notin {"end", "ended"}
      BY <1>6 DEF MainStep
    <3>3. err' = err \/ err' = TRUE
      BY <1>6, <3>2 DEF MainStep
    <3>4. QED
      BY <1>6, <3>1, <3>2, <3>3
  <2>2. ParitySoFar
    BY <2>1 DEF ParityInv
  <2>3. \/ stage' = stage
        \/ stage = "arguments" /\ stage' = "resolve"
        \/ stage = "resolve" /\ stage' = "native-wrapper-parity"
        \/ stage = "write" /\ stage' = "written"
    BY <1>1, <1>6 DEF MainStep
  <2>4. UNCHANGED <<Contract, InParity>>
    BY <1>1, ContractSame
  <2>5. /\ \A n : RowsTaken(n)' <=> RowsTaken(n)
        /\ \A row : HasPair(row)' <=> HasPair(row)
    BY <1>1, ContractSame DEF RowsTaken
  <2>6. QED
    BY <1>1, <2>2, <2>3, <2>4, <2>5 DEF ParitySoFar, RowsTaken
<1>7. ParityShape'
  <2>1. stage' = "contract" => stage = "contract"
    BY <1>1 DEF MainStep
  <2>2. QED
    BY <1>1, <2>1, ContractSame DEF ParityInv, ParityShape
<1>8. QED
  BY <1>1, <1>2, <1>5, <1>6, <1>7, ContractSame DEF ParityInv, ContractTyped

LEMMA ParityNext ==
  ASSUME RunInv, ParityInv, [Next]_vars
  PROVE  ParityInv'
<1>1. UNCHANGED <<options, workspace>>
  BY MainSteps, PolicyShown DEF MainStep
<1>2. CASE ParityAsked
  BY <1>2, MainSteps, ParityPolicyStep, ParityMainStep
<1>3. CASE ~ParityAsked
  BY <1>1, <1>3, ContractSame DEF ParityInv
<1>4. QED
  BY <1>2, <1>3

(* native-wrapper-parity says 0 only if every row of the contract has a    *)
(* test function that calls the wrapper and its native counterpart, and 1  *)
(* only if one has none or the contract is not as it should be, however    *)
(* long the contract and however small the table (JudgePair and Judge of   *)
(* the command); a row with a text that is too long is excepted.           *)
THEOREM ParityEarned == Spec => []ParityIsEarned
<1>1. Init => RunInv /\ ParityInv
  BY RunStart, ParityBegins
<1>2. RunInv /\ ParityInv /\ [Next]_vars => (RunInv /\ ParityInv)'
  BY RunStep, ParityNext
<1>3. ParityInv => ParityIsEarned
  BY DEF ParityInv, ParityIsEarned, Judged, ParityAsked
<1>4. QED
  BY <1>1, <1>2, <1>3, PTL DEF Spec

(***************************************************************************)
(* What boundaries says is earned.                                         *)
(***************************************************************************)

RowPlain(i) ==
  LET r == Register.rows[i] IN
  /\ r.is = "row" /\ r.canonical /\ r.missing = 0 /\ r.composed
  /\ OwnerDeclared(r) /\ r.tests.is = "matrix" /\ Unique(i)
(* The t-th test of a row has evidence that is its own, or needs none.     *)
Shown(r, t) ==
  LET e == r.tests.of[t] IN
  \/ e.is = "not-applicable" /\ e.proper /\ t = TestCount
  \/ /\ e.is = "given" /\ Wired(e)
     /\ \A u \in 1 .. t - 1 :
          LET o == r.tests.of[u] IN
          o.is = "given" => o.path # e.path \/ o.value # e.value
RowSettled(i) ==
  RowPlain(i) /\ \A t \in 1 .. TestCount : Shown(Register.rows[i], t)
Remembered(r, n) ==
  [t \in 1 .. TestCount |->
     IF t < n /\ r.tests.of[t].is = "given"
     THEN [path |-> r.tests.of[t].path, value |-> r.tests.of[t].value]
     ELSE Nothing]
OwnerRan(i) ==
  Register.rows[i].repository # NoText /\ Passed(Register.rows[i].repository)

BoundaryAsked ==
  /\ options.policy = "boundaries" /\ Acceptable(options)
  /\ Register.is = "valid" => AllNamed
  /\ options.execution /\ Ran.is = "clean" =>
       \A r \in ToSet(Ran.records) : r.is = "record"

(* The row that is looked at.                                              *)
RegisterPlace ==
  /\ stage \in {"register", "evidence", "execution"} =>
       /\ Register.is = "valid" /\ Loads(workspace.source)
       /\ position \in 0 .. Len(Register.rows)
  /\ stage = "evidence" => position < Len(Register.rows)
(* What holds as long as nothing was found.                                *)
RegisterSoFar ==
  /\ stage \in {"register", "evidence"} => \A i \in 1 .. position : RowSettled(i)
  /\ stage = "evidence" =>
       /\ RowPlain(position + 1)
       /\ turn \in 1 .. TestCount + 1
       /\ \A t \in 1 .. turn - 1 : Shown(Boundary, t)
       /\ seen = Remembered(Boundary, turn)
  /\ stage = "execution" =>
       /\ options.execution /\ Ran.is = "clean"
       /\ \A i \in 1 .. Len(Register.rows) : RowSettled(i)
       /\ \A i \in 1 .. position : OwnerRan(i)
  /\ stage \in {"write", "written"} => RegisterKept
BoundarySoFar ==
  /\ IsList(findings) /\ RegisterPlace
  /\ findings # <<>> => ~RegisterKept
  /\ stage \in {"arguments", "resolve", "boundaries"} => findings = <<>> /\ position = 0
  /\ findings = <<>> => RegisterSoFar

BoundaryInv ==
  BoundaryAsked =>
    /\ stage \in CommonStages \cup BoundaryStages
    /\ RegisterTyped(options, workspace)
    /\ stage \notin {"end", "ended"} /\ ~err => BoundarySoFar
    /\ stage \in {"end", "ended"} /\ (stage = "end" => ~err) /\ status # Trouble =>
         ((status = Success) <=> RegisterKept)

LEMMA RegisterSame ==
  ASSUME UNCHANGED <<options, workspace>>
  PROVE  /\ Register' = Register /\ Ran' = Ran /\ RegisterKept' = RegisterKept
         /\ BoundaryAsked' = BoundaryAsked
         /\ \A i : /\ RowPlain(i)' = RowPlain(i) /\ RowSettled(i)' = RowSettled(i)
                   /\ OwnerRan(i)' = OwnerRan(i)
         /\ \A r, t : Shown(r, t)' = Shown(r, t)
         /\ RegisterTyped(options, workspace)' = RegisterTyped(options, workspace)
         /\ Loads(workspace.source)' = Loads(workspace.source)
<1>1. Register' = Register /\ Ran' = Ran /\ Calls' = Calls /\ Inside' = Inside
  BY DEF Register, Ran, Calls, Inside
<1>2. \A r : OwnerDeclared(r)' = OwnerDeclared(r)
  BY <1>1 DEF OwnerDeclared, Resolves
<1>3. \A i : Unique(i)' = Unique(i)
  BY <1>1 DEF Unique, Identified
<1>4. \A i : RowPlain(i)' = RowPlain(i)
  BY <1>1, <1>2, <1>3 DEF RowPlain
<1>5. \A path, value : MarkerWired(path, value)' = MarkerWired(path, value)
  BY DEF MarkerWired, Marked
<1>6. \A path, role, usr : RoleWired(path, role, usr)' = RoleWired(path, role, usr)
  BY <1>1 DEF RoleWired
<1>7. \A e : Wired(e)' = Wired(e)
  BY <1>5, <1>6 DEF Wired, Texts, Resolves
<1>8. \A r, t : Shown(r, t)' = Shown(r, t)
  BY <1>7 DEF Shown
<1>9. \A i : RowSettled(i)' = RowSettled(i)
  BY <1>1, <1>4, <1>8 DEF RowSettled
<1>10. \A i : OwnerRan(i)' = OwnerRan(i)
  BY <1>1 DEF OwnerRan, Passed
<1>11. \A usr, e : ShownBy(usr, e)' = ShownBy(usr, e)
  BY <1>1 DEF ShownBy, MarkerWired, Marked
<1>12. \A r : Kept(r)' = Kept(r)
  BY <1>2, <1>11 DEF Kept, Texts, Resolves, Given
<1>13. \A r : SuitePassed(r)' = SuitePassed(r)
  BY <1>1 DEF SuitePassed
<1>14. RegisterKept' = RegisterKept
  BY <1>1, <1>12, <1>13 DEF RegisterKept
<1>15. AllNamed' = AllNamed
  BY <1>1 DEF AllNamed
<1>16. BoundaryAsked' = BoundaryAsked
  BY <1>1, <1>15 DEF BoundaryAsked, Acceptable
<1>17. /\ RegisterTyped(options, workspace)' = RegisterTyped(options, workspace)
       /\ Loads(workspace.source)' = Loads(workspace.source)
  BY DEF RegisterTyped, BoundaryRow, Loads
<1>18. QED
  BY <1>1, <1>4, <1>8, <1>9, <1>10, <1>14, <1>16, <1>17

(* What the code takes for wired evidence is what the register promises:   *)
(* one function has the role, and it or one it calls calls the owner.      *)
LEMMA WiredShown ==
  ASSUME AllNamed, IsFiniteSet(workspace.source.facts),
         NEW e, e.by \in {"role", "marker"}
  PROVE  Wired(e) <=> e.shape /\ Texts(e) /\ Resolves(e.path) /\ ShownBy(e.usr, e)
<1> DEFINE path == workspace.paths[e.path]
           noted == {m \in Inside : m.kind = "NOTE" /\ m.path = path /\ m.name = e.value}
<1>1. CASE e.by = "marker"
  BY <1>1 DEF Wired, ShownBy
<1>2. CASE e.by = "role"
  <2>1. {f \in Inside : /\ f.kind = "NOTE" /\ f.path = path
                        /\ f.name = e.value /\ f.caller # NoText} = noted
    BY DEF AllNamed
  <2>2. IsFiniteSet(noted)
    BY FS_Subset DEF Inside
  <2>3. Cardinality(noted) = 1 <=> \E n : noted = {n}
    BY <2>2, FS_Singleton
  <2>4. \A n, m \in noted : n.caller = m.caller => n = m
    BY DEF AllNamed
  <2>5. RoleWired(path, e.value, e.usr) <=>
          /\ \E n : noted = {n}
          /\ \E n \in noted, c \in Calls :
               /\ c.path = path /\ c.caller = n.caller
               /\ c.usr = e.usr \/ \E d \in Calls : d.caller = c.usr /\ d.usr = e.usr
    BY <2>1, <2>3, Zenon DEF RoleWired
  <2>6. ShownBy(e.usr, e) <=>
          \E f \in {n.caller : n \in noted} :
             /\ \A n \in noted : n.caller = f
             /\ \E c \in Calls :
                  /\ c.caller = f /\ c.path = path
                  /\ c.usr = e.usr \/ \E d \in Calls : d.caller = c.usr /\ d.usr = e.usr
    BY <1>2 DEF ShownBy
  <2>7. ASSUME RoleWired(path, e.value, e.usr) PROVE ShownBy(e.usr, e)
    <3>1. PICK n : noted = {n}
      BY <2>5, <2>7
    <3>2. \E c \in Calls :
            /\ c.path = path /\ c.caller = n.caller
            /\ c.usr = e.usr \/ \E d \in Calls : d.caller = c.usr /\ d.usr = e.usr
      BY <2>5, <2>7, <3>1
    <3>3. n.caller \in {m.caller : m \in noted} /\ \A m \in noted : m.caller = n.caller
      BY <3>1
    <3> HIDE DEF noted, path
    <3>4. QED
      BY <2>6, <3>2, <3>3
  <2>8. ASSUME ShownBy(e.usr, e) PROVE RoleWired(path, e.value, e.usr)
    <3>1. PICK f \in {n.caller : n \in noted} :
             /\ \A n \in noted : n.caller = f
             /\ \E c \in Calls :
                  /\ c.caller = f /\ c.path = path
                  /\ c.usr = e.usr \/ \E d \in Calls : d.caller = c.usr /\ d.usr = e.usr
      BY <2>6, <2>8
    <3> HIDE DEF noted, path
    <3>2. PICK n \in noted : n.caller = f
      BY <3>1
    <3>3. noted = {n}
      BY <2>4, <3>1, <3>2
    <3>4. QED
      BY <2>5, <3>1, <3>2, <3>3
  <2>9. QED
    BY <1>2, <2>7, <2>8 DEF Wired
<1>3. QED
  BY <1>1, <1>2

(* The hypotheses of a run over a register that was read.                  *)
RegisterListed ==
  /\ Register.is = "valid" /\ Loads(workspace.source)
  /\ BoundaryAsked /\ RegisterTyped(options, workspace)

LEMMA RegisterRows ==
  ASSUME RegisterListed
  PROVE  /\ Len(Register.rows) \in Nat /\ DOMAIN Register.rows = 1 .. Len(Register.rows)
         /\ IsFiniteSet(workspace.source.facts) /\ AllNamed
         /\ \A i \in DOMAIN Register.rows : BoundaryRow(Register.rows[i])
<1>1. IsList(Register.rows) /\ \A r \in ToSet(Register.rows) : BoundaryRow(r)
  BY DEF RegisterListed, RegisterTyped, Register, IsList
<1>2. Len(Register.rows) \in Nat /\ DOMAIN Register.rows = 1 .. Len(Register.rows)
  BY <1>1 DEF IsList
<1>3. \A i \in DOMAIN Register.rows : BoundaryRow(Register.rows[i])
  BY <1>1 DEF ToSet
<1>4. QED
  BY <1>2, <1>3 DEF RegisterListed, RegisterTyped, BoundaryAsked

(* A row is kept and its identity is new exactly if each look at it is     *)
(* satisfied.                                                              *)
LEMMA RowLookedAt ==
  ASSUME RegisterListed, NEW i \in DOMAIN Register.rows
  PROVE  RowSettled(i) <=> Kept(Register.rows[i]) /\ Unique(i)
<1> DEFINE r == Register.rows[i]
<1>1. BoundaryRow(r) /\ AllNamed /\ IsFiniteSet(workspace.source.facts)
  BY RegisterRows
<1>2. TestCount \in Nat \ {0}
  BY TestCountAssumption
<1>3. ASSUME r.is = "row", r.tests.is = "matrix"
      PROVE  (\A t \in 1 .. TestCount : Shown(r, t)) <=>
               /\ \A t \in DOMAIN r.tests.of \ Given(r) :
                    /\ t = TestCount /\ r.tests.of[t].is = "not-applicable"
                    /\ r.tests.of[t].proper
               /\ \A t \in Given(r) : LET e == r.tests.of[t] IN
                    /\ e.shape /\ Texts(e) /\ Resolves(e.path) /\ ShownBy(e.usr, e)
                    /\ \A u \in Given(r) : LET o == r.tests.of[u] IN
                         o.path = e.path /\ o.value = e.value => u = t
  <2>1. DOMAIN r.tests.of = 1 .. TestCount
    BY <1>1, <1>3 DEF BoundaryRow
  <2>2. \A t \in 1 .. TestCount : t \in Given(r) <=> r.tests.of[t].is = "given"
    BY <2>1 DEF Given
  <2>3. ASSUME NEW t \in Given(r)
        PROVE  LET e == r.tests.of[t] IN
               Wired(e) <=> e.shape /\ Texts(e) /\ Resolves(e.path) /\ ShownBy(e.usr, e)
    <3>1. r.tests.of[t].by \in {"role", "marker"}
      BY <1>1, <1>3, <2>1 DEF BoundaryRow, Given
    <3>2. QED
      BY <1>1, <3>1, WiredShown
  <2>10. ASSUME NEW t \in 1 .. TestCount, Shown(r, t), r.tests.of[t].is = "given"
         PROVE  /\ Wired(r.tests.of[t])
                /\ \A u \in 1 .. t - 1 :
                     r.tests.of[u].is = "given" =>
                       \/ r.tests.of[u].path # r.tests.of[t].path
                       \/ r.tests.of[u].value # r.tests.of[t].value
    BY <2>10 DEF Shown
  <2>11. ASSUME NEW t \in 1 .. TestCount, Shown(r, t), r.tests.of[t].is # "given"
         PROVE  /\ t = TestCount /\ r.tests.of[t].is = "not-applicable"
                /\ r.tests.of[t].proper
    BY <2>11 DEF Shown
  <2>4. ASSUME \A t \in 1 .. TestCount : Shown(r, t),
               NEW t \in Given(r), NEW u \in Given(r),
               r.tests.of[u].path = r.tests.of[t].path,
               r.tests.of[u].value = r.tests.of[t].value
        PROVE  u = t
    <3>1. t \in 1 .. TestCount /\ u \in 1 .. TestCount
      BY <2>1 DEF Given
    <3>5. Shown(r, t) /\ Shown(r, u)
      BY <2>4, <3>1
    <3>6. r.tests.of[t].is = "given" /\ r.tests.of[u].is = "given"
      BY <2>2, <3>1
    <3>2. ~(u < t)
      <4>1. u < t => u \in 1 .. t - 1
        BY <1>2, <3>1
      <4>2. QED
        BY <2>4, <2>10, <3>1, <3>5, <3>6, <4>1
    <3>3. ~(t < u)
      <4>1. t < u => t \in 1 .. u - 1
        BY <1>2, <3>1
      <4>2. QED
        BY <2>4, <2>10, <3>1, <3>5, <3>6, <4>1
    <3>4. QED
      BY <1>2, <3>1, <3>2, <3>3
  <2>5. ASSUME \A t \in 1 .. TestCount : Shown(r, t)
        PROVE  /\ \A t \in DOMAIN r.tests.of \ Given(r) :
                    /\ t = TestCount /\ r.tests.of[t].is = "not-applicable"
                    /\ r.tests.of[t].proper
               /\ \A t \in Given(r) : Wired(r.tests.of[t])
    <3>1. ASSUME NEW t \in DOMAIN r.tests.of \ Given(r)
          PROVE  /\ t = TestCount /\ r.tests.of[t].is = "not-applicable"
                 /\ r.tests.of[t].proper
      <4>1. t \in 1 .. TestCount
        BY <2>1
      <4>2. Shown(r, t)
        BY <2>5, <4>1
      <4>3. r.tests.of[t].is # "given"
        BY <2>2, <4>1
      <4>4. QED
        BY <2>11, <4>1, <4>2, <4>3
    <3>2. ASSUME NEW t \in Given(r) PROVE Wired(r.tests.of[t])
      <4>1. t \in 1 .. TestCount
        BY <2>1 DEF Given
      <4>2. Shown(r, t)
        BY <2>5, <4>1
      <4>3. r.tests.of[t].is = "given"
        BY <2>2, <4>1
      <4>4. QED
        BY <2>10, <4>1, <4>2, <4>3
    <3>3. QED
      BY <3>1, <3>2
  <2>6. ASSUME \A t \in DOMAIN r.tests.of \ Given(r) :
                 /\ t = TestCount /\ r.tests.of[t].is = "not-applicable"
                 /\ r.tests.of[t].proper,
               \A t \in Given(r) :
                 /\ Wired(r.tests.of[t])
                 /\ \A u \in Given(r) :
                      r.tests.of[u].path = r.tests.of[t].path
                      /\ r.tests.of[u].value = r.tests.of[t].value => u = t,
               NEW t \in 1 .. TestCount
        PROVE  Shown(r, t)
    <3>1. CASE t \notin Given(r)
      BY <2>1, <2>6, <3>1 DEF Shown
    <3>2. CASE t \in Given(r)
      <4>1. r.tests.of[t].is = "given" /\ Wired(r.tests.of[t])
        BY <2>2, <2>6, <3>2
      <4>2. ASSUME NEW u \in 1 .. t - 1, r.tests.of[u].is = "given"
            PROVE  \/ r.tests.of[u].path # r.tests.of[t].path
                   \/ r.tests.of[u].value # r.tests.of[t].value
        <5>1. u \in 1 .. TestCount /\ u # t
          BY <1>2, <4>2
        <5>2. u \in Given(r)
          BY <2>2, <4>2, <5>1
        <5>3. QED
          BY <2>6, <3>2, <5>1, <5>2
      <4>3. QED
        BY <4>1, <4>2 DEF Shown
    <3>3. QED
      BY <3>1, <3>2
  <2>7. ASSUME \A t \in 1 .. TestCount : Shown(r, t)
        PROVE  /\ \A t \in DOMAIN r.tests.of \ Given(r) :
                    /\ t = TestCount /\ r.tests.of[t].is = "not-applicable"
                    /\ r.tests.of[t].proper
               /\ \A t \in Given(r) : LET e == r.tests.of[t] IN
                    /\ e.shape /\ Texts(e) /\ Resolves(e.path) /\ ShownBy(e.usr, e)
                    /\ \A u \in Given(r) : LET o == r.tests.of[u] IN
                         o.path = e.path /\ o.value = e.value => u = t
    BY <2>3, <2>4, <2>5, <2>7
  <2>8. ASSUME /\ \A t \in DOMAIN r.tests.of \ Given(r) :
                    /\ t = TestCount /\ r.tests.of[t].is = "not-applicable"
                    /\ r.tests.of[t].proper
               /\ \A t \in Given(r) : LET e == r.tests.of[t] IN
                    /\ e.shape /\ Texts(e) /\ Resolves(e.path) /\ ShownBy(e.usr, e)
                    /\ \A u \in Given(r) : LET o == r.tests.of[u] IN
                         o.path = e.path /\ o.value = e.value => u = t
        PROVE  \A t \in 1 .. TestCount : Shown(r, t)
    <3>1. \A t \in Given(r) : Wired(r.tests.of[t])
      BY <2>3, <2>8
    <3>2. QED
      BY <2>6, <2>8, <3>1
  <2>9. QED
    BY <2>7, <2>8
<1>4. CASE r.is = "row" /\ r.tests.is = "matrix"
  <2>1. RowSettled(i) <=> RowPlain(i) /\ \A t \in 1 .. TestCount : Shown(r, t)
    BY DEF RowSettled
  <2>2. RowPlain(i) <=> /\ r.is = "row" /\ r.canonical /\ r.missing = 0 /\ r.composed
                        /\ OwnerDeclared(r) /\ r.tests.is = "matrix" /\ Unique(i)
    BY DEF RowPlain
  <2>3. QED
    BY <1>3, <1>4, <2>1, <2>2 DEF Kept
<1>5. CASE ~(r.is = "row" /\ r.tests.is = "matrix")
  BY <1>5 DEF RowSettled, RowPlain, Kept
<1>6. QED
  BY <1>4, <1>5

(* In a register that is kept each identity is a new one.                  *)
LEMMA KeptUnique ==
  ASSUME RegisterListed, RegisterKept, NEW i \in DOMAIN Register.rows
  PROVE  Unique(i)
<1>1. /\ Len(Register.rows) \in Nat /\ DOMAIN Register.rows = 1 .. Len(Register.rows)
      /\ \A j \in DOMAIN Register.rows : BoundaryRow(Register.rows[j])
  BY RegisterRows
<1>2. \A j, k \in DOMAIN Register.rows :
        LET r == Register.rows[j]  q == Register.rows[k] IN
        /\ Kept(r)
        /\ Kept(q) /\ j # k => r.id # q.id /\ (r.source # q.source \/ r.usr # q.usr)
  BY Zenon DEF RegisterKept
<1>3. \A j \in DOMAIN Register.rows : Identified(Register.rows[j])
  BY <1>1, <1>2 DEF Kept, OwnerDeclared, BoundaryRow, Identified
<1>4. Register.rows[i].source # NoText /\ Register.rows[i].usr # NoText
  BY <1>3 DEF Identified
<1>5. ASSUME NEW j \in 1 .. i - 1
      PROVE  /\ Identified(Register.rows[j]) /\ Register.rows[j].id # Register.rows[i].id
             /\ \/ Register.rows[j].source # Register.rows[i].source
                \/ Register.rows[j].usr # Register.rows[i].usr
  <2>1. j \in DOMAIN Register.rows /\ j # i
    BY <1>1
  <2>2. QED
    BY <1>2, <1>3, <2>1
<1>6. QED
  BY <1>4, <1>5 DEF Unique

LEMMA OwnersRan ==
  ASSUME RegisterListed, options.execution, Ran.is = "clean", NEW i \in DOMAIN Register.rows
  PROVE  OwnerRan(i) <=> SuitePassed(Register.rows[i])
<1>1. /\ IsList(Ran.records)
      /\ \A r \in ToSet(Ran.records) : r.is = "record" /\ r.repository # NoText
  BY DEF RegisterListed, RegisterTyped, BoundaryAsked, Ran, IsList
<1>2. \A k \in DOMAIN Ran.records :
        Ran.records[k].is = "record" /\ Ran.records[k].repository # NoText
  BY <1>1 DEF ToSet
<1>3. DOMAIN Ran.records = 1 .. Len(Ran.records) /\ Len(Ran.records) \in Nat
  BY <1>1 DEF IsList
<1>4. \A k \in DOMAIN Ran.records : \A j \in 1 .. k : Ran.records[j].is = "record"
  BY <1>2, <1>3
<1>5. QED
  BY <1>2, <1>4 DEF OwnerRan, Passed, SuitePassed

(* The register is kept exactly if each look at each of its rows, and at   *)
(* the receipt where there is one, is satisfied.                           *)
LEMMA RegisterLookedAt ==
  ASSUME RegisterListed
  PROVE  RegisterKept <=>
           /\ \A i \in DOMAIN Register.rows : RowSettled(i)
           /\ options.execution =>
                Ran.is = "clean" /\ \A i \in DOMAIN Register.rows : OwnerRan(i)
<1>1. ASSUME RegisterKept
      PROVE  /\ \A i \in DOMAIN Register.rows : RowSettled(i)
             /\ options.execution =>
                  Ran.is = "clean" /\ \A i \in DOMAIN Register.rows : OwnerRan(i)
  <2>1. \A i \in DOMAIN Register.rows : Kept(Register.rows[i])
    BY <1>1, Zenon DEF RegisterKept
  <2>2. \A i \in DOMAIN Register.rows : RowSettled(i)
    BY <1>1, <2>1, KeptUnique, RowLookedAt
  <2>3. options.execution =>
          Ran.is = "clean" /\ \A r \in ToSet(Register.rows) : SuitePassed(r)
    BY <1>1, Zenon DEF RegisterKept
  <2>4. QED
    BY <2>2, <2>3, OwnersRan DEF ToSet
<1>2. ASSUME \A i \in DOMAIN Register.rows : RowSettled(i),
             options.execution =>
               Ran.is = "clean" /\ \A i \in DOMAIN Register.rows : OwnerRan(i)
      PROVE  RegisterKept
  <2>1. Register.is = "valid"
    BY DEF RegisterListed
  <2>2. \A i \in DOMAIN Register.rows : Kept(Register.rows[i]) /\ Unique(i)
    BY <1>2, RowLookedAt
  <2>3. DOMAIN Register.rows = 1 .. Len(Register.rows) /\ Len(Register.rows) \in Nat
    BY RegisterRows
  <2>4. ASSUME NEW i \in DOMAIN Register.rows, NEW j \in DOMAIN Register.rows, i # j
        PROVE  /\ Register.rows[i].id # Register.rows[j].id
               /\ \/ Register.rows[i].source # Register.rows[j].source
                  \/ Register.rows[i].usr # Register.rows[j].usr
    <3>1. CASE i < j
      BY <2>2, <2>3, <3>1 DEF Unique
    <3>2. CASE j < i
      BY <2>2, <2>3, <3>2 DEF Unique
    <3>3. QED
      BY <2>3, <2>4, <3>1, <3>2
  <2>5. options.execution =>
          Ran.is = "clean" /\ \A r \in ToSet(Register.rows) : SuitePassed(r)
    BY <1>2, OwnersRan DEF ToSet
  <2>6. QED
    BY <2>1, <2>2, <2>4, <2>5, Zenon DEF RegisterKept
<1>3. QED
  BY <1>1, <1>2

LEMMA FaultsFound ==
  ASSUME RegisterListed, NEW i \in DOMAIN Register.rows
  PROVE  IsList(Faults(i)) /\ (Faults(i) = <<>> <=> RowPlain(i))
<1> DEFINE r == Register.rows[i]
<1>1. BoundaryRow(r)
  BY RegisterRows
<1>2. \A f : IsList(<<f>>) /\ <<f>> # <<>>
  <2> SUFFICES ASSUME NEW f PROVE IsList(<<f>>) /\ <<f>> # <<>>
    OBVIOUS
  <2>1. <<f>> \in Seq({f}) /\ <<f>> # <<>>
    OBVIOUS
  <2>2. QED
    BY <2>1, ListOf
<1>3. CASE r.is = "odd"
  <2>1. Faults(i) = <<Finding("not-object", "boundary")>>
    BY <1>3 DEF Faults
  <2>2. QED
    BY <1>2, <1>3, <2>1 DEF RowPlain
<1>4. CASE r.is = "row" /\ ~r.canonical
  <2>1. Faults(i) = <<Finding("no-identity", "boundary")>>
    BY <1>4 DEF Faults
  <2>2. QED
    BY <1>2, <1>4, <2>1 DEF RowPlain
<1>5. CASE r.is = "row" /\ r.canonical
  <2> DEFINE fields == [n \in 1 .. r.missing |-> Finding("field", r.id)]
             owner == If(~OwnerDeclared(r), Finding("owner", r.id))
             reused == If(~Unique(i), Finding("reused", r.id))
             composed == If(~r.composed, Finding("composition", r.id))
             tests == If(r.tests.is # "matrix", Finding("tests", r.id))
  <2>1. Faults(i) = fields \o owner \o reused \o composed \o tests
    BY <1>5 DEF Faults
  <2>2. r.missing \in Nat
    BY <1>1, <1>5 DEF BoundaryRow
  <2>3. IsList(fields) /\ (fields = <<>> <=> r.missing = 0)
    <3>1. fields = [n \in 1 .. r.missing |-> fields[n]]
      BY Zenon
    <3> HIDE DEF fields
    <3>2. QED
      BY <2>2, <3>1, ListFrom
  <2>4. IsList(owner) /\ (owner = <<>> <=> OwnerDeclared(r))
    BY ListIf
  <2>5. IsList(reused) /\ (reused = <<>> <=> Unique(i))
    BY ListIf
  <2>6. IsList(composed) /\ (composed = <<>> <=> r.composed)
    BY ListIf
  <2>7. IsList(tests) /\ (tests = <<>> <=> r.tests.is = "matrix")
    BY ListIf
  <2> HIDE DEF fields, owner, reused, composed, tests
  <2>8. /\ IsList(fields \o owner)
        /\ fields \o owner = <<>> <=> r.missing = 0 /\ OwnerDeclared(r)
    BY <2>3, <2>4, ListJoined
  <2>9. /\ IsList(fields \o owner \o reused)
        /\ fields \o owner \o reused = <<>> <=>
             r.missing = 0 /\ OwnerDeclared(r) /\ Unique(i)
    BY <2>5, <2>8, ListJoined
  <2>10. /\ IsList(fields \o owner \o reused \o composed)
         /\ fields \o owner \o reused \o composed = <<>> <=>
              r.missing = 0 /\ OwnerDeclared(r) /\ Unique(i) /\ r.composed
    BY <2>6, <2>9, ListJoined
  <2>11. /\ IsList(Faults(i))
         /\ Faults(i) = <<>> <=>
              /\ r.missing = 0 /\ OwnerDeclared(r) /\ Unique(i) /\ r.composed
              /\ r.tests.is = "matrix"
    BY <2>1, <2>7, <2>10, ListJoined
  <2>12. QED
    BY <1>5, <2>11 DEF RowPlain
<1>6. QED
  BY <1>1, <1>3, <1>4, <1>5 DEF BoundaryRow

(* A step that adds what it has found keeps what was said so far, if what  *)
(* it found is a fault of the register and where it found nothing there    *)
(* was none.                                                               *)
LEMMA BoundaryFound ==
  ASSUME BoundarySoFar, err \in BOOLEAN, ~err', UNCHANGED <<options, workspace>>,
         NEW fs, IsList(fs), AddAll(fs),
         fs # <<>> => ~RegisterKept,
         RegisterPlace', findings = <<>> /\ fs = <<>> => RegisterSoFar',
         stage' \in {"register", "evidence", "execution"}
  PROVE  BoundarySoFar'
<1>1. IsList(findings') /\ (findings' = <<>> <=> (findings = <<>> /\ fs = <<>>))
  BY FoundAll DEF BoundarySoFar
<1>2. RegisterKept' = RegisterKept
  BY RegisterSame
<1>3. QED
  BY <1>1, <1>2 DEF BoundarySoFar

LEMMA BoundaryReads ==
  ASSUME BoundarySoFar, err \in BOOLEAN, ~err', UNCHANGED <<options, workspace>>,
         BoundaryAsked, RegisterTyped(options, workspace), RegisterRead
  PROVE  BoundarySoFar'
<1>1. findings = <<>> /\ position = 0 /\ position' = 0 /\ IsList(findings)
  BY DEF RegisterRead, BoundarySoFar
<1>2. CASE Register.is = "valid" /\ Loads(workspace.source) /\ stage' = "register"
           /\ UNCHANGED findings
  <2>1. Len(Register.rows) \in Nat
    BY <1>2, RegisterRows DEF RegisterListed
  <2>2. RegisterSoFar' /\ RegisterPlace'
    BY <1>1, <1>2, <2>1, RegisterSame DEF RegisterSoFar, RegisterPlace
  <2>3. QED
    BY <1>1, <1>2, <2>2, RegisterSame DEF BoundarySoFar
<1>3. CASE Register.is = "invalid" /\ Add(Finding("schema", "register"))
           /\ stage' = "write"
  <2>1. IsList(findings') /\ findings' # <<>>
    BY <1>1, <1>3, Found
  <2>2. ~RegisterKept'
    BY <1>3, RegisterSame DEF RegisterKept
  <2>3. QED
    BY <1>3, <2>1, <2>2 DEF BoundarySoFar, RegisterPlace
<1>4. QED
  BY <1>2, <1>3 DEF RegisterRead, GiveUp

LEMMA BoundaryJudges ==
  ASSUME BoundarySoFar, err \in BOOLEAN, ~err', UNCHANGED <<options, workspace>>,
         BoundaryAsked, RegisterTyped(options, workspace), JudgeBoundary
  PROVE  BoundarySoFar'
<1>1. /\ stage = "register" /\ position < Len(Register.rows)
      /\ AddAll(Faults(position + 1)) /\ stage' \in {"register", "evidence"}
  BY DEF JudgeBoundary
<1>2. RegisterListed /\ position \in 0 .. Len(Register.rows)
  BY <1>1 DEF BoundarySoFar, RegisterPlace, RegisterListed
<1>3. /\ position + 1 \in DOMAIN Register.rows /\ position \in Nat
      /\ Len(Register.rows) \in Nat
  BY <1>1, <1>2, RegisterRows
<1>4. /\ IsList(Faults(position + 1))
      /\ Faults(position + 1) = <<>> <=> RowPlain(position + 1)
  BY <1>2, <1>3, FaultsFound
<1>5. Boundary = Register.rows[position + 1]
  BY DEF Boundary
<1>6. /\ stage' = "register" => position' = position + 1
      /\ stage' = "evidence" => /\ position' = position /\ turn' = 1 /\ seen' = Unseen
      /\ RowPlain(position + 1) => stage' = "evidence"
  BY <1>1, <1>5 DEF JudgeBoundary, RowPlain
<1>7. Faults(position + 1) # <<>> => ~RegisterKept
  BY <1>2, <1>3, <1>4, RegisterLookedAt DEF RowSettled
<1>8. RegisterPlace'
  BY <1>1, <1>2, <1>3, <1>6, RegisterSame DEF RegisterPlace, RegisterListed
<1>9. ASSUME findings = <<>>, Faults(position + 1) = <<>>
      PROVE  RegisterSoFar'
  <2>1. RowPlain(position + 1)' /\ stage' = "evidence"
    BY <1>4, <1>6, <1>9, RegisterSame
  <2>2. \A i \in 1 .. position : RowSettled(i)
    BY <1>1, <1>9 DEF BoundarySoFar, RegisterSoFar
  <2>3. turn' = 1 /\ turn' \in 1 .. TestCount + 1 /\ position' = position
    BY <1>6, <2>1, TestCountAssumption
  <2>4. \A r : seen' = Remembered(r, 1)
    <3>1. \A t \in 1 .. TestCount : ~(t < 1)
      BY TestCountAssumption
    <3>2. QED
      BY <1>6, <2>1, <3>1 DEF Remembered, Unseen
  <2>6. QED
    BY <2>1, <2>2, <2>3, <2>4, RegisterSame DEF RegisterSoFar
<1>10. QED
  BY <1>1, <1>4, <1>7, <1>8, <1>9, BoundaryFound

(* The row whose tests are looked at.                                      *)
LEMMA TestsLookedAt ==
  ASSUME BoundarySoFar, findings = <<>>, stage = "evidence", BoundaryAsked,
         RegisterTyped(options, workspace), turn <= TestCount
  PROVE  /\ RegisterListed /\ position + 1 \in DOMAIN Register.rows
         /\ turn \in 1 .. TestCount /\ Boundary = Register.rows[position + 1]
         /\ RegisterKept => Shown(Boundary, turn)
<1>1. RegisterListed /\ position \in 0 .. Len(Register.rows) /\ position < Len(Register.rows)
  BY DEF BoundarySoFar, RegisterPlace, RegisterListed
<1>2. position + 1 \in DOMAIN Register.rows
  BY <1>1, RegisterRows
<1>3. turn \in 1 .. TestCount
  BY TestCountAssumption DEF BoundarySoFar, RegisterSoFar
<1>4. Boundary = Register.rows[position + 1]
  BY DEF Boundary
<1>5. RegisterKept => Shown(Boundary, turn)
  BY <1>1, <1>2, <1>3, <1>4, RegisterLookedAt DEF RowSettled
<1>6. QED
  BY <1>1, <1>2, <1>3, <1>4, <1>5

(* A test that was shown is remembered with the tests before it.           *)
LEMMA TestPassed ==
  ASSUME RegisterSoFar, RegisterPlace, stage = "evidence", turn \in 1 .. TestCount,
         UNCHANGED <<options, workspace, stage, position>>, turn' = turn + 1,
         Shown(Boundary, turn), seen' = Remembered(Boundary, turn + 1)
  PROVE  RegisterSoFar'
<1>1. Boundary' = Boundary /\ \A r, n : Remembered(r, n)' = Remembered(r, n)
  BY RegisterSame DEF Boundary, Remembered
<1>2. turn' \in 1 .. TestCount + 1 /\ turn \in Nat /\ turn' - 1 = turn
  BY TestCountAssumption
<1>3. \A t \in 1 .. turn : Shown(Boundary, t)
  BY <1>2 DEF RegisterSoFar
<1>4. \A t \in 1 .. turn' - 1 : Shown(Boundary, t)'
  BY <1>1, <1>2, <1>3, RegisterSame
<1>5. seen' = Remembered(Boundary, turn)'
  BY <1>1
<1>6. /\ \A i \in 1 .. position' : RowSettled(i)'
      /\ RowPlain(position + 1)'
  BY RegisterSame DEF RegisterSoFar
<1>7. QED
  BY <1>2, <1>4, <1>5, <1>6 DEF RegisterSoFar

LEMMA BoundaryWithout ==
  ASSUME BoundarySoFar, err \in BOOLEAN, ~err', UNCHANGED <<options, workspace>>,
         BoundaryAsked, RegisterTyped(options, workspace), NoEvidence
  PROVE  BoundarySoFar'
<1> DEFINE fine == Evidence.is = "not-applicable" /\ Evidence.proper /\ turn = TestCount
           fs == If(~fine, Finding(Evidence.is, About))
<1>1. /\ stage = "evidence" /\ stage' = "evidence" /\ turn <= TestCount
      /\ Evidence.is \in {"missing", "not-applicable"} /\ AddAll(fs)
      /\ turn' = turn + 1 /\ UNCHANGED <<stage, position, seen>>
  BY DEF NoEvidence, AtTest, Looking
<1>2. IsList(fs) /\ (fs = <<>> <=> fine)
  BY ListIf
<1>3. Evidence = Boundary.tests.of[turn]
  BY DEF Evidence
<1>4. fs # <<>> => ~RegisterKept
  <2>1. CASE findings # <<>>
    BY <2>1 DEF BoundarySoFar
  <2>2. CASE findings = <<>>
    BY <1>1, <1>2, <1>3, <2>2, TestsLookedAt DEF Shown
  <2>3. QED
    BY <2>1, <2>2
<1>5. RegisterPlace'
  BY <1>1, RegisterSame DEF BoundarySoFar, RegisterPlace
<1>6. ASSUME findings = <<>>, fs = <<>>
      PROVE  RegisterSoFar'
  <2>1. Shown(Boundary, turn) /\ Boundary.tests.of[turn].is # "given"
    BY <1>2, <1>3, <1>6 DEF Shown
  <2>2. turn \in 1 .. TestCount
    BY <1>1, <1>6, TestsLookedAt
  <2>3. Remembered(Boundary, turn) = Remembered(Boundary, turn + 1)
    <3>1. \A t \in 1 .. TestCount :
            t < turn /\ Boundary.tests.of[t].is = "given" <=>
            t < turn + 1 /\ Boundary.tests.of[t].is = "given"
      BY <2>1, <2>2, TestCountAssumption
    <3>2. QED
      BY <3>1, Zenon DEF Remembered
  <2>4. seen' = Remembered(Boundary, turn + 1)
    BY <1>1, <1>6, <2>3 DEF BoundarySoFar, RegisterSoFar
  <2>5. RegisterSoFar /\ RegisterPlace
    BY <1>6 DEF BoundarySoFar
  <2>6. QED
    BY <1>1, <2>1, <2>2, <2>4, <2>5, TestPassed
<1> HIDE DEF fs
<1>7. QED
  BY <1>1, <1>2, <1>4, <1>5, <1>6, BoundaryFound

LEMMA BoundaryWith ==
  ASSUME BoundarySoFar, err \in BOOLEAN, ~err', UNCHANGED <<options, workspace>>,
         BoundaryAsked, RegisterTyped(options, workspace), JudgeEvidence
  PROVE  BoundarySoFar'
<1> DEFINE e == Evidence
           fs == If(~Wired(e) \/ Repeated, Finding("evidence", About))
<1>1. /\ stage = "evidence" /\ stage' = "evidence" /\ turn <= TestCount
      /\ e.is = "given" /\ last' = Copied(e) /\ seen' = [seen EXCEPT ![turn] = last']
      /\ turn' = turn + 1 /\ UNCHANGED <<stage, position>>
  BY DEF JudgeEvidence, AtTest, Looking
<1>2. AddAll(fs)
  BY DEF JudgeEvidence, AddAnyway, AddAmid
<1>3. IsList(fs) /\ (fs = <<>> <=> Wired(e) /\ ~Repeated)
  <2>1. IsList(fs) /\ (fs = <<>> <=> ~(~Wired(e) \/ Repeated))
    BY ListIf
  <2>2. QED
    BY <2>1, Zenon
<1>4. e = Boundary.tests.of[turn]
  BY DEF Evidence
<1>5. ASSUME findings = <<>>, Wired(e)
      PROVE  /\ last' = [path |-> e.path, value |-> e.value]
             /\ Repeated <=> \E u \in 1 .. turn - 1 :
                  LET o == Boundary.tests.of[u] IN
                  o.is = "given" /\ o.path = e.path /\ o.value = e.value
  <2>1. e.path # NoText /\ e.value # NoText
    BY <1>5, Zenon DEF Wired, Texts
  <2>2. last' = [path |-> e.path, value |-> e.value]
    BY <1>1, <2>1 DEF Copied
  <2>3. turn \in 1 .. TestCount /\ seen = Remembered(Boundary, turn)
    BY <1>1, <1>5, TestsLookedAt DEF BoundarySoFar, RegisterSoFar
  <2>4. ASSUME NEW u \in 1 .. turn - 1
        PROVE  LET o == Boundary.tests.of[u] IN
               seen[u] = last' <=> o.is = "given" /\ o.path = e.path /\ o.value = e.value
    <3>1. u \in 1 .. TestCount /\ u < turn
      BY <2>3, TestCountAssumption
    <3>2. CASE Boundary.tests.of[u].is = "given"
      <4>1. seen[u] = [path |-> Boundary.tests.of[u].path,
                       value |-> Boundary.tests.of[u].value]
        BY <2>3, <3>1, <3>2 DEF Remembered
      <4>2. QED
        BY <2>2, <3>2, <4>1
    <3>3. CASE Boundary.tests.of[u].is # "given"
      <4>1. seen[u] = [path |-> NoText, value |-> NoText]
        BY <2>3, <3>1, <3>3 DEF Remembered, Nothing
      <4>2. QED
        BY <2>1, <2>2, <3>3, <4>1
    <3>4. QED
      BY <3>2, <3>3
  <2>5. QED
    BY <2>2, <2>4 DEF Repeated
<1>6. findings = <<>> => (Wired(e) /\ ~Repeated <=> Shown(Boundary, turn))
  BY <1>1, <1>4, <1>5 DEF Shown
<1>7. fs # <<>> => ~RegisterKept
  <2>1. CASE findings # <<>>
    BY <2>1 DEF BoundarySoFar
  <2>2. CASE findings = <<>>
    <3>1. fs # <<>> => ~Shown(Boundary, turn)
      BY <1>3, <1>6, <2>2
    <3>2. QED
      BY <1>1, <2>2, <3>1, TestsLookedAt
  <2>3. QED
    BY <2>1, <2>2
<1>8. RegisterPlace'
  BY <1>1, RegisterSame DEF BoundarySoFar, RegisterPlace
<1>9. ASSUME findings = <<>>, fs = <<>>
      PROVE  RegisterSoFar'
  <2>1. Wired(e) /\ Shown(Boundary, turn)
    BY <1>3, <1>6, <1>9
  <2>2. turn \in 1 .. TestCount
    BY <1>1, <1>9, TestsLookedAt
  <2>3. seen = Remembered(Boundary, turn) /\ RegisterSoFar /\ RegisterPlace
    BY <1>1, <1>9 DEF BoundarySoFar, RegisterSoFar
  <2>4. last' = [path |-> Boundary.tests.of[turn].path,
                 value |-> Boundary.tests.of[turn].value]
    BY <1>4, <1>5, <1>9, <2>1
  <2>5. \A t \in 1 .. TestCount : t # turn => (t < turn + 1 <=> t < turn)
    BY <2>2, TestCountAssumption
  <2>6. turn < turn + 1 /\ Boundary.tests.of[turn].is = "given"
    BY <1>1, <1>4, <2>2, TestCountAssumption
  <2>7. \A t \in 1 .. TestCount :
          (IF t = turn THEN last' ELSE Remembered(Boundary, turn)[t])
            = Remembered(Boundary, turn + 1)[t]
    BY <2>4, <2>5, <2>6 DEF Remembered
  <2>8. seen' = [t \in 1 .. TestCount |->
                   IF t = turn THEN last' ELSE Remembered(Boundary, turn)[t]]
    BY <1>1, <2>2, <2>3 DEF Remembered
  <2>9. seen' = Remembered(Boundary, turn + 1)
    BY <2>7, <2>8 DEF Remembered
  <2>10. QED
    BY <1>1, <2>1, <2>2, <2>3, <2>9, TestPassed
<1> HIDE DEF fs
<1>10. QED
  BY <1>1, <1>2, <1>3, <1>7, <1>8, <1>9, BoundaryFound

LEMMA BoundaryTested ==
  ASSUME BoundarySoFar, UNCHANGED <<options, workspace>>,
         BoundaryAsked, RegisterTyped(options, workspace), TestsDone
  PROVE  BoundarySoFar'
<1>1. /\ stage = "evidence" /\ stage' = "register" /\ turn > TestCount
      /\ position' = position + 1 /\ UNCHANGED findings
  BY DEF TestsDone, resultVars
<1>2. RegisterListed /\ position \in 0 .. Len(Register.rows) /\ position < Len(Register.rows)
  BY <1>1 DEF BoundarySoFar, RegisterPlace, RegisterListed
<1>3. Len(Register.rows) \in Nat
  BY <1>2, RegisterRows
<1>4. RegisterPlace'
  BY <1>1, <1>2, <1>3, RegisterSame DEF RegisterPlace, RegisterListed
<1>5. ASSUME findings = <<>> PROVE RegisterSoFar'
  <2>1. /\ RowPlain(position + 1) /\ turn \in 1 .. TestCount + 1
        /\ \A t \in 1 .. turn - 1 : Shown(Boundary, t)
        /\ \A i \in 1 .. position : RowSettled(i)
    BY <1>1, <1>5 DEF BoundarySoFar, RegisterSoFar
  <2>2. turn - 1 = TestCount
    BY <1>1, <2>1, TestCountAssumption
  <2>3. RowSettled(position + 1)
    BY <2>1, <2>2 DEF RowSettled, Boundary
  <2>4. \A i \in 1 .. position + 1 : RowSettled(i)
    BY <1>2, <2>1, <2>3
  <2>5. \A i \in 1 .. position' : RowSettled(i)'
    BY <1>1, <2>4, RegisterSame
  <2>6. QED
    BY <1>1, <2>5 DEF RegisterSoFar
<1>6. QED
  BY <1>1, <1>4, <1>5, RegisterSame DEF BoundarySoFar

LEMMA BoundaryReceipt ==
  ASSUME BoundarySoFar, err \in BOOLEAN, ~err, ~err', UNCHANGED <<options, workspace>>,
         BoundaryAsked, RegisterTyped(options, workspace), ReceiptRead
  PROVE  BoundarySoFar'
<1>1. /\ stage = "register" /\ position = Len(Register.rows) /\ position' = 0
  BY DEF ReceiptRead
<1>2. RegisterListed
  BY <1>1 DEF BoundarySoFar, RegisterPlace, RegisterListed
<1>3. Len(Register.rows) \in Nat /\ DOMAIN Register.rows = 1 .. Len(Register.rows)
  BY <1>2, RegisterRows
<1>4. findings = <<>> => \A i \in DOMAIN Register.rows : RowSettled(i)
  BY <1>1, <1>3 DEF BoundarySoFar, RegisterSoFar
<1>5. CASE ~options.execution /\ PolicyEnds
  <2>1. stage' = "write" /\ UNCHANGED findings
    BY <1>5 DEF PolicyEnds
  <2>2. findings = <<>> => RegisterKept
    BY <1>2, <1>4, <1>5, RegisterLookedAt
  <2>3. QED
    BY <2>1, <2>2, RegisterSame DEF BoundarySoFar, RegisterSoFar, RegisterPlace
<1>6. CASE options.execution /\ Ran.is = "clean" /\ stage' = "execution"
           /\ UNCHANGED findings
  <2>1. RegisterPlace'
    BY <1>1, <1>2, <1>3, <1>6, RegisterSame DEF RegisterPlace, RegisterListed
  <2>2. ASSUME findings = <<>> PROVE RegisterSoFar'
    <3>1. \A i \in 1 .. Len(Register'.rows) : RowSettled(i)'
      BY <1>3, <1>4, <2>2, RegisterSame
    <3>2. \A i \in 1 .. position' : OwnerRan(i)'
      BY <1>1
    <3>3. options'.execution /\ Ran'.is = "clean"
      BY <1>6, RegisterSame
    <3>4. QED
      BY <1>6, <3>1, <3>2, <3>3 DEF RegisterSoFar
  <2>3. QED
    BY <1>6, <2>1, <2>2, RegisterSame DEF BoundarySoFar
<1>7. CASE options.execution /\ Ran.is = "unclean" /\ Add(Finding("receipt", "execution"))
           /\ stage' = "write"
  <2>1. IsList(findings') /\ findings' # <<>>
    BY <1>7, Found DEF BoundarySoFar
  <2>2. ~RegisterKept'
    BY <1>2, <1>7, RegisterLookedAt, RegisterSame
  <2>3. QED
    BY <1>7, <2>1, <2>2 DEF BoundarySoFar, RegisterPlace
<1>8. QED
  BY <1>5, <1>6, <1>7 DEF ReceiptRead, GiveUp

LEMMA BoundaryOwners ==
  ASSUME BoundarySoFar, err \in BOOLEAN, ~err', UNCHANGED <<options, workspace>>,
         BoundaryAsked, RegisterTyped(options, workspace), JudgeOwner
  PROVE  BoundarySoFar'
<1> DEFINE r == Boundary
           fine == r.is = "row" /\ r.repository # NoText /\ Passed(r.repository)
           fs == If(~fine, Finding("not-run", position))
<1>1. /\ stage = "execution" /\ stage' = "execution" /\ position < Len(Register.rows)
      /\ AddAll(fs) /\ position' = position + 1
  BY DEF JudgeOwner
<1>2. RegisterListed /\ position \in 0 .. Len(Register.rows)
  BY <1>1 DEF BoundarySoFar, RegisterPlace, RegisterListed
<1>3. /\ Len(Register.rows) \in Nat /\ DOMAIN Register.rows = 1 .. Len(Register.rows)
      /\ position + 1 \in DOMAIN Register.rows
  BY <1>1, <1>2, RegisterRows
<1>4. IsList(fs) /\ (fs = <<>> <=> fine)
  BY ListIf
<1>5. Boundary = Register.rows[position + 1]
  BY DEF Boundary
<1>6. RegisterPlace'
  BY <1>1, <1>2, <1>3, RegisterSame DEF RegisterPlace, RegisterListed
<1>7. fs # <<>> => ~RegisterKept
  <2>1. CASE findings # <<>>
    BY <2>1 DEF BoundarySoFar
  <2>2. CASE findings = <<>>
    <3>1. options.execution
      BY <1>1, <2>2 DEF BoundarySoFar, RegisterSoFar
    <3>2. RegisterKept => OwnerRan(position + 1) /\ RowSettled(position + 1)
      BY <1>2, <1>3, <3>1, RegisterLookedAt
    <3>3. OwnerRan(position + 1) /\ RowSettled(position + 1) => fine
      BY <1>5 DEF OwnerRan, RowSettled, RowPlain
    <3>4. QED
      BY <1>4, <3>2, <3>3
  <2>3. QED
    BY <2>1, <2>2
<1>8. ASSUME findings = <<>>, fs = <<>> PROVE RegisterSoFar'
  <2>1. /\ options.execution /\ Ran.is = "clean"
        /\ \A i \in 1 .. Len(Register.rows) : RowSettled(i)
        /\ \A i \in 1 .. position : OwnerRan(i)
    BY <1>1, <1>8 DEF BoundarySoFar, RegisterSoFar
  <2>2. OwnerRan(position + 1)
    BY <1>4, <1>5, <1>8 DEF OwnerRan
  <2>3. \A i \in 1 .. position + 1 : OwnerRan(i)
    BY <1>2, <2>1, <2>2
  <2>4. \A i \in 1 .. position' : OwnerRan(i)'
    BY <1>1, <2>3, RegisterSame
  <2>5. \A i \in 1 .. Len(Register'.rows) : RowSettled(i)'
    BY <2>1, RegisterSame
  <2>6. QED
    BY <1>1, <2>1, <2>4, <2>5, RegisterSame DEF RegisterSoFar
<1> HIDE DEF fs
<1>9. QED
  BY <1>1, <1>4, <1>6, <1>7, <1>8, BoundaryFound

LEMMA BoundaryEnds ==
  ASSUME BoundarySoFar, ~err, UNCHANGED <<options, workspace>>,
         BoundaryAsked, RegisterTyped(options, workspace), OwnersEnd
  PROVE  BoundarySoFar'
<1>1. /\ stage = "execution" /\ stage' = "write" /\ UNCHANGED findings
      /\ position = Len(Register.rows)
  BY DEF OwnersEnd, PolicyEnds
<1>2. RegisterListed
  BY <1>1 DEF BoundarySoFar, RegisterPlace, RegisterListed
<1>3. findings = <<>> => RegisterKept
  BY <1>1, <1>2, RegisterRows, RegisterLookedAt DEF BoundarySoFar, RegisterSoFar
<1>4. QED
  BY <1>1, <1>3, RegisterSame DEF BoundarySoFar, RegisterSoFar, RegisterPlace

LEMMA BoundaryBegins == Init => BoundaryInv
<1> SUFFICES ASSUME Init, BoundaryAsked PROVE BoundaryInv
  BY DEF BoundaryInv
<1>1. PICK run \in InputRuns : options = run.options /\ workspace = run.workspace
  BY DEF Init
<1>2. RegisterTyped(options, workspace)
  BY <1>1, InputAssumption DEF BoundaryAsked
<1>3. stage = "arguments" /\ findings = <<>> /\ position = 0
  BY DEF Init
<1>4. IsList(findings)
  BY <1>3 DEF ToSet, IsList
<1>5. QED
  BY <1>2, <1>3, <1>4
  DEF BoundaryInv, BoundarySoFar, RegisterSoFar, RegisterPlace, CommonStages

LEMMA BoundaryPolicyStep ==
  ASSUME RunInv, BoundaryInv, BoundaryAsked, AnyPolicy
  PROVE  BoundaryInv'
<1>1. stage \in PolicyStages /\ status = Trouble /\ status' = Trouble
  BY PolicyShown, StageNames DEF RunInv, RanInv
<1>2. stage \in BoundaryStages /\ stage \notin {"end", "ended"}
  BY <1>1, StageNames DEF BoundaryInv, CommonStages
<1>3. Boundaries /\ Within(BoundaryStages)
  BY <1>2, PolicyOfStage DEF RunInv
<1>4. /\ stage' \in CommonStages \cup BoundaryStages
      /\ UNCHANGED <<options, workspace>>
      /\ ErrStays
  BY <1>3 DEF Within, CommonStages
<1>5. RegisterTyped(options, workspace) /\ err \in BOOLEAN
  BY DEF BoundaryInv, RunInv, ErrInv
<1>6. ASSUME stage' \notin {"end", "ended"}, ~err' PROVE BoundarySoFar'
  <2>1. ~err
    BY <1>4, <1>5, <1>6 DEF ErrStays
  <2>2. BoundarySoFar
    BY <1>2, <2>1 DEF BoundaryInv
  <2>3. ~OverlongIdentity
    BY <1>6 DEF OverlongIdentity
  <2>4. QED
    BY <1>3, <1>4, <1>5, <1>6, <2>1, <2>2, <2>3, BoundaryReads, BoundaryJudges,
       BoundaryWithout, BoundaryWith, BoundaryTested, BoundaryReceipt, BoundaryOwners,
       BoundaryEnds DEF Boundaries
<1>7. QED
  BY <1>1, <1>4, <1>5, <1>6, RegisterSame DEF BoundaryInv

LEMMA BoundaryMainStep ==
  ASSUME RunInv, BoundaryInv, BoundaryAsked, MainStep
  PROVE  BoundaryInv'
<1>1. /\ UNCHANGED <<options, workspace, findings, position, turn, seen>>
      /\ Acceptable(options) /\ options.policy = "boundaries"
  BY DEF MainStep, tableVars, earlierVars, boundaryVars, BoundaryAsked
<1>2. stage' \in CommonStages \cup BoundaryStages
  BY <1>1 DEF MainStep, BoundaryInv, CommonStages, BoundaryStages
<1>3. RegisterKept \in BOOLEAN /\ err \in BOOLEAN
  BY DEF RegisterKept, RunInv, ErrInv
<1>4. stage \in {"write", "written"} /\ ~err => ((findings = <<>>) <=> RegisterKept)
  BY DEF BoundaryInv, BoundarySoFar, RegisterSoFar
<1>5. stage' \in {"end", "ended"} /\ (stage' = "end" => ~err') /\ status' # Trouble =>
        ((status' = Success) <=> RegisterKept)
  BY <1>1, <1>3, <1>4, VerdictKept DEF BoundaryInv
<1>6. ASSUME stage' \notin {"end", "ended"}, ~err' PROVE BoundarySoFar'
  <2>1. stage \notin {"end", "ended"} /\ ~err
    <3>1. stage \notin {"end", "ended"}
      BY <1>6 DEF MainStep
    <3>2. err' = err \/ err' = TRUE
      BY <1>6, <3>1 DEF MainStep
    <3>3. QED
      BY <1>3, <1>6, <3>1, <3>2
  <2>2. BoundarySoFar
    BY <2>1 DEF BoundaryInv
  <2>3. \/ stage' = stage
        \/ stage = "arguments" /\ stage' = "resolve"
        \/ stage = "resolve" /\ stage' = "boundaries"
        \/ stage = "write" /\ stage' = "written"
    BY <1>1, <1>6 DEF MainStep
  <2>4. /\ UNCHANGED <<Register, RegisterKept, Boundary>>
        /\ \A r, n : Remembered(r, n)' = Remembered(r, n)
    BY <1>1, RegisterSame DEF Boundary, Remembered
  <2>5. RegisterPlace'
    BY <1>1, <2>2, <2>3, RegisterSame DEF BoundarySoFar, RegisterPlace
  <2>6. findings = <<>> => RegisterSoFar'
    BY <1>1, <2>2, <2>3, <2>4, RegisterSame DEF BoundarySoFar, RegisterSoFar
  <2>7. QED
    BY <1>1, <2>2, <2>3, <2>4, <2>5, <2>6 DEF BoundarySoFar
<1>7. QED
  BY <1>1, <1>2, <1>5, <1>6, RegisterSame DEF BoundaryInv

LEMMA BoundaryNext ==
  ASSUME RunInv, BoundaryInv, [Next]_vars
  PROVE  BoundaryInv'
<1>1. UNCHANGED <<options, workspace>>
  BY MainSteps, PolicyShown DEF MainStep
<1>2. CASE BoundaryAsked
  BY <1>2, MainSteps, BoundaryPolicyStep, BoundaryMainStep
<1>3. CASE ~BoundaryAsked
  BY <1>1, <1>3, RegisterSame DEF BoundaryInv
<1>4. QED
  BY <1>2, <1>3

(* boundaries says 0 exactly if the register is kept: each owner is        *)
(* declared once, each of its tests has wired evidence of its own, and     *)
(* each suite has passed where a receipt is given.                         *)
THEOREM RegisterEarned == Spec => []RegisterIsEarned
<1>1. Init => RunInv /\ BoundaryInv
  BY RunStart, BoundaryBegins
<1>2. RunInv /\ BoundaryInv /\ [Next]_vars => (RunInv /\ BoundaryInv)'
  BY RunStep, BoundaryNext
<1>3. BoundaryInv => RegisterIsEarned
  BY DEF BoundaryInv, RegisterIsEarned, Judged, BoundaryAsked
<1>4. QED
  BY <1>1, <1>2, <1>3, PTL DEF Spec

-----------------------------------------------------------------------------
(***************************************************************************)
(* What wrapper-unit-tests says is earned.                                 *)
(***************************************************************************)

(* A set of positions that is not empty has a first one: of the initial    *)
(* segments up to its members one is the smallest.                         *)
LEMMA LeastMember ==
  ASSUME NEW positions \in SUBSET Nat, positions # {}
  PROVE  \E i \in positions : \A j \in positions : i <= j
<1> DEFINE Segments == {0 .. i : i \in positions}
<1>1. Segments \subseteq FiniteSubsetsOf(Nat) /\ Segments # {}
  <2>1. \A i \in Nat : IsFiniteSet(0 .. i) /\ 0 .. i \in SUBSET Nat
    BY FS_Interval
  <2>2. QED
    BY <2>1, Zenon DEF FiniteSubsetsOf
<1>2. PICK T \in Segments :
        \A U \in Segments : ~ (<<U, T>> \in StrictSubsetOrdering(Nat))
  BY <1>1, FS_StrictSubsetOrderingWellFounded, WFMin
<1>3. PICK i \in positions : T = 0 .. i
  OBVIOUS
<1>4. \A j \in positions : i <= j
  <2> SUFFICES ASSUME NEW j \in positions, j < i PROVE FALSE
    OBVIOUS
  <2>1. 0 .. j \subseteq T /\ i \in T /\ i \notin 0 .. j
    BY <1>3
  <2>2. 0 .. j \in Segments /\ 0 .. j \subseteq Nat /\ T \subseteq Nat
    BY <1>3
  <2>3. QED
    BY <1>2, <2>1, <2>2 DEF StrictSubsetOrdering
<1>5. QED
  BY <1>4

(* The first numbers up to a number are as many as it says.                *)
LEMMA CountUpTo ==
  ASSUME NEW L \in Nat
  PROVE  IsFiniteSet(1 .. L) /\ Cardinality(1 .. L) = L
<1>1. 1 \in Int /\ L \in Int
  OBVIOUS
<1>2. IsFiniteSet(1 .. L)
  BY <1>1, FS_Interval
<1>3. Cardinality(1 .. L) = IF 1 > L THEN 0 ELSE L - 1 + 1
  BY <1>1, FS_Interval
<1>4. QED
  BY <1>2, <1>3

(* All rows of a list are good exactly if each is an API and there is room *)
(* for it.                                                                 *)
LEMMA AllGood ==
  ASSUME NEW list, IsList(list), NEW room \in Nat
  PROVE  GoodRows(list, room) = Len(list) <=>
           /\ \A r \in ToSet(list) : r.is = "api"
           /\ Len(list) <= room
<1> DEFINE bad == {i \in DOMAIN list : list[i].is # "api" \/ i > room}
<1>1. DOMAIN list = 1 .. Len(list) /\ Len(list) \in Nat
  BY DEF IsList
<1>2. CASE bad = {}
  <2>1. GoodRows(list, room) = Len(list)
    BY <1>2 DEF GoodRows
  <2>2. \A r \in ToSet(list) : r.is = "api"
    BY <1>2 DEF ToSet
  <2>3. Len(list) <= room
    BY <1>1, <1>2
  <2>4. QED
    BY <2>1, <2>2, <2>3
<1>3. CASE bad # {}
  <2>1. bad \in SUBSET Nat
    BY <1>1
  <2>2. PICK i \in bad : \A j \in bad : i <= j
    BY <1>3, <2>1, LeastMember
  <2>3. Min(bad) \in bad
    BY <2>2 DEF Min
  <2>4. GoodRows(list, room) = Min(bad) - 1
    BY <1>3 DEF GoodRows
  <2>5. GoodRows(list, room) # Len(list)
    BY <1>1, <2>3, <2>4
  <2>6. \/ \E r \in ToSet(list) : r.is # "api"
        \/ ~(Len(list) <= room)
    BY <1>1, <2>3 DEF ToSet
  <2>7. QED
    BY <2>5, <2>6
<1>4. QED
  BY <1>2, <1>3

-----------------------------------------------------------------------------
(* The rows of several lists in one table: <<k, i>> is the i-th row of the *)
(* k-th list, and the table has each of a set of rows in one place.        *)
Enumerates(at, L, S) ==
  /\ at \in [1 .. L -> S]
  /\ \A p \in S : \E a \in 1 .. L : at[a] = p
  /\ \A a, b \in 1 .. L : at[a] = at[b] => a = b
Beyond(at, L, n, M) == [a \in 1 .. L + M |-> IF a <= L THEN at[a] ELSE <<n, a - L>>]

(* One list more, behind those that are there.                             *)
LEMMA GoneBeyond ==
  ASSUME NEW L \in Nat, NEW M \in Nat, NEW S, NEW n, NEW at, Enumerates(at, L, S),
         \A i : <<n, i>> \notin S
  PROVE  Enumerates(Beyond(at, L, n, M), L + M, S \cup {<<n, i>> : i \in 1 .. M})
<1> DEFINE to == Beyond(at, L, n, M)
           T == S \cup {<<n, i>> : i \in 1 .. M}
<1>1. /\ \A a \in 1 .. L + M : a <= L => a \in 1 .. L /\ to[a] = at[a]
      /\ \A a \in 1 .. L + M : ~(a <= L) => a - L \in 1 .. M /\ to[a] = <<n, a - L>>
      /\ \A a \in 1 .. L : a \in 1 .. L + M /\ a <= L
  <2>1. \A a \in 1 .. L + M : to[a] = IF a <= L THEN at[a] ELSE <<n, a - L>>
    BY DEF Beyond
  <2>2. \A a \in 1 .. L + M : (a <= L => a \in 1 .. L) /\ (~(a <= L) => a - L \in 1 .. M)
    OBVIOUS
  <2>3. \A a \in 1 .. L : a \in 1 .. L + M /\ a <= L
    OBVIOUS
  <2> HIDE DEF to
  <2>4. QED
    BY <2>1, <2>2, <2>3
<1>2. /\ \A a \in 1 .. L : at[a] \in S
      /\ \A p \in S : \E a \in 1 .. L : at[a] = p
      /\ \A a, b \in 1 .. L : at[a] = at[b] => a = b
  BY DEF Enumerates
<1>3. /\ \A p \in S : p \in T /\ \A i : p # <<n, i>>
      /\ \A i \in 1 .. M : <<n, i>> \in T
  OBVIOUS
<1>4. \A p \in T : p \in S \/ \E i \in 1 .. M : p = <<n, i>>
  OBVIOUS
<1>5. to = [a \in 1 .. L + M |-> to[a]]
  BY Zenon DEF to, Beyond
<1> HIDE DEF to, T
<1>6. \A a \in 1 .. L + M : to[a] \in T
  <2> SUFFICES ASSUME NEW a \in 1 .. L + M PROVE to[a] \in T
    OBVIOUS
  <2>1. CASE a <= L
    BY <1>1, <1>2, <1>3, <2>1
  <2>2. CASE ~(a <= L)
    <3>1. a - L \in 1 .. M /\ to[a] = <<n, a - L>>
      BY <1>1, <2>2
    <3>2. QED
      BY <1>3, <3>1
  <2>3. QED
    BY <2>1, <2>2
<1>7. to \in [1 .. L + M -> T]
  BY <1>5, <1>6, Zenon
<1>8. ASSUME NEW p \in T PROVE \E a \in 1 .. L + M : to[a] = p
  <2>1. CASE p \in S
    <3>1. PICK a \in 1 .. L : at[a] = p
      BY <1>2, <2>1
    <3>2. QED
      BY <1>1, <3>1
  <2>2. CASE \E i \in 1 .. M : p = <<n, i>>
    <3>1. PICK i \in 1 .. M : p = <<n, i>>
      BY <2>2
    <3>2. L + i \in 1 .. L + M /\ ~(L + i <= L) /\ (L + i) - L = i
      OBVIOUS
    <3>3. to[L + i] = <<n, i>>
      BY <1>1, <3>2
    <3>4. QED
      BY <3>1, <3>2, <3>3
  <2>3. QED
    BY <1>4, <2>1, <2>2
<1>9. ASSUME NEW a \in 1 .. L + M, NEW b \in 1 .. L + M, to[a] = to[b] PROVE a = b
  <2>1. CASE a <= L /\ b <= L
    BY <1>1, <1>2, <1>9, <2>1
  <2>2. CASE ~(a <= L) /\ ~(b <= L)
    <3>1. <<n, a - L>> = <<n, b - L>>
      BY <1>1, <1>9, <2>2
    <3>2. a - L = b - L
      BY <3>1
    <3>3. QED
      BY <3>2
  <2>3. CASE a <= L /\ ~(b <= L)
    <3>1. at[a] = <<n, b - L>> /\ at[a] \in S
      BY <1>1, <1>2, <1>9, <2>3
    <3>2. QED
      BY <1>3, <3>1
  <2>4. CASE ~(a <= L) /\ b <= L
    <3>1. at[b] = <<n, a - L>> /\ at[b] \in S
      BY <1>1, <1>2, <1>9, <2>4
    <3>2. QED
      BY <1>3, <3>1
  <2>5. QED
    BY <2>1, <2>2, <2>3, <2>4
<1>10. QED
  BY <1>7, <1>8, <1>9 DEF Enumerates, to, T

(* What a table holds is no more than there is.                            *)
LEMMA RoomFor ==
  ASSUME NEW L \in Nat, NEW S, IsFiniteSet(S), NEW at \in [1 .. L -> S],
         \A a, b \in 1 .. L : at[a] = at[b] => a = b
  PROVE  L <= Cardinality(S) /\ Cardinality(S) \in Nat
<1>1. IsFiniteSet(1 .. L) /\ Cardinality(1 .. L) = L
  BY CountUpTo
<1>2. at \in Injection(1 .. L, S)
  BY Zenon DEF Injection, IsInjective
<1>3. Cardinality(1 .. L) <= Cardinality(S)
  BY <1>2, FS_Injection
<1>4. QED
  BY <1>1, <1>3, FS_CardinalityType

(* Finitely many lists have finitely many rows.                            *)
LEMMA RowsFinite ==
  ASSUME NEW N \in Nat, NEW K \in SUBSET (1 .. N), NEW len \in [K -> Nat]
  PROVE  IsFiniteSet(UNION {{<<k, i>> : i \in 1 .. len[k]} : k \in K})
<1> DEFINE Part == [k \in K |-> {<<k, i>> : i \in 1 .. len[k]}]
           Parts == {Part[k] : k \in K}
<1>1. IsFiniteSet(K)
  BY CountUpTo, FS_Subset
<1>2. IsFiniteSet(Parts)
  <2>1. Part \in [K -> Parts] /\ \A s \in Parts : \E k \in K : Part[k] = s
    OBVIOUS
  <2>2. Part \in Surjection(K, Parts)
    BY <2>1, Zenon DEF Surjection
  <2>3. QED
    BY <1>1, <2>2, FS_Surjection
<1>3. ASSUME NEW k \in K PROVE IsFiniteSet(Part[k])
  <2> DEFINE at == [i \in 1 .. len[k] |-> <<k, i>>]
  <2>1. Part[k] = {<<k, i>> : i \in 1 .. len[k]}
    OBVIOUS
  <2>2. at \in Surjection(1 .. len[k], Part[k])
    <3>1. at \in [1 .. len[k] -> Part[k]]
      BY <2>1
    <3>2. \A s \in Part[k] : \E i \in 1 .. len[k] : at[i] = s
      BY <2>1
    <3>3. QED
      BY <3>1, <3>2, Zenon DEF Surjection
  <2>3. IsFiniteSet(1 .. len[k])
    BY CountUpTo
  <2>4. QED
    BY <2>2, <2>3, FS_Surjection
<1>4. \A s \in Parts : IsFiniteSet(s)
  BY <1>3
<1>5. IsFiniteSet(UNION Parts)
  BY <1>2, <1>4, FS_UNION
<1>6. Parts = {{<<k, i>> : i \in 1 .. len[k]} : k \in K}
  OBVIOUS
<1>7. QED
  BY <1>5, <1>6

-----------------------------------------------------------------------------
(* What the k-th library is, and the n-th row of its test manifest.        *)
Wraps(k) == k \in DOMAIN Libraries /\ ~Libraries[k].infrastructure
ApisOf(k) == Read(Libraries[k].apis)
TestsOf(k) ==
  IF Libraries[k].tests.is = "rows" THEN Read(Libraries[k].tests) ELSE <<>>
ApisFine(k) ==
  Libraries[k].apis.is = "rows" /\ \A r \in ToSet(ApisOf(k)) : r.is = "api"

(* The APIs of the libraries before the n-th, and where the table has them.*)
Loaded(n) == {p \in PublicApis : p[1] < n}
IsApi(a, p) ==
  apis[a].library = Libraries[p[1]].name /\ apis[a].usr = ApisOf(p[1])[p[2]].usr
Housed(at, n) ==
  /\ at \in [1 .. Len(apis) -> Loaded(n)]
  /\ \A p \in Loaded(n) : \E a \in 1 .. Len(apis) : at[a] = p
  /\ \A a, b \in 1 .. Len(apis) : at[a] = at[b] => a = b
  /\ \A a \in 1 .. Len(apis) : IsApi(a, at[a])
ApisLoaded(n) ==
  /\ IsList(apis) /\ Len(apis) <= ApiCapacity
  /\ \A a \in 1 .. Len(apis) :
       apis[a] = [library |-> apis[a].library, usr |-> apis[a].usr, test |-> apis[a].test]
  /\ \A k : Wraps(k) /\ k < n => ApisFine(k)
  /\ \E at : Housed(at, n)

(* The j-th row of the k-th library is read when m rows of the n-th are.   *)
IsRead(k, j, n, m) ==
  Wraps(k) /\ j \in DOMAIN TestsOf(k) /\ (k < n \/ (k = n /\ j <= m))
FirstOf(a) ==
  \A b \in 1 .. a - 1 : ~(apis[b].library = apis[a].library /\ apis[b].usr = apis[a].usr)
TestedBy(a, k, j) ==
  /\ apis[a].library = Libraries[k].name
  /\ apis[a].usr = TestsOf(k)[j].usr /\ apis[a].test = TestsOf(k)[j].test
TestFine(k, j) ==
  LET t == TestsOf(k)[j] IN
  /\ t.is = "test" /\ t.kind \in TestKinds /\ t.exists
  /\ \A i \in 1 .. j - 1 : TestsOf(k)[i].usr # t.usr
TestsTaken(n, m) ==
  /\ \A k : Wraps(k) /\ k < n => Libraries[k].tests.is = "rows"
  /\ \A k, j : IsRead(k, j, n, m) =>
       TestFine(k, j) /\ \E a \in 1 .. Len(apis) : FirstOf(a) /\ TestedBy(a, k, j)
  /\ \A a \in 1 .. Len(apis) : apis[a].test # Untested =>
       FirstOf(a) /\ \E k, j : IsRead(k, j, n, m) /\ TestedBy(a, k, j)

LibrariesPlain == workspace.roles = "valid" /\ LibrariesTyped(workspace)

(* What is read of a list of rows is a list of some of them.               *)
LEMMA DeliveredList ==
  ASSUME NEW list, IsList(list), NEW unread \in Nat
  PROVE  /\ IsList(Delivered(list, unread))
         /\ ToSet(Delivered(list, unread)) \subseteq ToSet(list)
<1> DEFINE read == Delivered(list, unread)
           n == Len(list) - unread
<1>1. list \in Seq(ToSet(list)) /\ Len(list) \in Nat /\ DOMAIN list = 1 .. Len(list)
  BY DEF IsList
<1>2. n \in Int /\ n <= Len(list)
  BY <1>1
<1>3. read = SubSeq(list, 1, n)
  BY DEF Delivered
<1>4. read \in Seq(ToSet(list))
  BY <1>1, <1>2, <1>3
<1>5. PICK k \in 0 .. Len(list) :
        DOMAIN read = 1 .. k /\ \A i \in 1 .. k : read[i] = list[i]
  <2>1. PICK S : list \in Seq(S)
    BY <1>1
  <2>2. n <= 0 => read = <<>>
    BY <1>2, <1>3, <2>1
  <2>3. n \in 1 .. Len(list) => DOMAIN read = 1 .. n /\ \A i \in 1 .. n : read[i] = list[i]
    BY <1>2, <1>3, <2>1
  <2>4. DOMAIN <<>> = {} /\ 1 .. 0 = {}
    OBVIOUS
  <2> HIDE DEF read, n
  <2>5. CASE n <= 0
    <3>1. DOMAIN read = 1 .. 0 /\ \A i \in 1 .. 0 : read[i] = list[i]
      BY <2>2, <2>4, <2>5
    <3>2. 0 \in 0 .. Len(list)
      BY <1>1
    <3>3. QED
      BY <3>1, <3>2
  <2>6. CASE n \in 1 .. Len(list)
    BY <1>1, <2>3, <2>6
  <2>7. QED
    BY <1>1, <1>2, <2>5, <2>6
<1>6. Len(read) = k /\ k \in Nat
  BY <1>1, <1>4, <1>5
<1> HIDE DEF read
<1>7. read = [i \in 1 .. k |-> read[i]]
  <2>1. PICK S : S = ToSet(list)
    OBVIOUS
  <2>2. read \in Seq(S) /\ Len(read) = k
    BY <1>4, <1>6, <2>1
  <2>3. QED
    BY <2>2
<1>8. \A i \in 1 .. k : read[i] \in ToSet(read) /\ read[i] \in ToSet(list)
  BY <1>1, <1>5 DEF ToSet
<1>9. read \in Seq(ToSet(read))
  BY <1>6, <1>7, <1>8
<1>10. ToSet(read) \subseteq ToSet(list)
  <2>1. \A s \in ToSet(read) : \E i \in 1 .. k : s = read[i]
    BY <1>5, Zenon DEF ToSet
  <2>2. QED
    BY <1>8, <2>1
<1>11. QED
  BY <1>9, <1>10 DEF IsList, read

LEMMA ReadList ==
  ASSUME NEW m, IsList(m.rows), m.unread \in Nat
  PROVE  IsList(Read(m)) /\ ToSet(Read(m)) \subseteq ToSet(m.rows)
BY DeliveredList DEF Read

LEMMA LibraryLists ==
  ASSUME LibrariesPlain
  PROVE  /\ DOMAIN Libraries = 1 .. Len(Libraries) /\ Len(Libraries) \in Nat
         /\ \A k : Wraps(k) => k \in Nat \ {0} /\ k <= Len(Libraries)
         /\ \A k : Wraps(k) => Libraries[k] \in Wrapping
         /\ \A l \in Wrapping : \E k : Wraps(k) /\ l = Libraries[k]
         /\ \A k : Wraps(k) /\ Libraries[k].apis.is = "rows" => IsList(ApisOf(k))
         /\ \A k : Wraps(k) => IsList(TestsOf(k))
         /\ \A k : Wraps(k) => \A t \in ToSet(TestsOf(k)) :
              /\ t.is \in {"test", "ragged", "overlong"}
              /\ t.is = "test" => t.test # Untested
<1>1. /\ IsList(Libraries)
      /\ \A l \in ToSet(Libraries) : ~l.infrastructure =>
           /\ l.apis.is = "rows" => IsList(l.apis.rows) /\ l.apis.unread \in Nat
           /\ l.tests.is = "rows" =>
                /\ IsList(l.tests.rows) /\ l.tests.unread \in Nat
                /\ \A t \in ToSet(l.tests.rows) :
                     /\ t.is \in {"test", "ragged", "overlong"}
                     /\ t.is = "test" => t.test # Untested
  BY DEF LibrariesPlain, LibrariesTyped, Libraries
<1>2. DOMAIN Libraries = 1 .. Len(Libraries) /\ Len(Libraries) \in Nat
  BY <1>1 DEF IsList
<1>3. \A k : Wraps(k) => k \in 1 .. Len(Libraries) /\ Libraries[k] \in ToSet(Libraries)
                         /\ ~Libraries[k].infrastructure
  BY <1>2 DEF Wraps, ToSet
<1>4. \A k : Wraps(k) => Libraries[k] \in Wrapping
  BY <1>3 DEF Wrapping
<1>5. \A l \in Wrapping : \E k : Wraps(k) /\ l = Libraries[k]
  BY Zenon DEF Wrapping, ToSet, Wraps
<1>6. \A k : Wraps(k) /\ Libraries[k].apis.is = "rows" => IsList(ApisOf(k))
  BY <1>1, <1>3, ReadList DEF ApisOf
<1>7. ASSUME NEW k, Wraps(k)
      PROVE  /\ IsList(TestsOf(k))
             /\ \A t \in ToSet(TestsOf(k)) :
                  /\ t.is \in {"test", "ragged", "overlong"}
                  /\ t.is = "test" => t.test # Untested
  <2>1. CASE Libraries[k].tests.is = "rows"
    BY <1>1, <1>3, <1>7, <2>1, ReadList DEF TestsOf
  <2>2. CASE Libraries[k].tests.is # "rows"
    <3>1. TestsOf(k) = <<>> /\ <<>> \in Seq({})
      BY <2>2 DEF TestsOf
    <3>2. ToSet(<<>>) = {}
      BY DEF ToSet
    <3>3. IsList(<<>>)
      BY <3>2 DEF IsList
    <3>4. QED
      BY <3>1, <3>2, <3>3
  <2>3. QED
    BY <2>1, <2>2
<1>8. QED
  BY <1>2, <1>3, <1>4, <1>5, <1>6, <1>7

LEMMA PublicApi ==
  ASSUME NEW p
  PROVE  p \in PublicApis <=> \E k, i : Wraps(k) /\ i \in DOMAIN ApisOf(k) /\ p = <<k, i>>
<1>1. ASSUME NEW k, NEW i, Wraps(k), i \in DOMAIN ApisOf(k), p = <<k, i>>
      PROVE  p \in PublicApis
  <2>1. k \in {n \in DOMAIN Libraries : ~Libraries[n].infrastructure}
    BY <1>1 DEF Wraps
  <2>2. p \in {<<k, h>> : h \in DOMAIN Read(Libraries[k].apis)}
    BY <1>1 DEF ApisOf
  <2>3. QED
    BY <2>1, <2>2 DEF PublicApis
<1>2. ASSUME p \in PublicApis
      PROVE  \E k, i : Wraps(k) /\ i \in DOMAIN ApisOf(k) /\ p = <<k, i>>
  BY <1>2 DEF PublicApis, Wraps, ApisOf
<1>3. QED
  BY <1>1, <1>2

LEMMA LoadedApi ==
  ASSUME NEW p, NEW n
  PROVE  p \in Loaded(n) <=>
           \E k, i : Wraps(k) /\ k < n /\ i \in DOMAIN ApisOf(k) /\ p = <<k, i>>
BY PublicApi DEF Loaded

(* Finitely many APIs, when each library's manifest is a list.             *)
LEMMA PublicFinite ==
  ASSUME LibrariesPlain, \A k : Wraps(k) => Libraries[k].apis.is = "rows"
  PROVE  IsFiniteSet(PublicApis)
<1> DEFINE K == {n \in DOMAIN Libraries : ~Libraries[n].infrastructure}
           len == [k \in K |-> Len(ApisOf(k))]
           Rows == UNION {{<<k, i>> : i \in 1 .. len[k]} : k \in K}
<1>1. K \in SUBSET (1 .. Len(Libraries)) /\ Len(Libraries) \in Nat
  BY LibraryLists
<1>2. \A k \in K : /\ Wraps(k) /\ Len(ApisOf(k)) \in Nat
                   /\ DOMAIN ApisOf(k) = 1 .. Len(ApisOf(k))
  BY LibraryLists DEF Wraps, IsList
<1>3. len \in [K -> Nat]
  BY <1>2
<1>4. IsFiniteSet(Rows)
  BY <1>1, <1>3, RowsFinite
<1>5. ASSUME NEW p \in PublicApis PROVE p \in Rows
  <2>1. PICK k, i : Wraps(k) /\ i \in DOMAIN ApisOf(k) /\ p = <<k, i>>
    BY PublicApi
  <2>2. k \in K /\ i \in 1 .. len[k]
    BY <1>2, <2>1 DEF Wraps
  <2>3. QED
    BY <2>1, <2>2
<1>6. QED
  BY <1>4, <1>5, FS_Subset

TestsFor(k, i) == {j \in DOMAIN TestsOf(k) : TestsOf(k)[j].usr = ApisOf(k)[i].usr}

(* What it means that all is tested, library by library.                   *)
LEMMA TestedLibrary ==
  ASSUME LibrariesPlain, AllTested, NEW k, Wraps(k)
  PROVE  /\ ApisFine(k) /\ Libraries[k].tests.is = "rows"
         /\ \A r \in ToSet(TestsOf(k)) :
              /\ r.is = "test" /\ r.kind \in TestKinds /\ r.exists
              /\ \E a \in ToSet(ApisOf(k)) : a.usr = r.usr
         /\ \A i \in DOMAIN ApisOf(k) :
              /\ Cardinality(TestsFor(k, i)) = 1
              /\ \A j \in DOMAIN TestsOf(k) :
                   TestsOf(k)[j].usr = ApisOf(k)[i].usr =>
                     \E c \in Calls : c.usr = ApisOf(k)[i].usr /\ c.path = TestsOf(k)[j].test
              /\ \A h \in DOMAIN ApisOf(k) :
                   ApisOf(k)[h].usr = ApisOf(k)[i].usr => h = i
<1> DEFINE lib == Libraries[k]
<1>1. lib \in Wrapping
  BY LibraryLists
<1>2. Tested(lib)
  BY <1>1 DEF AllTested
<1>3. /\ lib.apis.is = "rows" /\ \A r \in ToSet(Read(lib.apis)) : r.is = "api"
      /\ lib.tests.is = "rows" /\ \A r \in ToSet(Read(lib.tests)) : r.is = "test"
      /\ \A t \in ToSet(Read(lib.tests)) :
           /\ t.kind \in TestKinds /\ t.exists
           /\ \E a \in ToSet(Read(lib.apis)) : a.usr = t.usr
  BY <1>2 DEF Tested
<1>4. \A i \in DOMAIN Read(lib.apis) :
        /\ Cardinality({j \in DOMAIN Read(lib.tests) :
             Read(lib.tests)[j].usr = Read(lib.apis)[i].usr}) = 1
        /\ \A j \in {j \in DOMAIN Read(lib.tests) :
             Read(lib.tests)[j].usr = Read(lib.apis)[i].usr} : \E c \in Calls :
             c.usr = Read(lib.apis)[i].usr /\ c.path = Read(lib.tests)[j].test
        /\ \A h \in DOMAIN Read(lib.apis) :
             Read(lib.apis)[h].usr = Read(lib.apis)[i].usr => h = i
  BY <1>2, Zenon DEF Tested
<1>5. TestsOf(k) = Read(lib.tests) /\ ApisOf(k) = Read(lib.apis)
  BY <1>3 DEF TestsOf, ApisOf
<1>6. ApisFine(k) /\ Libraries[k].tests.is = "rows"
  BY <1>3 DEF ApisFine, ApisOf
<1>7. ASSUME NEW r \in ToSet(TestsOf(k))
      PROVE  /\ r.is = "test" /\ r.kind \in TestKinds /\ r.exists
             /\ \E a \in ToSet(ApisOf(k)) : a.usr = r.usr
  BY <1>3, <1>5
<1>8. ASSUME NEW i \in DOMAIN ApisOf(k)
      PROVE  /\ Cardinality(TestsFor(k, i)) = 1
             /\ \A j \in DOMAIN TestsOf(k) :
                  TestsOf(k)[j].usr = ApisOf(k)[i].usr =>
                    \E c \in Calls : c.usr = ApisOf(k)[i].usr /\ c.path = TestsOf(k)[j].test
             /\ \A h \in DOMAIN ApisOf(k) :
                  ApisOf(k)[h].usr = ApisOf(k)[i].usr => h = i
  <2>1. i \in DOMAIN Read(lib.apis)
    BY <1>5
  <2>2. PICK J : /\ J = {j \in DOMAIN Read(lib.tests) :
                           Read(lib.tests)[j].usr = Read(lib.apis)[i].usr}
                 /\ Cardinality(J) = 1
                 /\ \A j \in J : \E c \in Calls :
                      c.usr = Read(lib.apis)[i].usr /\ c.path = Read(lib.tests)[j].test
                 /\ \A h \in DOMAIN Read(lib.apis) :
                      Read(lib.apis)[h].usr = Read(lib.apis)[i].usr => h = i
    BY <1>4, <2>1, Zenon
  <2>3. J = TestsFor(k, i)
    BY <1>5, <2>2 DEF TestsFor
  <2>4. QED
    BY <1>5, <2>2, <2>3
<1> HIDE DEF lib
<1>9. QED
  BY <1>6, <1>7, <1>8, Zenon

LEMMA TestedRow ==
  ASSUME LibrariesPlain, AllTested, NEW k, Wraps(k), NEW j \in DOMAIN TestsOf(k)
  PROVE  /\ TestsOf(k)[j].is = "test" /\ TestsOf(k)[j].kind \in TestKinds
         /\ TestsOf(k)[j].exists
         /\ \E i \in DOMAIN ApisOf(k) : ApisOf(k)[i].usr = TestsOf(k)[j].usr
<1>1. TestsOf(k)[j] \in ToSet(TestsOf(k))
  BY DEF ToSet
<1>2. PICK a \in ToSet(ApisOf(k)) : a.usr = TestsOf(k)[j].usr
  BY <1>1, TestedLibrary
<1>3. PICK i \in DOMAIN ApisOf(k) : a = ApisOf(k)[i]
  BY <1>2, Zenon DEF ToSet
<1>4. QED
  BY <1>1, <1>2, <1>3, TestedLibrary

LEMMA TestedApi ==
  ASSUME LibrariesPlain, AllTested, NEW k, Wraps(k), NEW i \in DOMAIN ApisOf(k)
  PROVE  /\ \E j \in DOMAIN TestsOf(k) : TestsOf(k)[j].usr = ApisOf(k)[i].usr
         /\ \A j, h \in DOMAIN TestsOf(k) :
              /\ TestsOf(k)[j].usr = ApisOf(k)[i].usr
              /\ TestsOf(k)[h].usr = ApisOf(k)[i].usr
              => h = j
         /\ \A j \in DOMAIN TestsOf(k) :
              TestsOf(k)[j].usr = ApisOf(k)[i].usr =>
                \E c \in Calls : c.usr = ApisOf(k)[i].usr /\ c.path = TestsOf(k)[j].test
         /\ \A h \in DOMAIN ApisOf(k) : ApisOf(k)[h].usr = ApisOf(k)[i].usr => h = i
<1> DEFINE J == TestsFor(k, i)
<1>1. Cardinality(J) = 1
  BY TestedLibrary
<1>2. IsFiniteSet(J)
  <2>1. IsList(TestsOf(k))
    BY LibraryLists
  <2>2. DOMAIN TestsOf(k) = 1 .. Len(TestsOf(k)) /\ Len(TestsOf(k)) \in Nat
    BY <2>1 DEF IsList
  <2>3. J \in SUBSET DOMAIN TestsOf(k)
    BY DEF TestsFor
  <2>4. IsFiniteSet(DOMAIN TestsOf(k))
    BY <2>2, FS_Interval
  <2>5. QED
    BY <2>3, <2>4, FS_Subset
<1>3. PICK j : J = {j}
  BY <1>1, <1>2, FS_Singleton
<1>4. \A h \in DOMAIN TestsOf(k) : TestsOf(k)[h].usr = ApisOf(k)[i].usr <=> h = j
  BY <1>3 DEF TestsFor
<1>5. j \in DOMAIN TestsOf(k) /\ TestsOf(k)[j].usr = ApisOf(k)[i].usr
  BY <1>3 DEF TestsFor
<1>6. /\ \A h \in DOMAIN TestsOf(k) :
           TestsOf(k)[h].usr = ApisOf(k)[i].usr =>
             \E c \in Calls : c.usr = ApisOf(k)[i].usr /\ c.path = TestsOf(k)[h].test
      /\ \A h \in DOMAIN ApisOf(k) : ApisOf(k)[h].usr = ApisOf(k)[i].usr => h = i
  BY TestedLibrary, Zenon
<1>7. QED
  BY <1>4, <1>5, <1>6

(* Names of wrapping libraries are apart, so a name tells the library.     *)
LEMMA LibraryOfName ==
  ASSUME NamedOnce, NEW j, NEW k, Wraps(j), Wraps(k), Libraries[j].name = Libraries[k].name
  PROVE  j = k
BY DEF NamedOnce, Wraps

LEMMA LibrariesSame ==
  ASSUME UNCHANGED workspace
  PROVE  /\ AllTested' = AllTested /\ LibrariesPlain' = LibrariesPlain
         /\ NothingLong' = NothingLong /\ NamedOnce' = NamedOnce
         /\ Libraries' = Libraries /\ Calls' = Calls
         /\ \A k : /\ Wraps(k)' = Wraps(k) /\ ApisOf(k)' = ApisOf(k)
                   /\ TestsOf(k)' = TestsOf(k) /\ ApisFine(k)' = ApisFine(k)
                   /\ Loaded(k)' = Loaded(k)
         /\ \A k, j : TestFine(k, j)' = TestFine(k, j)
         /\ \A k, j, n, m : IsRead(k, j, n, m)' = IsRead(k, j, n, m)
<1>1. Libraries' = Libraries /\ Calls' = Calls
  BY DEF Libraries, Calls
<1>2. PublicApis' = PublicApis /\ Wrapping' = Wrapping
  BY <1>1 DEF PublicApis, Wrapping
<1>3. \A l : Tested(l)' = Tested(l)
  BY <1>1 DEF Tested
<1>4. AllTested' = AllTested
  BY <1>2, <1>3 DEF AllTested
<1>5. LibrariesPlain' = LibrariesPlain
  BY DEF LibrariesPlain
<1>6. NothingLong' = NothingLong /\ NamedOnce' = NamedOnce
  BY <1>1, <1>2 DEF NothingLong, NamedOnce
<1>7. \A k : /\ Wraps(k)' = Wraps(k) /\ ApisOf(k)' = ApisOf(k)
             /\ TestsOf(k)' = TestsOf(k) /\ ApisFine(k)' = ApisFine(k)
  BY <1>1 DEF Wraps, ApisOf, TestsOf, ApisFine
<1>8. \A k : Loaded(k)' = Loaded(k)
  BY <1>2 DEF Loaded
<1>9. \A k, j : TestFine(k, j)' = TestFine(k, j)
  BY <1>7 DEF TestFine
<1>10. \A k, j, n, m : IsRead(k, j, n, m)' = IsRead(k, j, n, m)
  BY <1>7 DEF IsRead
<1>11. QED
  BY <1>1, <1>4, <1>5, <1>6, <1>7, <1>8, <1>9, <1>10

LEMMA ApisSame ==
  ASSUME UNCHANGED <<workspace, apis>>
  PROVE  /\ \A n : ApisLoaded(n)' = ApisLoaded(n)
         /\ \A n, m : TestsTaken(n, m)' = TestsTaken(n, m)
         /\ \A api : HasCall(api)' = HasCall(api)
<1>1. \A a, p : IsApi(a, p)' = IsApi(a, p)
  BY LibrariesSame DEF IsApi
<1>2. \A at, n : Housed(at, n)' = Housed(at, n)
  BY <1>1, LibrariesSame DEF Housed
<1>3. \A n : ApisLoaded(n)' = ApisLoaded(n)
  BY <1>2, LibrariesSame DEF ApisLoaded
<1>4. \A a : FirstOf(a)' = FirstOf(a)
  BY DEF FirstOf
<1>5. \A a, k, j : TestedBy(a, k, j)' = TestedBy(a, k, j)
  BY LibrariesSame DEF TestedBy
<1>6. \A n, m : TestsTaken(n, m)' = TestsTaken(n, m)
  BY <1>4, <1>5, LibrariesSame DEF TestsTaken
<1>7. \A api : HasCall(api)' = HasCall(api)
  BY LibrariesSame DEF HasCall
<1>8. QED
  BY <1>3, <1>6, <1>7

(* The places of the APIs when the n-th library has been read as well.     *)
Further(at, n) == Beyond(at, Len(apis), n, Len(ApisOf(n)))

LEMMA FurtherPlaces ==
  ASSUME LibrariesPlain, NEW n, Wraps(n), IsList(ApisOf(n)), IsList(apis),
         NEW at, Housed(at, n)
  PROVE  Enumerates(Further(at, n), Len(apis) + Len(ApisOf(n)), Loaded(n + 1))
<1>1. PICK L, M : L = Len(apis) /\ M = Len(ApisOf(n))
  OBVIOUS
<1>2. L \in Nat /\ M \in Nat /\ n \in Nat /\ DOMAIN ApisOf(n) = 1 .. M
  BY <1>1, LibraryLists DEF IsList
<1>3. Enumerates(at, L, Loaded(n))
  BY <1>1 DEF Housed, Enumerates
<1>4. \A i : <<n, i>> \notin Loaded(n)
  <2> SUFFICES ASSUME NEW i, <<n, i>> \in Loaded(n) PROVE FALSE
    OBVIOUS
  <2>1. PICK k, j : k < n /\ <<n, i>> = <<k, j>>
    BY LoadedApi
  <2>2. QED
    BY <1>2, <2>1
<1>5. Loaded(n + 1) = Loaded(n) \cup {<<n, i>> : i \in 1 .. M}
  <2>1. ASSUME NEW p \in Loaded(n + 1)
        PROVE  p \in Loaded(n) \cup {<<n, i>> : i \in 1 .. M}
    <3>1. PICK k, i : Wraps(k) /\ k < n + 1 /\ i \in DOMAIN ApisOf(k) /\ p = <<k, i>>
      BY LoadedApi
    <3>2. k < n \/ k = n
      BY <1>2, <3>1, LibraryLists
    <3>3. CASE k < n
      BY <3>1, <3>3, LoadedApi
    <3>4. CASE k = n
      BY <1>2, <3>1, <3>4
    <3>5. QED
      BY <3>2, <3>3, <3>4
  <2>2. ASSUME NEW p \in Loaded(n) PROVE p \in Loaded(n + 1)
    <3>1. PICK k, i : Wraps(k) /\ k < n /\ i \in DOMAIN ApisOf(k) /\ p = <<k, i>>
      BY LoadedApi
    <3>2. k < n + 1
      BY <1>2, <3>1, LibraryLists
    <3>3. QED
      BY <3>1, <3>2, LoadedApi
  <2>3. ASSUME NEW i \in 1 .. M PROVE <<n, i>> \in Loaded(n + 1)
    <3>1. n < n + 1
      BY <1>2
    <3>2. QED
      BY <1>2, <3>1, LoadedApi
  <2>4. QED
    BY <2>1, <2>2, <2>3
<1>6. QED
  BY <1>1, <1>2, <1>3, <1>4, <1>5, GoneBeyond DEF Further

(* A manifest of APIs that is not complete is one of the faults.           *)
LEMMA IncompleteFault ==
  ASSUME LibrariesPlain, Wraps(library), ApisLoaded(library), ~Complete(Here.apis)
  PROVE  ~AllTested
<1> SUFFICES ASSUME AllTested PROVE FALSE
  OBVIOUS
<1> DEFINE n == library
           list == ApisOf(n)
<1>1. \A k : Wraps(k) => ApisFine(k)
  BY TestedLibrary
<1>2. ApisFine(n) /\ IsList(list)
  <2>1. ApisFine(n)
    BY <1>1
  <2>2. QED
    BY <2>1, LibraryLists DEF ApisFine
<1>3. IsList(apis) /\ Len(apis) \in Nat /\ Len(apis) <= ApiCapacity /\ ApiCapacity \in Nat
  BY ApiCapacityAssumption DEF ApisLoaded, IsList
<1>4. ApiCapacity - Len(apis) \in Nat
  BY <1>3
<1>5. ~(GoodRows(list, ApiCapacity - Len(apis)) = Len(list))
  BY <1>2 DEF Complete, Fit, Here, ApisFine, ApisOf
<1>6. ~(Len(list) <= ApiCapacity - Len(apis)) /\ Len(list) \in Nat
  <2>1. Len(list) \in Nat
    BY <1>2 DEF IsList
  <2>2. \A r \in ToSet(list) : r.is = "api"
    BY <1>2 DEF ApisFine
  <2>3. QED
    BY <1>2, <1>4, <1>5, <2>1, <2>2, AllGood
<1>7. PICK at : Housed(at, n)
  BY DEF ApisLoaded
<1> DEFINE to == Further(at, n)
           T == Len(apis) + Len(list)
<1>8. /\ to \in [1 .. T -> Loaded(n + 1)]
      /\ \A a, b \in 1 .. T : to[a] = to[b] => a = b
  <2>1. Enumerates(to, T, Loaded(n + 1))
    BY <1>2, <1>3, <1>7, FurtherPlaces
  <2> HIDE DEF to, T
  <2>2. QED
    BY <2>1 DEF Enumerates
<1> HIDE DEF to, list, T
<1>9. IsFiniteSet(PublicApis) /\ Cardinality(PublicApis) <= ApiCapacity
  BY <1>1, PublicFinite DEF ApisFine, AllTested
<1>10. IsFiniteSet(Loaded(n + 1)) /\ Cardinality(Loaded(n + 1)) <= Cardinality(PublicApis)
  <2>1. Loaded(n + 1) \in SUBSET PublicApis
    BY DEF Loaded
  <2>2. QED
    BY <1>9, <2>1, FS_Subset
<1>11. T \in Nat /\ T > ApiCapacity
  BY <1>3, <1>6 DEF T
<1>12. T <= Cardinality(Loaded(n + 1)) /\ Cardinality(Loaded(n + 1)) \in Nat
  BY <1>8, <1>10, <1>11, RoomFor
<1>13. Cardinality(PublicApis) \in Nat
  BY <1>9, FS_CardinalityType
<1>14. QED
  BY <1>3, <1>9, <1>10, <1>11, <1>12, <1>13

LEMMA ListMade ==
  ASSUME NEW k \in Nat, NEW S, NEW s \in [1 .. k -> S]
  PROVE  s \in Seq(S) /\ Len(s) = k
OBVIOUS

LEMMA ListsJoined ==
  ASSUME NEW S, NEW s \in Seq(S), NEW t \in Seq(S), NEW both, both = s \o t
  PROVE  /\ both \in Seq(S) /\ Len(both) = Len(s) + Len(t)
         /\ \A a \in 1 .. Len(s) : both[a] = s[a]
         /\ \A i \in 1 .. Len(t) : both[Len(s) + i] = t[i]
<1>1. both \in Seq(S) /\ Len(both) = Len(s) + Len(t)
  OBVIOUS
<1>2. \A a \in 1 .. Len(s) : both[a] = s[a]
  OBVIOUS
<1>3. ASSUME NEW i \in 1 .. Len(t) PROVE both[Len(s) + i] = t[i]
  OBVIOUS
<1>4. QED
  BY <1>1, <1>2, <1>3

(* A library whose manifest is complete is entered as a whole.             *)
EnteredAt(a) ==
  \E i \in 1 .. Len(ApisOf(library)) :
    /\ i = a - Len(apis) /\ ~(a <= Len(apis))
    /\ apis'[a] = [library |-> Here.name, usr |-> ApisOf(library)[i].usr,
                   test |-> Untested]
LEMMA Entering ==
  ASSUME LibrariesPlain, Wraps(library), ApisLoaded(library), Complete(Here.apis),
         apis' = apis \o Entered(Here.apis)
  PROVE  /\ ApisFine(library) /\ IsList(ApisOf(library))
         /\ Len(apis) \in Nat /\ Len(ApisOf(library)) \in Nat
         /\ IsList(apis') /\ Len(apis') = Len(apis) + Len(ApisOf(library))
         /\ Len(apis') <= ApiCapacity
         /\ \A a \in 1 .. Len(apis) : a \in 1 .. Len(apis') /\ a <= Len(apis)
                                     /\ apis'[a] = apis[a]
         /\ \A a \in 1 .. Len(apis') : \/ a \in 1 .. Len(apis)
                                       \/ EnteredAt(a)
<1> DEFINE list == ApisOf(library)
           more == Entered(Here.apis)
<1>1. Here.apis.is = "rows" /\ Fit(list) = Len(list) /\ IsList(list)
  BY LibraryLists DEF Complete, Here, ApisOf
<1>2. IsList(apis) /\ Len(apis) \in Nat /\ Len(apis) <= ApiCapacity /\ ApiCapacity \in Nat
  BY ApiCapacityAssumption DEF ApisLoaded, IsList
<1>3. ApiCapacity - Len(apis) \in Nat
  BY <1>2
<1>4. Len(list) \in Nat
  BY <1>1 DEF IsList
<1>5. (\A r \in ToSet(list) : r.is = "api") /\ Len(list) <= ApiCapacity - Len(apis)
  BY <1>1, <1>3, AllGood DEF Fit
<1>6. ApisFine(library)
  BY <1>1, <1>5 DEF ApisFine, Here
<1>7. more = [i \in 1 .. Len(list) |->
                [library |-> Here.name, usr |-> list[i].usr, test |-> Untested]]
  BY <1>1 DEF Entered, Here, ApisOf
<1> DEFINE E(i) == [library |-> Here.name, usr |-> list[i].usr, test |-> Untested]
<1>8. PICK S : S = ToSet(apis) \cup {E(i) : i \in 1 .. Len(list)}
  OBVIOUS
<1>9. apis \in Seq(S) /\ more \in Seq(S) /\ Len(more) = Len(list)
  <2>1. apis \in Seq(S)
    BY <1>2, <1>8 DEF IsList
  <2>2. more \in [1 .. Len(list) -> S]
    <3>1. \A i \in 1 .. Len(list) : E(i) \in S
      BY <1>8
    <3>2. QED
      BY <1>7, <3>1
  <2> HIDE DEF list, more, E
  <2>3. more \in Seq(S) /\ Len(more) = Len(list)
    BY <1>4, <2>2, ListMade
  <2>4. QED
    BY <2>1, <2>3
<1> HIDE DEF list, more, E
<1>10. /\ apis' \in Seq(S) /\ Len(apis') = Len(apis) + Len(list)
       /\ \A a \in 1 .. Len(apis) : apis'[a] = apis[a]
       /\ \A i \in 1 .. Len(list) : apis'[Len(apis) + i] = more[i]
  <2>1. apis' = apis \o more
    BY DEF more
  <2>2. apis' \in Seq(S) /\ Len(apis') = Len(apis) + Len(more)
    <3>1. apis \in Seq(S) /\ more \in Seq(S)
      BY <1>9
    <3>2. apis' \in Seq(S)
      BY <2>1, <3>1, ListsJoined
    <3>3. Len(apis') = Len(apis) + Len(more)
      BY <2>1, <3>1, ListsJoined
    <3>4. QED
      BY <3>2, <3>3
  <2>3. \A a \in 1 .. Len(apis) : apis'[a] = apis[a]
    BY <1>9, <2>1, ListsJoined
  <2>4. ASSUME NEW i \in 1 .. Len(more) PROVE apis'[Len(apis) + i] = more[i]
    BY <1>9, <2>1, ListsJoined
  <2>5. QED
    BY <1>9, <2>2, <2>3, <2>4
<1>11. Len(apis') <= ApiCapacity
  BY <1>2, <1>4, <1>5, <1>10
<1>12. IsList(apis')
  BY <1>10, ListOf
<1>13. \A i \in 1 .. Len(list) :
         more[i] = [library |-> Here.name, usr |-> list[i].usr, test |-> Untested]
  BY <1>7
<1>14. ASSUME NEW a \in 1 .. Len(apis'), a \notin 1 .. Len(apis)
       PROVE  EnteredAt(a)
  <2>1. PICK i \in 1 .. Len(list) : i = a - Len(apis) /\ Len(apis) + i = a
    <3>1. /\ a - Len(apis) \in 1 .. Len(list)
          /\ Len(apis) + (a - Len(apis)) = a
      BY <1>2, <1>4, <1>10, <1>14
    <3>2. QED
      BY <3>1
  <2>2. ~(a <= Len(apis))
    BY <1>2, <1>4, <1>10, <1>14
  <2>3. apis'[a] = more[i]
    BY <1>10, <2>1
  <2>4. more[i] = [library |-> Here.name, usr |-> list[i].usr, test |-> Untested]
    BY <1>13
  <2>5. QED
    BY <2>1, <2>2, <2>3, <2>4 DEF EnteredAt, list
<1>15. \A a \in 1 .. Len(apis) : a \in 1 .. Len(apis') /\ a <= Len(apis)
  BY <1>2, <1>4, <1>10
<1>16. QED
  BY <1>1, <1>2, <1>4, <1>6, <1>10, <1>11, <1>12, <1>14, <1>15 DEF list

(* With the library entered, the table has the APIs of one library more.   *)
LEMMA EnteredApis ==
  ASSUME LibrariesPlain, Wraps(library), ApisLoaded(library), Complete(Here.apis),
         apis' = apis \o Entered(Here.apis), UNCHANGED <<workspace, library>>
  PROVE  ApisLoaded(library + 1)'
<1>1. PICK n : n = library
  OBVIOUS
<1>2. PICK list, L : list = ApisOf(n) /\ L = Len(apis)
  OBVIOUS
<1>3. /\ ApisFine(n) /\ IsList(list) /\ IsList(apis)
      /\ L \in Nat /\ Len(list) \in Nat /\ n \in Nat /\ Wraps(n)
      /\ IsList(apis') /\ Len(apis') = L + Len(list) /\ Len(apis') <= ApiCapacity
      /\ \A a \in 1 .. L : a <= L /\ apis'[a] = apis[a]
      /\ \A a \in 1 .. L + Len(list) : a \in 1 .. L \/ EnteredAt(a)
  BY <1>1, <1>2, Entering, LibraryLists DEF ApisLoaded
<1>4. PICK at : Housed(at, n)
  BY <1>1 DEF ApisLoaded
<1>5. PICK to : to = Further(at, n)
  OBVIOUS
<1>6. /\ to \in [1 .. L + Len(list) -> Loaded(n + 1)]
      /\ \A p \in Loaded(n + 1) : \E a \in 1 .. L + Len(list) : to[a] = p
      /\ \A a, b \in 1 .. L + Len(list) : to[a] = to[b] => a = b
  <2>1. IsList(ApisOf(n))
    BY <1>2, <1>3
  <2>2. Enumerates(Further(at, n), Len(apis) + Len(ApisOf(n)), Loaded(n + 1))
    BY <1>3, <1>4, <2>1, FurtherPlaces
  <2>3. Enumerates(to, L + Len(list), Loaded(n + 1))
    BY <1>2, <1>5, <2>2
  <2>4. QED
    BY <2>3 DEF Enumerates
<1>7. \A a \in 1 .. L + Len(list) :
        to[a] = IF a <= L THEN at[a] ELSE <<n, a - L>>
  BY <1>2, <1>5 DEF Further, Beyond
<1>9. \A a, p :
        /\ IsApi(a, p)' <=> /\ apis'[a].library = Libraries[p[1]].name
                            /\ apis'[a].usr = ApisOf(p[1])[p[2]].usr
        /\ IsApi(a, p) <=> /\ apis[a].library = Libraries[p[1]].name
                           /\ apis[a].usr = ApisOf(p[1])[p[2]].usr
  BY LibrariesSame DEF IsApi
<1>10. ASSUME NEW a \in 1 .. L + Len(list)
       PROVE  /\ IsApi(a, to[a])'
              /\ apis'[a] = [library |-> apis'[a].library, usr |-> apis'[a].usr,
                             test |-> apis'[a].test]
  <2>1. CASE a \in 1 .. L
    <3>1. to[a] = at[a] /\ apis'[a] = apis[a] /\ IsApi(a, at[a])
      BY <1>2, <1>3, <1>4, <1>7, <2>1 DEF Housed
    <3>2. apis[a] = [library |-> apis[a].library, usr |-> apis[a].usr, test |-> apis[a].test]
      BY <1>2, <2>1 DEF ApisLoaded
    <3>3. QED
      <4>1. /\ apis'[a].library = Libraries[to[a][1]].name
            /\ apis'[a].usr = ApisOf(to[a][1])[to[a][2]].usr
        BY <1>9, <3>1
      <4>2. IsApi(a, to[a])'
        BY <1>9, <4>1
      <4>3. QED
        BY <3>1, <3>2, <4>2
  <2>2. CASE EnteredAt(a)
    <3>1. PICK i \in 1 .. Len(list) :
            /\ i = a - L /\ ~(a <= L)
            /\ apis'[a] = [library |-> Here.name, usr |-> list[i].usr, test |-> Untested]
      BY <1>1, <1>2, <2>2 DEF EnteredAt
    <3>2. to[a] = <<n, i>>
      BY <1>7, <3>1
    <3>3. to[a][1] = n /\ to[a][2] = i
      BY <3>2
    <3>4. apis'[a].library = Libraries[n].name /\ apis'[a].usr = ApisOf(n)[i].usr
      BY <1>1, <1>2, <3>1 DEF Here
    <3>5. IsApi(a, to[a])'
      BY <1>9, <3>3, <3>4
    <3>6. QED
      BY <3>1, <3>5
  <2>3. QED
    BY <1>3, <2>1, <2>2
<1>11. Housed(to, n + 1)'
  <2>1. Loaded(n + 1)' = Loaded(n + 1)
    BY LibrariesSame
  <2>2. \A a \in 1 .. L + Len(list) : IsApi(a, to[a])'
    BY <1>10
  <2>3. QED
    BY <1>3, <1>6, <2>1, <2>2 DEF Housed
<1>12. \A k : Wraps(k) /\ k < n + 1 => ApisFine(k)
  <2>1. \A k : Wraps(k) /\ k < n + 1 => k < n \/ k = n
    BY <1>3, LibraryLists
  <2>2. QED
    BY <1>1, <1>3, <2>1 DEF ApisLoaded
<1>13. ApisLoaded(n + 1)'
  BY <1>3, <1>10, <1>11, <1>12, LibrariesSame DEF ApisLoaded
<1>14. QED
  BY <1>1, <1>13

(* What was tested stays so.                                               *)
LEMMA EnteredTests ==
  ASSUME LibrariesPlain, Wraps(library), ApisLoaded(library), Complete(Here.apis),
         apis' = apis \o Entered(Here.apis), UNCHANGED workspace,
         NEW n, NEW m, TestsTaken(n, m)
  PROVE  TestsTaken(n, m)'
<1>1. PICK list, L : list = ApisOf(library) /\ L = Len(apis)
  OBVIOUS
<1>2. /\ L \in Nat /\ Len(list) \in Nat
      /\ Len(apis') = L + Len(list)
      /\ \A a \in 1 .. L : a \in 1 .. L + Len(list) /\ apis'[a] = apis[a]
      /\ \A a \in 1 .. L + Len(list) : a \in 1 .. L \/ EnteredAt(a)
  BY <1>1, Entering
<1>3. \A a \in 1 .. L : FirstOf(a) => FirstOf(a)'
  <2> SUFFICES ASSUME NEW a \in 1 .. L, FirstOf(a), NEW b \in 1 .. a - 1
               PROVE  ~(apis'[b].library = apis'[a].library /\ apis'[b].usr = apis'[a].usr)
    BY DEF FirstOf
  <2>1. b \in 1 .. L
    BY <1>2
  <2>2. QED
    BY <1>2, <2>1 DEF FirstOf
<1>4. \A a \in 1 .. L : \A k, j : TestedBy(a, k, j) => TestedBy(a, k, j)'
  BY <1>2, LibrariesSame DEF TestedBy
<1>5. \A a \in 1 .. L + Len(list) : a \in 1 .. L \/ apis'[a].test = Untested
  <2>1. \A a : EnteredAt(a) => apis'[a].test = Untested
    <3> SUFFICES ASSUME NEW a, EnteredAt(a) PROVE apis'[a].test = Untested
      OBVIOUS
    <3>1. PICK i : apis'[a] = [library |-> Here.name, usr |-> ApisOf(library)[i].usr,
                              test |-> Untested]
      BY Zenon DEF EnteredAt
    <3>2. QED
      BY <3>1
  <2>2. QED
    BY <1>2, <2>1
<1>6. \A a \in 1 .. L : a \in 1 .. L + Len(list)
  BY <1>2
<1>7. \A k, j : IsRead(k, j, n, m) =>
        TestFine(k, j) /\ \E a \in 1 .. L + Len(list) : FirstOf(a)' /\ TestedBy(a, k, j)'
  <2> SUFFICES ASSUME NEW k, NEW j, IsRead(k, j, n, m)
               PROVE  TestFine(k, j) /\ \E a \in 1 .. L + Len(list) :
                                          FirstOf(a)' /\ TestedBy(a, k, j)'
    OBVIOUS
  <2>1. TestFine(k, j)
    BY DEF TestsTaken
  <2>2. PICK a \in 1 .. L : FirstOf(a) /\ TestedBy(a, k, j)
    BY <1>1 DEF TestsTaken
  <2>3. a \in 1 .. L + Len(list) /\ FirstOf(a)' /\ TestedBy(a, k, j)'
    BY <1>3, <1>4, <1>6, <2>2
  <2>4. QED
    BY <2>1, <2>3
<1>8. \A a \in 1 .. L + Len(list) : apis'[a].test # Untested =>
        FirstOf(a)' /\ \E k, j : IsRead(k, j, n, m) /\ TestedBy(a, k, j)'
  <2> SUFFICES ASSUME NEW a \in 1 .. L + Len(list), apis'[a].test # Untested
               PROVE  FirstOf(a)' /\ \E k, j : IsRead(k, j, n, m) /\ TestedBy(a, k, j)'
    OBVIOUS
  <2>1. a \in 1 .. L /\ apis[a].test # Untested
    BY <1>2, <1>5
  <2>2. PICK k, j : IsRead(k, j, n, m) /\ TestedBy(a, k, j)
    BY <1>1, <2>1 DEF TestsTaken
  <2>3. FirstOf(a)
    BY <1>1, <2>1 DEF TestsTaken
  <2>4. FirstOf(a)' /\ TestedBy(a, k, j)'
    BY <1>3, <1>4, <2>1, <2>2, <2>3
  <2>5. QED
    BY <2>2, <2>4
<1>9. \A k : Wraps(k) /\ k < n => Libraries[k].tests.is = "rows"
  BY DEF TestsTaken
<1>10. /\ \A k : Wraps(k)' = Wraps(k) /\ Libraries' = Libraries
       /\ \A k, j : TestFine(k, j)' = TestFine(k, j)
       /\ \A k, j : IsRead(k, j, n, m)' = IsRead(k, j, n, m)
  BY LibrariesSame
<1>11. /\ \A k : (Wraps(k) /\ k < n => Libraries[k].tests.is = "rows")'
       /\ \A k, j : IsRead(k, j, n, m)' =>
            TestFine(k, j)' /\ \E a \in 1 .. Len(apis') : FirstOf(a)' /\ TestedBy(a, k, j)'
       /\ \A a \in 1 .. Len(apis') : apis'[a].test # Untested =>
            FirstOf(a)' /\ \E k, j : IsRead(k, j, n, m)' /\ TestedBy(a, k, j)'
  BY <1>2, <1>7, <1>8, <1>9, <1>10
<1>12. QED
  BY <1>11 DEF TestsTaken

(* The library that comes next has wrappers to test, or it has none, and   *)
(* then nothing changes with it.                                           *)
LEMMA SkippedLibrary ==
  ASSUME LibrariesPlain, NEW n \in Nat, ~Wraps(n), ApisLoaded(n), TestsTaken(n, 0)
  PROVE  ApisLoaded(n + 1) /\ TestsTaken(n + 1, 0)
<1>1. \A k : Wraps(k) => k \in Nat /\ (k < n + 1 <=> k < n) /\ k # n
  BY LibraryLists
<1>2. Loaded(n + 1) = Loaded(n)
  <2>1. ASSUME NEW p, p \in Loaded(n + 1) PROVE p \in Loaded(n)
    <3>1. PICK k, i : Wraps(k) /\ k < n + 1 /\ i \in DOMAIN ApisOf(k) /\ p = <<k, i>>
      BY <2>1, LoadedApi
    <3>2. QED
      BY <1>1, <3>1, LoadedApi
  <2>2. ASSUME NEW p, p \in Loaded(n) PROVE p \in Loaded(n + 1)
    <3>1. PICK k, i : Wraps(k) /\ k < n /\ i \in DOMAIN ApisOf(k) /\ p = <<k, i>>
      BY <2>2, LoadedApi
    <3>2. QED
      BY <1>1, <3>1, LoadedApi
  <2>3. QED
    BY <2>1, <2>2
<1>3. ApisLoaded(n + 1)
  BY <1>1, <1>2 DEF ApisLoaded, Housed
<1>4. \A k, j : Wraps(k) /\ j \in DOMAIN TestsOf(k) => j \in Nat \ {0}
  BY LibraryLists DEF IsList
<1>5. \A k, j : IsRead(k, j, n + 1, 0) <=> IsRead(k, j, n, 0)
  BY <1>1, <1>4 DEF IsRead
<1>6. TestsTaken(n + 1, 0)
  BY <1>1, <1>5 DEF TestsTaken
<1>7. QED
  BY <1>3, <1>6

(* All rows of a manifest are read when the library is left.               *)
LEMMA LeftLibrary ==
  ASSUME LibrariesPlain, NEW n, Wraps(n), Libraries[n].tests.is = "rows",
         TestsTaken(n, Len(TestsOf(n)))
  PROVE  TestsTaken(n + 1, 0)
<1>1. /\ n \in Nat
      /\ \A k : Wraps(k) => k \in Nat /\ (k < n + 1 <=> (k < n \/ k = n))
                            /\ (k = n + 1 => ~(k < n) /\ k # n)
  BY LibraryLists
<1>2. \A k, j : Wraps(k) /\ j \in DOMAIN TestsOf(k) =>
        j \in Nat \ {0} /\ j <= Len(TestsOf(k))
  BY LibraryLists DEF IsList
<1>3. \A k, j : IsRead(k, j, n + 1, 0) <=> IsRead(k, j, n, Len(TestsOf(n)))
  <2> SUFFICES ASSUME NEW k, NEW j, Wraps(k), j \in DOMAIN TestsOf(k)
               PROVE  (k < n + 1 \/ (k = n + 1 /\ j <= 0)) <=>
                        (k < n \/ (k = n /\ j <= Len(TestsOf(n))))
    BY DEF IsRead
  <2>1. j \in Nat \ {0} /\ (k = n => j <= Len(TestsOf(n)))
    BY <1>2
  <2>2. QED
    BY <1>1, <2>1
<1>4. \A k : Wraps(k) /\ k < n + 1 => Libraries[k].tests.is = "rows"
  BY <1>1 DEF TestsTaken
<1>5. QED
  BY <1>3, <1>4 DEF TestsTaken

(* Match finds the first of the entries of this identity.                  *)
LEMMA MatchFound ==
  ASSUME IsList(apis), NEW usr, Matching(usr) # {}
  PROVE  /\ Match(usr) \in 1 .. Len(apis) /\ FirstOf(Match(usr))
         /\ apis[Match(usr)].library = Here.name /\ apis[Match(usr)].usr = usr
         /\ \A a \in 1 .. Len(apis) :
              /\ FirstOf(a)
              /\ apis[a].library = Here.name /\ apis[a].usr = usr
              => a = Match(usr)
<1>1. DOMAIN apis = 1 .. Len(apis) /\ Len(apis) \in Nat
  BY DEF IsList
<1>2. Matching(usr) \in SUBSET Nat /\ Matching(usr) \subseteq 1 .. Len(apis)
  BY <1>1 DEF Matching
<1>3. \E i \in Matching(usr) : \A j \in Matching(usr) : i <= j
  BY <1>2, LeastMember
<1>4. PICK m : m = Match(usr)
  OBVIOUS
<1>5. m \in Matching(usr) /\ \A j \in Matching(usr) : m <= j
  BY <1>3, <1>4, Zenon DEF Match
<1>6. m \in 1 .. Len(apis) /\ apis[m].library = Here.name /\ apis[m].usr = usr
  BY <1>1, <1>5 DEF Matching
<1>7. \A b \in 1 .. Len(apis) :
        apis[b].library = Here.name /\ apis[b].usr = usr => m <= b
  BY <1>1, <1>5 DEF Matching
<1>8. FirstOf(m)
  <2> SUFFICES ASSUME NEW b \in 1 .. m - 1, apis[b].library = apis[m].library,
                      apis[b].usr = apis[m].usr
               PROVE  FALSE
    BY DEF FirstOf
  <2>1. b \in 1 .. Len(apis) /\ ~(m <= b)
    BY <1>1, <1>6
  <2>2. QED
    BY <1>6, <1>7, <2>1
<1>9. ASSUME NEW a \in 1 .. Len(apis), FirstOf(a), apis[a].library = Here.name,
             apis[a].usr = usr
      PROVE  a = m
  <2>1. m <= a
    BY <1>7, <1>9
  <2>2. ~(m \in 1 .. a - 1)
    BY <1>6, <1>9 DEF FirstOf
  <2>3. QED
    BY <1>1, <1>6, <2>1, <2>2
<1>10. QED
  BY <1>4, <1>6, <1>8, <1>9

(* An entry is of an API that was loaded, and each such API has one.       *)
LEMMA EntryOf ==
  ASSUME LibrariesPlain, NEW n, ApisLoaded(n)
  PROVE  /\ \A a \in 1 .. Len(apis) : \E k, i :
              /\ Wraps(k) /\ k < n /\ i \in DOMAIN ApisOf(k)
              /\ apis[a].library = Libraries[k].name /\ apis[a].usr = ApisOf(k)[i].usr
         /\ \A k, i : Wraps(k) /\ k < n /\ i \in DOMAIN ApisOf(k) =>
              \E a \in 1 .. Len(apis) :
                apis[a].library = Libraries[k].name /\ apis[a].usr = ApisOf(k)[i].usr
<1>1. PICK at : Housed(at, n)
  BY DEF ApisLoaded
<1>2. ASSUME NEW a \in 1 .. Len(apis)
      PROVE  \E k, i :
              /\ Wraps(k) /\ k < n /\ i \in DOMAIN ApisOf(k)
              /\ apis[a].library = Libraries[k].name /\ apis[a].usr = ApisOf(k)[i].usr
  <2>1. at[a] \in Loaded(n) /\ IsApi(a, at[a])
    BY <1>1 DEF Housed
  <2>2. PICK k, i : Wraps(k) /\ k < n /\ i \in DOMAIN ApisOf(k) /\ at[a] = <<k, i>>
    BY <2>1, LoadedApi
  <2>3. at[a][1] = k /\ at[a][2] = i
    BY <2>2
  <2>4. QED
    BY <2>1, <2>2, <2>3 DEF IsApi
<1>3. ASSUME NEW k, NEW i, Wraps(k), k < n, i \in DOMAIN ApisOf(k)
      PROVE  \E a \in 1 .. Len(apis) :
               apis[a].library = Libraries[k].name /\ apis[a].usr = ApisOf(k)[i].usr
  <2>1. PICK p : p = <<k, i>>
    OBVIOUS
  <2>2. p \in Loaded(n)
    BY <1>3, <2>1, LoadedApi
  <2>3. PICK a \in 1 .. Len(apis) : at[a] = p /\ IsApi(a, at[a])
    BY <1>1, <2>2 DEF Housed
  <2>4. at[a][1] = k /\ at[a][2] = i
    BY <2>1, <2>3
  <2>5. QED
    BY <2>3, <2>4 DEF IsApi
<1>4. QED
  BY <1>2, <1>3

(* Where each library has its APIs once, an API has one entry.             *)
LEMMA EntryOnce ==
  ASSUME LibrariesPlain, NamedOnce, AllTested, NEW n, ApisLoaded(n)
  PROVE  \A a, b \in 1 .. Len(apis) :
           apis[a].library = apis[b].library /\ apis[a].usr = apis[b].usr => a = b
<1> SUFFICES ASSUME NEW a \in 1 .. Len(apis), NEW b \in 1 .. Len(apis),
                    apis[a].library = apis[b].library, apis[a].usr = apis[b].usr
             PROVE  a = b
  OBVIOUS
<1>1. PICK at : Housed(at, n)
  BY DEF ApisLoaded
<1>2. \A c \in 1 .. Len(apis) : at[c] \in Loaded(n) /\ IsApi(c, at[c])
  BY <1>1 DEF Housed
<1>3. PICK k, i : Wraps(k) /\ i \in DOMAIN ApisOf(k) /\ at[a] = <<k, i>>
  BY <1>2, LoadedApi
<1>4. PICK l, j : Wraps(l) /\ j \in DOMAIN ApisOf(l) /\ at[b] = <<l, j>>
  BY <1>2, LoadedApi
<1>5. /\ apis[a].library = Libraries[k].name /\ apis[a].usr = ApisOf(k)[i].usr
      /\ apis[b].library = Libraries[l].name /\ apis[b].usr = ApisOf(l)[j].usr
  <2>1. at[a][1] = k /\ at[a][2] = i /\ at[b][1] = l /\ at[b][2] = j
    BY <1>3, <1>4
  <2>2. QED
    BY <1>2, <2>1 DEF IsApi
<1>6. k = l
  BY <1>3, <1>4, <1>5, LibraryOfName
<1>7. i = j
  BY <1>3, <1>4, <1>5, <1>6, TestedApi
<1>8. at[a] = at[b]
  BY <1>3, <1>4, <1>6, <1>7
<1>9. QED
  BY <1>1, <1>8 DEF Housed

(* An entry that is given its test is the same entry otherwise.            *)
GivenItsTest(m, test) ==
  /\ Len(apis') = Len(apis)
  /\ \A a \in 1 .. Len(apis) :
       /\ apis'[a].library = apis[a].library /\ apis'[a].usr = apis[a].usr
       /\ apis'[a].test = IF a = m THEN test ELSE apis[a].test
  /\ \A a \in 1 .. Len(apis) : FirstOf(a)' <=> FirstOf(a)
LEMMA GivenTest ==
  ASSUME NEW n, ApisLoaded(n), NEW m \in 1 .. Len(apis), NEW test,
         apis' = [apis EXCEPT ![m].test = test], UNCHANGED workspace
  PROVE  ApisLoaded(n)' /\ Len(apis) \in Nat /\ GivenItsTest(m, test)
<1>1. IsList(apis) /\ DOMAIN apis = 1 .. Len(apis) /\ Len(apis) \in Nat
  BY DEF ApisLoaded, IsList
<1>2. PICK e : e = [library |-> apis[m].library, usr |-> apis[m].usr, test |-> test]
  OBVIOUS
<1>3. \A a \in 1 .. Len(apis) :
        apis[a] = [library |-> apis[a].library, usr |-> apis[a].usr, test |-> apis[a].test]
  BY DEF ApisLoaded
<1>4. [apis[m] EXCEPT !.test = test] = e
  <2>1. PICK l, u, t : apis[m] = [library |-> l, usr |-> u, test |-> t]
    BY <1>3
  <2>2. QED
    BY <1>2, <2>1
<1>5. apis' = [apis EXCEPT ![m] = e]
  BY <1>4
<1>6. PICK S : apis \in Seq(S) /\ e \in S
  <2>1. apis \in Seq(ToSet(apis) \cup {e})
    BY <1>1 DEF IsList
  <2>2. QED
    BY <2>1
<1>7. apis' \in Seq(S) /\ Len(apis') = Len(apis)
  BY <1>5, <1>6
<1>8. IsList(apis')
  BY <1>7, ListOf
<1>9. \A a \in 1 .. Len(apis) : apis'[a] = IF a = m THEN e ELSE apis[a]
  BY <1>1, <1>5
<1>10. ASSUME NEW a \in 1 .. Len(apis)
       PROVE  /\ apis'[a].library = apis[a].library /\ apis'[a].usr = apis[a].usr
              /\ apis'[a].test = IF a = m THEN test ELSE apis[a].test
              /\ apis'[a] = [library |-> apis'[a].library, usr |-> apis'[a].usr,
                             test |-> apis'[a].test]
  <2>1. CASE a = m
    BY <1>2, <1>9, <2>1
  <2>2. CASE a # m
    BY <1>3, <1>9, <2>2
  <2>3. QED
    BY <2>1, <2>2
<1>11. \A a \in 1 .. Len(apis) : FirstOf(a)' <=> FirstOf(a)
  <2> SUFFICES ASSUME NEW a \in 1 .. Len(apis) PROVE FirstOf(a)' <=> FirstOf(a)
    OBVIOUS
  <2>1. \A b \in 1 .. a - 1 : b \in 1 .. Len(apis)
    BY <1>1
  <2>2. \A b \in 1 .. a - 1 :
          apis'[b].library = apis[b].library /\ apis'[b].usr = apis[b].usr
    BY <1>10, <2>1
  <2>3. apis'[a].library = apis[a].library /\ apis'[a].usr = apis[a].usr
    BY <1>10
  <2>4. QED
    BY <2>2, <2>3 DEF FirstOf
<1>12. PICK at : Housed(at, n)
  BY DEF ApisLoaded
<1>13. Housed(at, n)'
  <2>1. \A a \in 1 .. Len(apis) : IsApi(a, at[a])'
    <3> SUFFICES ASSUME NEW a \in 1 .. Len(apis) PROVE IsApi(a, at[a])'
      OBVIOUS
    <3>1. PICK p : p = at[a]
      OBVIOUS
    <3>2. IsApi(a, p)
      BY <1>12, <3>1 DEF Housed
    <3>3. IsApi(a, p)'
      BY <1>10, <3>2, LibrariesSame DEF IsApi
    <3>4. QED
      BY <3>1, <3>3
  <2>2. Loaded(n)' = Loaded(n)
    BY LibrariesSame
  <2>3. QED
    BY <1>7, <1>12, <2>1, <2>2 DEF Housed
<1>14. ApisLoaded(n)'
  BY <1>7, <1>8, <1>10, <1>13, LibrariesSame DEF ApisLoaded
<1>15. GivenItsTest(m, test)
  BY <1>7, <1>10, <1>11 DEF GivenItsTest
<1>16. QED
  BY <1>1, <1>14, <1>15

(* The next row of the manifest, and that it is one.                       *)
LEMMA NextTest ==
  ASSUME LibrariesPlain, Wraps(library), ReadingTests, position \in Nat
  PROVE  /\ Libraries[library].tests.is = "rows" /\ TestRows = TestsOf(library)
         /\ Row = TestsOf(library)[position + 1]
         /\ position + 1 \in DOMAIN TestsOf(library)
         /\ position + 1 \in 0 .. Len(TestsOf(library))
         /\ Row \in ToSet(TestsOf(library))
         /\ Here \in Wrapping
         /\ NothingLong => (Row.is = "test" => ~Row.long)
<1>1. TestRows = TestsOf(library)
  BY DEF TestRows, TestsOf, Here
<1>2. position < Len(TestsOf(library))
  BY <1>1 DEF ReadingTests
<1>3. IsList(TestsOf(library))
  BY LibraryLists
<1>4. DOMAIN TestsOf(library) = 1 .. Len(TestsOf(library)) /\ Len(TestsOf(library)) \in Nat
  BY <1>3 DEF IsList
<1>5. position + 1 \in 1 .. Len(TestsOf(library)) /\ position + 1 \in 0 .. Len(TestsOf(library))
  BY <1>2, <1>4
<1>6. Libraries[library].tests.is = "rows"
  <2> SUFFICES ASSUME Libraries[library].tests.is # "rows" PROVE FALSE
    OBVIOUS
  <2>1. TestsOf(library) = <<>>
    BY DEF TestsOf
  <2>2. QED
    BY <1>5, <2>1
<1>7. Row = TestsOf(library)[position + 1]
  BY <1>1 DEF Row
<1>8. Row \in ToSet(TestsOf(library))
  BY <1>4, <1>5, <1>7 DEF ToSet
<1>9. Here \in Wrapping
  BY LibraryLists DEF Here
<1>10. NothingLong => (Row.is = "test" => ~Row.long)
  BY <1>6, <1>8, <1>9 DEF NothingLong, TestsOf, Here
<1>11. QED
  BY <1>1, <1>4, <1>5, <1>6, <1>7, <1>8, <1>9, <1>10

(* A row that was read has given its test to its entry.                    *)
LEMMA GivenBefore ==
  ASSUME LibrariesPlain, Wraps(library), IsList(apis), NEW m, TestsTaken(library, m),
         NEW usr, NEW j, IsRead(library, j, library, m), TestsOf(library)[j].usr = usr,
         Matching(usr) # {}
  PROVE  apis[Match(usr)].test # Untested
<1>1. TestFine(library, j)
  BY DEF TestsTaken
<1>2. PICK a \in 1 .. Len(apis) : FirstOf(a) /\ TestedBy(a, library, j)
  BY DEF TestsTaken
<1>3. a = Match(usr)
  BY <1>2, MatchFound DEF TestedBy, Here
<1>4. TestsOf(library)[j] \in ToSet(TestsOf(library))
  BY DEF IsRead, ToSet
<1>5. TestsOf(library)[j].test # Untested
  BY <1>1, <1>4, LibraryLists DEF TestFine
<1>6. QED
  BY <1>2, <1>3, <1>5 DEF TestedBy

LEMMA TestAccepted ==
  ASSUME LibrariesPlain, Wraps(library), ApisLoaded(library + 1),
         position \in Nat, TestsTaken(library, position), ReadingTests,
         Row.is = "test", Row.kind \in TestKinds, Row.exists,
         Matching(Row.usr) # {}, apis[Match(Row.usr)].test = Untested,
         apis' = [apis EXCEPT ![Match(Row.usr)].test = Row.test],
         UNCHANGED <<workspace, library>>, position' = position + 1
  PROVE  TestsTaken(library, position)'
<1>1. PICK n, q, m : n = library /\ q = position + 1 /\ m = Match(Row.usr)
  OBVIOUS
<1>2. /\ Libraries[n].tests.is = "rows" /\ Row = TestsOf(n)[q] /\ q \in DOMAIN TestsOf(n)
      /\ q \in Nat
  BY <1>1, NextTest
<1>3. IsList(apis)
  BY DEF ApisLoaded
<1>4. /\ m \in 1 .. Len(apis) /\ FirstOf(m)
      /\ apis[m].library = Libraries[n].name /\ apis[m].usr = Row.usr
  BY <1>1, <1>3, MatchFound DEF Here
<1>5. /\ Len(apis') = Len(apis)
      /\ \A a \in 1 .. Len(apis) :
           /\ apis'[a].library = apis[a].library /\ apis'[a].usr = apis[a].usr
           /\ apis'[a].test = IF a = m THEN Row.test ELSE apis[a].test
      /\ \A a \in 1 .. Len(apis) : FirstOf(a)' <=> FirstOf(a)
  <2>1. PICK test : test = Row.test
    OBVIOUS
  <2>2. apis' = [apis EXCEPT ![m].test = test]
    BY <1>1, <2>1
  <2>3. PICK next : next = library + 1 /\ ApisLoaded(next)
    OBVIOUS
  <2>4. UNCHANGED workspace
    OBVIOUS
  <2>5. m \in 1 .. Len(apis)
    BY <1>4
  <2>6. GivenItsTest(m, test)
    BY <2>2, <2>3, <2>4, <2>5, GivenTest, Zenon
  <2>7. QED
    BY <2>1, <2>6 DEF GivenItsTest
<1>6. \A k, j : IsRead(k, j, n, q) <=>
                  (IsRead(k, j, n, position) \/ (k = n /\ j = q))
  <2> SUFFICES ASSUME NEW k, NEW j, Wraps(k), j \in DOMAIN TestsOf(k)
               PROVE  (k < n \/ (k = n /\ j <= q)) <=>
                        \/ k < n \/ (k = n /\ j <= position)
                        \/ (k = n /\ j = q)
    BY <1>1, <1>2 DEF IsRead
  <2>1. j \in Nat
    BY LibraryLists DEF IsList
  <2>2. j <= q <=> (j <= position \/ j = q)
    BY <1>1, <2>1
  <2>3. QED
    BY <2>2
<1>7. TestFine(n, q)
  <2> SUFFICES ASSUME NEW i \in 1 .. q - 1, TestsOf(n)[i].usr = Row.usr PROVE FALSE
    BY <1>2 DEF TestFine
  <2>1. i \in DOMAIN TestsOf(n) /\ i <= position
    <3>1. DOMAIN TestsOf(n) = 1 .. Len(TestsOf(n)) /\ Len(TestsOf(n)) \in Nat
      BY <1>1, LibraryLists DEF IsList
    <3>2. QED
      BY <1>1, <1>2, <3>1
  <2>2. IsRead(n, i, n, position)
    BY <1>1, <2>1 DEF IsRead
  <2>3. QED
    BY <1>1, <1>3, <2>2, GivenBefore
<1>8. TestedBy(m, n, q)'
  BY <1>2, <1>4, <1>5, LibrariesSame DEF TestedBy
<1>9. \A a \in 1 .. Len(apis) : \A k, j :
        a # m /\ TestedBy(a, k, j) => TestedBy(a, k, j)'
  BY <1>5, LibrariesSame DEF TestedBy
<1>10. ASSUME NEW k, NEW j, IsRead(k, j, n, q)
       PROVE  TestFine(k, j) /\ \E a \in 1 .. Len(apis) : FirstOf(a)' /\ TestedBy(a, k, j)'
  <2>1. CASE IsRead(k, j, n, position)
    <3>1. TestFine(k, j)
      BY <1>1, <2>1 DEF TestsTaken
    <3>2. PICK a \in 1 .. Len(apis) : FirstOf(a) /\ TestedBy(a, k, j)
      BY <1>1, <2>1 DEF TestsTaken
    <3>3. TestsOf(k)[j].test # Untested
      <4>1. Wraps(k) /\ TestsOf(k)[j] \in ToSet(TestsOf(k))
        BY <2>1 DEF IsRead, ToSet
      <4>2. QED
        BY <3>1, <4>1, LibraryLists DEF TestFine
    <3>4. a # m
      BY <1>1, <3>2, <3>3 DEF TestedBy
    <3>5. QED
      BY <1>5, <1>9, <3>1, <3>2, <3>4
  <2>2. CASE k = n /\ j = q
    BY <1>4, <1>5, <1>7, <1>8, <2>2
  <2>3. QED
    BY <1>6, <1>10, <2>1, <2>2
<1>11. ASSUME NEW a \in 1 .. Len(apis), apis'[a].test # Untested
       PROVE  FirstOf(a)' /\ \E k, j : IsRead(k, j, n, q) /\ TestedBy(a, k, j)'
  <2>1. CASE a = m
    <3>1. IsRead(n, q, n, q)
      BY <1>1, <1>2 DEF IsRead
    <3>2. QED
      BY <1>4, <1>5, <1>8, <2>1, <3>1
  <2>2. CASE a # m
    <3>1. apis[a].test # Untested
      BY <1>5, <1>11, <2>2
    <3>2. PICK k, j : IsRead(k, j, n, position) /\ TestedBy(a, k, j) /\ FirstOf(a)
      BY <1>1, <3>1 DEF TestsTaken
    <3>3. IsRead(k, j, n, q) /\ TestedBy(a, k, j)' /\ FirstOf(a)'
      BY <1>5, <1>6, <1>9, <2>2, <3>2
    <3>4. QED
      BY <3>3
  <2>3. QED
    BY <2>1, <2>2
<1>12. \A k : Wraps(k) /\ k < n => Libraries[k].tests.is = "rows"
  BY <1>1 DEF TestsTaken
<1>13. TestsTaken(n, q)'
  BY <1>5, <1>10, <1>11, <1>12, LibrariesSame DEF TestsTaken
<1>14. QED
  BY <1>1, <1>13

TestedAsked ==
  /\ options.policy = "wrapper-unit-tests" /\ Acceptable(options)
  /\ workspace.roles = "valid" => NothingLong /\ NamedOnce

(* As long as there is no error: what was found is a fault of a manifest,  *)
(* and where nothing was found the table has the APIs of the libraries so  *)
(* far, with the tests of the rows so far.                                 *)
TestedSoFar ==
  /\ IsList(findings)
  /\ findings # <<>> => ~AllTested
  /\ stage \in {"arguments", "resolve", "wrapper-unit-tests"} =>
       findings = <<>> /\ apis = <<>>
  /\ findings = <<>> =>
       /\ stage \in {"apis", "tests", "verdicts"} =>
            workspace.roles = "valid" /\ library \in Nat \ {0}
       /\ stage = "apis" => ApisLoaded(library) /\ TestsTaken(library, 0)
       /\ stage = "tests" =>
            /\ Wraps(library) /\ ApisLoaded(library + 1)
            /\ position \in 0 .. Len(TestsOf(library))
            /\ TestsTaken(library, position)
       /\ stage = "verdicts" =>
            /\ library > Len(Libraries)
            /\ ApisLoaded(library) /\ TestsTaken(library, 0)
            /\ position \in 0 .. Len(apis)
            /\ \A a \in 1 .. position : apis[a].test # Untested /\ HasCall(apis[a])
       /\ stage \in {"write", "written"} => AllTested

(* Whatever error there is, as long as one may be taken away.              *)
TestedShape ==
  /\ IsList(findings)
  /\ stage \in {"apis", "tests"} => workspace.roles = "valid" /\ library \in Nat \ {0}
  /\ stage = "tests" => Wraps(library) /\ position \in Nat

TestedInv ==
  TestedAsked =>
    /\ stage \in CommonStages \cup UnitStages
    /\ TestedShape
    /\ LibrariesTyped(workspace)
    /\ stage \notin {"end", "ended"} /\ ~err => TestedSoFar
    /\ stage \in {"end", "ended"} /\ (stage = "end" => ~err) /\ status # Trouble =>
         ((status = Success) <=> AllTested)

LEMMA TestedFound ==
  ASSUME TestedSoFar, ~err', NEW f, Add(f), ~AllTested, AllTested' = AllTested,
         stage' \notin {"arguments", "resolve", "wrapper-unit-tests"}
  PROVE  TestedSoFar'
<1>1. IsList(findings') /\ findings' # <<>>
  BY Found DEF TestedSoFar
<1>2. QED
  BY <1>1 DEF TestedSoFar

(* Where something was found already, what comes adds to it at most.       *)
LEMMA TestedFoundBefore ==
  ASSUME TestedSoFar, ~err', findings # <<>>, UNCHANGED workspace,
         UNCHANGED findings \/ (\E f : Add(f)) \/ \E f : findings' = Append(findings, f),
         stage' \notin {"arguments", "resolve", "wrapper-unit-tests"}
  PROVE  TestedSoFar'
<1>1. ~AllTested /\ AllTested' = AllTested
  BY LibrariesSame DEF TestedSoFar
<1>2. CASE UNCHANGED findings
  BY <1>1, <1>2 DEF TestedSoFar
<1>3. CASE \E f : Add(f)
  BY <1>1, <1>3, TestedFound
<1>4. CASE \E f : findings' = Append(findings, f)
  <2>1. IsList(findings') /\ findings' # <<>>
    BY <1>4, ListMore DEF TestedSoFar
  <2>2. QED
    BY <1>1, <2>1 DEF TestedSoFar
<1>5. QED
  BY <1>2, <1>3, <1>4

LEMMA TestedStarts ==
  ASSUME TestedSoFar, ~err', UnitStart, UNCHANGED <<options, workspace>>,
         LibrariesTyped(workspace)
  PROVE  TestedSoFar'
<1>1. findings = <<>> /\ apis = <<>> /\ apis' = <<>>
  BY DEF UnitStart, TestedSoFar
<1>2. CASE workspace.roles = "valid" /\ library' = 1 /\ stage' = "apis" /\ UNCHANGED findings
  <2>1. LibrariesPlain
    BY <1>2 DEF LibrariesPlain
  <2>2. Len(apis) = 0 /\ 1 .. Len(apis) = {} /\ IsList(apis)
    <3>1. <<>> \in Seq({}) /\ Len(<<>>) = 0
      OBVIOUS
    <3>2. IsList(<<>>)
      BY <3>1, ListOf
    <3>3. QED
      BY <1>1, <3>1, <3>2
  <2>3. \A k : Wraps(k) => ~(k < 1)
    BY <2>1, LibraryLists
  <2>4. Loaded(1) = {}
    <3>1. \A p : p \notin Loaded(1)
      BY <2>3, LoadedApi
    <3>2. QED
      BY <3>1
  <2>5. Housed(<<>>, 1)
    <3>1. <<>> \in [1 .. Len(apis) -> Loaded(1)]
      BY <2>2
    <3>2. QED
      BY <2>2, <2>4, <3>1 DEF Housed
  <2>6. ApisLoaded(1)
    BY <2>2, <2>3, <2>5, ApiCapacityAssumption DEF ApisLoaded
  <2>7. TestsTaken(1, 0)
    <3>1. \A k, j : ~IsRead(k, j, 1, 0)
      <4> SUFFICES ASSUME NEW k, NEW j, IsRead(k, j, 1, 0) PROVE FALSE
        OBVIOUS
      <4>1. Wraps(k) /\ j \in DOMAIN TestsOf(k) /\ (k < 1 \/ j <= 0)
        BY DEF IsRead
      <4>2. j \in Nat \ {0}
        BY <2>1, <4>1, LibraryLists DEF IsList
      <4>3. QED
        BY <2>3, <4>1, <4>2
    <3>2. QED
      BY <2>2, <2>3, <3>1 DEF TestsTaken
  <2>8. ApisLoaded(library)' /\ TestsTaken(library, 0)'
    <3>1. ApisLoaded(1)' /\ TestsTaken(1, 0)'
      BY <1>1, <2>6, <2>7, ApisSame
    <3>2. QED
      BY <1>2, <3>1
  <2>9. QED
    BY <1>1, <1>2, <2>8 DEF TestedSoFar
<1>3. CASE workspace.roles = "invalid" /\ Add(Finding("roles", "contract")) /\ stage' = "write"
  <2>1. ~AllTested
    BY <1>3 DEF AllTested
  <2>2. QED
    BY <1>3, <2>1, TestedFound, LibrariesSame
<1>4. QED
  BY <1>2, <1>3 DEF UnitStart, GiveUp

LEMMA TestedLoads ==
  ASSUME TestedSoFar, ~err, ~err', UNCHANGED <<options, workspace>>,
         LibrariesTyped(workspace), SkipLibrary \/ LoadApis \/ LibrariesEnd
  PROVE  TestedSoFar'
<1>0. stage = "apis" /\ stage' \in {"apis", "tests", "verdicts"}
  BY DEF SkipLibrary, LoadApis, LibrariesEnd
<1>1. \A f : ~AddAnyway(f)
  BY AnywayKept DEF TestedSoFar
<1>2. UNCHANGED findings \/ \E f : Add(f)
  BY <1>1 DEF SkipLibrary, LoadApis, LibrariesEnd, resultVars
<1>3. CASE findings # <<>>
  BY <1>0, <1>2, <1>3, TestedFoundBefore
<1>4. CASE findings = <<>>
  <2>1. /\ workspace.roles = "valid" /\ library \in Nat \ {0} /\ IsList(findings)
        /\ ApisLoaded(library) /\ TestsTaken(library, 0)
    BY <1>0, <1>4 DEF TestedSoFar
  <2>2. LibrariesPlain
    BY <2>1 DEF LibrariesPlain
  <2>3. CASE SkipLibrary
    <3>1. /\ Here.infrastructure /\ library' = library + 1 /\ stage' = "apis"
          /\ UNCHANGED <<findings, apis>>
      BY <2>3 DEF SkipLibrary, resultVars
    <3>2. ~Wraps(library)
      BY <3>1 DEF Wraps, Here
    <3>3. ApisLoaded(library + 1) /\ TestsTaken(library + 1, 0)
      BY <2>1, <2>2, <3>2, SkippedLibrary
    <3>4. ApisLoaded(library)' /\ TestsTaken(library, 0)'
      <4>1. PICK n : n = library + 1
        OBVIOUS
      <4>2. ApisLoaded(n)' /\ TestsTaken(n, 0)'
        BY <3>1, <3>3, <4>1, ApisSame
      <4>3. QED
        BY <3>1, <4>1, <4>2
    <3>5. QED
      BY <1>4, <2>1, <3>1, <3>4 DEF TestedSoFar
  <2>4. CASE LoadApis
    <3>1. /\ apis' = apis \o Entered(Here.apis) /\ stage' = "tests" /\ position' = 0
          /\ library' = library /\ library <= Len(Libraries) /\ ~Here.infrastructure
      BY <2>4 DEF LoadApis
    <3>2. Wraps(library)
      BY <2>1, <2>2, <3>1, LibraryLists DEF Wraps, Here
    <3>3. CASE Complete(Here.apis)
      <4>1. UNCHANGED findings
        BY <1>1, <2>4, <3>3 DEF LoadApis
      <4>2. ApisLoaded(library + 1)' /\ TestsTaken(library, 0)'
        <5>1. ApisLoaded(library + 1)'
          BY <2>1, <2>2, <3>1, <3>2, <3>3, EnteredApis
        <5>2. PICK n : n = library
          OBVIOUS
        <5>3. TestsTaken(n, 0)'
          BY <2>1, <2>2, <3>1, <3>2, <3>3, <5>2, EnteredTests
        <5>4. QED
          BY <3>1, <5>1, <5>2, <5>3
      <4>3. Wraps(library)' /\ position' \in 0 .. Len(TestsOf(library))'
        <5>1. Len(TestsOf(library)) \in Nat
          BY <2>2, <3>2, LibraryLists DEF IsList
        <5>2. PICK n : n = library
          OBVIOUS
        <5>3. Wraps(n)' /\ 0 \in 0 .. Len(TestsOf(n)')
          BY <3>2, <5>1, <5>2, LibrariesSame
        <5>4. QED
          BY <3>1, <5>2, <5>3
      <4>4. QED
        BY <1>4, <2>1, <3>1, <4>1, <4>2, <4>3 DEF TestedSoFar
    <3>4. CASE ~Complete(Here.apis)
      <4>1. \E f : Add(f)
        BY <1>1, <2>4, <3>4 DEF LoadApis
      <4>2. ~AllTested
        BY <2>1, <2>2, <3>2, <3>4, IncompleteFault
      <4>3. QED
        BY <1>0, <4>1, <4>2, TestedFound, LibrariesSame
    <3>5. QED
      BY <3>3, <3>4
  <2>5. CASE LibrariesEnd
    <3>1. /\ stage' = "verdicts" /\ position' = 0 /\ library > Len(Libraries)
          /\ UNCHANGED <<findings, library, apis>>
      BY <2>5 DEF LibrariesEnd, resultVars, unitVars
    <3>2. ApisLoaded(library)' /\ TestsTaken(library, 0)'
      <4>1. PICK n : n = library
        OBVIOUS
      <4>2. ApisLoaded(n)' /\ TestsTaken(n, 0)'
        BY <2>1, <3>1, <4>1, ApisSame
      <4>3. QED
        BY <3>1, <4>1, <4>2
    <3>3. Len(apis) \in Nat /\ Libraries' = Libraries
      BY <2>1, LibrariesSame DEF ApisLoaded, IsList
    <3>4. QED
      BY <1>4, <2>1, <3>1, <3>2, <3>3 DEF TestedSoFar
  <2>6. QED
    BY <2>3, <2>4, <2>5
<1>5. QED
  BY <1>3, <1>4

(* A test that cannot be taken is one of the faults.                       *)
LEMMA TestFault ==
  ASSUME LibrariesPlain, NamedOnce, Wraps(library), position \in Nat,
         ApisLoaded(library + 1), TestsTaken(library, position), ReadingTests
  PROVE  /\ Row.is # "test" => ~AllTested
         /\ Row.kind \notin TestKinds => ~AllTested
         /\ ~Row.exists => ~AllTested
         /\ Matching(Row.usr) = {} => ~AllTested
         /\ Matching(Row.usr) # {} /\ apis[Match(Row.usr)].test # Untested => ~AllTested
<1>1. PICK n, q, next : n = library /\ q = position + 1 /\ next = library + 1
  OBVIOUS
<1>2. Row = TestsOf(n)[q] /\ q \in DOMAIN TestsOf(n) /\ Wraps(n)
  BY <1>1, NextTest
<1>3. AllTested => Row.is = "test" /\ Row.kind \in TestKinds /\ Row.exists
  BY <1>2, TestedRow
<1>4. n \in Nat /\ n < next /\ IsList(apis) /\ ApisLoaded(next)
  BY <1>1, <1>2, LibraryLists DEF ApisLoaded
<1>5. ASSUME AllTested PROVE Matching(Row.usr) # {}
  <2>1. PICK i \in DOMAIN ApisOf(n) : ApisOf(n)[i].usr = Row.usr
    BY <1>2, <1>5, TestedRow
  <2>2. PICK a \in 1 .. Len(apis) :
          apis[a].library = Libraries[n].name /\ apis[a].usr = ApisOf(n)[i].usr
    BY <1>2, <1>4, EntryOf
  <2>3. a \in DOMAIN apis
    BY <1>4 DEF IsList
  <2>4. QED
    BY <1>1, <2>1, <2>2, <2>3 DEF Matching, Here
<1>6. ASSUME AllTested, Matching(Row.usr) # {}, apis[Match(Row.usr)].test # Untested
      PROVE  FALSE
  <2>1. PICK m : m = Match(Row.usr)
    OBVIOUS
  <2>2. m \in 1 .. Len(apis) /\ apis[m].library = Libraries[n].name /\ apis[m].usr = Row.usr
    BY <1>1, <1>4, <1>6, <2>1, MatchFound DEF Here
  <2>3. PICK k, j : IsRead(k, j, n, position) /\ TestedBy(m, k, j)
    BY <1>1, <1>6, <2>1, <2>2 DEF TestsTaken
  <2>4. Wraps(k) /\ j \in DOMAIN TestsOf(k) /\ (k < n \/ j <= position)
    BY <2>3 DEF IsRead
  <2>5. k = n
    BY <1>2, <2>2, <2>3, <2>4, LibraryOfName DEF TestedBy
  <2>6. j # q
    <3>1. ~(k < n)
      BY <1>4, <2>5
    <3>2. j \in Nat
      BY <2>4, LibraryLists DEF IsList
    <3>3. QED
      BY <1>1, <2>4, <3>1, <3>2
  <2>7. TestsOf(n)[j].usr = Row.usr /\ j \in DOMAIN TestsOf(n)
    BY <2>2, <2>3, <2>4, <2>5 DEF TestedBy
  <2>8. PICK i \in DOMAIN ApisOf(n) : ApisOf(n)[i].usr = Row.usr
    BY <1>2, <1>6, TestedRow
  <2>9. j = q
    BY <1>2, <1>6, <2>7, <2>8, TestedApi
  <2>10. QED
    BY <2>6, <2>9
<1>7. QED
  BY <1>3, <1>5, <1>6

LEMMA TestedReads ==
  ASSUME TestedSoFar, ~err, ~err', UNCHANGED <<options, workspace>>,
         LibrariesTyped(workspace), workspace.roles = "valid" => NothingLong /\ NamedOnce,
         UnknownTest \/ RefusedTest \/ AcceptedTest \/ OverlongTest
  PROVE  TestedSoFar'
<1>0. /\ stage = "tests" /\ stage' = "tests" /\ position' = position + 1
      /\ ReadingTests /\ library' = library
  BY DEF UnknownTest, RefusedTest, AcceptedTest, OverlongTest, ReadingTests, unitVars
<1>1. UNCHANGED findings \/ (\E f : Add(f)) \/ \E f : findings' = Append(findings, f)
  BY DEF UnknownTest, RefusedTest, AcceptedTest, OverlongTest, TellRow, Tell, TellMissing
<1>2. CASE findings # <<>>
  BY <1>0, <1>1, <1>2, TestedFoundBefore
<1>3. CASE findings = <<>>
  <2>1. /\ workspace.roles = "valid" /\ library \in Nat \ {0} /\ IsList(findings)
        /\ Wraps(library) /\ ApisLoaded(library + 1)
        /\ position \in 0 .. Len(TestsOf(library))
        /\ TestsTaken(library, position)
    BY <1>0, <1>3 DEF TestedSoFar
  <2>2. LibrariesPlain /\ NothingLong /\ NamedOnce
    BY <2>1 DEF LibrariesPlain
  <2>3. position \in Nat
    BY <2>1, <2>2, LibraryLists DEF IsList
  <2>4. /\ Libraries[library].tests.is = "rows"
        /\ position + 1 \in 0 .. Len(TestsOf(library))
        /\ Row.is = "test" => ~Row.long
    BY <1>0, <2>1, <2>2, <2>3, NextTest
  <2>5. /\ Row.is # "test" => ~AllTested
        /\ Row.kind \notin TestKinds => ~AllTested
        /\ ~Row.exists => ~AllTested
        /\ Matching(Row.usr) = {} => ~AllTested
        /\ Matching(Row.usr) # {} /\ apis[Match(Row.usr)].test # Untested => ~AllTested
    BY <1>0, <2>1, <2>2, <2>3, TestFault
  <2>6. ASSUME NEW f, Add(f), ~AllTested PROVE TestedSoFar'
    BY <1>0, <2>6, TestedFound, LibrariesSame
  <2>7. CASE UnknownTest
    <3>1. Add(Finding("no-api", Row.usr)) /\ ~AllTested
      BY <2>4, <2>5, <2>7 DEF UnknownTest, TellRow, Tell
    <3>2. QED
      BY <2>6, <3>1
  <2>8. CASE RefusedTest
    <3>1. (\E f : Add(f)) /\ ~AllTested
      BY <2>4, <2>5, <2>8 DEF RefusedTest, TellRow, Tell
    <3>2. QED
      BY <2>6, <3>1
  <2>9. CASE AcceptedTest
    <3>1. /\ Row.is = "test" /\ Matching(Row.usr) # {}
          /\ apis[Match(Row.usr)].test = Untested /\ Row.kind \in TestKinds
          /\ apis' = [apis EXCEPT ![Match(Row.usr)].test = Row.test]
      BY <2>9 DEF AcceptedTest
    <3>2. CASE Row.exists /\ UNCHANGED findings
      <4>1. TestsTaken(library, position)'
        BY <1>0, <2>1, <2>2, <2>3, <3>1, <3>2, TestAccepted
      <4>2. ApisLoaded(library + 1)'
        <5>1. PICK m, test, next : /\ m = Match(Row.usr) /\ test = Row.test
                                   /\ next = library + 1
          OBVIOUS
        <5>2. m \in 1 .. Len(apis) /\ ApisLoaded(next)
          BY <2>1, <3>1, <5>1, MatchFound DEF ApisLoaded
        <5>3. apis' = [apis EXCEPT ![m].test = test] /\ UNCHANGED workspace
          BY <3>1, <5>1
        <5>4. ApisLoaded(next)'
          BY <5>2, <5>3, GivenTest, Zenon
        <5>5. QED
          BY <1>0, <5>1, <5>4
      <4>3. Wraps(library)' /\ position' \in 0 .. Len(TestsOf(library))'
        <5>1. PICK n : n = library
          OBVIOUS
        <5>2. Wraps(n)' /\ position' \in 0 .. Len(TestsOf(n)')
          BY <1>0, <2>1, <2>4, <5>1, LibrariesSame
        <5>3. QED
          BY <1>0, <5>1, <5>2
      <4>4. QED
        BY <1>0, <1>3, <2>1, <3>2, <4>1, <4>2, <4>3 DEF TestedSoFar
    <3>3. CASE ~Row.exists /\ \E f : findings' = Append(findings, f)
      <4>1. IsList(findings') /\ findings' # <<>>
        BY <2>1, <3>3, ListMore
      <4>2. ~AllTested
        BY <2>5, <3>3
      <4>3. QED
        BY <1>0, <4>1, <4>2, LibrariesSame DEF TestedSoFar
    <3>4. QED
      BY <2>4, <2>9, <3>1, <3>2, <3>3 DEF AcceptedTest, TellMissing
  <2>10. CASE OverlongTest
    BY <2>10 DEF OverlongTest
  <2>11. QED
    BY <2>7, <2>8, <2>9, <2>10
<1>4. QED
  BY <1>2, <1>3

(* The error that a look for a source takes with it leaves a finding.      *)
LEMMA TestedForgets ==
  ASSUME TestedShape, err, ~err', UNCHANGED <<options, workspace>>,
         LibrariesTyped(workspace), workspace.roles = "valid" => NothingLong /\ NamedOnce,
         AcceptedTest
  PROVE  TestedSoFar'
<1>1. /\ stage = "tests" /\ stage' = "tests" /\ ReadingTests
      /\ Row.is = "test" /\ ~Row.exists
      /\ TellMissing(Finding("source", Row.usr), ~Row.long)
  BY DEF AcceptedTest, ReadingTests
<1>2. /\ LibrariesPlain /\ NothingLong /\ Wraps(library) /\ position \in Nat
      /\ IsList(findings)
  BY <1>1 DEF TestedShape, LibrariesPlain
<1>3. PICK n, q : n = library /\ q = position + 1
  OBVIOUS
<1>4. /\ Wraps(n) /\ Row = TestsOf(n)[q] /\ q \in DOMAIN TestsOf(n) /\ ~Row.long
  BY <1>1, <1>2, <1>3, NextTest
<1>5. ~AllTested
  BY <1>1, <1>2, <1>4, TestedRow
<1>6. IsList(findings') /\ findings' # <<>>
  BY <1>1, <1>2, <1>4, ListMore DEF TellMissing
<1>7. QED
  BY <1>1, <1>5, <1>6, LibrariesSame DEF TestedSoFar

LEMMA TestedLeaves ==
  ASSUME TestedSoFar, ~err, ~err', UNCHANGED <<options, workspace>>,
         LibrariesTyped(workspace), workspace.roles = "valid" => NothingLong /\ NamedOnce,
         TestsEnd
  PROVE  TestedSoFar'
<1>0. /\ stage = "tests" /\ stage' = "apis" /\ library' = library + 1
      /\ UNCHANGED <<position, apis>>
  BY DEF TestsEnd
<1>1. UNCHANGED findings \/ \E f : Add(f)
  BY DEF TestsEnd
<1>2. CASE findings # <<>>
  BY <1>0, <1>1, <1>2, TestedFoundBefore
<1>3. CASE findings = <<>>
  <2>1. /\ workspace.roles = "valid" /\ library \in Nat \ {0} /\ IsList(findings)
        /\ Wraps(library) /\ ApisLoaded(library + 1)
        /\ position \in 0 .. Len(TestsOf(library))
        /\ TestsTaken(library, position)
    BY <1>0, <1>3 DEF TestedSoFar
  <2>2. LibrariesPlain /\ NothingLong /\ NamedOnce
    BY <2>1 DEF LibrariesPlain
  <2>3. position \in Nat
    BY <2>1, <2>2, LibraryLists DEF IsList
  <2>4. CASE Here.tests.is = "rows" /\ position = Len(TestRows) /\ UNCHANGED findings
    <3>1. TestRows = TestsOf(library) /\ Libraries[library].tests.is = "rows"
      BY <2>4 DEF TestRows, TestsOf, Here
    <3>2. PICK n, next : n = library /\ next = library + 1
      OBVIOUS
    <3>3. TestsTaken(n, Len(TestsOf(n))) /\ Wraps(n) /\ Libraries[n].tests.is = "rows"
      BY <2>1, <2>4, <3>1, <3>2
    <3>4. TestsTaken(n + 1, 0)
      BY <2>2, <3>3, LeftLibrary
    <3>5. ApisLoaded(next)' /\ TestsTaken(next, 0)'
      BY <1>0, <2>1, <3>2, <3>4, ApisSame
    <3>6. ApisLoaded(library)' /\ TestsTaken(library, 0)'
      BY <1>0, <3>2, <3>5
    <3>7. QED
      BY <1>0, <1>3, <2>1, <2>4, <3>6 DEF TestedSoFar
  <2>5. CASE /\ Here.tests.is # "rows" \/ (ReadingTests /\ Row.is = "ragged")
             /\ \E f : Add(f)
    <3>1. ~AllTested
      <4>1. CASE Here.tests.is # "rows"
        BY <2>1, <2>2, <4>1, TestedLibrary DEF Here
      <4>2. CASE ReadingTests /\ Row.is = "ragged"
        BY <2>1, <2>2, <2>3, <4>2, TestFault
      <4>3. QED
        BY <2>5, <4>1, <4>2
    <3>2. QED
      BY <1>0, <2>5, <3>1, TestedFound, LibrariesSame
  <2>6. QED
    BY <2>4, <2>5 DEF TestsEnd
<1>4. QED
  BY <1>2, <1>3

(* When all libraries are read: an API without a test, or with one that    *)
(* does not call it, is one of the faults, and without any all is tested.  *)
LEMMA ApiFault ==
  ASSUME LibrariesPlain, NamedOnce, library \in Nat, library > Len(Libraries),
         ApisLoaded(library), TestsTaken(library, 0), NEW a \in 1 .. Len(apis),
         apis[a].test = Untested \/ ~HasCall(apis[a])
  PROVE  ~AllTested
<1> SUFFICES ASSUME AllTested PROVE FALSE
  OBVIOUS
<1>1. PICK n : n = library
  OBVIOUS
<1>2. PICK k, i :
        /\ Wraps(k) /\ k < n /\ i \in DOMAIN ApisOf(k)
        /\ apis[a].library = Libraries[k].name /\ apis[a].usr = ApisOf(k)[i].usr
  BY <1>1, EntryOf
<1>3. PICK j \in DOMAIN TestsOf(k) : TestsOf(k)[j].usr = ApisOf(k)[i].usr
  BY <1>2, TestedApi
<1>4. IsRead(k, j, n, 0)
  BY <1>2, <1>3 DEF IsRead
<1>5. PICK b \in 1 .. Len(apis) : FirstOf(b) /\ TestedBy(b, k, j)
  BY <1>1, <1>4 DEF TestsTaken
<1>6. b = a
  BY <1>1, <1>2, <1>3, <1>5, EntryOnce DEF TestedBy
<1>7. TestsOf(k)[j].is = "test" /\ TestsOf(k)[j] \in ToSet(TestsOf(k))
  BY <1>2, <1>3, TestedRow DEF ToSet
<1>8. apis[a].test = TestsOf(k)[j].test /\ apis[a].test # Untested
  BY <1>2, <1>5, <1>6, <1>7, LibraryLists DEF TestedBy
<1>9. PICK c \in Calls : c.usr = ApisOf(k)[i].usr /\ c.path = TestsOf(k)[j].test
  BY <1>2, <1>3, TestedApi
<1>10. HasCall(apis[a])
  BY <1>2, <1>8, <1>9 DEF HasCall
<1>11. QED
  BY <1>8, <1>10

LEMMA NothingMissed ==
  ASSUME LibrariesPlain, NamedOnce, library \in Nat, library > Len(Libraries),
         ApisLoaded(library), TestsTaken(library, 0),
         \A a \in 1 .. Len(apis) : apis[a].test # Untested /\ HasCall(apis[a])
  PROVE  AllTested
<1>1. PICK n : n = library
  OBVIOUS
<1>2. \A k : Wraps(k) => k \in Nat /\ k < n
  BY <1>1, LibraryLists
<1>3. IsList(apis) /\ Len(apis) \in Nat /\ Len(apis) <= ApiCapacity /\ ApiCapacity \in Nat
  BY ApiCapacityAssumption DEF ApisLoaded, IsList
<1>4. \A k : Wraps(k) => ApisFine(k) /\ Libraries[k].tests.is = "rows"
  BY <1>1, <1>2 DEF ApisLoaded, TestsTaken
<1>5. Cardinality(PublicApis) <= ApiCapacity
  <2>1. PICK at : Housed(at, n)
    BY <1>1 DEF ApisLoaded
  <2>2. Loaded(n) = PublicApis
    <3>1. \A p : p \in PublicApis => p \in Loaded(n)
      BY <1>2, PublicApi, LoadedApi
    <3>2. QED
      BY <3>1 DEF Loaded
  <2>3. at \in Surjection(1 .. Len(apis), PublicApis)
    BY <2>1, <2>2, Zenon DEF Housed, Surjection
  <2>4. IsFiniteSet(1 .. Len(apis)) /\ Cardinality(1 .. Len(apis)) = Len(apis)
    <3>1. PICK L \in Nat : L = Len(apis)
      BY <1>3
    <3>2. IsFiniteSet(1 .. L) /\ Cardinality(1 .. L) = L
      BY <3>1, CountUpTo
    <3>3. QED
      BY <3>1, <3>2
  <2>5. /\ IsFiniteSet(PublicApis)
        /\ Cardinality(PublicApis) <= Cardinality(1 .. Len(apis))
    BY <2>3, <2>4, FS_Surjection
  <2>6. Cardinality(PublicApis) \in Nat
    BY <2>5, FS_CardinalityType
  <2>7. QED
    BY <1>3, <2>4, <2>5, <2>6
<1>6. ASSUME NEW k, Wraps(k) PROVE Tested(Libraries[k])
  <2>1. /\ ApisOf(k) = Read(Libraries[k].apis) /\ TestsOf(k) = Read(Libraries[k].tests)
        /\ IsList(ApisOf(k)) /\ IsList(TestsOf(k))
    BY <1>4, <1>6, LibraryLists DEF ApisFine, ApisOf, TestsOf
  <2>2. ASSUME NEW j \in DOMAIN TestsOf(k)
        PROVE  /\ TestFine(k, j)
               /\ \E a \in 1 .. Len(apis) : FirstOf(a) /\ TestedBy(a, k, j)
    <3>1. IsRead(k, j, n, 0)
      BY <1>2, <1>6, <2>2 DEF IsRead
    <3>2. QED
      BY <1>1, <3>1 DEF TestsTaken
  <2>3. ASSUME NEW t \in ToSet(TestsOf(k))
        PROVE  /\ t.is = "test" /\ t.kind \in TestKinds /\ t.exists
               /\ \E r \in ToSet(ApisOf(k)) : r.usr = t.usr
    <3>1. PICK j \in DOMAIN TestsOf(k) : t = TestsOf(k)[j]
      BY <2>3, Zenon DEF ToSet
    <3>2. t.is = "test" /\ t.kind \in TestKinds /\ t.exists
      BY <2>2, <3>1 DEF TestFine
    <3>3. PICK a \in 1 .. Len(apis) : TestedBy(a, k, j)
      BY <2>2, <3>1
    <3>4. PICK l, i :
            /\ Wraps(l) /\ i \in DOMAIN ApisOf(l)
            /\ apis[a].library = Libraries[l].name /\ apis[a].usr = ApisOf(l)[i].usr
      BY <1>1, <3>3, EntryOf
    <3>5. l = k
      BY <1>6, <3>3, <3>4, LibraryOfName DEF TestedBy
    <3>6. ApisOf(k)[i] \in ToSet(ApisOf(k)) /\ ApisOf(k)[i].usr = t.usr
      BY <3>1, <3>3, <3>4, <3>5 DEF TestedBy, ToSet
    <3>7. QED
      BY <3>2, <3>6
  <2>4. ASSUME NEW i \in DOMAIN ApisOf(k)
        PROVE  /\ Cardinality(TestsFor(k, i)) = 1
               /\ \A j \in TestsFor(k, i) : \E c \in Calls :
                    c.usr = ApisOf(k)[i].usr /\ c.path = TestsOf(k)[j].test
               /\ \A h \in DOMAIN ApisOf(k) : ApisOf(k)[h].usr = ApisOf(k)[i].usr => h = i
    <3>1. PICK at : Housed(at, n)
      BY <1>1 DEF ApisLoaded
    <3>2. \A h \in DOMAIN ApisOf(k) : \E a \in 1 .. Len(apis) :
            /\ at[a] = <<k, h>>
            /\ apis[a].library = Libraries[k].name /\ apis[a].usr = ApisOf(k)[h].usr
      <4> SUFFICES ASSUME NEW h \in DOMAIN ApisOf(k)
                   PROVE  \E a \in 1 .. Len(apis) :
                            /\ at[a] = <<k, h>>
                            /\ apis[a].library = Libraries[k].name
                            /\ apis[a].usr = ApisOf(k)[h].usr
        OBVIOUS
      <4>1. PICK p : p = <<k, h>>
        OBVIOUS
      <4>2. p \in Loaded(n)
        BY <1>2, <1>6, <4>1, LoadedApi
      <4>3. PICK a \in 1 .. Len(apis) : at[a] = p /\ IsApi(a, at[a])
        BY <3>1, <4>2 DEF Housed
      <4>4. at[a][1] = k /\ at[a][2] = h
        BY <4>1, <4>3
      <4>5. QED
        BY <4>1, <4>3, <4>4 DEF IsApi
    <3>3. \A a \in 1 .. Len(apis) : FirstOf(a) /\ \E l, j :
            IsRead(l, j, n, 0) /\ TestedBy(a, l, j)
      BY <1>1 DEF TestsTaken
    <3>4. PICK a \in 1 .. Len(apis) :
            /\ at[a] = <<k, i>>
            /\ apis[a].library = Libraries[k].name /\ apis[a].usr = ApisOf(k)[i].usr
      BY <2>4, <3>2
    <3>5. \A b \in 1 .. Len(apis) :
            apis[b].library = apis[a].library /\ apis[b].usr = apis[a].usr => b = a
      <4> SUFFICES ASSUME NEW b \in 1 .. Len(apis), apis[b].library = apis[a].library,
                          apis[b].usr = apis[a].usr
                   PROVE  b = a
        OBVIOUS
      <4>1. b \notin 1 .. a - 1
        BY <3>3 DEF FirstOf
      <4>2. a \notin 1 .. b - 1
        BY <3>3 DEF FirstOf
      <4>3. QED
        BY <1>3, <4>1, <4>2
    <3>6. ASSUME NEW h \in DOMAIN ApisOf(k), ApisOf(k)[h].usr = ApisOf(k)[i].usr
          PROVE  h = i
      <4>1. PICK b \in 1 .. Len(apis) :
              /\ at[b] = <<k, h>>
              /\ apis[b].library = Libraries[k].name /\ apis[b].usr = ApisOf(k)[h].usr
        BY <3>2, <3>6
      <4>2. b = a
        BY <3>4, <3>5, <3>6, <4>1
      <4>3. <<k, h>> = <<k, i>>
        BY <3>4, <4>1, <4>2
      <4>4. QED
        BY <4>3
    <3>7. PICK l, j : IsRead(l, j, n, 0) /\ TestedBy(a, l, j)
      BY <3>3
    <3>8. l = k /\ j \in DOMAIN TestsOf(k)
      BY <1>6, <3>4, <3>7, LibraryOfName DEF IsRead, TestedBy
    <3>9. TestsOf(k)[j].usr = ApisOf(k)[i].usr /\ TestsOf(k)[j].test = apis[a].test
      BY <3>4, <3>7, <3>8 DEF TestedBy
    <3>10. ASSUME NEW h \in DOMAIN TestsOf(k), TestsOf(k)[h].usr = ApisOf(k)[i].usr
           PROVE  h = j
      <4>1. j \in Nat \ {0} /\ h \in Nat \ {0}
        BY <2>1, <3>8, <3>10 DEF IsList
      <4>2. h \notin 1 .. j - 1
        BY <2>2, <3>8, <3>9, <3>10 DEF TestFine
      <4>3. j \notin 1 .. h - 1
        BY <2>2, <3>8, <3>9, <3>10 DEF TestFine
      <4>4. QED
        BY <4>1, <4>2, <4>3
    <3>11. TestsFor(k, i) = {j}
      BY <3>8, <3>9, <3>10 DEF TestsFor
    <3>12. Cardinality(TestsFor(k, i)) = 1
      BY <3>11, FS_Singleton
    <3>13. PICK c \in Calls : c.path = apis[a].test /\ c.usr = apis[a].usr
      BY DEF HasCall
    <3>14. QED
      BY <3>4, <3>6, <3>9, <3>11, <3>12, <3>13
  <2>5. ApisFine(k) /\ Libraries[k].tests.is = "rows"
    BY <1>4, <1>6
  <2> DEFINE lib == Libraries[k]
  <2>6. /\ lib.apis.is = "rows" /\ \A r \in ToSet(Read(lib.apis)) : r.is = "api"
        /\ lib.tests.is = "rows" /\ \A r \in ToSet(Read(lib.tests)) : r.is = "test"
        /\ \A t \in ToSet(Read(lib.tests)) :
             /\ t.kind \in TestKinds /\ t.exists
             /\ \E a \in ToSet(Read(lib.apis)) : a.usr = t.usr
    BY <2>1, <2>3, <2>5 DEF ApisFine
  <2> HIDE DEF lib
  <2>7. ASSUME NEW i \in DOMAIN Read(lib.apis)
        PROVE  LET usr == Read(lib.apis)[i].usr
                   tests == {j \in DOMAIN Read(lib.tests) : Read(lib.tests)[j].usr = usr}
               IN  /\ Cardinality(tests) = 1
                   /\ \A j \in tests : \E c \in Calls :
                        c.usr = usr /\ c.path = Read(lib.tests)[j].test
                   /\ \A h \in DOMAIN Read(lib.apis) : Read(lib.apis)[h].usr = usr => h = i
    <3>1. ApisOf(k) = Read(lib.apis) /\ TestsOf(k) = Read(lib.tests)
      BY <2>1 DEF lib
    <3>2. PICK J : J = {j \in DOMAIN Read(lib.tests) :
                          Read(lib.tests)[j].usr = Read(lib.apis)[i].usr}
      OBVIOUS
    <3>3. J = TestsFor(k, i)
      BY <3>1, <3>2 DEF TestsFor
    <3>4. /\ Cardinality(J) = 1
          /\ \A j \in J : \E c \in Calls :
               c.usr = Read(lib.apis)[i].usr /\ c.path = Read(lib.tests)[j].test
          /\ \A h \in DOMAIN Read(lib.apis) :
               Read(lib.apis)[h].usr = Read(lib.apis)[i].usr => h = i
      BY <2>4, <2>7, <3>1, <3>3
    <3>5. QED
      BY <3>2, <3>4, Zenon
  <2>8. Tested(lib)
    BY <2>6, <2>7, Zenon DEF Tested
  <2>9. QED
    BY <2>8 DEF lib
<1>7. \A l \in Wrapping : Tested(l)
  BY <1>6, LibraryLists
<1>8. QED
  BY <1>5, <1>7 DEF AllTested, LibrariesPlain

LEMMA TestedJudges ==
  ASSUME TestedSoFar, ~err, ~err', UNCHANGED <<options, workspace>>,
         LibrariesTyped(workspace), workspace.roles = "valid" => NothingLong /\ NamedOnce,
         JudgeApi \/ UnitEnds
  PROVE  TestedSoFar'
<1>1. CASE JudgeApi
  <2>1. /\ stage = "verdicts" /\ stage' = "verdicts" /\ position' = position + 1
        /\ position < Len(apis) /\ UNCHANGED <<library, apis>>
        /\ UNCHANGED findings \/ \E f : Add(f)
    BY <1>1 DEF JudgeApi, unitVars
  <2>2. CASE findings # <<>>
    BY <2>1, <2>2, TestedFoundBefore
  <2>3. CASE findings = <<>>
    <3>1. /\ workspace.roles = "valid" /\ library \in Nat \ {0} /\ IsList(findings)
          /\ library > Len(Libraries)
          /\ ApisLoaded(library) /\ TestsTaken(library, 0)
          /\ position \in 0 .. Len(apis)
          /\ \A a \in 1 .. position : apis[a].test # Untested /\ HasCall(apis[a])
      BY <2>1, <2>3 DEF TestedSoFar
    <3>2. LibrariesPlain /\ NamedOnce
      BY <3>1 DEF LibrariesPlain
    <3>3. PICK q : q = position + 1
      OBVIOUS
    <3>4. /\ q \in 1 .. Len(apis) /\ q \in 0 .. Len(apis)
          /\ \A a \in 1 .. q : a \in 1 .. position \/ a = q
      BY <2>1, <3>1, <3>3 DEF ApisLoaded, IsList
    <3>5. CASE apis[q].test # Untested /\ HasCall(apis[q]) /\ UNCHANGED findings
      <4>1. \A a \in 1 .. q : apis[a].test # Untested /\ HasCall(apis[a])
        BY <3>1, <3>4, <3>5
      <4>2. ApisLoaded(library)' /\ TestsTaken(library, 0)'
        <5>1. PICK n : n = library
          OBVIOUS
        <5>2. ApisLoaded(n)' /\ TestsTaken(n, 0)'
          BY <2>1, <3>1, <5>1, ApisSame
        <5>3. QED
          BY <2>1, <5>1, <5>2
      <4>3. \A a \in 1 .. q : (apis[a].test # Untested /\ HasCall(apis[a]))'
        <5>1. \A api : HasCall(api)' <=> HasCall(api)
          BY <2>1, ApisSame
        <5>2. QED
          BY <2>1, <4>1, <5>1 DEF HasCall
      <4>4. Libraries' = Libraries
        BY LibrariesSame
      <4>5. QED
        BY <2>1, <2>3, <3>1, <3>3, <3>4, <3>5, <4>2, <4>3, <4>4 DEF TestedSoFar
    <3>6. CASE (apis[q].test = Untested \/ ~HasCall(apis[q])) /\ \E f : Add(f)
      <4>1. ~AllTested
        BY <3>1, <3>2, <3>4, <3>6, ApiFault
      <4>2. QED
        BY <2>1, <3>6, <4>1, TestedFound, LibrariesSame
    <3>7. QED
      BY <1>1, <3>3, <3>5, <3>6 DEF JudgeApi
  <2>4. QED
    BY <2>2, <2>3
<1>2. CASE UnitEnds
  <2>1. /\ stage = "verdicts" /\ stage' = "write" /\ UNCHANGED findings
        /\ position = Len(apis)
    BY <1>2 DEF UnitEnds, PolicyEnds
  <2>2. findings = <<>> => AllTested
    <3> SUFFICES ASSUME findings = <<>> PROVE AllTested
      OBVIOUS
    <3>1. /\ workspace.roles = "valid" /\ library \in Nat \ {0}
          /\ library > Len(Libraries)
          /\ ApisLoaded(library) /\ TestsTaken(library, 0)
          /\ \A a \in 1 .. position : apis[a].test # Untested /\ HasCall(apis[a])
      BY <2>1 DEF TestedSoFar
    <3>2. LibrariesPlain /\ NamedOnce
      BY <3>1 DEF LibrariesPlain
    <3>3. QED
      BY <2>1, <3>1, <3>2, NothingMissed
  <2>3. AllTested' = AllTested
    BY LibrariesSame
  <2>4. QED
    BY <2>1, <2>2, <2>3 DEF TestedSoFar
<1>3. QED
  BY <1>1, <1>2

LEMMA TestedShaped ==
  ASSUME TestedShape, UnitTests, LibrariesTyped(workspace), UNCHANGED <<options, workspace>>
  PROVE  TestedShape'
<1> USE LibrariesSame DEF TestedShape
<1>1. CASE UnitStart
  BY <1>1, ListKept DEF UnitStart, GiveUp
<1>2. CASE SkipLibrary
  <2>1. /\ stage = "apis" /\ stage' = "apis" /\ UNCHANGED findings
        /\ library' = library + 1
    BY <1>2 DEF SkipLibrary, resultVars
  <2>2. QED
    BY <2>1
<1>3. CASE LoadApis
  <2>1. /\ stage = "apis" /\ stage' = "tests" /\ position' = 0 /\ UNCHANGED library
        /\ library <= Len(Libraries) /\ ~Here.infrastructure
    BY <1>3 DEF LoadApis
  <2>2. IsList(findings')
    BY <1>3, ListKept, AnywayKept DEF LoadApis
  <2>3. LibrariesPlain
    BY <2>1 DEF LibrariesPlain
  <2>4. PICK n : n = library
    OBVIOUS
  <2>5. Wraps(n) /\ Wraps(n)'
    BY <2>1, <2>3, <2>4, LibraryLists DEF Wraps, Here
  <2>6. QED
    BY <2>1, <2>2, <2>4, <2>5
<1>4. CASE UnknownTest \/ RefusedTest \/ AcceptedTest \/ OverlongTest
  <2>1. /\ stage = "tests" /\ stage' = "tests" /\ position' = position + 1
        /\ UNCHANGED library
    BY <1>4 DEF UnknownTest, RefusedTest, AcceptedTest, OverlongTest, ReadingTests, unitVars
  <2>2. IsList(findings')
    BY <1>4, ListKept DEF UnknownTest, RefusedTest, AcceptedTest, OverlongTest, TellRow
  <2>3. PICK n : n = library
    OBVIOUS
  <2>4. Wraps(n) /\ Wraps(n)'
    BY <2>1, <2>3
  <2>5. QED
    BY <2>1, <2>2, <2>3, <2>4
<1>5. CASE TestsEnd
  <2>1. stage = "tests" /\ stage' = "apis" /\ library' = library + 1
    BY <1>5 DEF TestsEnd
  <2>2. IsList(findings')
    BY <1>5, ListKept DEF TestsEnd
  <2>3. QED
    BY <2>1, <2>2
<1>6. CASE LibrariesEnd \/ JudgeApi \/ UnitEnds
  <2>1. stage' \notin {"apis", "tests"}
    BY <1>6 DEF LibrariesEnd, JudgeApi, UnitEnds, PolicyEnds
  <2>2. IsList(findings')
    BY <1>6, ListKept DEF LibrariesEnd, JudgeApi, UnitEnds, PolicyEnds, resultVars
  <2>3. QED
    BY <2>1, <2>2
<1>7. QED
  BY <1>1, <1>2, <1>3, <1>4, <1>5, <1>6 DEF UnitTests

LEMMA TestedBegins == Init => TestedInv
<1> SUFFICES ASSUME Init, TestedAsked PROVE TestedInv
  BY DEF TestedInv
<1>1. PICK run \in InputRuns : options = run.options /\ workspace = run.workspace
  BY DEF Init
<1>2. LibrariesTyped(workspace)
  BY <1>1, InputAssumption DEF TestedAsked
<1>3. /\ stage = "arguments" /\ findings = <<>> /\ apis = <<>>
  BY DEF Init, UnitInit
<1>4. IsList(findings)
  BY <1>3 DEF ToSet, IsList
<1>5. QED
  BY <1>2, <1>3, <1>4 DEF TestedInv, TestedSoFar, TestedShape, CommonStages

LEMMA TestedSame ==
  ASSUME UNCHANGED <<options, workspace>>
  PROVE  TestedAsked' = TestedAsked
BY LibrariesSame DEF TestedAsked, Acceptable

LEMMA TestedPolicyStep ==
  ASSUME RunInv, TestedInv, TestedAsked, AnyPolicy
  PROVE  TestedInv'
<1>1. stage \in PolicyStages /\ status = Trouble /\ status' = Trouble
  BY PolicyShown, StageNames DEF RunInv, RanInv
<1>2. stage \in UnitStages /\ stage \notin {"end", "ended"}
  BY <1>1, StageNames DEF TestedInv, CommonStages
<1>3. UnitTests /\ Roaming(UnitStages)
  BY <1>2, PolicyOfStage DEF RunInv
<1>4. /\ stage' \in CommonStages \cup UnitStages
      /\ UNCHANGED <<options, workspace>>
  BY <1>3 DEF Roaming, CommonStages
<1>5. /\ TestedShape /\ LibrariesTyped(workspace)
      /\ workspace.roles = "valid" => NothingLong /\ NamedOnce
  BY DEF TestedInv, TestedAsked
<1>6. ASSUME stage' \notin {"end", "ended"}, ~err' PROVE TestedSoFar'
  <2>1. CASE ~err
    <3>1. TestedSoFar
      BY <1>2, <2>1 DEF TestedInv
    <3>2. QED
      BY <1>3, <1>4, <1>5, <1>6, <2>1, <3>1, TestedStarts, TestedLoads, TestedReads,
         TestedLeaves, TestedJudges DEF UnitTests
  <2>2. CASE err
    <3>1. AcceptedTest
      <4>1. err \in BOOLEAN
        BY DEF RunInv, ErrInv
      <4>2. ~ErrStays
        BY <1>6, <2>2, <4>1 DEF ErrStays
      <4>3. CASE UnitStart \/ LibrariesEnd \/ JudgeApi \/ UnitEnds
        <5>1. stage \notin {"apis", "tests"} \/ UNCHANGED err
          BY <4>3 DEF UnitStart, LibrariesEnd, JudgeApi, UnitEnds, resultVars
        <5>2. stage \in MayForget
          BY <1>3, <4>2 DEF Roaming, Remembers
        <5>3. QED
          BY <1>2, <4>2, <5>1, <5>2 DEF MayForget, UnitStages, ErrStays
      <4>4. CASE SkipLibrary
        BY <4>2, <4>4 DEF SkipLibrary, resultVars, ErrStays
      <4>5. CASE LoadApis \/ UnknownTest \/ RefusedTest \/ OverlongTest \/ TestsEnd
        BY <4>1, <4>2, <4>5, Adding
        DEF LoadApis, UnknownTest, RefusedTest, OverlongTest, TestsEnd, TellRow, ErrStays
      <4>6. QED
        BY <1>3, <4>3, <4>4, <4>5 DEF UnitTests
    <3>2. QED
      BY <1>4, <1>5, <1>6, <2>2, <3>1, TestedForgets
  <2>3. QED
    BY <2>1, <2>2
<1>7. TestedShape'
  BY <1>3, <1>4, <1>5, TestedShaped
<1>8. LibrariesTyped(workspace)' /\ AllTested' = AllTested
  BY <1>4, LibrariesSame DEF TestedInv, LibrariesTyped
<1>9. QED
  BY <1>1, <1>4, <1>6, <1>7, <1>8 DEF TestedInv

LEMMA TestedMainStep ==
  ASSUME RunInv, TestedInv, TestedAsked, MainStep
  PROVE  TestedInv'
<1>1. /\ UNCHANGED <<options, workspace, findings, position, library, apis>>
      /\ Acceptable(options) /\ options.policy = "wrapper-unit-tests"
  BY DEF MainStep, tableVars, earlierVars, unitVars, TestedAsked
<1>2. stage' \in CommonStages \cup UnitStages
  BY <1>1 DEF MainStep, TestedInv, CommonStages, UnitStages
<1>3. AllTested \in BOOLEAN
  BY DEF AllTested
<1>4. stage \in {"write", "written"} /\ ~err => ((findings = <<>>) <=> AllTested)
  BY DEF TestedInv, TestedSoFar
<1>5. stage' \in {"end", "ended"} /\ (stage' = "end" => ~err') /\ status' # Trouble =>
        ((status' = Success) <=> AllTested)
  BY <1>1, <1>3, <1>4, VerdictKept DEF TestedInv
<1>6. ASSUME stage' \notin {"end", "ended"}, ~err' PROVE TestedSoFar'
  <2>1. stage \notin {"end", "ended"} /\ ~err
    <3>1. err \in BOOLEAN
      BY DEF RunInv, ErrInv
    <3>2. stage \notin {"end", "ended"}
      BY <1>6 DEF MainStep
    <3>3. err' = err \/ err' = TRUE
      BY <1>6, <3>2 DEF MainStep
    <3>4. QED
      BY <1>6, <3>1, <3>2, <3>3
  <2>2. TestedSoFar
    BY <2>1 DEF TestedInv
  <2>3. \/ stage' = stage
        \/ stage = "arguments" /\ stage' = "resolve"
        \/ stage = "resolve" /\ stage' = "wrapper-unit-tests"
        \/ stage = "write" /\ stage' = "written"
    BY <1>1, <1>6 DEF MainStep
  <2>4. /\ AllTested' = AllTested /\ Libraries' = Libraries
        /\ \A k : Wraps(k)' = Wraps(k) /\ TestsOf(k)' = TestsOf(k)
    BY <1>1, LibrariesSame
  <2>5. /\ \A n : ApisLoaded(n)' = ApisLoaded(n)
        /\ \A n, m : TestsTaken(n, m)' = TestsTaken(n, m)
        /\ \A api : HasCall(api)' = HasCall(api)
    BY <1>1, ApisSame
  <2>6. QED
    BY <1>1, <2>2, <2>3, <2>4, <2>5 DEF TestedSoFar
<1>7. LibrariesTyped(workspace)' /\ AllTested' = AllTested
  BY <1>1, LibrariesSame DEF TestedInv, LibrariesTyped
<1>8. TestedShape'
  <2>1. /\ stage' \in {"apis", "tests"} => stage' = stage
        /\ \A k : Wraps(k)' = Wraps(k)
    BY <1>1, LibrariesSame DEF MainStep
  <2>2. QED
    BY <1>1, <2>1 DEF TestedInv, TestedShape
<1>9. QED
  BY <1>1, <1>2, <1>5, <1>6, <1>7, <1>8 DEF TestedInv

LEMMA TestedNext ==
  ASSUME RunInv, TestedInv, [Next]_vars
  PROVE  TestedInv'
<1>1. UNCHANGED <<options, workspace>>
  BY MainSteps, PolicyShown DEF MainStep
<1>2. CASE TestedAsked
  BY <1>2, MainSteps, TestedPolicyStep, TestedMainStep
<1>3. CASE ~TestedAsked
  BY <1>1, <1>3, TestedSame DEF TestedInv
<1>4. QED
  BY <1>2, <1>3

(* wrapper-unit-tests says 0 exactly if each library is truly tested, as   *)
(* far as its manifests were read, and the table holds all their APIs, and *)
(* 1 exactly if not, for any number of libraries and rows and any size of  *)
(* the table (JudgeApi and Judge of the command), where no name is too     *)
(* long and no library is named twice.                                     *)
THEOREM TestedEarned == Spec => []TestedIsEarned
<1>1. Init => RunInv /\ TestedInv
  BY RunStart, TestedBegins
<1>2. RunInv /\ TestedInv /\ [Next]_vars => (RunInv /\ TestedInv)'
  BY RunStep, TestedNext
<1>3. TestedInv => TestedIsEarned
  BY DEF TestedInv, TestedIsEarned, Judged, TestedAsked
<1>4. QED
  BY <1>1, <1>2, <1>3, PTL DEF Spec

-----------------------------------------------------------------------------
(***************************************************************************)
(* What instrumentation says is earned.                                    *)
(***************************************************************************)

(* The k-th role has a manifest to be read, with nothing but good rows.    *)
Wrapped(k) == k \in DOMAIN Terms.roles /\ Terms.roles[k].role \in WrapperRoles
ManifestOf(k) == Listed(Terms.roles[k].library)
RoleRows(k) == ReadFor(Terms.roles[k])
RoleFine(k) ==
  \/ Terms.roles[k].role = "infrastructure"
  \/ /\ Wrapped(k) /\ ManifestOf(k).is = "rows"
     /\ \A r \in ToSet(RoleRows(k)) : r.is = "api"

(* The rows of the first n roles, and where the table has them.            *)
RowsRead(n) == {p \in ClassifiedRows : p[1] <= n}
IsEntry(a, p) ==
  /\ table[a].library = Terms.roles[p[1]].library
  /\ table[a].role = Terms.roles[p[1]].role
  /\ table[a].usr = RoleRows(p[1])[p[2]].usr
  /\ table[a].source = RoleRows(p[1])[p[2]].source
EntryShape(a) ==
  table[a] = [library |-> table[a].library, role |-> table[a].role,
              usr |-> table[a].usr, source |-> table[a].source, fact |-> table[a].fact]
TablePlaced(at, n) ==
  /\ Enumerates(at, Len(table), RowsRead(n))
  /\ \A a \in 1 .. Len(table) : IsEntry(a, at[a])
TableHolds(n) ==
  /\ IsList(table) /\ Len(table) <= TableCapacity
  /\ \A a \in 1 .. Len(table) : EntryShape(a)
  /\ \A k \in 1 .. n : RoleFine(k)
  /\ \E at : TablePlaced(at, n)

TermsPlain == Terms.is = "valid" /\ TermsTyped(workspace)

LEMMA TermLists ==
  ASSUME TermsPlain
  PROVE  /\ IsList(Terms.roles) /\ IsList(Terms.required)
         /\ DOMAIN Terms.roles = 1 .. Len(Terms.roles) /\ Len(Terms.roles) \in Nat
         /\ DOMAIN Terms.required = 1 .. Len(Terms.required)
         /\ Len(Terms.required) \in Nat
         /\ \A k : Wrapped(k) => k \in Nat \ {0} /\ k <= Len(Terms.roles)
         /\ \A k : Wrapped(k) /\ ManifestOf(k).is = "rows" =>
              /\ IsList(RoleRows(k)) /\ Len(RoleRows(k)) \in Nat
              /\ DOMAIN RoleRows(k) = 1 .. Len(RoleRows(k))
         /\ \A e \in DOMAIN Terms.required : Terms.required[e].is = "array" =>
              IsList(Terms.required[e].names)
         /\ Loads(workspace.source) => NoFact \notin workspace.source.facts
<1>1. /\ IsList(Terms.roles) /\ IsList(Terms.required)
      /\ \A r \in ToSet(Terms.roles) :
           r.role \in WrapperRoles /\ workspace.manifests[r.library].is = "rows" =>
             IsList(workspace.manifests[r.library].rows) /\ r.unread \in Nat
      /\ \A e \in ToSet(Terms.required) : e.is = "array" => IsList(e.names)
      /\ workspace.source.is = "facts" => NoFact \notin workspace.source.facts
  BY DEF TermsPlain, TermsTyped, Terms
<1>2. /\ DOMAIN Terms.roles = 1 .. Len(Terms.roles) /\ Len(Terms.roles) \in Nat
      /\ DOMAIN Terms.required = 1 .. Len(Terms.required) /\ Len(Terms.required) \in Nat
  BY <1>1 DEF IsList
<1>3. \A k : Wrapped(k) => k \in Nat \ {0} /\ k <= Len(Terms.roles)
  BY <1>2 DEF Wrapped
<1>4. \A k : Wrapped(k) /\ ManifestOf(k).is = "rows" => IsList(RoleRows(k))
  <2> SUFFICES ASSUME NEW k, Wrapped(k), ManifestOf(k).is = "rows" PROVE IsList(RoleRows(k))
    OBVIOUS
  <2>1. Terms.roles[k] \in ToSet(Terms.roles)
    BY DEF Wrapped, ToSet
  <2>2. IsList(ManifestOf(k).rows) /\ Terms.roles[k].unread \in Nat
    BY <1>1, <2>1 DEF Wrapped, ManifestOf, Listed
  <2>3. QED
    BY <2>2, DeliveredList DEF RoleRows, ReadFor, ManifestOf
<1>5. \A k : Wrapped(k) /\ ManifestOf(k).is = "rows" =>
        /\ Len(RoleRows(k)) \in Nat
        /\ DOMAIN RoleRows(k) = 1 .. Len(RoleRows(k))
  BY <1>4 DEF IsList
<1>6. \A e \in DOMAIN Terms.required : Terms.required[e].is = "array" =>
        IsList(Terms.required[e].names)
  BY <1>1 DEF ToSet
<1>7. QED
  BY <1>1, <1>2, <1>3, <1>4, <1>5, <1>6 DEF Loads

LEMMA ClassifiedRow ==
  ASSUME NEW p
  PROVE  p \in ClassifiedRows <=>
           \E k, i : Wrapped(k) /\ i \in DOMAIN RoleRows(k) /\ p = <<k, i>>
<1>1. ASSUME NEW k, NEW i, Wrapped(k), i \in DOMAIN RoleRows(k), p = <<k, i>>
      PROVE  p \in ClassifiedRows
  <2>1. k \in {n \in DOMAIN Terms.roles : Terms.roles[n].role \in WrapperRoles}
    BY <1>1 DEF Wrapped
  <2>2. p \in {<<k, h>> : h \in DOMAIN ReadFor(Terms.roles[k])}
    BY <1>1 DEF RoleRows
  <2>3. QED
    BY <2>1, <2>2 DEF ClassifiedRows
<1>2. ASSUME p \in ClassifiedRows
      PROVE  \E k, i : Wrapped(k) /\ i \in DOMAIN RoleRows(k) /\ p = <<k, i>>
  BY <1>2 DEF ClassifiedRows, Wrapped, RoleRows
<1>3. QED
  BY <1>1, <1>2

LEMMA ReadRow ==
  ASSUME NEW p, NEW n
  PROVE  p \in RowsRead(n) <=>
           \E k, i : /\ Wrapped(k) /\ k <= n
                     /\ i \in DOMAIN RoleRows(k) /\ p = <<k, i>>
BY ClassifiedRow DEF RowsRead

(* The rows of one role more.                                              *)
LEMMA RoleRowsNext ==
  ASSUME TermsPlain, NEW n \in Nat
  PROVE  /\ \A i : <<n + 1, i>> \notin RowsRead(n)
         /\ ~Wrapped(n + 1) => RowsRead(n + 1) = RowsRead(n)
         /\ Wrapped(n + 1) =>
              RowsRead(n + 1) =
                RowsRead(n) \cup {<<n + 1, i>> : i \in DOMAIN RoleRows(n + 1)}
<1>1. \A k : Wrapped(k) => k \in Nat
  BY TermLists
<1>2. ASSUME NEW i, <<n + 1, i>> \in RowsRead(n) PROVE FALSE
  <2>1. PICK k, j : k <= n /\ Wrapped(k) /\ <<n + 1, i>> = <<k, j>>
    BY <1>2, ReadRow
  <2>2. QED
    BY <1>1, <2>1
<1>3. ASSUME NEW p \in RowsRead(n) PROVE p \in RowsRead(n + 1)
  <2>1. PICK k, i : /\ Wrapped(k) /\ k <= n
                    /\ i \in DOMAIN RoleRows(k) /\ p = <<k, i>>
    BY ReadRow
  <2>2. k <= n + 1
    BY <1>1, <2>1
  <2>3. QED
    BY <2>1, <2>2, ReadRow
<1>4. ASSUME NEW p \in RowsRead(n + 1)
      PROVE  \/ p \in RowsRead(n)
             \/ /\ Wrapped(n + 1)
                /\ p \in {<<n + 1, i>> : i \in DOMAIN RoleRows(n + 1)}
  <2>1. PICK k, i : /\ Wrapped(k) /\ k <= n + 1
                    /\ i \in DOMAIN RoleRows(k) /\ p = <<k, i>>
    BY ReadRow
  <2>2. CASE k <= n
    BY <2>1, <2>2, ReadRow
  <2>3. CASE k = n + 1
    BY <2>1, <2>3
  <2>4. QED
    BY <1>1, <2>1, <2>2, <2>3
<1>5. ASSUME Wrapped(n + 1), NEW i \in DOMAIN RoleRows(n + 1)
      PROVE  <<n + 1, i>> \in RowsRead(n + 1)
  <2>1. n + 1 <= n + 1
    OBVIOUS
  <2>2. QED
    BY <1>5, <2>1, ReadRow
<1>6. QED
  BY <1>2, <1>3, <1>4, <1>5

(* What is said of a contract that stays stays true.                       *)
LEMMA TermsSame ==
  ASSUME UNCHANGED workspace
  PROVE  /\ Terms' = Terms /\ TermsPlain' = TermsPlain
         /\ InstrumentedWell' = InstrumentedWell
         /\ InstrumentedBadly' = InstrumentedBadly
         /\ \A k : /\ Wrapped(k)' = Wrapped(k) /\ ManifestOf(k)' = ManifestOf(k)
                   /\ RoleRows(k)' = RoleRows(k)
                   /\ RoleFine(k)' = RoleFine(k) /\ RowsRead(k)' = RowsRead(k)
         /\ \A api : Definitions(api)' = Definitions(api)
<1>1. Terms' = Terms /\ TermsPlain' = TermsPlain
  BY DEF Terms, TermsPlain, TermsTyped
<1>2. /\ \A r : Listed(r.library)' = Listed(r.library) /\ ReadFor(r)' = ReadFor(r)
      /\ \A k : /\ Wrapped(k)' = Wrapped(k) /\ ManifestOf(k)' = ManifestOf(k)
                /\ RoleRows(k)' = RoleRows(k)
  BY <1>1 DEF Wrapped, ManifestOf, RoleRows, ReadFor, Listed
<1>3. \A k : RoleFine(k)' = RoleFine(k)
  BY <1>1, <1>2 DEF RoleFine
<1>4. ClassifiedRows' = ClassifiedRows /\ ClassifiedApis' = ClassifiedApis
  BY <1>1, <1>2 DEF ClassifiedRows, ClassifiedApis
<1>5. \A k : RowsRead(k)' = RowsRead(k)
  BY <1>4 DEF RowsRead
<1>6. \A api : Definitions(api)' = Definitions(api)
  BY DEF Definitions
<1>7. \A usr : Demanded(usr)' = Demanded(usr)
  BY <1>1 DEF Demanded
<1>8. \A api, f : DoesItsPart(api, f)' = DoesItsPart(api, f)
  BY <1>7 DEF DoesItsPart
<1>9. WellClassified' = WellClassified
  BY <1>1, <1>2, <1>4 DEF WellClassified
<1>10. InstrumentedWell' = InstrumentedWell
  BY <1>1, <1>4, <1>6, <1>8, <1>9 DEF InstrumentedWell
<1>11. InstrumentedBadly' = InstrumentedBadly
  BY <1>1, <1>4, <1>6, <1>8, <1>9 DEF InstrumentedBadly
<1>12. QED
  BY <1>1, <1>2, <1>3, <1>5, <1>6, <1>10, <1>11

LEMMA TableSame ==
  ASSUME UNCHANGED <<workspace, table>>
  PROVE  \A n : TableHolds(n)' = TableHolds(n)
<1>1. \A a, p : IsEntry(a, p)' = IsEntry(a, p)
  BY TermsSame DEF IsEntry
<1>2. \A at, n : TablePlaced(at, n)' = TablePlaced(at, n)
  BY <1>1, TermsSame DEF TablePlaced
<1>3. \A a : EntryShape(a)' = EntryShape(a)
  BY DEF EntryShape
<1>4. QED
  BY <1>2, <1>3, TermsSame DEF TableHolds

(* A role that is no wrapper's adds nothing.                               *)
LEMMA RoleSkipped ==
  ASSUME TermsPlain, NEW n \in Nat, TableHolds(n), ~Wrapped(n + 1),
         Terms.roles[n + 1].role = "infrastructure"
  PROVE  TableHolds(n + 1)
<1>1. RowsRead(n + 1) = RowsRead(n)
  BY RoleRowsNext
<1>2. \E at : TablePlaced(at, n + 1)
  BY <1>1 DEF TableHolds, TablePlaced
<1>3. \A k \in 1 .. n + 1 : RoleFine(k)
  <2>1. \A k \in 1 .. n + 1 : k \in 1 .. n \/ k = n + 1
    OBVIOUS
  <2>2. QED
    BY <2>1 DEF TableHolds, RoleFine
<1>4. QED
  BY <1>2, <1>3 DEF TableHolds

(* A manifest that is whole is entered as a whole.                         *)
EnteredRow(n, a) ==
  \E i \in 1 .. Len(RoleRows(n)) :
    /\ i = a - Len(table) /\ ~(a <= Len(table))
    /\ table'[a] = [library |-> Terms.roles[n].library, role |-> Terms.roles[n].role,
                    usr |-> RoleRows(n)[i].usr,
                    source |-> RoleRows(n)[i].source, fact |-> NoFact]
LEMMA RowsEntered ==
  ASSUME TermsPlain, NEW n, NEW m, Wrapped(n), TableHolds(m), WholeManifest(Terms.roles[n]),
         table' = table \o TableRows(Terms.roles[n])
  PROVE  /\ RoleFine(n) /\ Len(table) \in Nat /\ Len(RoleRows(n)) \in Nat
         /\ IsList(table') /\ Len(table') = Len(table) + Len(RoleRows(n))
         /\ Len(table') <= TableCapacity
         /\ \A a \in 1 .. Len(table) : a <= Len(table) /\ table'[a] = table[a]
         /\ \A a \in 1 .. Len(table') : a \in 1 .. Len(table) \/ EnteredRow(n, a)
<1> DEFINE list == RoleRows(n)
           more == TableRows(Terms.roles[n])
           E(i) == [library |-> Terms.roles[n].library, role |-> Terms.roles[n].role,
                    usr |-> list[i].usr, source |-> list[i].source, fact |-> NoFact]
<1>1. ManifestOf(n).is = "rows" /\ GoodRows(list, TableCapacity - Len(table)) = Len(list)
  BY DEF WholeManifest, GoodEntries, ManifestOf, RoleRows
<1>2. IsList(list) /\ Len(list) \in Nat
  BY <1>1, TermLists
<1>3. IsList(table) /\ Len(table) \in Nat /\ Len(table) <= TableCapacity
      /\ TableCapacity \in Nat
  BY TableCapacityAssumption DEF TableHolds, IsList
<1>4. TableCapacity - Len(table) \in Nat
  BY <1>3
<1>5. (\A r \in ToSet(list) : r.is = "api") /\ Len(list) <= TableCapacity - Len(table)
  BY <1>1, <1>2, <1>4, AllGood
<1>6. RoleFine(n)
  BY <1>1, <1>5 DEF RoleFine
<1>7. more = [i \in 1 .. Len(list) |-> E(i)]
  <2>1. GoodEntries(Terms.roles[n]) = Len(list)
    BY DEF WholeManifest, RoleRows
  <2>2. QED
    BY <2>1 DEF TableRows, RoleRows
<1>8. PICK S : S = ToSet(table) \cup {E(i) : i \in 1 .. Len(list)}
  OBVIOUS
<1>9. table \in Seq(S) /\ more \in Seq(S) /\ Len(more) = Len(list)
  <2>1. table \in Seq(S)
    BY <1>3, <1>8 DEF IsList
  <2>2. more \in [1 .. Len(list) -> S]
    <3>1. \A i \in 1 .. Len(list) : E(i) \in S
      BY <1>8
    <3>2. QED
      BY <1>7, <3>1
  <2> HIDE DEF list, more, E
  <2>3. more \in Seq(S) /\ Len(more) = Len(list)
    BY <1>2, <2>2, ListMade
  <2>4. QED
    BY <2>1, <2>3
<1>10. \A i \in 1 .. Len(list) : more[i] = E(i)
  BY <1>7
<1> HIDE DEF list, more
<1>11. /\ table' \in Seq(S) /\ Len(table') = Len(table) + Len(list)
       /\ \A a \in 1 .. Len(table) : table'[a] = table[a]
       /\ \A i \in 1 .. Len(list) : table'[Len(table) + i] = more[i]
  <2>1. table' = table \o more
    BY DEF more
  <2>2. table' \in Seq(S) /\ Len(table') = Len(table) + Len(more)
    <3>1. table \in Seq(S) /\ more \in Seq(S)
      BY <1>9
    <3>2. table' \in Seq(S)
      BY <2>1, <3>1, ListsJoined
    <3>3. Len(table') = Len(table) + Len(more)
      BY <2>1, <3>1, ListsJoined
    <3>4. QED
      BY <3>2, <3>3
  <2>4. \A a \in 1 .. Len(table) : table'[a] = table[a]
    BY <1>9, <2>1, ListsJoined
  <2>5. ASSUME NEW i \in 1 .. Len(more) PROVE table'[Len(table) + i] = more[i]
    BY <1>9, <2>1, ListsJoined
  <2>6. QED
    BY <1>9, <2>2, <2>4, <2>5
<1>12. Len(table') <= TableCapacity
  BY <1>2, <1>3, <1>5, <1>11
<1>13. IsList(table')
  BY <1>11, ListOf
<1>14. ASSUME NEW a \in 1 .. Len(table'), a \notin 1 .. Len(table)
       PROVE  EnteredRow(n, a)
  <2>1. PICK i \in 1 .. Len(list) : i = a - Len(table) /\ Len(table) + i = a
    <3>1. /\ a - Len(table) \in 1 .. Len(list)
          /\ Len(table) + (a - Len(table)) = a
      BY <1>2, <1>3, <1>11, <1>14
    <3>2. QED
      BY <3>1
  <2>2. ~(a <= Len(table))
    BY <1>2, <1>3, <1>11, <1>14
  <2>3. table'[a] = E(i)
    BY <1>10, <1>11, <2>1
  <2>4. QED
    BY <2>1, <2>2, <2>3 DEF EnteredRow, list
<1>15. \A a \in 1 .. Len(table) : a <= Len(table)
  BY <1>3
<1>16. QED
  BY <1>2, <1>3, <1>6, <1>11, <1>12, <1>13, <1>14, <1>15 DEF list

(* With a role's manifest entered, the table has the rows of one role more.*)
LEMMA RoleLoaded ==
  ASSUME TermsPlain, NEW n \in Nat, NEW k, k = n + 1, Wrapped(k), TableHolds(n),
         WholeManifest(Terms.roles[k]), table' = table \o TableRows(Terms.roles[k]),
         UNCHANGED workspace
  PROVE  TableHolds(k)'
<1>1. PICK list, L : list = RoleRows(k) /\ L = Len(table)
  OBVIOUS
<1>2. /\ RoleFine(k) /\ L \in Nat /\ Len(list) \in Nat
      /\ IsList(table') /\ Len(table') = L + Len(list) /\ Len(table') <= TableCapacity
      /\ \A a \in 1 .. L : a <= L /\ table'[a] = table[a]
      /\ \A a \in 1 .. L + Len(list) : a \in 1 .. L \/ EnteredRow(k, a)
  BY <1>1, RowsEntered
<1>3. PICK at : TablePlaced(at, n)
  BY DEF TableHolds
<1>4. PICK to : to = Beyond(at, L, k, Len(list))
  OBVIOUS
<1>5. Enumerates(to, L + Len(list), RowsRead(k))
  <2>1. Enumerates(at, L, RowsRead(n))
    BY <1>1, <1>3 DEF TablePlaced
  <2>2. ManifestOf(k).is = "rows"
    BY DEF WholeManifest, ManifestOf
  <2>3. DOMAIN list = 1 .. Len(list)
    BY <1>1, <2>2, TermLists
  <2>4. /\ \A i : <<k, i>> \notin RowsRead(n)
        /\ RowsRead(k) = RowsRead(n) \cup {<<k, i>> : i \in DOMAIN list}
    BY <1>1, RoleRowsNext
  <2>5. RowsRead(k) = RowsRead(n) \cup {<<k, i>> : i \in 1 .. Len(list)}
    BY <2>3, <2>4
  <2>6. QED
    <3>1. L \in Nat /\ Len(list) \in Nat /\ \A i : <<k, i>> \notin RowsRead(n)
      BY <1>2, <2>4
    <3>2. Enumerates(Beyond(at, L, k, Len(list)), L + Len(list),
                     RowsRead(n) \cup {<<k, i>> : i \in 1 .. Len(list)})
      BY <2>1, <3>1, GoneBeyond
    <3>3. QED
      BY <1>4, <2>5, <3>2
<1>6. \A a \in 1 .. L + Len(list) : to[a] = IF a <= L THEN at[a] ELSE <<k, a - L>>
  BY <1>4 DEF Beyond
<1>7. \A a, p :
        /\ IsEntry(a, p)' <=>
             /\ table'[a].library = Terms.roles[p[1]].library
             /\ table'[a].role = Terms.roles[p[1]].role
             /\ table'[a].usr = RoleRows(p[1])[p[2]].usr
             /\ table'[a].source = RoleRows(p[1])[p[2]].source
        /\ IsEntry(a, p) <=>
             /\ table[a].library = Terms.roles[p[1]].library
             /\ table[a].role = Terms.roles[p[1]].role
             /\ table[a].usr = RoleRows(p[1])[p[2]].usr
             /\ table[a].source = RoleRows(p[1])[p[2]].source
  BY TermsSame DEF IsEntry
<1>8. ASSUME NEW a \in 1 .. L + Len(list)
      PROVE  IsEntry(a, to[a])' /\ EntryShape(a)'
  <2>1. CASE a \in 1 .. L
    <3>1. to[a] = at[a] /\ table'[a] = table[a] /\ IsEntry(a, at[a])
      BY <1>1, <1>2, <1>3, <1>6, <2>1 DEF TablePlaced
    <3>2. EntryShape(a)'
      BY <1>1, <2>1, <3>1 DEF TableHolds, EntryShape
    <3>3. /\ table'[a].library = Terms.roles[to[a][1]].library
          /\ table'[a].role = Terms.roles[to[a][1]].role
          /\ table'[a].usr = RoleRows(to[a][1])[to[a][2]].usr
          /\ table'[a].source = RoleRows(to[a][1])[to[a][2]].source
      BY <1>7, <3>1
    <3>4. IsEntry(a, to[a])'
      BY <1>7, <3>3
    <3>5. QED
      BY <3>2, <3>4
  <2>2. CASE EnteredRow(k, a)
    <3>1. PICK i \in 1 .. Len(list) :
            /\ i = a - L /\ ~(a <= L)
            /\ table'[a] = [library |-> Terms.roles[k].library,
                            role |-> Terms.roles[k].role, usr |-> list[i].usr,
                            source |-> list[i].source, fact |-> NoFact]
      BY <1>1, <2>2 DEF EnteredRow
    <3>2. to[a] = <<k, i>>
      BY <1>6, <3>1
    <3>3. to[a][1] = k /\ to[a][2] = i
      BY <3>2
    <3>4. /\ table'[a].library = Terms.roles[to[a][1]].library
          /\ table'[a].role = Terms.roles[to[a][1]].role
          /\ table'[a].usr = RoleRows(to[a][1])[to[a][2]].usr
          /\ table'[a].source = RoleRows(to[a][1])[to[a][2]].source
      <4>1. /\ table'[a].library = Terms.roles[k].library
            /\ table'[a].role = Terms.roles[k].role
            /\ table'[a].usr = RoleRows(k)[i].usr
            /\ table'[a].source = RoleRows(k)[i].source
        BY <1>1, <3>1
      <4>2. QED
        BY <3>3, <4>1
    <3>5. IsEntry(a, to[a])'
      BY <1>7, <3>4
    <3>6. EntryShape(a)'
      BY <3>1 DEF EntryShape
    <3>7. QED
      BY <3>5, <3>6
  <2>3. QED
    BY <1>2, <2>1, <2>2
<1>9. TablePlaced(to, k)'
  <2>1. RowsRead(k)' = RowsRead(k)
    BY TermsSame
  <2>2. \A a \in 1 .. L + Len(list) : IsEntry(a, to[a])'
    BY <1>8
  <2>3. QED
    BY <1>2, <1>5, <2>1, <2>2 DEF TablePlaced
<1>10. \A j \in 1 .. k : RoleFine(j)
  <2>1. \A j \in 1 .. k : j \in 1 .. n \/ j = k
    OBVIOUS
  <2>2. QED
    BY <1>2, <2>1 DEF TableHolds
<1>11. (\A a \in 1 .. L + Len(list) : EntryShape(a)') /\ \A j \in 1 .. k : RoleFine(j)'
  BY <1>8, <1>10, TermsSame
<1>12. QED
  BY <1>2, <1>9, <1>11 DEF TableHolds

(* The rows of all roles, when each manifest can be read.                  *)
RowsListed == \A k : Wrapped(k) => ManifestOf(k).is = "rows"
LEMMA ClassifiedFinite ==
  ASSUME TermsPlain, RowsListed
  PROVE  /\ IsFiniteSet(ClassifiedRows)
         /\ RowsRead(Len(Terms.roles)) = ClassifiedRows
<1>1. PICK K : K = {k \in 1 .. Len(Terms.roles) : Wrapped(k)}
  OBVIOUS
<1>2. K \in SUBSET (1 .. Len(Terms.roles)) /\ Len(Terms.roles) \in Nat
  BY <1>1, TermLists
<1>3. \A k : Wrapped(k) <=> k \in K
  BY <1>1, TermLists DEF Wrapped
<1>4. PICK len : len = [k \in K |-> Len(RoleRows(k))]
  OBVIOUS
<1>5. \A k \in K : /\ len[k] \in Nat /\ len[k] = Len(RoleRows(k))
                   /\ DOMAIN RoleRows(k) = 1 .. len[k]
  BY <1>3, <1>4, TermLists DEF RowsListed
<1>6. len \in [K -> Nat]
  BY <1>4, <1>5
<1>7. \A p : p \in ClassifiedRows <=>
        p \in UNION {{<<k, i>> : i \in 1 .. len[k]} : k \in K}
  <2>1. ASSUME NEW p \in ClassifiedRows
        PROVE  p \in UNION {{<<k, i>> : i \in 1 .. len[k]} : k \in K}
    <3>1. PICK k, i : Wrapped(k) /\ i \in DOMAIN RoleRows(k) /\ p = <<k, i>>
      BY ClassifiedRow
    <3>2. k \in K /\ i \in 1 .. len[k]
      BY <1>3, <1>5, <3>1
    <3>3. QED
      BY <3>1, <3>2
  <2>2. ASSUME NEW k \in K, NEW i \in 1 .. len[k] PROVE <<k, i>> \in ClassifiedRows
    BY <1>3, <1>5, ClassifiedRow
  <2>3. QED
    BY <2>1, <2>2
<1>8. ClassifiedRows = UNION {{<<k, i>> : i \in 1 .. len[k]} : k \in K}
  BY <1>7
<1>9. IsFiniteSet(ClassifiedRows)
  BY <1>2, <1>6, <1>8, RowsFinite
<1>10. \A p \in ClassifiedRows : p \in RowsRead(Len(Terms.roles))
  <2> SUFFICES ASSUME NEW p \in ClassifiedRows PROVE p \in RowsRead(Len(Terms.roles))
    OBVIOUS
  <2>1. PICK k, i : Wrapped(k) /\ i \in DOMAIN RoleRows(k) /\ p = <<k, i>>
    BY ClassifiedRow
  <2>2. k <= Len(Terms.roles)
    BY <2>1, TermLists
  <2>3. QED
    BY <2>1, <2>2, ReadRow
<1>11. QED
  BY <1>9, <1>10 DEF RowsRead

(* A manifest that is not whole is one of the faults.                      *)
LEMMA RoleFault ==
  ASSUME TermsPlain, NEW n \in Nat, NEW k, k = n + 1, Wrapped(k), TableHolds(n),
         ~WholeManifest(Terms.roles[k])
  PROVE  InstrumentedBadly
<1> SUFFICES ASSUME ~InstrumentedBadly PROVE FALSE
  OBVIOUS
<1>1. WellClassified /\ ~(Cardinality(ClassifiedRows) > TableCapacity)
  BY DEF InstrumentedBadly
<1>2. \A j : Wrapped(j) => ManifestOf(j).is = "rows"
                           /\ \A a \in ToSet(RoleRows(j)) : a.is = "api"
  <2> SUFFICES ASSUME NEW j, Wrapped(j)
               PROVE  /\ ManifestOf(j).is = "rows"
                      /\ \A a \in ToSet(RoleRows(j)) : a.is = "api"
    OBVIOUS
  <2>1. Terms.roles[j] \in ToSet(Terms.roles) /\ Terms.roles[j].role # "infrastructure"
    BY DEF Wrapped, WrapperRoles, ToSet
  <2>2. QED
    BY <1>1, <2>1, Zenon DEF WellClassified, ManifestOf, RoleRows, Wrapped
<1>3. IsFiniteSet(ClassifiedRows)
  BY <1>2, ClassifiedFinite DEF RowsListed
<1>4. PICK list, L : list = RoleRows(k) /\ L = Len(table)
  OBVIOUS
<1>5. IsList(list) /\ Len(list) \in Nat /\ DOMAIN list = 1 .. Len(list)
  BY <1>2, <1>4, TermLists
<1>6. L \in Nat /\ L <= TableCapacity /\ TableCapacity \in Nat
  BY <1>4, TableCapacityAssumption DEF TableHolds, IsList
<1>7. TableCapacity - L \in Nat
  BY <1>6
<1>8. ~(GoodRows(list, TableCapacity - L) = Len(list))
  BY <1>2, <1>4 DEF WholeManifest, GoodEntries, ManifestOf, RoleRows
<1>9. ~(Len(list) <= TableCapacity - L)
  BY <1>2, <1>4, <1>5, <1>7, <1>8, AllGood
<1>10. PICK at : TablePlaced(at, n)
  BY DEF TableHolds
<1>11. PICK to, T : to = Beyond(at, L, k, Len(list)) /\ T = L + Len(list)
  OBVIOUS
<1>12. Enumerates(to, T, RowsRead(k))
  <2>1. Enumerates(at, L, RowsRead(n))
    BY <1>4, <1>10 DEF TablePlaced
  <2>2. /\ \A i : <<k, i>> \notin RowsRead(n)
        /\ RowsRead(k) = RowsRead(n) \cup {<<k, i>> : i \in DOMAIN list}
    BY <1>4, RoleRowsNext
  <2>3. RowsRead(k) = RowsRead(n) \cup {<<k, i>> : i \in 1 .. Len(list)}
    BY <1>5, <2>2
  <2>4. QED
    BY <1>5, <1>6, <1>11, <2>1, <2>2, <2>3, GoneBeyond
<1>13. IsFiniteSet(RowsRead(k)) /\ Cardinality(RowsRead(k)) <= Cardinality(ClassifiedRows)
  <2>1. RowsRead(k) \in SUBSET ClassifiedRows
    BY DEF RowsRead
  <2>2. QED
    BY <1>3, <2>1, FS_Subset
<1>14. T \in Nat /\ T > TableCapacity
  BY <1>5, <1>6, <1>9, <1>11
<1>15. T <= Cardinality(RowsRead(k)) /\ Cardinality(RowsRead(k)) \in Nat
  BY <1>12, <1>13, <1>14, RoomFor DEF Enumerates
<1>16. Cardinality(ClassifiedRows) \in Nat
  BY <1>3, FS_CardinalityType
<1>17. QED
  BY <1>1, <1>6, <1>13, <1>14, <1>15, <1>16

(* Each entry has a definition of its API, if there is one.                *)
FactOf(a) ==
  IF table[a].fact = NoFact THEN Definitions(table[a]) = {}
  ELSE table[a].fact \in Definitions(table[a])
FactsAssigned == Unambiguous(table) /\ \A a \in 1 .. Len(table) : FactOf(a)

LEMMA FactsSame ==
  ASSUME UNCHANGED <<workspace, table>>
  PROVE  FactsAssigned' = FactsAssigned
<1>1. \A a : FactOf(a)' = FactOf(a)
  BY TermsSame DEF FactOf
<1>2. QED
  BY <1>1 DEF FactsAssigned, Unambiguous

LEMMA FactsGiven ==
  ASSUME TermsPlain, NEW n, TableHolds(n), Loads(workspace.source), Unambiguous(table),
         UNCHANGED workspace,
         NEW f \in [DOMAIN table -> workspace.source.facts \cup {NoFact}],
         \A i \in DOMAIN table :
           LET all == Definitions(table[i]) IN
           IF all = {} THEN f[i] = NoFact ELSE f[i] \in all,
         table' = [i \in DOMAIN table |-> [table[i] EXCEPT !.fact = f[i]]]
  PROVE  TableHolds(n)' /\ FactsAssigned'
<1>1. PICK L : L = Len(table)
  OBVIOUS
<1>2. IsList(table) /\ L \in Nat /\ DOMAIN table = 1 .. L
  BY <1>1 DEF TableHolds, IsList
<1>3. \A a \in 1 .. L : table'[a] = [table[a] EXCEPT !.fact = f[a]]
  BY <1>2
<1>4. \A a \in 1 .. L :
        table'[a] = [library |-> table[a].library, role |-> table[a].role,
                     usr |-> table[a].usr, source |-> table[a].source, fact |-> f[a]]
  <2> SUFFICES ASSUME NEW a \in 1 .. L
      PROVE table'[a] = [library |-> table[a].library, role |-> table[a].role,
                     usr |-> table[a].usr, source |-> table[a].source, fact |-> f[a]]
    OBVIOUS
  <2>1. table[a] = [library |-> table[a].library, role |-> table[a].role,
              usr |-> table[a].usr, source |-> table[a].source, fact |-> table[a].fact]
    BY <1>1 DEF TableHolds, EntryShape
  <2>2. PICK l, r, u, s, g :
          /\ table[a] = [library |-> l, role |-> r, usr |-> u, source |-> s, fact |-> g]
          /\ l = table[a].library /\ r = table[a].role /\ u = table[a].usr
          /\ s = table[a].source
    BY <2>1
  <2>3. [table[a] EXCEPT !.fact = f[a]] =
          [library |-> l, role |-> r, usr |-> u, source |-> s, fact |-> f[a]]
    BY <2>2
  <2>4. QED
    BY <1>3, <2>2, <2>3
<1>5. \A a \in 1 .. L :
        /\ table'[a].library = table[a].library /\ table'[a].role = table[a].role
        /\ table'[a].usr = table[a].usr /\ table'[a].source = table[a].source
        /\ table'[a].fact = f[a] /\ EntryShape(a)'
  <2> SUFFICES ASSUME NEW a \in 1 .. L
      PROVE /\ table'[a].library = table[a].library /\ table'[a].role = table[a].role
            /\ table'[a].usr = table[a].usr /\ table'[a].source = table[a].source
            /\ table'[a].fact = f[a] /\ EntryShape(a)'
    OBVIOUS
  <2>0. PICK l, r, u, s, g : /\ l = table[a].library /\ r = table[a].role
                             /\ u = table[a].usr /\ s = table[a].source /\ g = f[a]
    OBVIOUS
  <2>1. table'[a] = [library |-> l, role |-> r, usr |-> u, source |-> s, fact |-> g]
    BY <1>4, <2>0
  <2>2. /\ table'[a].library = l /\ table'[a].role = r /\ table'[a].usr = u
        /\ table'[a].source = s /\ table'[a].fact = g
    BY <2>1
  <2>3. EntryShape(a)'
    BY <2>1, <2>2 DEF EntryShape
  <2>4. QED
    BY <2>0, <2>2, <2>3
<1>6. IsList(table') /\ Len(table') = L
  <2>1. PICK S : S = {table'[a] : a \in 1 .. L}
    OBVIOUS
  <2>2. PICK t : t = table'
    OBVIOUS
  <2>3. t \in [1 .. L -> S]
    <3>1. t = [a \in 1 .. L |-> t[a]] /\ \A a \in 1 .. L : t[a] \in S
      BY <1>2, <2>1, <2>2
    <3>2. QED
      BY <3>1, Zenon
  <2>4. t \in Seq(S) /\ Len(t) = L
    BY <1>2, <2>3, ListMade
  <2>5. QED
    BY <2>2, <2>4, ListOf
<1>7. \A a \in 1 .. L : FactOf(a)'
  <2> SUFFICES ASSUME NEW a \in 1 .. L PROVE FactOf(a)'
    OBVIOUS
  <2>1. PICK old, new : old = table[a] /\ new = table'[a]
    OBVIOUS
  <2>2. Definitions(new)' = Definitions(old)
    <3>1. Definitions(new)' = Definitions(new)
      BY TermsSame
    <3>2. Definitions(new) = Definitions(old)
      BY <1>5, <2>1 DEF Definitions
    <3>3. QED
      BY <3>1, <3>2
  <2>3. IF Definitions(old) = {} THEN f[a] = NoFact ELSE f[a] \in Definitions(old)
    BY <1>2, <2>1
  <2>4. Definitions(old) \subseteq workspace.source.facts /\ NoFact \notin workspace.source.facts
    BY TermLists DEF Definitions
  <2>5. new.fact = f[a]
    BY <1>5, <2>1
  <2>6. IF new.fact = NoFact THEN Definitions(new)' = {} ELSE new.fact \in Definitions(new)'
    BY <2>2, <2>3, <2>4, <2>5
  <2>7. QED
    BY <2>1, <2>6 DEF FactOf
<1>8. Unambiguous(table)'
  <2>1. DOMAIN table' = 1 .. L
    BY <1>6 DEF IsList
  <2>2. ASSUME NEW i \in 1 .. L, NEW j \in 1 .. L, table'[i].usr = table'[j].usr
        PROVE  i = j
    <3>1. table[i].usr = table[j].usr
      BY <1>5, <2>2
    <3>2. QED
      BY <1>2, <3>1 DEF Unambiguous
  <2>3. QED
    BY <2>1, <2>2 DEF Unambiguous
<1>9. \E at : TablePlaced(at, n)'
  <2>1. PICK at : TablePlaced(at, n)
    BY DEF TableHolds
  <2>2. \A a \in 1 .. L : IsEntry(a, at[a])'
    BY <1>1, <1>5, <2>1, TermsSame DEF TablePlaced, IsEntry
  <2>3. Enumerates(at, L, RowsRead(n)')
    BY <1>1, <2>1, TermsSame DEF TablePlaced
  <2>4. QED
    BY <1>6, <2>2, <2>3 DEF TablePlaced
<1>10. L <= TableCapacity /\ \A k \in 1 .. n : RoleFine(k)'
  BY <1>1, TermsSame DEF TableHolds
<1>11. QED
  BY <1>5, <1>6, <1>7, <1>8, <1>9, <1>10 DEF TableHolds, FactsAssigned

(* The table has the APIs that the contract classifies, and no others.     *)
IsOf(a, api) ==
  table[a].role = api.role /\ table[a].usr = api.usr /\ table[a].source = api.source
AllRead == TermsPlain /\ TableHolds(Len(Terms.roles))
LEMMA RolesFine ==
  ASSUME AllRead
  PROVE  /\ RowsListed /\ \A r \in ToSet(Terms.roles) :
              \/ r.role = "infrastructure"
              \/ /\ r.role \in WrapperRoles /\ Listed(r.library).is = "rows"
                 /\ \A a \in ToSet(ReadFor(r)) : a.is = "api"
<1>1. DOMAIN Terms.roles = 1 .. Len(Terms.roles)
  BY TermLists DEF AllRead
<1>2. \A k \in DOMAIN Terms.roles : RoleFine(k)
  BY <1>1 DEF AllRead, TableHolds
<1>3. RowsListed
  BY <1>2 DEF RowsListed, RoleFine, Wrapped, WrapperRoles
<1>4. QED
  <2> SUFFICES ASSUME NEW r \in ToSet(Terms.roles), r.role # "infrastructure"
               PROVE  /\ r.role \in WrapperRoles /\ Listed(r.library).is = "rows"
                      /\ \A a \in ToSet(ReadFor(r)) : a.is = "api"
    BY <1>3
  <2>1. PICK k \in DOMAIN Terms.roles : r = Terms.roles[k]
    BY Zenon DEF ToSet
  <2>2. Wrapped(k) /\ ManifestOf(k).is = "rows" /\ \A a \in ToSet(RoleRows(k)) : a.is = "api"
    BY <1>2, <2>1 DEF RoleFine
  <2>3. QED
    BY <2>1, <2>2 DEF Wrapped, ManifestOf, RoleRows

LEMMA ClassifiedApi ==
  ASSUME NEW k, NEW i, Wrapped(k), i \in DOMAIN RoleRows(k)
  PROVE  [library |-> Terms.roles[k].library, role |-> Terms.roles[k].role,
          usr |-> RoleRows(k)[i].usr, source |-> RoleRows(k)[i].source]
            \in ClassifiedApis
<1>1. PICK r, row : r = Terms.roles[k] /\ row = RoleRows(k)[i]
  OBVIOUS
<1>2. r \in {q \in ToSet(Terms.roles) : q.role \in WrapperRoles}
  BY <1>1 DEF Wrapped, ToSet
<1>3. row \in ToSet(ReadFor(r))
  BY <1>1 DEF RoleRows, ToSet
<1>4. QED
  BY <1>1, <1>2, <1>3 DEF ClassifiedApis

LEMMA ApiOfEntry ==
  ASSUME AllRead, NEW a \in 1 .. Len(table)
  PROVE  \E api \in ClassifiedApis :
           IsOf(a, api) /\ Definitions(api) = Definitions(table[a])
<1>1. PICK at : TablePlaced(at, Len(Terms.roles))
  BY DEF AllRead, TableHolds
<1>2. at[a] \in ClassifiedRows /\ IsEntry(a, at[a])
  BY <1>1 DEF TablePlaced, Enumerates, RowsRead
<1>3. PICK k, i : Wrapped(k) /\ i \in DOMAIN RoleRows(k) /\ at[a] = <<k, i>>
  BY <1>2, ClassifiedRow
<1>4. at[a][1] = k /\ at[a][2] = i
  BY <1>3
<1>5. PICK api \in ClassifiedApis :
        api = [library |-> Terms.roles[k].library, role |-> Terms.roles[k].role,
               usr |-> RoleRows(k)[i].usr, source |-> RoleRows(k)[i].source]
  BY <1>3, ClassifiedApi
<1>6. IsOf(a, api)
  BY <1>2, <1>4, <1>5 DEF IsEntry, IsOf
<1>7. Definitions(api) = Definitions(table[a])
  BY <1>6 DEF IsOf, Definitions
<1>8. QED
  BY <1>6, <1>7

LEMMA EntryOfApi ==
  ASSUME AllRead, NEW api \in ClassifiedApis
  PROVE  \E a \in 1 .. Len(table) :
           IsOf(a, api) /\ Definitions(api) = Definitions(table[a])
<1>1. PICK r, row :
        /\ r \in ToSet(Terms.roles) /\ row \in ToSet(ReadFor(r))
        /\ r.role \in WrapperRoles
        /\ api = [library |-> r.library, role |-> r.role, usr |-> row.usr,
                  source |-> row.source]
  BY DEF ClassifiedApis
<1>2. PICK k \in DOMAIN Terms.roles : r = Terms.roles[k]
  BY <1>1 DEF ToSet
<1>3. Wrapped(k) /\ RoleRows(k) = ReadFor(r)
  BY <1>1, <1>2 DEF Wrapped, RoleRows
<1>4. PICK i \in DOMAIN RoleRows(k) : row = RoleRows(k)[i]
  BY <1>1, <1>3 DEF ToSet
<1>5. <<k, i>> \in RowsRead(Len(Terms.roles))
  BY <1>3, <1>4, ClassifiedRow, ClassifiedFinite, RolesFine DEF AllRead
<1>6. PICK at : TablePlaced(at, Len(Terms.roles))
  BY DEF AllRead, TableHolds
<1>7. PICK a \in 1 .. Len(table) : at[a] = <<k, i>>
  BY <1>5, <1>6 DEF TablePlaced, Enumerates
<1>8. IsEntry(a, <<k, i>>)
  BY <1>6, <1>7 DEF TablePlaced
<1>9. /\ table[a].role = Terms.roles[k].role
      /\ table[a].usr = RoleRows(k)[i].usr
      /\ table[a].source = RoleRows(k)[i].source
  BY <1>8 DEF IsEntry
<1>10. IsOf(a, api)
  BY <1>1, <1>2, <1>4, <1>9 DEF IsOf
<1>11. Definitions(api) = Definitions(table[a])
  BY <1>10 DEF IsOf, Definitions
<1>12. QED
  BY <1>10, <1>11

(* An entry that is without a definition, untraced or without a fault      *)
(* point is one of the faults.                                             *)
EntryWell(a) ==
  table[a].fact # NoFact /\ ~Untraced(table[a]) /\ ~Faultless(table[a])
LEMMA EntryFault ==
  ASSUME AllRead, FactsAssigned, NEW a \in 1 .. Len(table), ~EntryWell(a)
  PROVE  InstrumentedBadly
<1>1. PICK api \in ClassifiedApis :
        IsOf(a, api) /\ Definitions(api) = Definitions(table[a])
  BY ApiOfEntry
<1>2. FactOf(a)
  BY DEF FactsAssigned
<1>3. CASE table[a].fact = NoFact
  BY <1>1, <1>2, <1>3 DEF FactOf, InstrumentedBadly
<1>4. CASE table[a].fact # NoFact
  <2>1. PICK f : f = table[a].fact
    OBVIOUS
  <2>2. f \in Definitions(api) /\ Can(table[a]) = f.can
    BY <1>1, <1>2, <1>4, <2>1 DEF FactOf, Can
  <2>3. \/ f.env /\ ~({"trace_entry", "trace_exit"} \subseteq f.can)
        \/ api.role = "native-wrapper" /\ f.error /\ "fault" \notin f.can
    BY <1>1, <1>4, <2>1, <2>2 DEF EntryWell, Untraced, Faultless, IsOf
  <2>4. ~DoesItsPart(api, f)
    BY <2>3 DEF DoesItsPart
  <2>5. QED
    BY <1>1, <2>2, <2>4 DEF InstrumentedBadly
<1>5. QED
  BY <1>3, <1>4

(* One finding for each of some places: there is none where there are no   *)
(* places.                                                                 *)
LEMMA NoneFor ==
  ASSUME NEW places, IsFiniteSet(places), NEW finding
  PROVE  /\ IsList(ForEach(places, finding))
         /\ ForEach(places, finding) = <<>> <=> places = {}
<1>1. Cardinality(places) \in Nat /\ (Cardinality(places) = 0 <=> places = {})
  BY FS_CardinalityType, FS_EmptySet
<1>2. PICK s : s = ForEach(places, finding)
  OBVIOUS
<1>3. s = [k \in 1 .. Cardinality(places) |-> s[k]]
  BY <1>2, Zenon DEF ForEach
<1>4. QED
  BY <1>1, <1>2, <1>3, ListFrom

LEMMA LackingNone ==
  ASSUME NEW api, NEW names, IsList(names)
  PROVE  /\ IsList(Lacking(api, names))
         /\ Lacking(api, names) = <<>> <=> ToSet(names) \subseteq Capabilities \cap Can(api)
<1>1. PICK lacking :
        lacking = {n \in DOMAIN names : names[n] \notin Capabilities \cap Can(api)}
  OBVIOUS
<1>2. PICK finding :
        finding = [n \in lacking |->
          Finding(IF names[n] \in Capabilities THEN "lacks" ELSE "capability", api.usr)]
  OBVIOUS
<1>3. Lacking(api, names) = ForEach(lacking, finding)
  BY <1>1, <1>2 DEF Lacking
<1>4. IsFiniteSet(lacking)
  <2>1. DOMAIN names = 1 .. Len(names) /\ Len(names) \in Nat
    BY DEF IsList
  <2>2. IsFiniteSet(DOMAIN names) /\ lacking \in SUBSET DOMAIN names
    BY <1>1, <2>1, CountUpTo
  <2>3. QED
    BY <2>2, FS_Subset
<1>5. lacking = {} <=> ToSet(names) \subseteq Capabilities \cap Can(api)
  BY <1>1 DEF ToSet
<1>6. QED
  BY <1>3, <1>4, <1>5, NoneFor

(* What is asked of an API is asked of its one entry.                      *)
LEMMA DemandOf ==
  ASSUME IsList(table), Unambiguous(table), NEW entry, entry.is = "array",
         NEW a \in 1 .. Len(table), table[a].usr = entry.usr
  PROVE  Demand(entry) = If(table[a].role # "native-wrapper",
                            Finding("no-wrapper", entry.usr))
                         \o Lacking(table[a], entry.names)
<1> DEFINE found == {b \in ToSet(table) : b.usr = entry.usr}
<1>1. DOMAIN table = 1 .. Len(table)
  BY DEF IsList
<1>2. ASSUME NEW b \in found PROVE b = table[a]
  <2>1. PICK i \in DOMAIN table : b = table[i]
    BY DEF ToSet
  <2>2. i = a
    BY <1>1, <2>1 DEF Unambiguous
  <2>3. QED
    BY <2>1, <2>2
<1>3. table[a] \in found
  BY <1>1 DEF ToSet
<1>4. (CHOOSE b \in found : TRUE) \in found
  BY <1>3
<1>5. found # {} /\ (CHOOSE b \in found : TRUE) = table[a]
  <2> HIDE DEF found
  <2>1. QED
    BY <1>2, <1>3, <1>4
<1>6. Demand(entry) =
        LET api == CHOOSE b \in found : TRUE
        IN  CASE entry.is # "array" -> <<Finding("required", entry.usr)>>
              [] entry.is = "array" /\ found = {} -> <<Finding("absent", entry.usr)>>
              [] OTHER -> If(api.role # "native-wrapper", Finding("no-wrapper", entry.usr))
                          \o Lacking(api, entry.names)
  BY Zenon DEF Demand
<1> HIDE DEF found
<1>7. QED
  BY <1>5, <1>6

(* A demand that is met, of those that the contract makes.                 *)
DemandMet(d) ==
  /\ d.is = "array" /\ ToSet(d.names) \subseteq Capabilities
  /\ \E a \in 1 .. Len(table) :
       /\ table[a].usr = d.usr /\ table[a].role = "native-wrapper"
       /\ ToSet(d.names) \subseteq Can(table[a])
LEMMA OneFound ==
  ASSUME NEW f
  PROVE  IsList(<<f>>) /\ <<f>> # <<>>
<1>1. <<f>> \in Seq({f}) /\ <<f>> # <<>>
  OBVIOUS
<1>2. QED
  BY <1>1, ListOf

LEMMA DemandJudged ==
  ASSUME AllRead, FactsAssigned, NEW d, d \in ToSet(Terms.required)
  PROVE  /\ IsList(Demand(d))
         /\ Demand(d) = <<>> => DemandMet(d)
         /\ Demand(d) # <<>> => InstrumentedBadly
<1>1. CASE d.is # "array"
  <2>1. Demand(d) = <<Finding("required", d.usr)>>
    BY <1>1 DEF Demand
  <2>2. ~WellClassified
    BY <1>1 DEF WellClassified
  <2>3. QED
    BY <2>1, <2>2, OneFound DEF InstrumentedBadly
<1>2. CASE d.is = "array" /\ \A a \in 1 .. Len(table) : table[a].usr # d.usr
  <2>1. {a \in ToSet(table) : a.usr = d.usr} = {}
    BY <1>2 DEF AllRead, TableHolds, IsList, ToSet
  <2>2. Demand(d) = <<Finding("absent", d.usr)>>
    BY <1>2, <2>1 DEF Demand
  <2>3. ~(\E api \in ClassifiedApis : api.usr = d.usr)
    BY <1>2, EntryOfApi DEF IsOf
  <2>4. ~WellClassified
    BY <2>3 DEF WellClassified
  <2>5. QED
    BY <2>2, <2>4, OneFound DEF InstrumentedBadly
<1>3. CASE d.is = "array" /\ \E a \in 1 .. Len(table) : table[a].usr = d.usr
  <2>1. PICK a \in 1 .. Len(table) : table[a].usr = d.usr
    BY <1>3
  <2>2. IsList(d.names)
    BY <1>3 DEF AllRead, TermsPlain, TermsTyped, Terms
  <2>3. PICK first, rest : first = If(table[a].role # "native-wrapper",
                                      Finding("no-wrapper", d.usr))
                           /\ rest = Lacking(table[a], d.names)
    OBVIOUS
  <2>4. Demand(d) = first \o rest
    BY <1>3, <2>1, <2>3, DemandOf DEF AllRead, TableHolds, FactsAssigned
  <2>5. IsList(first) /\ (first = <<>> <=> ~(table[a].role # "native-wrapper"))
    BY <2>3, ListIf
  <2>6. IsList(rest) /\ (rest = <<>> <=> ToSet(d.names) \subseteq Capabilities \cap Can(table[a]))
    BY <2>2, <2>3, LackingNone
  <2>7. IsList(Demand(d)) /\ (Demand(d) = <<>> <=> first = <<>> /\ rest = <<>>)
    BY <2>4, <2>5, <2>6, ListJoined
  <2>8. Demand(d) = <<>> => DemandMet(d)
    BY <1>3, <2>1, <2>5, <2>6, <2>7 DEF DemandMet
  <2>9. ASSUME table[a].role # "native-wrapper" PROVE InstrumentedBadly
    <3> SUFFICES ASSUME WellClassified PROVE FALSE
      BY DEF InstrumentedBadly
    <3>1. PICK api \in ClassifiedApis : api.usr = d.usr /\ api.role = "native-wrapper"
      BY DEF WellClassified
    <3>2. PICK b \in 1 .. Len(table) : IsOf(b, api)
      BY EntryOfApi
    <3>3. a = b
      BY <2>1, <3>1, <3>2 DEF IsOf, FactsAssigned, Unambiguous, AllRead, TableHolds, IsList
    <3>4. QED
      BY <2>9, <3>1, <3>2, <3>3 DEF IsOf
  <2>10. ASSUME ~(ToSet(d.names) \subseteq Capabilities \cap Can(table[a]))
         PROVE  InstrumentedBadly
    <3>1. CASE ~(ToSet(d.names) \subseteq Capabilities)
      <4>1. ~WellClassified
        BY <3>1 DEF WellClassified
      <4>2. QED
        BY <4>1 DEF InstrumentedBadly
    <3>2. CASE ~(ToSet(d.names) \subseteq Can(table[a]))
      <4>1. PICK api \in ClassifiedApis :
              IsOf(a, api) /\ Definitions(api) = Definitions(table[a])
        BY ApiOfEntry
      <4>2. FactOf(a)
        BY DEF FactsAssigned
      <4>3. CASE table[a].fact = NoFact
        BY <4>1, <4>2, <4>3 DEF FactOf, InstrumentedBadly
      <4>4. CASE table[a].fact # NoFact
        <5>1. PICK f : f = table[a].fact
          OBVIOUS
        <5>2. f \in Definitions(api) /\ Can(table[a]) = f.can
          BY <4>1, <4>2, <4>4, <5>1 DEF FactOf, Can
        <5>3. ToSet(d.names) \subseteq Demanded(api.usr)
          <6>1. d \in {e \in ToSet(Terms.required) : e.usr = api.usr}
            BY <2>1, <4>1 DEF IsOf
          <6>2. QED
            BY <6>1 DEF Demanded
        <5>4. ~DoesItsPart(api, f)
          BY <3>2, <5>2, <5>3 DEF DoesItsPart
        <5>5. QED
          BY <5>2, <5>4 DEF InstrumentedBadly
      <4>5. QED
        BY <4>3, <4>4
    <3>3. QED
      BY <2>10, <3>1, <3>2
  <2>11. QED
    BY <2>5, <2>6, <2>7, <2>8, <2>9, <2>10
<1>4. QED
  BY <1>1, <1>2, <1>3

(* With every entry well and every demand met, all is as the contract says.*)
LEMMA NothingLacks ==
  ASSUME AllRead, FactsAssigned, \A a \in 1 .. Len(table) : EntryWell(a),
         \A d \in ToSet(Terms.required) : DemandMet(d)
  PROVE  InstrumentedWell
<1>1. ASSUME NEW d \in ToSet(Terms.required)
      PROVE  /\ d.is = "array" /\ ToSet(d.names) \subseteq Capabilities
             /\ \E api \in ClassifiedApis : api.usr = d.usr /\ api.role = "native-wrapper"
  <2>1. DemandMet(d)
    OBVIOUS
  <2>2. PICK a \in 1 .. Len(table) : table[a].usr = d.usr /\ table[a].role = "native-wrapper"
    BY <2>1 DEF DemandMet
  <2>3. PICK api \in ClassifiedApis : IsOf(a, api)
    BY ApiOfEntry
  <2>4. QED
    BY <2>1, <2>2, <2>3 DEF DemandMet, IsOf
<1>2. WellClassified
  BY <1>1, RolesFine DEF WellClassified
<1>3. ASSUME NEW api \in ClassifiedApis
      PROVE  \E f \in Definitions(api) : DoesItsPart(api, f)
  <2>1. PICK a \in 1 .. Len(table) :
          IsOf(a, api) /\ Definitions(api) = Definitions(table[a])
    BY EntryOfApi
  <2>2. FactOf(a) /\ EntryWell(a)
    BY DEF FactsAssigned
  <2>3. PICK f : f = table[a].fact
    OBVIOUS
  <2>4. f \in Definitions(api) /\ Can(table[a]) = f.can
    BY <2>1, <2>2, <2>3 DEF FactOf, EntryWell, Can
  <2>5. ASSUME NEW n \in Demanded(api.usr) PROVE n \in f.can
    <3>1. PICK d \in ToSet(Terms.required) : d.usr = api.usr /\ n \in ToSet(d.names)
      BY DEF Demanded
    <3>2. DemandMet(d)
      OBVIOUS
    <3>3. PICK b \in 1 .. Len(table) :
            table[b].usr = d.usr /\ ToSet(d.names) \subseteq Can(table[b])
      BY <3>2 DEF DemandMet
    <3>4. a = b
      BY <2>1, <3>1, <3>3 DEF IsOf, FactsAssigned, Unambiguous, AllRead, TableHolds, IsList
    <3>5. QED
      BY <2>4, <3>1, <3>3, <3>4
  <2>6. /\ f.env => {"trace_entry", "trace_exit"} \subseteq f.can
        /\ api.role = "native-wrapper" /\ f.error => "fault" \in f.can
    BY <2>1, <2>2, <2>3, <2>4 DEF EntryWell, Untraced, Faultless, IsOf
  <2>7. QED
    BY <2>4, <2>5, <2>6 DEF DoesItsPart
<1>4. QED
  BY <1>2, <1>3 DEF InstrumentedWell, AllRead, TermsPlain

InstrumentedAsked == options.policy = "instrumentation" /\ Acceptable(options)

(* As long as there is no error: what was found is a fault, and where      *)
(* nothing was found the table has the rows of the roles so far, with      *)
(* nothing amiss in the entries and the demands so far.                    *)
InstrumentedSoFar ==
  /\ IsList(findings)
  /\ findings # <<>> => InstrumentedBadly
  /\ stage \in {"arguments", "resolve", "instrumentation"} =>
       findings = <<>> /\ table = <<>> /\ position = 0
  /\ stage \in {"roles", "instrumented", "required"} => Terms.is = "valid"
  /\ stage = "required" => position \in Nat
  /\ findings = <<>> =>
       /\ stage = "roles" =>
            position \in 0 .. Len(Terms.roles) /\ TableHolds(position)
       /\ stage = "instrumented" =>
            /\ AllRead /\ FactsAssigned /\ position \in 0 .. Len(table)
            /\ \A a \in 1 .. position : EntryWell(a)
       /\ stage = "required" =>
            /\ AllRead /\ FactsAssigned /\ position \in 0 .. Len(Terms.required)
            /\ \A a \in 1 .. Len(table) : EntryWell(a)
            /\ \A e \in 1 .. position : DemandMet(Terms.required[e])
       /\ stage \in {"write", "written"} => InstrumentedWell

InstrumentedInv ==
  InstrumentedAsked =>
    /\ stage \in CommonStages \cup InstrumentationStages
    /\ TermsTyped(workspace)
    /\ stage \notin {"end", "ended"} /\ ~err => InstrumentedSoFar
    /\ stage \in {"end", "ended"} /\ (stage = "end" => ~err) /\ status # Trouble =>
         /\ (status = Success) <=> (findings = <<>>)
         /\ IF findings = <<>> THEN InstrumentedWell ELSE InstrumentedBadly

(* What was found stays found.                                             *)
LEMMA InstrumentedFault ==
  ASSUME InstrumentedBadly, IsList(findings'), findings' # <<>>, UNCHANGED workspace,
         stage' \notin {"arguments", "resolve", "instrumentation"},
         stage' \in {"roles", "instrumented", "required"} => Terms.is = "valid",
         stage' = "required" => position' \in Nat
  PROVE  InstrumentedSoFar'
BY TermsSame DEF InstrumentedSoFar

LEMMA InstrumentedKept ==
  ASSUME InstrumentedSoFar, findings # <<>>, err \in BOOLEAN, ~err', UNCHANGED workspace,
         \/ UNCHANGED findings
         \/ \E f : Add(f)
         \/ \E fs : IsList(fs) /\ AddAll(fs),
         stage' \notin {"arguments", "resolve", "instrumentation"},
         stage' \in {"roles", "instrumented", "required"} => Terms.is = "valid",
         stage' = "required" => position' \in Nat
  PROVE  InstrumentedSoFar'
<1>1. IsList(findings) /\ InstrumentedBadly
  BY DEF InstrumentedSoFar
<1>2. IsList(findings') /\ findings' # <<>>
  <2>1. CASE UNCHANGED findings
    BY <1>1, <2>1 DEF IsList
  <2>2. CASE \E f : Add(f)
    BY <1>1, <2>2, Found
  <2>3. CASE \E fs : IsList(fs) /\ AddAll(fs)
    BY <1>1, <2>3, FoundAll
  <2>4. QED
    BY <2>1, <2>2, <2>3
<1>3. QED
  BY <1>1, <1>2, InstrumentedFault

LEMMA InstrumentedStarts ==
  ASSUME InstrumentedSoFar, ~err', TermsRead, TermsTyped(workspace)
  PROVE  InstrumentedSoFar'
<1>1. /\ findings = <<>> /\ table = <<>> /\ table' = <<>> /\ position' = 0
      /\ UNCHANGED workspace /\ IsList(findings)
  BY DEF TermsRead, instrumentationVars, InstrumentedSoFar
<1>2. CASE Terms.is = "valid" /\ stage' = "roles" /\ UNCHANGED findings
  <2>1. TermsPlain
    BY <1>2 DEF TermsPlain
  <2>2. Len(table) = 0 /\ 1 .. Len(table) = {} /\ IsList(table)
    <3>1. <<>> \in Seq({}) /\ Len(<<>>) = 0
      OBVIOUS
    <3>2. IsList(<<>>)
      BY <3>1, ListOf
    <3>3. QED
      BY <1>1, <3>1, <3>2
  <2>3. RowsRead(0) = {}
    <3>1. \A k : ~(Wrapped(k) /\ k <= 0)
      BY <2>1, TermLists
    <3>2. QED
      BY <3>1, ReadRow
  <2>4. TablePlaced(<<>>, 0)
    <3>1. <<>> \in [1 .. Len(table) -> RowsRead(0)]
      BY <2>2
    <3>2. QED
      BY <2>2, <2>3, <3>1 DEF TablePlaced, Enumerates
  <2>5. TableHolds(0)
    BY <2>2, <2>4, TableCapacityAssumption DEF TableHolds
  <2>6. TableHolds(0)' /\ Terms' = Terms
    BY <1>1, <2>5, TableSame, TermsSame
  <2>7. Len(Terms.roles) \in Nat
    BY <2>1, TermLists
  <2>8. TableHolds(position)' /\ position' \in 0 .. Len(Terms.roles')
    BY <1>1, <2>6, <2>7
  <2>9. QED
    BY <1>1, <1>2, <2>6, <2>8 DEF InstrumentedSoFar
<1>3. CASE /\ Terms.is = "invalid" /\ Add(Finding("schema", "contract"))
           /\ stage' = "write"
  <2>1. InstrumentedBadly
    BY <1>3 DEF InstrumentedBadly
  <2>2. IsList(findings') /\ findings' # <<>>
    BY <1>1, <1>3, Found
  <2>3. QED
    BY <1>1, <1>3, <2>1, <2>2, InstrumentedFault
<1>4. QED
  BY <1>2, <1>3 DEF TermsRead, GiveUp

(* The next role.                                                          *)
LEMMA InstrumentedReads ==
  ASSUME InstrumentedSoFar, ErrInv, ~err', TermsTyped(workspace),
         SkipInfrastructure \/ UnknownRole \/ LoadManifest
  PROVE  InstrumentedSoFar'
<1>1. /\ stage = "roles" /\ stage' = "roles" /\ position' = position + 1
      /\ position < Len(Terms.roles) /\ UNCHANGED workspace /\ Terms.is = "valid"
      /\ err \in BOOLEAN /\ IsList(findings)
  BY DEF SkipInfrastructure, UnknownRole, LoadManifest, ReadingRoles, InstrumentedSoFar,
     ErrInv
<1>2. TermsPlain
  BY <1>1 DEF TermsPlain
<1>3. ~(\E f : AddAnyway(f))
  BY DEF AddAnyway, AddAmid
<1>4. \/ UNCHANGED findings
      \/ \E f : Add(f)
  BY <1>3 DEF SkipInfrastructure, UnknownRole, LoadManifest, resultVars
<1>5. CASE findings # <<>>
  BY <1>1, <1>4, <1>5, InstrumentedKept
<1>6. CASE findings = <<>>
  <2>1. PICK n, k : n = position /\ k = position + 1
    OBVIOUS
  <2>2. /\ n \in Nat /\ k = n + 1 /\ k \in 1 .. Len(Terms.roles)
        /\ k \in 0 .. Len(Terms.roles) /\ k \in DOMAIN Terms.roles
        /\ TableHolds(n) /\ Classified = Terms.roles[k]
    <3>1. position \in 0 .. Len(Terms.roles) /\ TableHolds(position)
      BY <1>1, <1>6 DEF InstrumentedSoFar
    <3>2. Len(Terms.roles) \in Nat /\ DOMAIN Terms.roles = 1 .. Len(Terms.roles)
      BY <1>2, TermLists
    <3>3. QED
      BY <1>1, <2>1, <3>1, <3>2 DEF Classified
  <2>3. ASSUME UNCHANGED findings, TableHolds(k)' PROVE InstrumentedSoFar'
    <3>1. Terms' = Terms /\ position' = k
      BY <1>1, <2>1, TermsSame
    <3>2. TableHolds(position)'
      BY <2>3, <3>1
    <3>3. QED
      BY <1>1, <1>6, <2>2, <2>3, <3>1, <3>2 DEF InstrumentedSoFar
  <2>4. ASSUME InstrumentedBadly, \E f : Add(f) PROVE InstrumentedSoFar'
    <3>1. IsList(findings') /\ findings' # <<>>
      BY <1>1, <2>4, Found
    <3>2. QED
      BY <1>1, <2>4, <3>1, InstrumentedFault
  <2>5. CASE SkipInfrastructure
    <3>1. Terms.roles[k].role = "infrastructure" /\ UNCHANGED <<findings, table>>
      BY <2>2, <2>5 DEF SkipInfrastructure, resultVars, instrumentationVars
    <3>2. ~Wrapped(k)
      BY <3>1 DEF Wrapped, WrapperRoles
    <3>3. TableHolds(k)
      BY <1>2, <2>2, <3>1, <3>2, RoleSkipped
    <3>4. TableHolds(k)'
      BY <1>1, <3>1, <3>3, TableSame
    <3>5. QED
      BY <2>3, <3>1, <3>4
  <2>6. CASE UnknownRole
    <3>1. Terms.roles[k].role \notin WrapperRoles \cup {"infrastructure"} /\ \E f : Add(f)
      BY <2>2, <2>6 DEF UnknownRole
    <3>2. ~WellClassified
      BY <2>2, <3>1 DEF WellClassified, ToSet
    <3>3. QED
      BY <2>4, <3>1, <3>2 DEF InstrumentedBadly
  <2>7. CASE LoadManifest
    <3>1. Wrapped(k) /\ table' = table \o TableRows(Terms.roles[k])
      BY <2>2, <2>7 DEF LoadManifest, Wrapped
    <3>2. \/ WholeManifest(Terms.roles[k]) /\ UNCHANGED findings
          \/ ~WholeManifest(Terms.roles[k]) /\ \E f : Add(f)
      BY <1>3, <2>2, <2>7 DEF LoadManifest
    <3>3. CASE WholeManifest(Terms.roles[k]) /\ UNCHANGED findings
      <4>1. TableHolds(k)'
        BY <1>1, <1>2, <2>2, <3>1, <3>3, RoleLoaded
      <4>2. QED
        BY <2>3, <3>3, <4>1
    <3>4. CASE ~WholeManifest(Terms.roles[k]) /\ \E f : Add(f)
      <4>1. InstrumentedBadly
        BY <1>2, <2>2, <3>1, <3>4, RoleFault
      <4>2. QED
        BY <2>4, <3>4, <4>1
    <3>5. QED
      BY <3>2, <3>3, <3>4
  <2>8. QED
    BY <2>5, <2>6, <2>7
<1>7. QED
  BY <1>5, <1>6

(* All roles are read, and the facts are given to the table.               *)
LEMMA InstrumentedAssigns ==
  ASSUME InstrumentedSoFar, ~err', TermsTyped(workspace), AssignFacts
  PROVE  InstrumentedSoFar'
<1>1. /\ stage = "roles" /\ position = Len(Terms.roles) /\ stage' = "instrumented"
      /\ position' = 0 /\ UNCHANGED <<workspace, findings>>
      /\ Loads(workspace.source) /\ Unambiguous(table)
      /\ IsList(findings) /\ Terms.is = "valid" /\ TermsPlain
  BY DEF AssignFacts, GiveUp, InstrumentedSoFar, TermsPlain
<1>2. CASE findings # <<>>
  <2>1. InstrumentedBadly /\ IsList(findings')
    BY <1>1, <1>2 DEF InstrumentedSoFar, IsList
  <2>2. QED
    BY <1>1, <1>2, <2>1, InstrumentedFault
<1>3. CASE findings = <<>>
  <2>1. PICK n : n = Len(Terms.roles)
    OBVIOUS
  <2>2. TableHolds(n)
    BY <1>1, <1>3, <2>1 DEF InstrumentedSoFar
  <2>3. PICK f \in {g \in [DOMAIN table -> workspace.source.facts \cup {NoFact}] :
                      \A i \in DOMAIN table :
                        LET all == Definitions(table[i]) IN
                        IF all = {} THEN g[i] = NoFact ELSE g[i] \in all} :
          table' = [i \in DOMAIN table |-> [table[i] EXCEPT !.fact = f[i]]]
    BY <1>1 DEF AssignFacts, GiveUp
  <2>4. TableHolds(n)' /\ FactsAssigned'
    BY <1>1, <2>2, <2>3, FactsGiven
  <2>5. AllRead'
    BY <1>1, <2>1, <2>4, TermsSame DEF AllRead
  <2>6. position' \in 0 .. Len(table')
    BY <1>1, <2>4 DEF TableHolds, IsList
  <2>7. \A a \in 1 .. position' : EntryWell(a)'
    BY <1>1
  <2>8. Terms' = Terms
    BY <1>1, TermsSame
  <2>9. QED
    BY <1>1, <1>3, <2>4, <2>5, <2>6, <2>7, <2>8 DEF InstrumentedSoFar
<1>4. QED
  BY <1>2, <1>3

LEMMA EntriesSame ==
  ASSUME UNCHANGED <<workspace, table>>
  PROVE  /\ AllRead' = AllRead /\ FactsAssigned' = FactsAssigned
         /\ \A a : EntryWell(a)' = EntryWell(a)
         /\ \A d : DemandMet(d)' = DemandMet(d)
<1>1. AllRead' = AllRead
  BY TableSame, TermsSame DEF AllRead
<1>2. \A a : EntryWell(a)' = EntryWell(a)
  BY DEF EntryWell, Untraced, Faultless, Can
<1>3. \A d : DemandMet(d)' = DemandMet(d)
  BY DEF DemandMet, Can
<1>4. QED
  BY <1>1, <1>2, <1>3, FactsSame

LEMMA InstrumentedJudges ==
  ASSUME InstrumentedSoFar, ErrInv, ~err', TermsTyped(workspace),
         JudgeInstrumented \/ InstrumentedEnds
  PROVE  InstrumentedSoFar'
<1>1. /\ stage = "instrumented" /\ stage' \in {"instrumented", "required"}
      /\ UNCHANGED <<workspace, table>> /\ err \in BOOLEAN
      /\ IsList(findings) /\ Terms.is = "valid" /\ TermsPlain
  BY DEF JudgeInstrumented, InstrumentedEnds, InstrumentedSoFar, ErrInv, TermsPlain,
     instrumentationVars
<1>2. Terms' = Terms
  BY <1>1, TermsSame
<1>3. CASE JudgeInstrumented
  <2>1. PICK q, api : q = position + 1 /\ api = table[q]
    OBVIOUS
  <2>2. PICK fs : fs = If(Untraced(api), Finding("trace", api.usr))
                       \o If(Faultless(api), Finding("fault", api.usr))
    OBVIOUS
  <2>3. /\ IsList(fs)
        /\ fs = <<>> <=> ~Untraced(api) /\ ~Faultless(api)
    <3>1. PICK s, t : /\ s = If(Untraced(api), Finding("trace", api.usr))
                      /\ t = If(Faultless(api), Finding("fault", api.usr))
      OBVIOUS
    <3>2. IsList(s) /\ (s = <<>> <=> ~Untraced(api))
      BY <3>1, ListIf
    <3>3. IsList(t) /\ (t = <<>> <=> ~Faultless(api))
      BY <3>1, ListIf
    <3>4. QED
      BY <2>2, <3>1, <3>2, <3>3, ListJoined
  <2>4. /\ \/ api.fact = NoFact /\ Add(Finding("undefined", api.usr))
           \/ api.fact # NoFact /\ AddAll(fs)
        /\ position < Len(table) /\ position' = q /\ stage' = "instrumented"
    BY <1>1, <1>3, <2>1, <2>2 DEF JudgeInstrumented
  <2>5. CASE findings # <<>>
    <3>1. (\E f : Add(f)) \/ \E gs : IsList(gs) /\ AddAll(gs)
      BY <2>3, <2>4
    <3>2. QED
      BY <1>1, <2>4, <2>5, <3>1, InstrumentedKept
  <2>6. CASE findings = <<>>
    <3>1. /\ AllRead /\ FactsAssigned /\ position \in 0 .. Len(table)
          /\ \A a \in 1 .. position : EntryWell(a)
      BY <1>1, <2>6 DEF InstrumentedSoFar
    <3>2. /\ q \in 1 .. Len(table) /\ q \in 0 .. Len(table)
          /\ \A a \in 1 .. q : a \in 1 .. position \/ a = q
      BY <2>1, <2>4, <3>1 DEF AllRead, TableHolds, IsList
    <3>3. CASE api.fact = NoFact /\ Add(Finding("undefined", api.usr))
      <4>1. InstrumentedBadly
        BY <2>1, <3>1, <3>2, <3>3, EntryFault DEF EntryWell
      <4>2. IsList(findings') /\ findings' # <<>>
        BY <1>1, <3>3, Found
      <4>3. QED
        BY <1>1, <2>4, <4>1, <4>2, InstrumentedFault
    <3>4. CASE api.fact # NoFact /\ AddAll(fs)
      <4>1. IsList(findings') /\ (findings' = <<>> <=> findings = <<>> /\ fs = <<>>)
        BY <1>1, <2>3, <3>4, FoundAll
      <4>2. CASE fs = <<>>
        <5>1. EntryWell(q)
          BY <2>1, <2>3, <3>4, <4>2 DEF EntryWell
        <5>2. \A a \in 1 .. q : EntryWell(a)'
          BY <1>1, <3>1, <3>2, <5>1, EntriesSame
        <5>3. AllRead' /\ FactsAssigned'
          BY <1>1, <3>1, EntriesSame
        <5>4. findings' = <<>>
          BY <2>6, <4>1, <4>2
        <5>5. QED
          BY <1>1, <1>2, <2>4, <3>2, <4>1, <5>2, <5>3, <5>4 DEF InstrumentedSoFar
      <4>3. CASE fs # <<>>
        <5>1. InstrumentedBadly
          BY <2>1, <2>3, <3>1, <3>2, <4>3, EntryFault DEF EntryWell
        <5>2. QED
          BY <1>1, <2>4, <4>1, <4>3, <5>1, InstrumentedFault
      <4>4. QED
        BY <4>2, <4>3
    <3>5. QED
      BY <2>4, <3>3, <3>4
  <2>7. QED
    BY <2>5, <2>6
<1>4. CASE InstrumentedEnds
  <2>1. /\ position = Len(table) /\ position' = 0 /\ stage' = "required"
        /\ UNCHANGED findings
    BY <1>4 DEF InstrumentedEnds, resultVars
  <2>2. CASE findings # <<>>
    BY <1>1, <2>1, <2>2, InstrumentedKept
  <2>3. CASE findings = <<>>
    <3>1. AllRead /\ FactsAssigned /\ \A a \in 1 .. Len(table) : EntryWell(a)
      BY <1>1, <2>1, <2>3 DEF InstrumentedSoFar
    <3>2. /\ AllRead' /\ FactsAssigned'
          /\ \A a \in 1 .. Len(table') : EntryWell(a)'
      BY <1>1, <3>1, EntriesSame
    <3>3. position' \in 0 .. Len(Terms'.required)
      <4>1. Len(Terms.required) \in Nat
        BY <1>1, TermLists
      <4>2. QED
        BY <1>2, <2>1, <4>1
    <3>4. \A e \in 1 .. position' : DemandMet(Terms.required[e])'
      BY <2>1
    <3>5. QED
      BY <1>1, <1>2, <2>1, <2>3, <3>2, <3>3, <3>4 DEF InstrumentedSoFar
  <2>4. QED
    BY <2>2, <2>3
<1>5. QED
  BY <1>3, <1>4

LEMMA DemandList ==
  ASSUME TermsPlain, NEW d \in ToSet(Terms.required)
  PROVE  IsList(Demand(d))
<1> DEFINE found == {a \in ToSet(table) : a.usr = d.usr}
           api == CHOOSE a \in found : TRUE
           first == If(api.role # "native-wrapper", Finding("no-wrapper", d.usr))
           rest == Lacking(api, d.names)
<1>1. \/ Demand(d) = <<Finding("required", d.usr)>>
      \/ Demand(d) = <<Finding("absent", d.usr)>>
      \/ d.is = "array" /\ Demand(d) = first \o rest
  <2> HIDE DEF rest, first
  <2>1. Demand(d) = CASE d.is # "array" -> <<Finding("required", d.usr)>>
                      [] d.is = "array" /\ found = {} -> <<Finding("absent", d.usr)>>
                      [] OTHER -> first \o rest
    BY Zenon DEF Demand, first, rest
  <2> HIDE DEF found
  <2>2. QED
    BY <2>1
<1>2. IsList(first)
  BY ListIf
<1>3. ASSUME d.is = "array" PROVE IsList(rest)
  <2>1. IsList(d.names)
    BY <1>3 DEF TermsPlain, TermsTyped, Terms
  <2> HIDE DEF api
  <2>2. QED
    BY <2>1, LackingNone
<1> HIDE DEF first, rest
<1>4. CASE d.is = "array" /\ Demand(d) = first \o rest
  <2>1. IsList(first) /\ IsList(rest)
    BY <1>2, <1>3, <1>4
  <2>2. IsList(first \o rest)
    BY <2>1, ListJoined
  <2>3. QED
    BY <1>4, <2>2
<1>5. QED
  BY <1>1, <1>4, OneFound

LEMMA InstrumentedAsks ==
  ASSUME InstrumentedSoFar, ErrInv, ~err', TermsTyped(workspace), ValidateRequired
  PROVE  InstrumentedSoFar'
<1>1. /\ stage = "required" /\ stage' = "required" /\ position' = position + 1
      /\ position < Len(Terms.required) /\ AddAll(Demand(Terms.required[position + 1]))
      /\ UNCHANGED <<workspace, table>> /\ err \in BOOLEAN
      /\ IsList(findings) /\ Terms.is = "valid" /\ TermsPlain
  BY DEF ValidateRequired, GiveUp, InstrumentedSoFar, ErrInv, TermsPlain,
     instrumentationVars
<1>2. Terms' = Terms
  BY <1>1, TermsSame
<1>3. PICK q, d : q = position + 1 /\ d = Terms.required[q]
  OBVIOUS
<1>4. /\ position \in Nat /\ d \in ToSet(Terms.required)
      /\ IsList(Demand(d)) /\ AddAll(Demand(d))
  <2>1. position \in Nat
    BY <1>1 DEF InstrumentedSoFar
  <2>2. /\ DOMAIN Terms.required = 1 .. Len(Terms.required)
        /\ Len(Terms.required) \in Nat
    BY <1>1, TermLists
  <2>3. q \in DOMAIN Terms.required
    BY <1>1, <1>3, <2>1, <2>2
  <2>4. d \in ToSet(Terms.required)
    BY <1>3, <2>3 DEF ToSet
  <2>5. QED
    BY <1>1, <1>3, <2>1, <2>4, DemandList
<1>5. CASE findings # <<>>
  <2>1. (\E fs : IsList(fs) /\ AddAll(fs)) /\ position' \in Nat
    BY <1>1, <1>4
  <2>2. QED
    BY <1>1, <1>5, <2>1, InstrumentedKept
<1>6. CASE findings = <<>>
  <2>1. /\ AllRead /\ FactsAssigned /\ position \in 0 .. Len(Terms.required)
        /\ \A a \in 1 .. Len(table) : EntryWell(a)
        /\ \A e \in 1 .. position : DemandMet(Terms.required[e])
    BY <1>1, <1>6 DEF InstrumentedSoFar
  <2>2. /\ Demand(d) = <<>> => DemandMet(d)
        /\ Demand(d) # <<>> => InstrumentedBadly
    BY <1>4, <2>1, DemandJudged
  <2>3. IsList(findings') /\ (findings' = <<>> <=> Demand(d) = <<>>)
    BY <1>1, <1>4, <1>6, FoundAll
  <2>4. CASE Demand(d) = <<>>
    <3>1. \A e \in 1 .. q : e \in 1 .. position \/ e = q
      BY <1>3, <1>4
    <3>2. \A e \in 1 .. q : DemandMet(Terms.required[e])
      BY <1>3, <2>1, <2>2, <2>4, <3>1
    <3>3. \A e \in 1 .. q : DemandMet(Terms.required[e])'
      <4> SUFFICES ASSUME NEW e \in 1 .. q PROVE DemandMet(Terms.required[e])'
        OBVIOUS
      <4>1. PICK x : x = Terms.required[e]
        OBVIOUS
      <4>2. DemandMet(x)'
        BY <1>1, <3>2, <4>1, EntriesSame
      <4>3. QED
        BY <1>2, <4>1, <4>2
    <3>4. /\ AllRead' /\ FactsAssigned'
          /\ \A a \in 1 .. Len(table') : EntryWell(a)'
      BY <1>1, <2>1, EntriesSame
    <3>5. position' \in 0 .. Len(Terms'.required) /\ position' \in Nat /\ position' = q
      <4>1. Len(Terms.required) \in Nat
        BY <1>1, TermLists
      <4>2. QED
        BY <1>1, <1>2, <1>3, <2>1, <4>1
    <3>6. QED
      BY <1>1, <1>2, <2>3, <2>4, <3>3, <3>4, <3>5 DEF InstrumentedSoFar
  <2>5. CASE Demand(d) # <<>>
    <3>1. position' \in Nat
      BY <1>1, <1>4
    <3>2. QED
      BY <1>1, <2>2, <2>3, <2>5, <3>1, InstrumentedFault
  <2>6. QED
    BY <2>4, <2>5
<1>7. QED
  BY <1>5, <1>6

LEMMA InstrumentedWrites ==
  ASSUME InstrumentedSoFar, ~err, ~err', TermsTyped(workspace), WriteReceipt
  PROVE  InstrumentedSoFar'
<1>1. /\ stage = "required" /\ position = Len(Terms.required) /\ stage' = "write"
      /\ UNCHANGED <<workspace, findings>>
      /\ IsList(findings) /\ Terms.is = "valid" /\ TermsPlain
  BY DEF WriteReceipt, GiveUp, PolicyEnds, InstrumentedSoFar, TermsPlain
<1>2. CASE findings # <<>>
  <2>1. InstrumentedBadly /\ IsList(findings')
    BY <1>1, <1>2 DEF InstrumentedSoFar, IsList
  <2>2. QED
    BY <1>1, <1>2, <2>1, InstrumentedFault
<1>3. CASE findings = <<>>
  <2>1. /\ AllRead /\ FactsAssigned
        /\ \A a \in 1 .. Len(table) : EntryWell(a)
        /\ \A e \in 1 .. Len(Terms.required) : DemandMet(Terms.required[e])
    BY <1>1, <1>3 DEF InstrumentedSoFar
  <2>2. \A d \in ToSet(Terms.required) : DemandMet(d)
    <3>1. DOMAIN Terms.required = 1 .. Len(Terms.required)
      BY <1>1, TermLists
    <3>2. QED
      BY <2>1, <3>1 DEF ToSet
  <2>3. InstrumentedWell
    BY <2>1, <2>2, NothingLacks
  <2>4. InstrumentedWell' /\ IsList(findings') /\ findings' = <<>>
    BY <1>1, <1>3, <2>3, TermsSame DEF IsList
  <2>5. QED
    BY <1>1, <2>4 DEF InstrumentedSoFar
<1>4. QED
  BY <1>2, <1>3

LEMMA InstrumentedBegins == Init => InstrumentedInv
<1> SUFFICES ASSUME Init, InstrumentedAsked PROVE InstrumentedInv
  BY DEF InstrumentedInv
<1>1. PICK run \in InputRuns : options = run.options /\ workspace = run.workspace
  BY DEF Init
<1>2. TermsTyped(workspace)
  BY <1>1, InputAssumption DEF InstrumentedAsked
<1>3. stage = "arguments" /\ findings = <<>> /\ table = <<>> /\ position = 0
  BY DEF Init, InstrumentationInit
<1>4. IsList(findings)
  BY <1>3 DEF ToSet, IsList
<1>5. QED
  BY <1>2, <1>3, <1>4 DEF InstrumentedInv, InstrumentedSoFar, CommonStages

LEMMA InstrumentedPolicyStep ==
  ASSUME RunInv, InstrumentedInv, InstrumentedAsked, AnyPolicy
  PROVE  InstrumentedInv'
<1>1. stage \in PolicyStages /\ status = Trouble /\ status' = Trouble
  BY PolicyShown, StageNames DEF RunInv, RanInv
<1>2. stage \in InstrumentationStages /\ stage \notin {"end", "ended"}
  BY <1>1, StageNames DEF InstrumentedInv, CommonStages
<1>3. InstrumentationAudit /\ Within(InstrumentationStages)
  BY <1>2, PolicyOfStage DEF RunInv
<1>4. /\ stage' \in CommonStages \cup InstrumentationStages
      /\ UNCHANGED <<options, workspace>>
      /\ ErrStays
  BY <1>3, PolicyShown DEF Within, CommonStages
<1>5. ASSUME stage' \notin {"end", "ended"}, ~err' PROVE InstrumentedSoFar'
  <2>1. ~err /\ ErrInv
    BY <1>4, <1>5 DEF ErrStays, RunInv, ErrInv
  <2>2. InstrumentedSoFar /\ TermsTyped(workspace)
    BY <1>2, <2>1 DEF InstrumentedInv
  <2>3. QED
    BY <1>3, <1>5, <2>1, <2>2, InstrumentedStarts, InstrumentedReads,
       InstrumentedAssigns, InstrumentedJudges, InstrumentedAsks, InstrumentedWrites
    DEF InstrumentationAudit
<1>6. TermsTyped(workspace)'
  BY <1>4 DEF InstrumentedInv, TermsTyped
<1>7. QED
  BY <1>1, <1>4, <1>5, <1>6 DEF InstrumentedInv

LEMMA InstrumentedMainStep ==
  ASSUME RunInv, InstrumentedInv, InstrumentedAsked, MainStep
  PROVE  InstrumentedInv'
<1>1. /\ UNCHANGED <<options, workspace, findings, position, table>>
      /\ Acceptable(options) /\ options.policy = "instrumentation"
  BY DEF MainStep, tableVars, earlierVars, instrumentationVars, InstrumentedAsked
<1>2. stage' \in CommonStages \cup InstrumentationStages
  BY <1>1 DEF MainStep, InstrumentedInv, CommonStages, InstrumentationStages
<1>3. PICK truth \in BOOLEAN : truth <=> (findings = <<>>)
  OBVIOUS
<1>4. stage' \in {"end", "ended"} /\ (stage' = "end" => ~err') /\ status' # Trouble =>
        ((status' = Success) <=> truth)
  BY <1>1, <1>3, VerdictKept DEF InstrumentedInv
<1>5. /\ InstrumentedWell' = InstrumentedWell /\ InstrumentedBadly' = InstrumentedBadly
      /\ TermsTyped(workspace)' = TermsTyped(workspace) /\ Terms' = Terms
  BY <1>1, TermsSame DEF TermsTyped
<1>6. ASSUME stage' \in {"end", "ended"}, stage' = "end" => ~err', status' # Trouble
      PROVE  IF findings = <<>> THEN InstrumentedWell ELSE InstrumentedBadly
  <2>1. CASE stage = "written"
    <3>1. ~err
      BY <1>6, <2>1 DEF RunInv, RanInv, ErrInv, MainStep
    <3>2. QED
      BY <2>1, <3>1 DEF InstrumentedInv, InstrumentedSoFar
  <2>2. CASE stage = "write"
    <3>1. FALSE
      BY <1>6, <2>2 DEF RunInv, RanInv, MainStep
    <3>2. QED
      BY <3>1
  <2>3. CASE stage \in {"arguments", "resolve"}
    <3>1. FALSE
      BY <1>1, <1>6, <2>3 DEF RunInv, RanInv, MainStep
    <3>2. QED
      BY <3>1
  <2>4. CASE stage \in {"end", "ended"}
    <3>1. (stage = "end" => ~err) /\ status # Trouble
      BY <1>6, <2>4 DEF RunInv, MainStep, ErrInv
    <3>2. QED
      BY <2>4, <3>1 DEF InstrumentedInv
  <2>5. QED
    BY <1>6, <2>1, <2>2, <2>3, <2>4 DEF MainStep
<1>7. ASSUME stage' \notin {"end", "ended"}, ~err' PROVE InstrumentedSoFar'
  <2>1. stage \notin {"end", "ended"} /\ ~err
    <3>1. err \in BOOLEAN
      BY DEF RunInv, ErrInv
    <3>2. stage \notin {"end", "ended"}
      BY <1>7 DEF MainStep
    <3>3. err' = err \/ err' = TRUE
      BY <1>7, <3>2 DEF MainStep
    <3>4. QED
      BY <1>7, <3>1, <3>2, <3>3
  <2>2. InstrumentedSoFar
    BY <2>1 DEF InstrumentedInv
  <2>3. \/ stage' = stage
        \/ stage = "arguments" /\ stage' = "resolve"
        \/ stage = "resolve" /\ stage' = "instrumentation"
        \/ stage = "write" /\ stage' = "written"
    BY <1>1, <1>7 DEF MainStep
  <2>4. /\ \A n : TableHolds(n)' = TableHolds(n)
        /\ AllRead' = AllRead /\ FactsAssigned' = FactsAssigned
        /\ \A a : EntryWell(a)' = EntryWell(a)
        /\ \A d : DemandMet(d)' = DemandMet(d)
    BY <1>1, TableSame, EntriesSame
  <2>5. QED
    BY <1>1, <1>5, <2>2, <2>3, <2>4 DEF InstrumentedSoFar
<1>8. QED
  BY <1>1, <1>2, <1>3, <1>4, <1>5, <1>6, <1>7 DEF InstrumentedInv

LEMMA InstrumentedNext ==
  ASSUME RunInv, InstrumentedInv, [Next]_vars
  PROVE  InstrumentedInv'
<1>1. UNCHANGED <<options, workspace>>
  BY MainSteps, PolicyShown DEF MainStep
<1>2. CASE InstrumentedAsked
  BY <1>2, MainSteps, InstrumentedPolicyStep, InstrumentedMainStep
<1>3. CASE ~InstrumentedAsked
  BY <1>1, <1>3 DEF InstrumentedInv, InstrumentedAsked, Acceptable
<1>4. QED
  BY <1>2, <1>3

(* instrumentation says 0 only if the table took every classified API, as  *)
(* far as the manifests were read, and each has a definition that is       *)
(* traced, has its fault point and can do what the contract demands of it; *)
(* and it says 1 only if one of these fails or there are more rows than    *)
(* the table takes (JudgeInstrumented and ValidateRequired).               *)
THEOREM InstrumentedEarned == Spec => []InstrumentedIsEarned
<1>1. Init => RunInv /\ InstrumentedInv
  BY RunStart, InstrumentedBegins
<1>2. RunInv /\ InstrumentedInv /\ [Next]_vars => (RunInv /\ InstrumentedInv)'
  BY RunStep, InstrumentedNext
<1>3. InstrumentedInv => InstrumentedIsEarned
  BY DEF InstrumentedInv, InstrumentedIsEarned, Judged, InstrumentedAsked
<1>4. QED
  BY <1>1, <1>2, <1>3, PTL DEF Spec

-----------------------------------------------------------------------------
(***************************************************************************)
(* What wrapper-fault-semantics says is earned.                            *)
(***************************************************************************)

LEMMA RequiredNone ==
  ASSUME NEW object, NEW fields, IsList(fields)
  PROVE  /\ IsList(Required(object, fields))
         /\ Required(object, fields) = <<>> <=>
              \A i \in DOMAIN fields : object[fields[i]] # Absent
<1>1. PICK missing : missing = {i \in DOMAIN fields : object[fields[i]] = Absent}
  OBVIOUS
<1>2. PICK finding : finding = [i \in missing |-> Finding("field", fields[i])]
  OBVIOUS
<1>3. Required(object, fields) = ForEach(missing, finding)
  BY <1>1, <1>2 DEF Required
<1>4. IsFiniteSet(missing)
  <2>1. DOMAIN fields = 1 .. Len(fields) /\ Len(fields) \in Nat
    BY DEF IsList
  <2>2. IsFiniteSet(DOMAIN fields) /\ missing \in SUBSET DOMAIN fields
    BY <1>1, <2>1, CountUpTo
  <2>3. QED
    BY <2>2, FS_Subset
<1>5. missing = {} <=> \A i \in DOMAIN fields : object[fields[i]] # Absent
  BY <1>1
<1>6. QED
  BY <1>3, <1>4, <1>5, NoneFor

LEMMA OneRequired ==
  ASSUME NEW object, NEW field
  PROVE  /\ IsList(Required(object, <<field>>))
         /\ Required(object, <<field>>) = <<>> <=> object[field] # Absent
<1>1. PICK fields : fields = <<field>>
  OBVIOUS
<1>2. IsList(fields) /\ DOMAIN fields = {1} /\ fields[1] = field
  BY <1>1, OneFound
<1>3. QED
  BY <1>1, <1>2, RequiredNone

LEMMA StatedNone ==
  ASSUME NEW object, NEW field, NEW value, value # Absent
  PROVE  /\ IsList(Stated(object, field, value))
         /\ Stated(object, field, value) = <<>> <=> object[field] = value
<1>1. CASE object[field] = Absent
  BY <1>1, OneRequired DEF Stated
<1>2. CASE object[field] # Absent
  <2>1. Stated(object, field, value) = If(object[field] # value, Finding("drift", field))
    BY <1>2 DEF Stated
  <2>2. QED
    BY <2>1, ListIf
<1>3. QED
  BY <1>1, <1>2

(* What the code wants of a mode.                                          *)
ModeAt(i) == Semantics.modes.of[i]
SupportedAlike(m) ==
  ModeAt(ShortMode).is = "mode" /\ Absent \notin {Admitted, m.supported} =>
    m.supported = Admitted
ModeSound(i) ==
  /\ ModeAt(i).is # "missing" /\ ModeAt(i).whole
  /\ ModeAt(i).kind = KindOf[i] /\ ModeAt(i).phase = PhaseOf[i]
  /\ ModeAt(i).disposition = DispositionOf[i]
  /\ i \in {ShortMode, UncertainMode} => ModeAt(i).supported # Absent
  /\ i = UncertainMode =>
       SupportedAlike(ModeAt(i)) /\ ModeAt(i).retry = "automatic-retry-forbidden"

LEMMA Columns ==
  ASSUME NEW i \in FaultModes
  PROVE  KindOf[i] # Absent /\ PhaseOf[i] # Absent /\ DispositionOf[i] # Absent
<1>1. i \in {1, 2, 3, 4, 5}
  BY DEF FaultModes
<1>2. /\ KindOf[i] \in {"ERROR", "SHORT", "UNCERTAIN"}
      /\ PhaseOf[i] \in {"before-call", "after-partial-progress", "after-dispatch"}
      /\ DispositionOf[i] \in {"retry-safe", "progress-known", "outcome-uncertain"}
  BY <1>1 DEF KindOf, PhaseOf, DispositionOf
<1>3. QED
  BY <1>2, AbsentAssumption

LEMMA ModeJudged ==
  ASSUME NEW i \in FaultModes
  PROVE  IsList(ModeFaults(i)) /\ (ModeFaults(i) = <<>> <=> ModeSound(i))
<1>1. CASE ModeAt(i).is = "missing"
  <2>1. ModeFaults(i) = <<Finding("inventory", i)>>
    BY <1>1 DEF ModeFaults, ModeAt
  <2>2. QED
    BY <1>1, <2>1, OneFound DEF ModeSound
<1>2. CASE ModeAt(i).is # "missing"
  <2>1. PICK m : m = ModeAt(i)
    OBVIOUS
  <2> DEFINE late == i \in {ShortMode, UncertainMode}
             a == If(~m.whole, Finding("fields", i))
             b == Stated(m, "kind", KindOf[i])
             c == Stated(m, "phase", PhaseOf[i])
             d == Stated(m, "disposition", DispositionOf[i])
             e == IF late THEN Required(m, <<"supported">>) ELSE <<>>
             f == If(/\ ModeAt(ShortMode).is = "mode"
                     /\ Absent \notin {Admitted, m.supported}
                     /\ ~SameAdmitted(m.supported), Finding("differ", "supported"))
             g == Stated(m, "retry", "automatic-retry-forbidden")
             h == IF i = UncertainMode THEN f \o g ELSE <<>>
  <2>2. ModeFaults(i) = a \o b \o c \o d \o e \o h
    BY <1>2, <2>1, Zenon DEF ModeFaults, ModeAt
  <2>3. IsList(a) /\ (a = <<>> <=> m.whole)
    BY ListIf
  <2>4. IsList(b) /\ (b = <<>> <=> m.kind = KindOf[i])
    BY Columns, StatedNone
  <2>5. IsList(c) /\ (c = <<>> <=> m.phase = PhaseOf[i])
    BY Columns, StatedNone
  <2>6. IsList(d) /\ (d = <<>> <=> m.disposition = DispositionOf[i])
    BY Columns, StatedNone
  <2>7. IsList(<<>>)
    <3>1. <<>> \in Seq({})
      OBVIOUS
    <3>2. QED
      BY <3>1, ListOf
  <2>8. IsList(e) /\ (e = <<>> <=> (late => m.supported # Absent))
    BY <2>7, OneRequired
  <2>9. IsList(f) /\ (f = <<>> <=> SupportedAlike(m))
    BY ListIf DEF SupportedAlike, SameAdmitted
  <2>10. IsList(g) /\ (g = <<>> <=> m.retry = "automatic-retry-forbidden")
    BY AbsentAssumption, StatedNone
  <2>11. IsList(f \o g) /\ (f \o g = <<>> <=> f = <<>> /\ g = <<>>)
    <3> HIDE DEF f, g
    <3>1. QED
      BY <2>9, <2>10, ListJoined
  <2>12. IsList(h) /\ (h = <<>> <=> (i = UncertainMode => f = <<>> /\ g = <<>>))
    <3> HIDE DEF f, g
    <3>1. QED
      BY <2>7, <2>11
  <2> HIDE DEF a, b, c, d, e, f, g, h, late
  <2>13. IsList(a \o b) /\ (a \o b = <<>> <=> a = <<>> /\ b = <<>>)
    BY <2>3, <2>4, ListJoined
  <2>14. IsList(a \o b \o c) /\ (a \o b \o c = <<>> <=> a \o b = <<>> /\ c = <<>>)
    BY <2>5, <2>13, ListJoined
  <2>15. /\ IsList(a \o b \o c \o d)
         /\ a \o b \o c \o d = <<>> <=> a \o b \o c = <<>> /\ d = <<>>
    BY <2>6, <2>14, ListJoined
  <2>16. /\ IsList(a \o b \o c \o d \o e)
         /\ a \o b \o c \o d \o e = <<>> <=> a \o b \o c \o d = <<>> /\ e = <<>>
    BY <2>8, <2>15, ListJoined
  <2>17. /\ IsList(a \o b \o c \o d \o e \o h)
         /\ a \o b \o c \o d \o e \o h = <<>> <=>
              a \o b \o c \o d \o e = <<>> /\ h = <<>>
    BY <2>12, <2>16, ListJoined
  <2>18. ModeSound(i) <=> /\ m.whole /\ m.kind = KindOf[i] /\ m.phase = PhaseOf[i]
                          /\ m.disposition = DispositionOf[i]
                          /\ (late => m.supported # Absent)
                          /\ (i = UncertainMode =>
                                SupportedAlike(m) /\ m.retry = "automatic-retry-forbidden")
    BY <1>2, <2>1 DEF ModeSound, late
  <2>19. ModeFaults(i) = <<>> <=> a = <<>> /\ b = <<>> /\ c = <<>> /\ d = <<>>
                                  /\ e = <<>> /\ h = <<>>
    BY <2>2, <2>13, <2>14, <2>15, <2>16, <2>17
  <2>20. QED
    BY <2>2, <2>3, <2>4, <2>5, <2>6, <2>8, <2>9, <2>10, <2>12, <2>17, <2>18, <2>19
<1>3. QED
  BY <1>1, <1>2

(* What the contract says it is, and what of it can be used.               *)
SemanticsPlain ==
  Semantics.is = "valid" /\ Semantics.modes.is = "five" /\ SemanticsTyped(workspace)
WrappersPlain == SemanticsPlain /\ ModesUsable /\ NoneTwice

LEMMA AdmittedList ==
  ASSUME SemanticsPlain, ModesUsable
  PROVE  /\ IsList(Admitted) /\ Admitted # Absent
         /\ Len(Admitted) \in Nat /\ DOMAIN Admitted = 1 .. Len(Admitted)
<1>1. Semantics.modes.of[ShortMode].is = "mode" /\ Admitted # Absent
  BY DEF ModesUsable, FaultModes, ShortMode
<1>2. IsList(Admitted)
  BY <1>1 DEF SemanticsPlain, SemanticsTyped, Semantics, Admitted, ShortMode
<1>3. QED
  BY <1>1, <1>2 DEF IsList

LEMMA CallsFinite ==
  ASSUME SemanticsPlain
  PROVE  \A S : S \subseteq Calls => IsFiniteSet(S)
<1> SUFFICES ASSUME NEW S, S \subseteq Calls PROVE IsFiniteSet(S)
  OBVIOUS
<1>1. IsFiniteSet(workspace.source.facts)
  BY DEF SemanticsPlain, SemanticsTyped
<1>2. S \in SUBSET workspace.source.facts
  BY DEF Calls
<1>3. QED
  BY <1>1, <1>2, FS_Subset

(* The parts of the mechanism.                                             *)
AllModesSound == \A i \in FaultModes : ModeSound(i)
MechanismSound == MechanismUsable /\ Mechanism.whole
LEMMA MechanismJudged ==
  ASSUME SemanticsPlain
  PROVE  IsList(MechanismFields) /\ (MechanismFields = <<>> <=> MechanismSound)
<1>1. Mechanism.is \in {"mechanism", "missing"}
  BY DEF SemanticsPlain, SemanticsTyped, Semantics, Mechanism
<1>2. CASE Mechanism.is = "missing"
  <2>1. MechanismFields = <<Finding("field", "mechanism")>>
    BY <1>2 DEF MechanismFields
  <2>2. QED
    BY <1>2, <2>1, OneFound DEF MechanismSound, MechanismUsable
<1>3. CASE Mechanism.is = "mechanism"
  <2>1. PICK m, a, b, fields :
          /\ m = Mechanism /\ fields = <<"selector", "recorder">>
          /\ a = If(~Mechanism.whole, Finding("fields", "mechanism"))
          /\ b = Required(Mechanism, fields)
    OBVIOUS
  <2>2. MechanismFields = a \o b
    BY <1>3, <2>1 DEF MechanismFields
  <2>3. IsList(a) /\ (a = <<>> <=> Mechanism.whole)
    BY <2>1, ListIf
  <2>4. IsList(fields) /\ DOMAIN fields = {1, 2} /\ fields[1] = "selector" /\ fields[2] = "recorder"
    <3>1. fields \in Seq({"selector", "recorder"})
      BY <2>1
    <3>2. IsList(fields)
      BY <3>1, ListOf
    <3>3. DOMAIN fields = 1 .. 2
      BY <2>1
    <3>4. QED
      BY <2>1, <3>2, <3>3
  <2>5. IsList(b) /\ (b = <<>> <=> \A i \in DOMAIN fields : Mechanism[fields[i]] # Absent)
    BY <2>1, <2>4, RequiredNone
  <2>6. b = <<>> <=> Mechanism["selector"] # Absent /\ Mechanism["recorder"] # Absent
    BY <2>4, <2>5
  <2>7. IsList(a \o b) /\ (a \o b = <<>> <=> a = <<>> /\ b = <<>>)
    BY <2>3, <2>5, ListJoined
  <2>8. QED
    BY <1>3, <2>2, <2>3, <2>6, <2>7 DEF MechanismSound, MechanismUsable
<1>4. QED
  BY <1>1, <1>2, <1>3

KindsSound == \A i \in FaultModes : Enumerated(KindOf[i])
LEMMA KindsJudged ==
  ASSUME NEW stray \in BOOLEAN
  PROVE  /\ IsList(KindFaults(stray))
         /\ AllModesSound => (KindFaults(stray) = <<>> <=> KindsSound)
<1>1. PICK lost : lost = {i \in FaultModes : KindLost(i, stray)}
  OBVIOUS
<1>2. PICK finding : finding = [i \in lost |-> Finding("kind", i)]
  OBVIOUS
<1>3. KindFaults(stray) = ForEach(lost, finding)
  BY <1>1, <1>2 DEF KindFaults
<1>4. IsFiniteSet(lost)
  <2>1. IsFiniteSet(FaultModes) /\ lost \in SUBSET FaultModes
    BY <1>1, CountUpTo DEF FaultModes
  <2>2. QED
    BY <2>1, FS_Subset
<1>5. ASSUME AllModesSound, NEW i \in FaultModes
      PROVE  KindLost(i, stray) <=> ~Enumerated(KindOf[i])
  <2>1. i \in Nat /\ i \in 1 .. i /\ \A j \in 1 .. i : j \in FaultModes /\ j <= i
    BY DEF FaultModes
  <2>2. \A j \in 1 .. i : Semantics.modes.of[j].kind # Absent
    BY <1>5, <2>1, Columns DEF AllModesSound, ModeSound, ModeAt
  <2>3. Kinded(i) = 1 .. i
    BY <2>2 DEF Kinded
  <2>4. Max(1 .. i) = i
    <3>1. \E x \in 1 .. i : \A y \in 1 .. i : x >= y
      BY <2>1
    <3>2. Max(1 .. i) \in 1 .. i /\ \A y \in 1 .. i : Max(1 .. i) >= y
      BY <3>1 DEF Max
    <3>3. QED
      BY <2>1, <3>2
  <2>5. Semantics.modes.of[i].kind = KindOf[i]
    BY <1>5 DEF AllModesSound, ModeSound, ModeAt
  <2>6. Kinded(i) # {}
    BY <2>1, <2>3
  <2>7. QED
    BY <2>3, <2>4, <2>5, <2>6 DEF KindLost
<1>6. AllModesSound => (lost = {} <=> KindsSound)
  BY <1>1, <1>5 DEF KindsSound
<1>7. QED
  BY <1>3, <1>4, <1>6, NoneFor

(* Every wrapper that is admitted uses both halves of the mechanism, and   *)
(* no one else does.                                                       *)
UsersSound ==
  ToSet(Admitted) \subseteq CallersOf(Mechanism.selector) \cap CallersOf(Mechanism.recorder)
LEMMA UsersJudged ==
  ASSUME SemanticsPlain, ModesUsable
  PROVE  /\ IsList(ImplementationFaults)
         /\ ImplementationFaults = <<>> <=> UsersSound
<1>1. PICK using : using = CallersOf(Mechanism.selector) \cap CallersOf(Mechanism.recorder)
  OBVIOUS
<1>2. PICK idle : idle = {n \in DOMAIN Admitted : Admitted[n] \notin using}
  OBVIOUS
<1>3. PICK finding : finding = [n \in idle |-> Finding("implementation", Admitted[n])]
  OBVIOUS
<1>4. ImplementationFaults = ForEach(idle, finding)
  BY <1>1, <1>2, <1>3 DEF ImplementationFaults
<1>5. IsFiniteSet(idle)
  <2>1. IsFiniteSet(DOMAIN Admitted) /\ idle \in SUBSET DOMAIN Admitted
    BY <1>2, AdmittedList, CountUpTo
  <2>2. QED
    BY <2>1, FS_Subset
<1>6. idle = {} <=> UsersSound
  BY <1>1, <1>2 DEF UsersSound, ToSet
<1>7. QED
  BY <1>4, <1>5, <1>6, NoneFor

CallersSound == \A c \in Uses : c.caller \in ToSet(Admitted)
LEMMA CallersJudged ==
  ASSUME SemanticsPlain
  PROVE  IsList(CallerFaults) /\ (CallerFaults = <<>> <=> CallersSound)
<1>1. PICK undeclared : undeclared = {c \in Uses : c.caller \notin ToSet(Admitted)}
  OBVIOUS
<1>2. undeclared \subseteq Calls
  BY <1>1 DEF Uses, CallsOf
<1>3. IsFiniteSet(undeclared)
  BY <1>2, CallsFinite
<1>4. /\ Cardinality(undeclared) \in Nat
      /\ Cardinality(undeclared) = 0 <=> undeclared = {}
  BY <1>3, FS_CardinalityType, FS_EmptySet
<1>5. CallerFaults =
        [n \in 1 .. Cardinality(undeclared) |-> Finding("undeclared", "mechanism")]
  BY <1>1 DEF CallerFaults
<1>6. QED
  BY <1>1, <1>4, <1>5, ListFrom DEF CallersSound

EvidenceSound == Absent \notin {Uncertain.role, Uncertain.wrapper} /\ EvidenceShown
LEMMA EvidenceJudged == IsList(EvidenceFaults) /\ (EvidenceFaults = <<>> <=> EvidenceSound)
<1>1. CASE Absent \in {Uncertain.role, Uncertain.wrapper}
  <2>1. PICK fields : fields = <<"role", "wrapper">>
    OBVIOUS
  <2>2. IsList(fields) /\ DOMAIN fields = {1, 2} /\ fields[1] = "role" /\ fields[2] = "wrapper"
    <3>1. fields \in Seq({"role", "wrapper"})
      BY <2>1
    <3>2. IsList(fields)
      BY <3>1, ListOf
    <3>3. DOMAIN fields = 1 .. 2
      BY <2>1
    <3>4. QED
      BY <2>1, <3>2, <3>3
  <2>3. EvidenceFaults = Required(Uncertain, fields)
    BY <1>1, <2>1 DEF EvidenceFaults
  <2>4. /\ IsList(EvidenceFaults)
        /\ EvidenceFaults = <<>> <=> \A i \in DOMAIN fields : Uncertain[fields[i]] # Absent
    BY <2>2, <2>3, RequiredNone
  <2>5. EvidenceFaults # <<>>
    BY <1>1, <2>2, <2>4
  <2>6. QED
    BY <1>1, <2>4, <2>5 DEF EvidenceSound
<1>2. CASE Absent \notin {Uncertain.role, Uncertain.wrapper}
  <2>1. EvidenceFaults = If(~EvidenceShown, Finding("evidence", Uncertain.role))
    BY <1>2 DEF EvidenceFaults
  <2>2. QED
    BY <1>2, <2>1, ListIf DEF EvidenceSound
<1>3. QED
  BY <1>1, <1>2

(* Every wrapper that is admitted has its entry.                           *)
Admits(entries, e, n) == entries[e].short /\ entries[e].usr = Admitted[n]
HasAll(entries) ==
  \A n \in DOMAIN Admitted : \E e \in DOMAIN entries : Admits(entries, e, n)
Differing(entries) ==
  \A i, j \in DOMAIN entries :
    entries[i].short /\ entries[j].short /\ entries[i].usr = entries[j].usr => i = j

LEMMA MatchedAll ==
  ASSUME SemanticsPlain, ModesUsable, NEW entries, Differing(entries)
  PROVE  Matched(entries) = Len(Admitted) <=> HasAll(entries)
<1>1. PICK pairs : pairs = {e \in (DOMAIN entries) \X (DOMAIN Admitted) :
                              entries[e[1]].short /\ entries[e[1]].usr = Admitted[e[2]]}
  OBVIOUS
<1>2. PICK places : places = DOMAIN Admitted
  OBVIOUS
<1>3. PICK f : f = [e \in pairs |-> e[2]]
  OBVIOUS
<1>4. Matched(entries) = Cardinality(pairs)
  BY <1>1 DEF Matched
<1>5. IsFiniteSet(places) /\ Cardinality(places) = Len(Admitted)
  BY <1>2, AdmittedList, CountUpTo
<1>6. f \in [pairs -> places]
  BY <1>1, <1>2, <1>3
<1>7. ASSUME NEW a \in pairs, NEW b \in pairs, f[a] = f[b]
      PROVE  a = b
  <2>1. PICK i \in DOMAIN entries, m \in DOMAIN Admitted : a = <<i, m>>
    BY <1>1
  <2>2. PICK j \in DOMAIN entries, n \in DOMAIN Admitted : b = <<j, n>>
    BY <1>1
  <2>3. m = n
    BY <1>3, <1>7, <2>1, <2>2
  <2>4. Admits(entries, i, m) /\ Admits(entries, j, n)
    BY <1>1, <2>1, <2>2 DEF Admits
  <2>5. i = j
    BY <2>3, <2>4 DEF Differing, Admits
  <2>6. QED
    BY <2>1, <2>2, <2>3, <2>5
<1>8. f \in Injection(pairs, places)
  BY <1>6, <1>7 DEF Injection, IsInjective
<1>9. Cardinality(pairs) = Cardinality(places) <=> f \in Surjection(pairs, places)
  BY <1>5, <1>8, FS_Injection
<1>10. f \in Surjection(pairs, places) <=> HasAll(entries)
  <2>1. f \in Surjection(pairs, places) <=> \A n \in places : \E p \in pairs : f[p] = n
    BY <1>6 DEF Surjection
  <2>2. ASSUME NEW n \in places
        PROVE  (\E p \in pairs : f[p] = n) <=> \E e \in DOMAIN entries : Admits(entries, e, n)
    <3>1. ASSUME NEW p \in pairs, f[p] = n
          PROVE  \E e \in DOMAIN entries : Admits(entries, e, n)
      BY <1>1, <1>3, <3>1 DEF Admits
    <3>2. ASSUME NEW e \in DOMAIN entries, Admits(entries, e, n)
          PROVE  \E p \in pairs : f[p] = n
      <4>1. <<e, n>> \in pairs
        BY <1>1, <1>2, <3>2 DEF Admits
      <4>2. f[<<e, n>>] = n
        BY <1>3, <4>1
      <4>3. QED
        BY <4>1, <4>2
    <3>3. QED
      BY <3>1, <3>2
  <2>3. QED
    BY <1>2, <2>1, <2>2 DEF HasAll
<1>11. QED
  BY <1>4, <1>5, <1>9, <1>10

LEMMA AllOnce ==
  ASSUME NEW entries, Differing(entries)
  PROVE  HasAll(entries) <=> \A usr \in ToSet(Admitted) : Once(entries, usr)
<1>1. ASSUME NEW usr
      PROVE  Once(entries, usr) <=>
               \E e \in DOMAIN entries : entries[e].short /\ entries[e].usr = usr
  <2>1. PICK those : those = {e \in DOMAIN entries : entries[e].short /\ entries[e].usr = usr}
    OBVIOUS
  <2>2. Once(entries, usr) <=> Cardinality(those) = 1
    BY <2>1 DEF Once
  <2>3. ASSUME NEW e \in those PROVE Cardinality(those) = 1
    <3>1. those = {e}
      BY <2>1 DEF Differing
    <3>2. QED
      BY <3>1, FS_Singleton
  <2>4. Cardinality(those) = 1 => those # {}
    BY FS_EmptySet
  <2>5. QED
    BY <2>1, <2>2, <2>3, <2>4
<1>2. QED
  BY <1>1 DEF HasAll, Admits, ToSet

FailureSound ==
  /\ workspace.failure.semantics = "kept"
  /\ Matched(workspace.failure.wrappers) = Len(Admitted)
LifecycleSound == Matched(workspace.scenarios) = Len(Admitted)

LEMMA FailureJudged ==
  ASSUME SemanticsPlain
  PROVE  IsList(FailureFaults) /\ (FailureFaults = <<>> <=> FailureSound)
<1>1. PICK s : s = workspace.failure.semantics
  OBVIOUS
<1>2. s \in {Absent, "drifted", "kept"}
  BY <1>1 DEF SemanticsPlain, SemanticsTyped
<1>3. PICK a, b :
        /\ a = CASE s = Absent -> <<Finding("field", "semantics")>>
                 [] s = "drifted" -> <<Finding("boundary", "failure")>>
                 [] OTHER -> <<>>
        /\ b = If(Matched(workspace.failure.wrappers) # Len(Admitted),
                  Finding("matched", "failure"))
  OBVIOUS
<1>4. FailureFaults = a \o b
  BY <1>1, <1>3, Zenon DEF FailureFaults
<1>5. IsList(<<>>)
  <2>1. <<>> \in Seq({})
    OBVIOUS
  <2>2. QED
    BY <2>1, ListOf
<1>6. IsList(a) /\ (a = <<>> <=> s = "kept")
  <2>1. CASE s = Absent
    <3>1. s # "kept"
      BY <2>1, AbsentAssumption
    <3>2. QED
      BY <1>3, <2>1, <3>1, OneFound
  <2>2. CASE s # Absent /\ s = "drifted"
    BY <1>3, <2>2, OneFound
  <2>3. CASE s # Absent /\ s # "drifted"
    BY <1>2, <1>3, <1>5, <2>3
  <2>4. QED
    BY <2>1, <2>2, <2>3
<1>7. IsList(b) /\ (b = <<>> <=> Matched(workspace.failure.wrappers) = Len(Admitted))
  BY <1>3, ListIf
<1>8. IsList(a \o b) /\ (a \o b = <<>> <=> a = <<>> /\ b = <<>>)
  BY <1>6, <1>7, ListJoined
<1>9. QED
  BY <1>1, <1>4, <1>6, <1>7, <1>8 DEF FailureSound

LEMMA LifecycleJudged == IsList(LifecycleFaults) /\ (LifecycleFaults = <<>> <=> LifecycleSound)
BY ListIf DEF LifecycleFaults, LifecycleSound

PartSound(part) ==
  /\ part = 1 => MechanismSound
  /\ part = 2 => KindsSound
  /\ part = 3 => UsersSound
  /\ part = 4 => CallersSound
  /\ part = 5 => EvidenceSound
  /\ part = 6 => FailureSound
  /\ part = 7 => LifecycleSound

LEMMA PartJudged ==
  ASSUME SemanticsPlain, ModesUsable, NEW part \in 1 .. LastPart, NEW stray \in BOOLEAN
  PROVE  /\ IsList(FaultPart(part, stray))
         /\ AllModesSound => (FaultPart(part, stray) = <<>> <=> PartSound(part))
<1>1. part \in {1, 2, 3, 4, 5, 6, 7}
  BY DEF LastPart
<1>2. CASE part = 1
  BY <1>2, MechanismJudged DEF FaultPart, PartSound
<1>3. CASE part = 2
  BY <1>3, KindsJudged DEF FaultPart, PartSound
<1>4. CASE part = 3
  BY <1>4, UsersJudged DEF FaultPart, PartSound
<1>5. CASE part = 4
  BY <1>5, CallersJudged DEF FaultPart, PartSound
<1>6. CASE part = 5
  BY <1>6, EvidenceJudged DEF FaultPart, PartSound
<1>7. CASE part = 6
  BY <1>7, FailureJudged DEF FaultPart, PartSound
<1>8. CASE part = 7
  BY <1>8, LifecycleJudged DEF FaultPart, PartSound
<1>9. QED
  BY <1>1, <1>2, <1>3, <1>4, <1>5, <1>6, <1>7, <1>8

(* What the code wants is what the contract promises.                      *)
AllPartsSound == \A part \in 1 .. LastPart : PartSound(part)
InManifest == \A n \in DOMAIN Admitted : Admitted[n] \in workspace.manifest

LEMMA PartsSound ==
  AllPartsSound <=> /\ MechanismSound /\ KindsSound /\ UsersSound /\ CallersSound
                    /\ EvidenceSound /\ FailureSound /\ LifecycleSound
<1>1. 1 .. LastPart = {1, 2, 3, 4, 5, 6, 7}
  BY DEF LastPart
<1>2. QED
  BY <1>1 DEF AllPartsSound, PartSound

LEMMA EvidenceKept ==
  ASSUME SemanticsPlain
  PROVE  EvidenceSound <=>
           \E function \in {f.caller : f \in Scanned} :
             /\ {f.caller : f \in {n \in Scanned : n.kind = "NOTE" /\ n.name = Uncertain.role}}
                  = {function}
             /\ \E c \in Calls : c.caller = function /\ c.usr = Uncertain.wrapper
<1>1. \A f \in Scanned : f.usr # Absent /\ f.name # Absent
  BY DEF SemanticsPlain, SemanticsTyped, Scanned
<1>2. Calls \subseteq Scanned /\ RoleNotes \subseteq Scanned
  BY DEF Calls, Scanned, RoleNotes
<1>3. PICK notes : notes = RoleNotes
  OBVIOUS
<1>4. notes = {n \in Scanned : n.kind = "NOTE" /\ n.name = Uncertain.role}
  BY <1>3 DEF RoleNotes
<1>5. ASSUME EvidenceSound
      PROVE  \E function \in {f.caller : f \in Scanned} :
               /\ {f.caller : f \in notes} = {function}
               /\ \E c \in Calls : c.caller = function /\ c.usr = Uncertain.wrapper
  <2>1. /\ \A n, m \in notes : n.caller = m.caller
        /\ \E n \in notes : n.caller \in CallersOf(Uncertain.wrapper)
    BY <1>3, <1>5 DEF EvidenceSound, EvidenceShown
  <2>2. PICK n \in notes : n.caller \in CallersOf(Uncertain.wrapper)
    BY <2>1
  <2>3. {f.caller : f \in notes} = {n.caller}
    BY <2>1
  <2>4. \E c \in Calls : c.caller = n.caller /\ c.usr = Uncertain.wrapper
    BY <2>2 DEF CallersOf, CallsOf
  <2>5. n.caller \in {f.caller : f \in Scanned}
    BY <1>2, <1>3
  <2>6. QED
    BY <2>3, <2>4, <2>5
<1>6. ASSUME NEW function \in {f.caller : f \in Scanned},
             {f.caller : f \in notes} = {function},
             \E c \in Calls : c.caller = function /\ c.usr = Uncertain.wrapper
      PROVE  EvidenceSound
  <2>1. PICK c \in Calls : c.caller = function /\ c.usr = Uncertain.wrapper
    BY <1>6
  <2>2. Uncertain.wrapper # Absent
    BY <1>1, <1>2, <2>1
  <2>3. PICK n \in notes : n.caller = function
    BY <1>6
  <2>4. Uncertain.role # Absent
    BY <1>1, <1>4, <2>3
  <2>5. \A m \in notes : m.caller = function
    BY <1>6
  <2>6. function \in CallersOf(Uncertain.wrapper)
    BY <2>1 DEF CallersOf, CallsOf
  <2>7. QED
    BY <1>3, <2>2, <2>3, <2>4, <2>5, <2>6 DEF EvidenceSound, EvidenceShown
<1>7. QED
  BY <1>4, <1>5, <1>6

LEMMA ModesKept ==
  ASSUME SemanticsKept
  PROVE  AllModesSound
<1>1. \A i \in FaultModes : ModeKept(i)
  BY DEF SemanticsKept
<1>2. /\ ModeAt(ShortMode).supported = Admitted /\ ModeAt(UncertainMode).supported = Admitted
      /\ Admitted # Absent /\ ModeAt(UncertainMode).retry = "automatic-retry-forbidden"
  BY DEF SemanticsKept, ModeAt, ShortMode, Admitted, Uncertain
<1>3. ASSUME NEW i \in FaultModes PROVE ModeSound(i)
  <2>1. /\ ModeAt(i).is = "mode" /\ ModeAt(i).whole
        /\ ModeAt(i).kind = KindOf[i] /\ ModeAt(i).phase = PhaseOf[i]
        /\ ModeAt(i).disposition = DispositionOf[i]
    BY <1>1 DEF ModeKept, ModeAt
  <2>2. i \in {ShortMode, UncertainMode} => ModeAt(i).supported # Absent
    BY <1>2
  <2>3. i = UncertainMode => /\ SupportedAlike(ModeAt(i))
                             /\ ModeAt(i).retry = "automatic-retry-forbidden"
    BY <1>2 DEF SupportedAlike
  <2>4. QED
    BY <2>1, <2>2, <2>3 DEF ModeSound
<1>4. QED
  BY <1>3 DEF AllModesSound

LEMMA EntriesDiffer ==
  ASSUME WrappersPlain
  PROVE  Differing(workspace.failure.wrappers) /\ Differing(workspace.scenarios)
BY DEF WrappersPlain, NoneTwice, Differing

LEMMA SoundIsKept ==
  ASSUME WrappersPlain, AllModesSound
  PROVE  SemanticsKept <=> AllPartsSound /\ InManifest
<1>1. SemanticsPlain /\ ModesUsable
  BY DEF WrappersPlain
<1>2. \A i \in FaultModes : ModeAt(i).is = "mode"
  BY <1>1 DEF ModesUsable, ModeAt
<1>3. /\ Admitted # Absent /\ Uncertain.supported = Admitted
      /\ Uncertain.retry = "automatic-retry-forbidden"
  <2>1. UncertainMode \in FaultModes /\ ShortMode \in FaultModes
    BY DEF UncertainMode, ShortMode, FaultModes
  <2>2. ModeSound(UncertainMode)
    BY <2>1 DEF AllModesSound
  <2>3. Admitted # Absent /\ Uncertain = ModeAt(UncertainMode)
    BY <1>1, AdmittedList DEF Uncertain, ModeAt
  <2>4. /\ Uncertain.supported # Absent /\ Uncertain.retry = "automatic-retry-forbidden"
        /\ SupportedAlike(Uncertain)
    BY <2>2, <2>3 DEF ModeSound
  <2>5. QED
    BY <1>2, <2>1, <2>3, <2>4 DEF SupportedAlike
<1>4. (\A i \in FaultModes : ModeKept(i)) <=> KindsSound
  BY <1>2 DEF AllModesSound, ModeSound, ModeKept, ModeAt, KindsSound, Enumerated
<1>5. ToSet(Admitted) \subseteq workspace.manifest <=> InManifest
  BY DEF InManifest, ToSet
<1>6. (\A usr \in {Mechanism.selector, Mechanism.recorder} :
         {c.caller : c \in {d \in Calls : d.usr = usr}} = ToSet(Admitted))
        <=> UsersSound /\ CallersSound
  <2>1. \A usr : CallersOf(usr) = {c.caller : c \in {d \in Calls : d.usr = usr}}
    BY DEF CallersOf, CallsOf
  <2>2. CallersSound <=> /\ CallersOf(Mechanism.selector) \subseteq ToSet(Admitted)
                         /\ CallersOf(Mechanism.recorder) \subseteq ToSet(Admitted)
    BY DEF CallersSound, Uses, CallersOf
  <2>3. QED
    BY <2>1, <2>2 DEF UsersSound
<1>7. /\ LifecycleSound <=> \A usr \in ToSet(Admitted) : Once(workspace.scenarios, usr)
      /\ Matched(workspace.failure.wrappers) = Len(Admitted)
           <=> \A usr \in ToSet(Admitted) : Once(workspace.failure.wrappers, usr)
  BY <1>1, EntriesDiffer, MatchedAll, AllOnce DEF LifecycleSound
<1>8. MechanismSound <=> MechanismUsable /\ Mechanism.whole
  BY DEF MechanismSound
<1>9. PICK shown \in BOOLEAN : shown <=> EvidenceSound
  OBVIOUS
<1>10. shown <=>
         \E function \in {f.caller : f \in Scanned} :
           /\ {f.caller : f \in {n \in Scanned : n.kind = "NOTE" /\ n.name = Uncertain.role}}
                = {function}
           /\ \E c \in Calls : c.caller = function /\ c.usr = Uncertain.wrapper
  BY <1>1, <1>9, EvidenceKept
<1>11. SemanticsKept <=> /\ KindsSound /\ InManifest /\ MechanismSound
                         /\ UsersSound /\ CallersSound /\ shown
                         /\ workspace.failure.semantics = "kept"
                         /\ Matched(workspace.failure.wrappers) = Len(Admitted)
                         /\ LifecycleSound
  BY <1>1, <1>3, <1>4, <1>5, <1>6, <1>7, <1>8, <1>10 DEF SemanticsKept, SemanticsPlain
<1>12. QED
  BY <1>9, <1>11, PartsSound DEF FailureSound

LEMMA SemanticsSame ==
  ASSUME UNCHANGED workspace
  PROVE  /\ Semantics' = Semantics /\ Admitted' = Admitted /\ ModesUsable' = ModesUsable
         /\ \A i : ModeSound(i)' = ModeSound(i)
         /\ \A p : PartSound(p)' = PartSound(p)
         /\ AllModesSound' = AllModesSound /\ InManifest' = InManifest
         /\ SemanticsKept' = SemanticsKept
         /\ SemanticsTyped(workspace)' = SemanticsTyped(workspace)
         /\ SemanticsReadable' = SemanticsReadable /\ NoneTwice' = NoneTwice
<1>1. Semantics' = Semantics /\ Admitted' = Admitted /\ ModesUsable' = ModesUsable
  BY DEF Semantics, Admitted, ModesUsable
<1>2. \A i : ModeSound(i)' = ModeSound(i)
  BY <1>1 DEF ModeSound, SupportedAlike, ModeAt
<1>3. /\ Mechanism' = Mechanism /\ Uncertain' = Uncertain /\ Scanned' = Scanned
      /\ Calls' = Calls
  BY <1>1 DEF Mechanism, Uncertain, Scanned, Calls
<1>4. /\ \A usr : CallersOf(usr)' = CallersOf(usr) /\ CallsOf(usr)' = CallsOf(usr)
      /\ Uses' = Uses /\ RoleNotes' = RoleNotes
      /\ \A entries : Matched(entries)' = Matched(entries)
      /\ \A kind : Enumerated(kind)' = Enumerated(kind)
  BY <1>1, <1>3 DEF CallersOf, CallsOf, Uses, RoleNotes, Matched, Enumerated
<1>5. /\ MechanismSound' = MechanismSound /\ KindsSound' = KindsSound
      /\ UsersSound' = UsersSound /\ CallersSound' = CallersSound
      /\ EvidenceSound' = EvidenceSound /\ FailureSound' = FailureSound
      /\ LifecycleSound' = LifecycleSound
  BY <1>1, <1>3, <1>4
  DEF MechanismSound, MechanismUsable, KindsSound, UsersSound, CallersSound,
      EvidenceSound, EvidenceShown, FailureSound, LifecycleSound
<1>6. \A p : PartSound(p)' = PartSound(p)
  BY <1>5 DEF PartSound
<1>7. AllModesSound' = AllModesSound /\ InManifest' = InManifest
  BY <1>1, <1>2 DEF AllModesSound, InManifest
<1>8. SemanticsKept' = SemanticsKept
  BY <1>1, <1>3 DEF SemanticsKept, ModeKept, MechanismUsable, Once
<1>9. SemanticsTyped(workspace)' = SemanticsTyped(workspace)
  BY DEF SemanticsTyped
<1>10. SemanticsReadable' = SemanticsReadable /\ NoneTwice' = NoneTwice
  BY <1>1 DEF SemanticsReadable, NoneTwice
<1>11. QED
  BY <1>1, <1>2, <1>6, <1>7, <1>8, <1>9, <1>10

SemanticsAsked ==
  /\ options.policy = "wrapper-fault-semantics" /\ Acceptable(options)
  /\ SemanticsReadable => NoneTwice

(* Where the policy stands.                                                *)
SemanticsPlace ==
  /\ stage \in {"arguments", "resolve", "wrapper-fault-semantics"} => position = 0
  /\ stage \in {"modes", "admitted", "mechanism"} => Semantics.is = "valid"
  /\ stage \in {"modes", "admitted"} => position \in Nat
  /\ stage \in {"admitted", "mechanism"} => Semantics.modes.is = "five" /\ ModesUsable
  /\ stage = "mechanism" => position \in 0 .. LastPart

(* As long as there is no error: what was found is a fault, and where      *)
(* nothing was found there is none in what was looked at so far.           *)
SemanticsSoFar ==
  /\ IsList(findings)
  /\ findings # <<>> => ~SemanticsKept
  /\ stage \in {"arguments", "resolve", "wrapper-fault-semantics"} => findings = <<>>
  /\ SemanticsPlace
  /\ findings = <<>> =>
       /\ stage = "modes" => \A i \in 1 .. position : ModeSound(i)
       /\ stage = "admitted" =>
            /\ AllModesSound
            /\ \A n \in 1 .. position : Admitted[n] \in workspace.manifest
       /\ stage = "mechanism" =>
            AllModesSound /\ InManifest /\ \A p \in 1 .. position : PartSound(p)
       /\ stage \in {"write", "written"} => SemanticsKept

SemanticsInv ==
  SemanticsAsked =>
    /\ stage \in CommonStages \cup FaultStages
    /\ SemanticsTyped(workspace)
    /\ stage \notin {"end", "ended"} /\ ~err => SemanticsSoFar
    /\ stage \in {"end", "ended"} /\ (stage = "end" => ~err) /\ status # Trouble =>
         ((status = Success) <=> SemanticsKept)

(* What was found stays found.                                             *)
LEMMA SemanticsTold ==
  ASSUME SemanticsSoFar, err \in BOOLEAN, ~err', UNCHANGED workspace,
         NEW fs, IsList(fs), AddAll(fs),
         findings = <<>> /\ fs # <<>> => ~SemanticsKept
  PROVE  /\ IsList(findings')
         /\ findings' # <<>> => ~SemanticsKept'
         /\ findings' = <<>> => findings = <<>> /\ fs = <<>>
<1>1. IsList(findings) /\ (findings # <<>> => ~SemanticsKept)
  BY DEF SemanticsSoFar
<1>2. IsList(findings') /\ (findings' = <<>> <=> findings = <<>> /\ fs = <<>>)
  BY <1>1, FoundAll
<1>3. SemanticsKept' = SemanticsKept
  BY SemanticsSame
<1>4. QED
  BY <1>1, <1>2, <1>3

LEMMA SemanticsStarts ==
  ASSUME SemanticsSoFar, ~err', FaultRead
  PROVE  SemanticsSoFar'
<1>1. /\ stage = "wrapper-fault-semantics" /\ UNCHANGED <<workspace, position>>
      /\ findings = <<>> /\ position = 0 /\ IsList(findings)
  BY DEF FaultRead, SemanticsSoFar, SemanticsPlace
<1>2. CASE Semantics.is = "valid" /\ stage' = "modes" /\ UNCHANGED findings
  <2>1. Semantics'.is = "valid"
    BY <1>1, <1>2, SemanticsSame
  <2>2. SemanticsPlace'
    BY <1>1, <1>2, <2>1 DEF SemanticsPlace
  <2>3. QED
    BY <1>1, <1>2, <2>2 DEF SemanticsSoFar
<1>3. CASE /\ Semantics.is = "invalid" /\ Add(Finding("schema", "semantics"))
           /\ stage' = "write"
  <2>1. ~SemanticsKept'
    BY <1>1, <1>3, SemanticsSame DEF SemanticsKept
  <2>2. IsList(findings') /\ findings' # <<>>
    BY <1>1, <1>3, Found
  <2>3. SemanticsPlace'
    BY <1>3 DEF SemanticsPlace
  <2>4. QED
    BY <1>3, <2>1, <2>2, <2>3 DEF SemanticsSoFar
<1>4. QED
  BY <1>2, <1>3 DEF FaultRead, GiveUp

(* The next mode, or the end of them.                                      *)
LEMMA SemanticsJudgesMode ==
  ASSUME SemanticsSoFar, err \in BOOLEAN, ~err', JudgeMode
  PROVE  SemanticsSoFar'
<1>1. /\ stage = "modes" /\ stage' = "modes" /\ Semantics.modes.is = "five"
      /\ position < 5 /\ position' = position + 1 /\ UNCHANGED workspace
  BY DEF JudgeMode, KindOf
<1>2. position \in Nat /\ Semantics.is = "valid"
  BY <1>1 DEF SemanticsSoFar, SemanticsPlace
<1>3. PICK i : i = position + 1
  OBVIOUS
<1>4. i \in FaultModes /\ position' = i /\ \A j \in 1 .. i : j \in 1 .. position \/ j = i
  BY <1>1, <1>2, <1>3 DEF FaultModes
<1>5. PICK fs : fs = ModeFaults(i)
  OBVIOUS
<1>6. IsList(fs) /\ AddAll(fs) /\ (fs = <<>> <=> ModeSound(i))
  BY <1>3, <1>4, <1>5, ModeJudged DEF JudgeMode
<1>7. ~ModeSound(i) => ~SemanticsKept
  BY <1>4, ModesKept DEF AllModesSound
<1>8. /\ IsList(findings')
      /\ findings' # <<>> => ~SemanticsKept'
      /\ findings' = <<>> => findings = <<>> /\ fs = <<>>
  BY <1>1, <1>6, <1>7, SemanticsTold
<1>9. SemanticsPlace'
  <2>1. position' \in Nat /\ Semantics'.is = "valid"
    BY <1>1, <1>2, SemanticsSame
  <2>2. QED
    BY <1>1, <2>1 DEF SemanticsPlace
<1>10. ASSUME findings' = <<>> PROVE \A j \in 1 .. position' : ModeSound(j)'
  <2>1. findings = <<>> /\ ModeSound(i)
    BY <1>6, <1>8, <1>10
  <2>2. \A j \in 1 .. position : ModeSound(j)
    BY <1>1, <2>1 DEF SemanticsSoFar
  <2>3. \A j \in 1 .. i : ModeSound(j)
    BY <1>4, <2>1, <2>2
  <2>4. \A j : ModeSound(j)' = ModeSound(j)
    BY <1>1, SemanticsSame
  <2>5. QED
    BY <1>4, <2>3, <2>4
<1>11. QED
  BY <1>1, <1>8, <1>9, <1>10 DEF SemanticsSoFar

LEMMA SemanticsModesEnd ==
  ASSUME SemanticsSoFar, ~err', stage' # "end", ModesEnd
  PROVE  SemanticsSoFar'
<1>1. /\ stage = "modes" /\ stage' = "admitted" /\ ModesUsable
      /\ Semantics.modes.is = "five" /\ position = 5 /\ position' = 0
      /\ UNCHANGED <<workspace, findings>>
  BY DEF ModesEnd, KindOf, resultVars
<1>2. Semantics.is = "valid" /\ IsList(findings) /\ (findings # <<>> => ~SemanticsKept)
  BY <1>1 DEF SemanticsSoFar, SemanticsPlace
<1>3. SemanticsPlace'
  <2>1. Semantics' = Semantics /\ ModesUsable'
    BY <1>1, SemanticsSame
  <2>2. QED
    BY <1>1, <1>2, <2>1 DEF SemanticsPlace
<1>4. findings = <<>> => AllModesSound
  BY <1>1 DEF SemanticsSoFar, AllModesSound, FaultModes
<1>5. /\ AllModesSound' = AllModesSound /\ SemanticsKept' = SemanticsKept
      /\ IsList(findings')
  BY <1>1, <1>2, SemanticsSame DEF IsList
<1>6. QED
  BY <1>1, <1>2, <1>3, <1>4, <1>5 DEF SemanticsSoFar

(* The next wrapper that is admitted, or the end of them.                  *)
LEMMA SemanticsJudgesIdentity ==
  ASSUME SemanticsSoFar, SemanticsTyped(workspace), err \in BOOLEAN, ~err',
         JudgeIdentity
  PROVE  SemanticsSoFar'
<1>1. /\ stage = "admitted" /\ stage' = "admitted" /\ position < Len(Admitted)
      /\ position' = position + 1 /\ UNCHANGED workspace
  BY DEF JudgeIdentity
<1>2. /\ position \in Nat /\ Semantics.is = "valid" /\ Semantics.modes.is = "five"
      /\ ModesUsable
  BY <1>1 DEF SemanticsSoFar, SemanticsPlace
<1>3. PICK n, usr : n = position + 1 /\ usr = Admitted[n]
  OBVIOUS
<1>4. ~AddAnyway(Finding("manifest", usr))
  BY DEF AddAnyway, AddAmid
<1>5. PICK fs : fs = If(usr \notin workspace.manifest, Finding("manifest", usr))
  OBVIOUS
<1>6. IsList(fs) /\ AddAll(fs) /\ (fs = <<>> <=> usr \in workspace.manifest)
  <2>1. AddAll(fs)
    BY <1>3, <1>4, <1>5 DEF JudgeIdentity
  <2>2. QED
    BY <1>5, <2>1, ListIf
<1>7. ~(usr \in workspace.manifest) => ~SemanticsKept
  <2>1. ASSUME SemanticsKept PROVE usr \in workspace.manifest
    <3>1. Admitted # Absent /\ ToSet(Admitted) \subseteq workspace.manifest
      BY <2>1 DEF SemanticsKept
    <3>2. n \in DOMAIN Admitted
      BY <1>1, <1>2, <1>3, AdmittedList DEF SemanticsPlain
    <3>3. QED
      BY <1>3, <3>1, <3>2 DEF ToSet
  <2>2. QED
    BY <2>1
<1>8. /\ IsList(findings')
      /\ findings' # <<>> => ~SemanticsKept'
      /\ findings' = <<>> => findings = <<>> /\ fs = <<>>
  BY <1>1, <1>6, <1>7, SemanticsTold
<1>9. Semantics' = Semantics /\ ModesUsable' /\ Admitted' = Admitted
  BY <1>1, <1>2, SemanticsSame
<1>10. SemanticsPlace'
  BY <1>1, <1>2, <1>9 DEF SemanticsPlace
<1>11. ASSUME findings' = <<>>
       PROVE  /\ AllModesSound'
              /\ \A m \in 1 .. position' : Admitted'[m] \in workspace'.manifest
  <2>1. findings = <<>> /\ usr \in workspace.manifest
    BY <1>6, <1>8, <1>11
  <2>2. AllModesSound /\ \A m \in 1 .. position : Admitted[m] \in workspace.manifest
    BY <1>1, <2>1 DEF SemanticsSoFar
  <2>3. \A m \in 1 .. n : m \in 1 .. position \/ m = n
    BY <1>2, <1>3
  <2>4. AllModesSound'
    BY <1>1, <2>2, SemanticsSame
  <2>5. QED
    BY <1>1, <1>3, <1>9, <2>1, <2>2, <2>3, <2>4
<1>12. QED
  BY <1>1, <1>8, <1>10, <1>11 DEF SemanticsSoFar

LEMMA SemanticsAnalyses ==
  ASSUME SemanticsSoFar, SemanticsTyped(workspace), ~err', Analyse
  PROVE  SemanticsSoFar'
<1>1. /\ stage = "admitted" /\ stage' = "mechanism" /\ position = Len(Admitted)
      /\ position' = 0 /\ UNCHANGED <<workspace, findings>>
  BY DEF Analyse, GiveUp
<1>2. /\ Semantics.is = "valid" /\ Semantics.modes.is = "five" /\ ModesUsable
      /\ IsList(findings) /\ (findings # <<>> => ~SemanticsKept)
  BY <1>1 DEF SemanticsSoFar, SemanticsPlace
<1>3. SemanticsPlace'
  <2>1. Semantics' = Semantics /\ ModesUsable' /\ position' \in 0 .. LastPart
    BY <1>1, <1>2, SemanticsSame DEF LastPart
  <2>2. QED
    BY <1>1, <1>2, <2>1 DEF SemanticsPlace
<1>4. findings = <<>> => AllModesSound /\ InManifest
  <2>1. DOMAIN Admitted = 1 .. position
    BY <1>1, <1>2, AdmittedList DEF SemanticsPlain
  <2>2. QED
    BY <1>1, <2>1 DEF SemanticsSoFar, InManifest
<1>5. /\ AllModesSound' = AllModesSound /\ SemanticsKept' = SemanticsKept
      /\ InManifest' = InManifest /\ IsList(findings')
  BY <1>1, <1>2, SemanticsSame DEF IsList
<1>6. QED
  BY <1>1, <1>2, <1>3, <1>4, <1>5 DEF SemanticsSoFar

(* The next part of the mechanism, or the end of them.                     *)
LEMMA SemanticsJudgesPart ==
  ASSUME SemanticsSoFar, SemanticsTyped(workspace), SemanticsReadable => NoneTwice,
         err \in BOOLEAN, ~err', JudgeFaultPart
  PROVE  SemanticsSoFar'
<1>1. /\ stage = "mechanism" /\ stage' = "mechanism" /\ position < LastPart
      /\ position' = IF position = 0 /\ ~MechanismUsable THEN DerivedPart - 1
                     ELSE position + 1
      /\ UNCHANGED workspace
  BY DEF JudgeFaultPart
<1>2. /\ position \in 0 .. LastPart /\ Semantics.is = "valid"
      /\ Semantics.modes.is = "five" /\ ModesUsable
  BY <1>1 DEF SemanticsSoFar, SemanticsPlace
<1>3. SemanticsPlain /\ WrappersPlain
  BY <1>2 DEF SemanticsPlain, WrappersPlain, SemanticsReadable
<1>4. PICK p : p = position + 1
  OBVIOUS
<1>5. p \in 1 .. LastPart /\ \A q \in 1 .. p : q \in 1 .. position \/ q = p
  BY <1>1, <1>2, <1>4 DEF LastPart
<1>6. PICK stray \in BOOLEAN : AddAll(FaultPart(p, stray))
  BY <1>4 DEF JudgeFaultPart
<1>7. PICK fs : fs = FaultPart(p, stray)
  OBVIOUS
<1>8. IsList(fs) /\ AddAll(fs) /\ (AllModesSound => (fs = <<>> <=> PartSound(p)))
  BY <1>2, <1>3, <1>5, <1>6, <1>7, PartJudged
<1>9. findings = <<>> => AllModesSound /\ InManifest /\ \A q \in 1 .. position : PartSound(q)
  BY <1>1 DEF SemanticsSoFar
<1>10. findings = <<>> /\ fs # <<>> => ~SemanticsKept
  <2>1. ASSUME findings = <<>>, fs # <<>> PROVE ~SemanticsKept
    <3>1. AllModesSound /\ ~PartSound(p)
      BY <1>8, <1>9, <2>1
    <3>2. ~AllPartsSound
      BY <1>5, <3>1 DEF AllPartsSound
    <3>3. QED
      BY <1>3, <3>1, <3>2, SoundIsKept
  <2>2. QED
    BY <2>1
<1>11. /\ IsList(findings')
       /\ findings' # <<>> => ~SemanticsKept'
       /\ findings' = <<>> => findings = <<>> /\ fs = <<>>
  BY <1>1, <1>8, <1>10, SemanticsTold
<1>12. SemanticsPlace'
  <2>1. position' \in 0 .. LastPart
    BY <1>1, <1>2 DEF LastPart, DerivedPart
  <2>2. Semantics' = Semantics /\ ModesUsable'
    BY <1>1, <1>2, SemanticsSame
  <2>3. QED
    BY <1>1, <1>2, <2>1, <2>2 DEF SemanticsPlace
<1>13. ASSUME findings' = <<>>
       PROVE  /\ AllModesSound' /\ InManifest'
              /\ \A q \in 1 .. position' : PartSound(q)'
  <2>1. findings = <<>> /\ AllModesSound /\ InManifest /\ PartSound(p)
    BY <1>8, <1>9, <1>11, <1>13
  <2>2. position' = p
    <3>1. CASE position = 0
      <4>1. MechanismUsable
        BY <1>4, <2>1, <3>1 DEF PartSound, MechanismSound
      <4>2. QED
        BY <1>1, <1>4, <4>1
    <3>2. CASE position # 0
      BY <1>1, <1>4, <3>2
    <3>3. QED
      BY <3>1, <3>2
  <2>3. \A q \in 1 .. p : PartSound(q)
    BY <1>5, <1>9, <2>1
  <2>4. (\A q : PartSound(q)' = PartSound(q)) /\ AllModesSound' /\ InManifest'
    BY <1>1, <2>1, SemanticsSame
  <2>5. QED
    BY <2>2, <2>3, <2>4
<1>14. QED
  BY <1>1, <1>11, <1>12, <1>13 DEF SemanticsSoFar

LEMMA SemanticsEnds ==
  ASSUME SemanticsSoFar, SemanticsTyped(workspace), SemanticsReadable => NoneTwice,
         stage' # "end", FaultsEnd
  PROVE  SemanticsSoFar'
<1>1. /\ stage = "mechanism" /\ stage' = "write" /\ position = LastPart
      /\ UNCHANGED <<workspace, findings>>
  BY DEF FaultsEnd, PolicyEnds
<1>2. /\ Semantics.is = "valid" /\ Semantics.modes.is = "five" /\ ModesUsable
      /\ IsList(findings) /\ (findings # <<>> => ~SemanticsKept)
  BY <1>1 DEF SemanticsSoFar, SemanticsPlace
<1>3. WrappersPlain
  BY <1>2 DEF SemanticsPlain, WrappersPlain, SemanticsReadable
<1>4. findings = <<>> => SemanticsKept
  <2>1. findings = <<>> => AllModesSound /\ InManifest /\ AllPartsSound
    BY <1>1 DEF SemanticsSoFar, AllPartsSound
  <2>2. QED
    BY <1>3, <2>1, SoundIsKept
<1>5. SemanticsKept' = SemanticsKept /\ IsList(findings') /\ SemanticsPlace'
  BY <1>1, <1>2, SemanticsSame DEF IsList, SemanticsPlace
<1>6. QED
  BY <1>1, <1>2, <1>4, <1>5 DEF SemanticsSoFar

LEMMA SemanticsBegins == Init => SemanticsInv
<1> SUFFICES ASSUME Init, SemanticsAsked PROVE SemanticsInv
  BY DEF SemanticsInv
<1>1. PICK run \in InputRuns : options = run.options /\ workspace = run.workspace
  BY DEF Init
<1>2. SemanticsTyped(workspace)
  BY <1>1, InputAssumption DEF SemanticsAsked
<1>3. stage = "arguments" /\ findings = <<>> /\ position = 0
  BY DEF Init
<1>4. IsList(findings)
  BY <1>3 DEF ToSet, IsList
<1>5. QED
  BY <1>2, <1>3, <1>4 DEF SemanticsInv, SemanticsSoFar, SemanticsPlace, CommonStages

LEMMA SemanticsPolicyStep ==
  ASSUME RunInv, SemanticsInv, SemanticsAsked, AnyPolicy
  PROVE  SemanticsInv'
<1>1. stage \in PolicyStages /\ status = Trouble /\ status' = Trouble
  BY PolicyShown, StageNames DEF RunInv, RanInv
<1>2. stage \in FaultStages /\ stage \notin {"end", "ended"}
  BY <1>1, StageNames DEF SemanticsInv, CommonStages
<1>3. FaultSemantics /\ Within(FaultStages)
  BY <1>2, PolicyOfStage DEF RunInv
<1>4. /\ stage' \in CommonStages \cup FaultStages
      /\ UNCHANGED <<options, workspace>>
      /\ ErrStays
  BY <1>3 DEF Within, CommonStages
<1>5. SemanticsTyped(workspace) /\ err \in BOOLEAN /\ (SemanticsReadable => NoneTwice)
  BY DEF SemanticsInv, SemanticsAsked, RunInv, ErrInv
<1>6. ASSUME stage' \notin {"end", "ended"}, ~err' PROVE SemanticsSoFar'
  <2>1. ~err
    BY <1>4, <1>5, <1>6 DEF ErrStays
  <2>2. SemanticsSoFar
    BY <1>2, <2>1 DEF SemanticsInv
  <2>3. ~ModesDrifted
    BY <1>6 DEF ModesDrifted
  <2>4. QED
    BY <1>3, <1>5, <1>6, <2>2, <2>3, SemanticsStarts, SemanticsJudgesMode,
       SemanticsModesEnd, SemanticsJudgesIdentity, SemanticsAnalyses,
       SemanticsJudgesPart, SemanticsEnds DEF FaultSemantics
<1>7. SemanticsTyped(workspace)'
  BY <1>4, <1>5, SemanticsSame
<1>8. QED
  BY <1>1, <1>4, <1>6, <1>7 DEF SemanticsInv

LEMMA SemanticsMainStep ==
  ASSUME RunInv, SemanticsInv, SemanticsAsked, MainStep
  PROVE  SemanticsInv'
<1>1. /\ UNCHANGED <<options, workspace, findings, position>>
      /\ Acceptable(options) /\ options.policy = "wrapper-fault-semantics"
  BY DEF MainStep, SemanticsAsked
<1>2. stage' \in CommonStages \cup FaultStages
  BY <1>1 DEF MainStep, SemanticsInv, CommonStages, FaultStages
<1>3. SemanticsKept \in BOOLEAN /\ err \in BOOLEAN
  BY DEF SemanticsKept, RunInv, ErrInv
<1>4. stage \in {"write", "written"} /\ ~err => ((findings = <<>>) <=> SemanticsKept)
  BY DEF SemanticsInv, SemanticsSoFar
<1>5. stage' \in {"end", "ended"} /\ (stage' = "end" => ~err') /\ status' # Trouble =>
        ((status' = Success) <=> SemanticsKept)
  BY <1>1, <1>3, <1>4, VerdictKept DEF SemanticsInv
<1>6. /\ SemanticsKept' = SemanticsKept /\ Semantics' = Semantics
      /\ SemanticsTyped(workspace)' = SemanticsTyped(workspace)
      /\ ModesUsable' = ModesUsable /\ AllModesSound' = AllModesSound
      /\ InManifest' = InManifest /\ Admitted' = Admitted
      /\ \A i : ModeSound(i)' = ModeSound(i)
      /\ \A p : PartSound(p)' = PartSound(p)
  BY <1>1, SemanticsSame
<1>7. ASSUME stage' \notin {"end", "ended"}, ~err' PROVE SemanticsSoFar'
  <2>1. stage \notin {"end", "ended"} /\ ~err
    <3>1. stage \notin {"end", "ended"}
      BY <1>7 DEF MainStep
    <3>2. err' = err \/ err' = TRUE
      BY <1>7, <3>1 DEF MainStep
    <3>3. QED
      BY <1>3, <1>7, <3>1, <3>2
  <2>2. SemanticsSoFar
    BY <2>1 DEF SemanticsInv
  <2>3. \/ stage' = stage
        \/ stage = "arguments" /\ stage' = "resolve"
        \/ stage = "resolve" /\ stage' = "wrapper-fault-semantics"
        \/ stage = "write" /\ stage' = "written"
    BY <1>1, <1>7 DEF MainStep
  <2>4. SemanticsPlace'
    BY <1>1, <1>6, <2>2, <2>3 DEF SemanticsSoFar, SemanticsPlace
  <2>5. IsList(findings')
    BY <1>1, <2>2 DEF SemanticsSoFar, IsList
  <2>6. QED
    BY <1>1, <1>6, <2>2, <2>3, <2>4, <2>5 DEF SemanticsSoFar
<1>8. QED
  BY <1>1, <1>2, <1>5, <1>6, <1>7 DEF SemanticsInv

LEMMA SemanticsNext ==
  ASSUME RunInv, SemanticsInv, [Next]_vars
  PROVE  SemanticsInv'
<1>1. UNCHANGED <<options, workspace>>
  BY MainSteps, PolicyShown DEF MainStep
<1>2. CASE SemanticsAsked
  BY <1>2, MainSteps, SemanticsPolicyStep, SemanticsMainStep
<1>3. CASE ~SemanticsAsked
  BY <1>1, <1>3, SemanticsSame DEF SemanticsInv, SemanticsAsked, Acceptable
<1>4. QED
  BY <1>2, <1>3

(* wrapper-fault-semantics says 0 exactly if the five modes are what they  *)
(* are meant to be, the mechanism is used by the admitted wrappers and by  *)
(* no one else, its evidence is there, and both generated contracts have   *)
(* each of these wrappers; where no contract has a wrapper twice.          *)
THEOREM SemanticsEarned == Spec => []SemanticsAreEarned
<1>1. Init => RunInv /\ SemanticsInv
  BY RunStart, SemanticsBegins
<1>2. RunInv /\ SemanticsInv /\ [Next]_vars => (RunInv /\ SemanticsInv)'
  BY RunStep, SemanticsNext
<1>3. SemanticsInv => SemanticsAreEarned
  BY DEF SemanticsInv, SemanticsAreEarned, Judged, SemanticsAsked
<1>4. QED
  BY <1>1, <1>2, <1>3, PTL DEF Spec
=============================================================================
