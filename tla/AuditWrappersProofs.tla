------------------------ MODULE AuditWrappersProofs -------------------------
(***************************************************************************)
(* Theorems about AuditWrappers: for every command line, inventory source  *)
(* and list of records the whole command keeps the promise of AuditTool,   *)
(* leaves no later output beside a broken earlier one, and ends with       *)
(* status 0 only when that is earned.                                      *)
(***************************************************************************)
EXTENDS AuditWrappers, FiniteSetTheorems, FunctionTheorems, TLAPS

(* The lemmas about the stage that scans.                                  *)
Scans == INSTANCE WrapperScanProofs

-----------------------------------------------------------------------------
(* The definitions of WrapperScan mean the same in both instances.         *)

LEMMA SameTypes ==
  /\ Scans!Texts = Texts /\ Scans!Fact = Fact /\ Scans!Record = Record
  /\ Scans!Mapping = Mapping /\ Scans!Manifest = Manifest /\ Scans!Root = Root
<1>1. Scans!Texts = Texts
  BY DEF Scans!Texts, Texts
<1>2. Scans!Fact = Fact
  BY DEF Scans!Fact, Fact, Scans!Kinds, Kinds, Scans!Texts, Texts
<1>3. Scans!Record = Record
  BY <1>2 DEF Scans!Record, Record
<1>4. Scans!Mapping = Mapping
  BY <1>1 DEF Scans!Mapping, Mapping
<1>5. Scans!Row = Row
  BY <1>4 DEF Scans!Row, Row
<1>6. Scans!Manifest = Manifest
  BY <1>5 DEF Scans!Manifest, Manifest
<1>7. Scans!Root = Root
  BY <1>1, <1>3 DEF Scans!Root, Root
<1>8. QED
  BY <1>1, <1>2, <1>3, <1>4, <1>6, <1>7

LEMMA SameOrder ==
  /\ \A K : Sources!InOrder(K) = Scans!InOrder(K)
  /\ Sources!Representatives = Scans!Representatives
<1>1. \A K : Sources!InOrder(K) = Scans!InOrder(K)
  BY DEF Sources!InOrder, Scans!InOrder, Sources!Sorted, Scans!Sorted,
         Sources!Before, Scans!Before, Sources!FactKey, Scans!FactKey,
         Sources!KindRank, Scans!KindRank, Sources!Kinds, Scans!Kinds,
         Sources!Cardinality, Scans!Cardinality
<1>2. Sources!Representatives = Scans!Representatives
  BY DEF Sources!Representatives, Scans!Representatives, Sources!Alike,
         Scans!Alike, Sources!FactKey, Scans!FactKey, Sources!KindRank,
         Scans!KindRank, Sources!Kinds, Scans!Kinds, Sources!Cardinality,
         Scans!Cardinality
<1>3. QED
  BY <1>1, <1>2

LEMMA SameOwner ==
  \A f : Sources!Owned(f) = Scans!Owned(f)
<1>1. \A P : /\ Sources!First(P) = Scans!First(P)
             /\ Sources!Narrowest(facts, P) = Scans!Narrowest(facts, P)
  BY DEF Sources!First, Scans!First, Sources!Narrowest, Scans!Narrowest
<1>2. \A f : /\ Sources!Surrounding(f) = Scans!Surrounding(f)
             /\ Sources!Bodies(f) = Scans!Bodies(f)
  BY DEF Sources!Surrounding, Scans!Surrounding, Sources!Bodies,
         Scans!Bodies, Sources!IsDefinition, Scans!IsDefinition
<1>3. \A f : Sources!OwnedByCall(f) = Scans!OwnedByCall(f)
  BY <1>1, <1>2, Zenon DEF Sources!OwnedByCall, Scans!OwnedByCall
<1>4. \A f : Sources!OwnedByBody(f) = Scans!OwnedByBody(f)
  <2> TAKE f
  <2>1. Sources!Narrowest(facts, Sources!Bodies(f))
          = Scans!Narrowest(facts, Scans!Bodies(f))
    BY <1>1, <1>2
  <2>2. QED
    BY <2>1, Zenon DEF Sources!OwnedByBody, Scans!OwnedByBody
<1>5. \A f : Sources!Unowned(f) <=> Scans!Unowned(f)
  BY DEF Sources!Unowned, Scans!Unowned, Sources!IsExpansion,
         Scans!IsExpansion
<1>6. QED
  BY <1>3, <1>4, <1>5, Zenon DEF Sources!Owned, Scans!Owned

(* The callback is the one that runs over a header root.                   *)
LEMMA SameObserver ==
  /\ Sources!Observe <=> Observe
  /\ Sources!ScanFails <=> ScanFails
  /\ Sources!ScanEnded <=> ScanEnded
BY DEF Sources!Observe, Observe, Sources!ScanFails, ScanFails,
       Sources!ScanEnded, ScanEnded, Sources!Fails, Fails, Sources!Counted,
       Counted, Sources!MakeRoom, MakeRoom, Sources!NoRoom, NoRoom,
       Sources!Doubled, Doubled

-----------------------------------------------------------------------------
(* What holds in every state of a run.                                     *)

ArgumentFields ==
  {"allowedUsrs", "rules", "files", "counts", "database", "strict",
   "portability", "show", "emit", "databaseOnly"}

Loading == {"manifests", "roots", "rootscan", "roles", "publics"}
Scanning == {"scan", "macros", "deduplicate"}
Judging == {"judge", "rules", "report"}
Stages ==
  {"arguments", "loaded", "scanned", "exit", "ended"}
    \cup Loading \cup Scanning \cup Judging

MainTypeOK ==
  /\ stage \in Stages
  /\ err \in BOOLEAN /\ valid \in BOOLEAN /\ factsOnly \in BOOLEAN
  /\ argv \in Seq(Option) /\ parsed \in 0 .. Len(argv)
  /\ DOMAIN arguments = ArgumentFields
  /\ arguments.files \in SUBSET FileNames
  /\ output \in [Outputs -> {"untouched", "partial", "whole"}]
  /\ status \in {Success, ExitFindings, ExitTrouble}

(* A diagnostic among the facts has been counted, and rolling back a       *)
(* header root leaves facts that were there before.                        *)
FactsInv ==
  /\ facts \in Seq(Fact) /\ parseFailures \in Nat
  /\ ObserverTypeOK
  /\ roots \in Seq(Root) /\ root \in Nat /\ first \in Nat
  /\ stage \in {"rootscan", "roles", "publics"} => first <= Len(facts)
  /\ (\E i \in DOMAIN facts : facts[i].kind = "DIAGNOSTIC")
       => parseFailures > 0

(* A line that could not be taken, and any error, leads to the exit.       *)
ErrorsEnd ==
  /\ stage \notin {"arguments", "exit", "ended"} => valid /\ ~err
  /\ stage = "arguments" => (err => ~valid) /\ status = ExitTrouble
  /\ stage = "arguments" \/ ~valid => parseFailures = 0
  /\ stage \in Scanning \cup {"scanned"} \cup Judging => ~Showing
  /\ stage \in Judging => ~factsOnly

(* The files are written after the scan, and stdout last.                  *)
OutputsInv ==
  /\ stage \in {"arguments", "loaded"} \cup Loading \cup Scanning =>
       \A o \in Outputs : output[o] = "untouched"
  /\ stage \notin {"exit", "ended"} =>
       /\ output["stdout"] = "untouched"
       /\ \A o \in Outputs : output[o] \in {"untouched", "whole"}
  /\ stage \in Judging => \A o \in arguments.files : output[o] = "whole"

(* Without an error the exit is reached with everything written, and with  *)
(* a status that knows of the parse failures.                              *)
ExitEarned ==
  stage = "exit" /\ ~err /\ valid =>
    /\ \A o \in Wanted : output[o] = "whole"
    /\ IF ~Showing /\ parseFailures > 0 THEN status = ExitTrouble
       ELSE status \in {Success, ExitFindings}

MainInv ==
  /\ MainTypeOK /\ FactsInv /\ ErrorsEnd /\ OutputsInv /\ ExitEarned

-----------------------------------------------------------------------------
(* What the stages do to the control of the command.                       *)

(* A step that can fail either leaves the control alone or ends the run.   *)
Onward == UNCHANGED <<stage, err>> \/ Fails

LEMMA ObserverControl ==
  /\ Observe => Onward
  /\ ScanFails => Fails
  /\ \A m : AddMapping(m) => Onward
BY DEF Observe, ScanFails, AddMapping, Onward

LEMMA LoadControl ==
  ASSUME Load, stage \in Loading => err = FALSE
  PROVE  /\ stage \in Loading
         /\ \/ stage' \in Loading \cup {"loaded"} /\ err' = err
            \/ stage' = "exit" /\ err' = TRUE
<1> USE DEF Loading
<1>1. CASE ManifestFails
  BY <1>1 DEF ManifestFails, Fails
<1>2. CASE ReadRow
  <2>1. Onward /\ stage = "manifests"
    BY <1>2, ObserverControl DEF ReadRow, Reading
  <2>2. QED
    BY <2>1 DEF Onward, Fails
<1>3. CASE ManifestEnds \/ ManifestsEnd \/ StartRoot \/ RootScanEnds
           \/ RolesEnd \/ RootEnds
  BY <1>3 DEF ManifestEnds, Reading, ManifestsEnd, StartRoot, RootScanEnds,
              RolesEnd, RootEnds
<1>4. CASE ObserveRoot \/ RootScanFails
  <2>1. Onward /\ stage = "rootscan"
    BY <1>4, ObserverControl DEF ObserveRoot, RootScanFails, Onward
  <2>2. QED
    BY <2>1 DEF Onward, Fails
<1>5. CASE ReadRole \/ ReadPublic
  <2>1. Onward /\ stage \in {"roles", "publics"}
    BY <1>5, ObserverControl DEF ReadRole, ReadPublic, Looking, Onward
  <2>2. QED
    BY <2>1 DEF Onward, Fails
<1>6. CASE LoadEnds
  <2>1. CASE inventory = <<>>
    BY <1>6, <2>1 DEF LoadEnds
  <2>2. CASE inventory # <<>>
    BY <1>6, <2>2 DEF LoadEnds
  <2>3. QED
    BY <2>1, <2>2
<1>7. QED
  BY <1>1, <1>2, <1>3, <1>4, <1>5, <1>6 DEF Load

LEMMA ScanControl ==
  ASSUME Sources!Scan
  PROVE  /\ stage \in Scanning
         /\ \/ stage' \in Scanning \cup {"scanned"} /\ err' = err
            \/ stage' = "exit" /\ err' = TRUE
<1> USE DEF Scanning
<1>1. CASE Sources!ObserveSource \/ Sources!SourceScanFails
  <2>1. Onward /\ stage = "scan"
    BY <1>1, ObserverControl, SameObserver
    DEF Sources!ObserveSource, Sources!SourceScanFails, Onward
  <2>2. QED
    BY <2>1 DEF Onward, Fails
<1>2. CASE Sources!SourceScanEnds \/ Sources!AssignMacroCallers
           \/ Sources!Deduplicate
  BY <1>2 DEF Sources!SourceScanEnds, Sources!AssignMacroCallers,
              Sources!Deduplicate
<1>3. QED
  BY <1>1, <1>2 DEF Sources!Scan

LEMMA JudgeControl ==
  ASSUME Judgement!Judge
  PROVE  /\ stage \in {"judge", "rules"}
         /\ UNCHANGED <<facts, parseFailures, arguments>>
         /\ \/ /\ stage' \in Judging
               /\ stage = "judge" => err' = err
               /\ stage = "rules" => err' = FALSE
            \/ stage' = "exit" /\ err' = TRUE
<1> USE DEF Judging
<1>1. CASE Judgement!JudgeInclude \/ Judgement!JudgeCrossing
  <2>1. /\ stage = "judge" /\ UNCHANGED <<facts, parseFailures, arguments>>
        /\ \E k, f, w, u : Judgement!AddFinding(k, f, w, u)
    BY <1>1 DEF Judgement!JudgeInclude, Judgement!JudgeCrossing,
                Judgement!Judging, Judgement!Crosses
  <2>2. ASSUME NEW k, NEW f, NEW w, NEW u, Judgement!AddFinding(k, f, w, u)
        PROVE  \/ UNCHANGED <<stage, err>>
               \/ stage' = "exit" /\ err' = TRUE
    BY <2>2 DEF Judgement!AddFinding
  <2>3. QED
    BY <2>1, <2>2 DEF Judging
<1>2. CASE Judgement!JudgePassBy \/ Judgement!JudgeAllowed
           \/ Judgement!JudgeImplementation \/ Judgement!JudgeEnd
  BY <1>2 DEF Judgement!JudgePassBy, Judgement!JudgeAllowed,
              Judgement!JudgeImplementation, Judgement!JudgeEnd,
              Judgement!Judging, Judgement!modelVars, Judgement!judgeVars
<1>3. CASE Judgement!CheckRules
  <2>1. CASE Judgement!AllUsed
    BY <1>3, <2>1 DEF Judgement!CheckRules, modelVars, Judgement!modelVars,
                      Judgement!judgeVars
  <2>2. CASE ~Judgement!AllUsed
    BY <1>3, <2>2 DEF Judgement!CheckRules, modelVars, Judgement!modelVars,
                      Judgement!judgeVars
  <2>3. QED
    BY <2>1, <2>2
<1>4. QED
  BY <1>1, <1>2, <1>3 DEF Judgement!Judge


-----------------------------------------------------------------------------
(* The facts and the records they come from.                               *)

factVars == <<facts, parseFailures, records, delivered, roots, root, first>>

LEMMA FactsQuiet ==
  ASSUME FactsInv, UNCHANGED factVars,
         stage' \in {"rootscan", "roles", "publics"} =>
           stage \in {"rootscan", "roles", "publics"}
  PROVE  FactsInv'
BY DEF FactsInv, factVars, ObserverTypeOK

(* A record that is stored becomes the last fact, and was counted.         *)
LEMMA FactsObserved ==
  ASSUME FactsInv, Observe, UNCHANGED <<roots, root, first>>,
         stage' \in {stage, "exit"}
  PROVE  FactsInv'
<1> DEFINE r == records[delivered + 1]
<1>1. /\ r \in Record /\ r.fact \in Fact
      /\ delivered' \in 0 .. Len(records)
  <2>1. delivered + 1 \in 1 .. Len(records)
    BY DEF FactsInv, ObserverTypeOK, Observe, ScanEnded
  <2>2. r \in Record
    BY <2>1 DEF FactsInv, ObserverTypeOK
  <2>3. QED
    BY <2>1, <2>2 DEF Record, Observe
<1>2. ObserverTypeOK'
  BY <1>1 DEF FactsInv, ObserverTypeOK, Observe
<1>3. /\ parseFailures' \in Nat /\ parseFailures' >= parseFailures
      /\ r.fact.kind = "DIAGNOSTIC" => parseFailures' > 0
  BY DEF FactsInv, Observe, Counted
<1>4. facts' = facts \/ facts' = Append(facts, r.fact)
  BY DEF Observe
<1>5. QED
  <2>1. CASE facts' = facts
    BY <1>2, <1>3, <2>1 DEF FactsInv
  <2>2. CASE facts' = Append(facts, r.fact)
    <3> HIDE DEF r
    <3>1. /\ facts' \in Seq(Fact) /\ Len(facts') = Len(facts) + 1
          /\ \A i \in DOMAIN facts' :
               facts'[i] = r.fact \/ (i \in DOMAIN facts /\ facts'[i] = facts[i])
      BY <1>1, <2>2 DEF FactsInv
    <3>2. (\E i \in DOMAIN facts' : facts'[i].kind = "DIAGNOSTIC")
            => parseFailures' > 0
      BY <1>3, <3>1 DEF FactsInv
    <3>3. stage' \in {"rootscan", "roles", "publics"} => first' <= Len(facts')
      BY <3>1 DEF FactsInv
    <3>4. QED
      BY <1>2, <1>3, <3>1, <3>2, <3>3 DEF FactsInv
  <2>3. QED
    BY <1>4, <2>1, <2>2

(* Each fact left was there, or is one that was there with its owner.      *)
LEMMA FactsKept ==
  ASSUME FactsInv, facts' \in Seq(Fact),
         \A i \in DOMAIN facts' : \E j \in DOMAIN facts :
           facts'[i].kind = facts[j].kind,
         UNCHANGED <<parseFailures, records, delivered, roots, first>>,
         root' \in Nat, stage' \notin {"rootscan", "roles", "publics"}
  PROVE  FactsInv'
BY DEF FactsInv, ObserverTypeOK

LEMMA OwnersKept ==
  ASSUME FactsInv, Sources!AssignMacroCallers,
         UNCHANGED <<roots, root, first>>
  PROVE  FactsInv'
<1>1. facts \in Seq(Fact)
  BY DEF FactsInv
<1>2. DOMAIN facts = 1 .. Len(facts) /\ Len(facts) \in Nat
  BY <1>1
<1>3. facts' = [i \in DOMAIN facts |-> Scans!Owned(facts[i])]
  BY SameOwner DEF Sources!AssignMacroCallers
<1>4. \A i \in DOMAIN facts : facts[i] \in Scans!Fact
  BY <1>1, SameTypes
<1>5. \A i \in DOMAIN facts : /\ Scans!Owned(facts[i]) \in Scans!Fact
                              /\ Scans!Owned(facts[i]).kind = facts[i].kind
  BY <1>1, <1>4, SameTypes, Scans!OwnedKeeps, WrapperAssumption,
     RecordsAssumption, InventoryAssumption
<1>6. facts' \in Seq(Fact)
  BY <1>2, <1>3, <1>5, SameTypes
<1>7. \A i \in DOMAIN facts' : i \in DOMAIN facts /\ facts'[i].kind = facts[i].kind
  BY <1>3, <1>5
<1>8. QED
  BY <1>6, <1>7, FactsKept DEF Sources!AssignMacroCallers, FactsInv,
     observerVars, Sources!observerVars

LEMMA RepresentativesAreFacts ==
  ASSUME FactsInv, Sources!Deduplicate, UNCHANGED <<roots, root, first>>
  PROVE  FactsInv'
<1>1. facts \in Seq(Scans!Fact)
  BY SameTypes DEF FactsInv
<1>2. PICK K \in Scans!Representatives : facts' = Scans!InOrder(K)
  BY SameOrder DEF Sources!Deduplicate
<1>3. /\ Scans!InOrder(K) \in Seq(Scans!Fact)
      /\ \A n \in DOMAIN Scans!InOrder(K) : \E i \in DOMAIN facts :
           Scans!InOrder(K)[n] = facts[i]
  BY <1>1, Scans!KeptInOrder, SameTypes, WrapperAssumption,
     RecordsAssumption, InventoryAssumption
<1>4. /\ facts' \in Seq(Fact)
      /\ \A n \in DOMAIN facts' : \E i \in DOMAIN facts :
           facts'[n].kind = facts[i].kind
  BY <1>2, <1>3, SameTypes
<1>5. QED
  BY <1>4, FactsKept DEF Sources!Deduplicate, FactsInv, Sources!observerVars


LEMMA FactsLoaded ==
  ASSUME FactsInv, Load
  PROVE  FactsInv'
<1> DEFINE InRoot == {"rootscan", "roles", "publics"}
<1>1. CASE \/ ManifestFails \/ ReadRow \/ ManifestEnds \/ ManifestsEnd
           \/ RootScanFails \/ RootScanEnds \/ ReadRole \/ RolesEnd
           \/ ReadPublic \/ LoadEnds
  <2>1. UNCHANGED factVars
    BY <1>1 DEF ManifestFails, ReadRow, ManifestEnds, ManifestsEnd,
         RootScanFails, ScanFails, RootScanEnds, ReadRole, RolesEnd,
         ReadPublic, LoadEnds, factVars, modelVars, observerVars, inventoryVars
  <2>2. stage' \in InRoot => stage \in InRoot
    <3>1. CASE ReadRow \/ ReadRole \/ ReadPublic
      <4>1. Onward
        BY <3>1, ObserverControl DEF ReadRow, ReadRole, ReadPublic, Onward
      <4>2. QED
        BY <4>1 DEF Onward, Fails
    <3>2. CASE ~(ReadRow \/ ReadRole \/ ReadPublic)
      BY <1>1, <3>2 DEF ManifestFails, ManifestEnds, ManifestsEnd, Fails,
         RootScanFails, ScanFails, RootScanEnds, RolesEnd, LoadEnds, Reading
    <3>3. QED
      BY <3>1, <3>2
  <2>3. QED
    BY <2>1, <2>2, FactsQuiet
<1>2. CASE StartRoot
  <2>1. roots[root + 1] \in Root
    BY <1>2 DEF StartRoot, FactsInv
  <2>2. ObserverTypeOK'
    BY <1>2, <2>1 DEF StartRoot, StartScan, Root, ObserverTypeOK
  <2>3. QED
    BY <1>2, <2>2 DEF StartRoot, FactsInv, modelVars
<1>3. CASE ObserveRoot
  <2>1. Onward
    BY <1>3, ObserverControl DEF ObserveRoot
  <2>2. QED
    BY <1>3, <2>1, FactsObserved DEF ObserveRoot, inventoryVars, Onward, Fails
<1>4. CASE RootEnds
  <2>1. /\ first \in 0 .. Len(facts) /\ facts \in Seq(Fact)
        /\ facts' = SubSeq(facts, 1, first)
    BY <1>4 DEF RootEnds, RolledBack, FactsInv
  <2>2. /\ facts' \in Seq(Fact)
        /\ \A i \in DOMAIN facts' :
             i \in DOMAIN facts /\ facts'[i] = facts[i]
    BY <2>1
  <2>3. QED
    BY <1>4, <2>2, FactsKept DEF RootEnds, FactsInv, observerVars
<1>5. QED
  BY <1>1, <1>2, <1>3, <1>4 DEF Load

LEMMA FactsScanned ==
  ASSUME FactsInv, Sources!Scan, UNCHANGED inventoryVars
  PROVE  FactsInv'
<1>1. UNCHANGED <<roots, root, first>>
  BY DEF inventoryVars
<1>2. CASE Sources!ObserveSource
  <2>1. Observe /\ Onward
    BY <1>2, SameObserver, ObserverControl DEF Sources!ObserveSource
  <2>2. QED
    BY <1>1, <2>1, FactsObserved DEF Onward, Fails
<1>3. CASE Sources!SourceScanFails \/ Sources!SourceScanEnds
  BY <1>1, <1>3, FactsQuiet, SameObserver
  DEF Sources!SourceScanFails, Sources!SourceScanEnds, ScanFails, Fails,
      factVars, Sources!modelVars, Sources!observerVars
<1>4. QED
  BY <1>1, <1>2, <1>3, OwnersKept, RepresentativesAreFacts DEF Sources!Scan

(* The command line: options come from a line, and roots from an option.   *)
LEMMA OptionTaken ==
  ASSUME MainTypeOK, FactsInv, ParseOption
  PROVE  /\ Len(argv) >= parsed + 1 /\ parsed + 1 \in Nat
         /\ argv[parsed + 1] \in Option
         /\ argv[parsed + 1].is = "root" => argv[parsed + 1].root \in Root
         /\ argv[parsed + 1].is = "output" =>
              argv[parsed + 1].file \in FileNames
         /\ argv[parsed + 1].is = "switch" =>
              argv[parsed + 1].switch \in Switches
<1> DEFINE o == argv[parsed + 1]
<1>1. Len(argv) >= parsed + 1 /\ parsed + 1 \in 1 .. Len(argv)
  BY DEF ParseOption, MainTypeOK
<1>2. o \in Option
  BY <1>1 DEF MainTypeOK
<1>3. o.is = "root" => o \in [is : {"root"}, root : Root]
  BY <1>2 DEF Option
<1>4. o.is = "output" => o \in [is : {"output"}, file : FileNames]
  BY <1>2 DEF Option
<1>5. o.is = "switch" => o \in [is : {"switch"}, switch : Switches]
  BY <1>2 DEF Option
<1>6. QED
  BY <1>1, <1>2, <1>3, <1>4, <1>5

LEMMA ArgumentsFacts ==
  ASSUME MainTypeOK, FactsInv, ParseOption \/ ParseEnd
  PROVE  FactsInv'
<1>1. CASE ParseEnd
  BY <1>1, FactsQuiet DEF ParseEnd, factVars, modelVars, observerVars,
                          inventoryVars
<1>2. CASE ParseOption
  <2> DEFINE o == argv[parsed + 1]
  <2>1. roots' \in Seq(Root)
    <3>1. \/ roots' = roots
          \/ o.is = "root" /\ roots' = Append(roots, o.root)
      BY <1>2 DEF ParseOption, TakeSwitch, TakeValue, TakeAllowFile, TakeNone,
                  Refuse, RefuseWithError, Becomes
    <3>2. o.is = "root" => o.root \in Root
      BY <1>2, OptionTaken
    <3>3. roots \in Seq(Root)
      BY DEF FactsInv
    <3> HIDE DEF o
    <3>4. QED
      BY <3>1, <3>2, <3>3
  <2>2. QED
    BY <1>2, <2>1 DEF ParseOption, FactsInv, ObserverTypeOK, modelVars,
                      observerVars
<1>3. QED
  BY <1>1, <1>2

LEMMA FactsStep ==
  ASSUME MainTypeOK, FactsInv, [Next]_vars
  PROVE  FactsInv'
<1>1. CASE ParseArguments \/ EndArguments
  BY <1>1, ArgumentsFacts DEF ParseArguments, EndArguments
<1>2. CASE LoadInventory
  BY <1>2, FactsLoaded DEF LoadInventory
<1>3. CASE StartSources
  <2>1. ObserverTypeOK'
    BY <1>3, RecordsAssumption DEF StartSources, StartScan, ObserverTypeOK
  <2>2. QED
    BY <1>3, <2>1 DEF StartSources, FactsInv, modelVars, inventoryVars
<1>4. CASE ScanSources
  BY <1>4, FactsScanned DEF ScanSources
<1>5. CASE JudgeFacts
  BY <1>5, JudgeControl, FactsQuiet
  DEF JudgeFacts, observerVars, inventoryVars, factVars, Judging
<1>6. CASE \/ ShowInventory \/ WriteOutput \/ EmitFacts \/ WriteFactsOnly
           \/ StartJudgement \/ WriteAudit \/ Exit \/ UNCHANGED vars
  BY <1>6, FactsQuiet
  DEF ShowInventory, WriteOutput, Scanned, EmitFacts, WriteFactsOnly,
      StartJudgement, WriteAudit, Exit, vars, factVars, modelVars,
      observerVars, inventoryVars, Fails
<1>7. QED
  BY <1>1, <1>2, <1>3, <1>4, <1>5, <1>6 DEF Next, Main, Ended


-----------------------------------------------------------------------------
(* The rest of MainInv.                                                    *)

LEMMA ArgumentsTyped ==
  ASSUME MainTypeOK, FactsInv, ErrorsEnd, ParseOption
  PROVE  /\ DOMAIN arguments' = ArgumentFields
         /\ arguments'.files \in SUBSET FileNames
         /\ valid' \in BOOLEAN /\ err' \in BOOLEAN /\ (err' => ~valid')
         /\ parsed' \in 0 .. Len(argv)
<1> DEFINE o == argv[parsed + 1]
<1> USE DEF MainTypeOK
<1>1. stage = "arguments" /\ valid = TRUE /\ err = FALSE
  BY DEF ParseOption, ErrorsEnd
<1>2. parsed' \in 0 .. Len(argv)
  BY OptionTaken DEF ParseOption
<1>3. CASE TakeSwitch(o)
  <2>1. CASE o.is = "switch" /\ Becomes([arguments EXCEPT ![o.switch] = TRUE])
    <3>1. o.switch \in Switches
      BY <2>1, OptionTaken
    <3> HIDE DEF o
    <3>2. o.switch # "files"
      BY <3>1 DEF Switches
    <3>3. QED
      BY <1>1, <1>2, <2>1, <3>2 DEF Becomes, ArgumentFields
  <2>2. CASE /\ o.is = "output"
             /\ Becomes([arguments EXCEPT !.files = @ \cup {o.file}])
    <3>1. o.file \in FileNames
      BY <2>2, OptionTaken
    <3> HIDE DEF o
    <3>2. QED
      BY <1>1, <1>2, <2>2, <3>1 DEF Becomes, ArgumentFields
  <2>3. CASE \/ UNCHANGED <<err, valid, arguments>>
             \/ Becomes([arguments EXCEPT !.database = TRUE])
    <3> HIDE DEF o
    <3>1. QED
      BY <1>1, <1>2, <2>3 DEF Becomes, ArgumentFields
  <2>4. QED
    BY <1>3, <2>1, <2>2, <2>3 DEF TakeSwitch
<1>4. CASE TakeValue(o) \/ TakeNone(o)
  <2> HIDE DEF o
  <2>1. \/ \E t, v : \/ Becomes([arguments EXCEPT !.counts[t] = v])
                     \/ Becomes([arguments EXCEPT !.allowedUsrs = v])
        \/ Refuse \/ RefuseWithError \/ UNCHANGED <<err, valid, arguments>>
    BY <1>4 DEF TakeValue, TakeNone, OneMore
  <2>2. QED
    BY <1>1, <1>2, <2>1 DEF Becomes, Refuse, RefuseWithError, ArgumentFields
<1>5. CASE TakeAllowFile(o)
  <2> HIDE DEF o
  <2>1. \/ Refuse
        \/ /\ \E v : arguments' = [OneMore("file") EXCEPT !.rules = v]
           /\ UNCHANGED <<err, valid>> \/ (valid' = FALSE /\ err' = TRUE)
    BY <1>5 DEF TakeAllowFile
  <2>2. QED
    BY <1>1, <1>2, <2>1 DEF Refuse, OneMore, ArgumentFields
<1>6. QED
  BY <1>3, <1>4, <1>5 DEF ParseOption


(* The line ends: what follows depends on whether it could be taken.       *)
LEMMA LineEnded ==
  ASSUME MainTypeOK, ErrorsEnd, ParseEnd
  PROVE  /\ DOMAIN arguments' = ArgumentFields
         /\ arguments'.files = arguments.files
         /\ valid' \in BOOLEAN /\ err' \in BOOLEAN /\ (err => err')
         /\ \/ valid' /\ ~err' /\ stage' \in {"loaded", "manifests"}
            \/ ~valid' /\ stage' = "exit"
<1>1. PICK found \in BOOLEAN :
        LET database == arguments.database \/ (valid /\ found)
            unmet == valid /\ arguments.databaseOnly /\ ~database
        IN /\ arguments' =
                [arguments EXCEPT
                   !.counts["path"] = IF valid /\ @ = 0 THEN 1 ELSE @,
                   !.database = database,
                   !.emit = @ \/ factsOnly]
           /\ valid' = (valid /\ ~unmet)
           /\ err' = (err \/ unmet)
           /\ stage' = IF ~valid \/ unmet THEN "exit"
                       ELSE IF factsOnly THEN "loaded" ELSE "manifests"
  BY DEF ParseEnd
<1> DEFINE database == arguments.database \/ (valid /\ found)
           unmet == valid /\ arguments.databaseOnly /\ ~database
<1>2. /\ valid' <=> valid /\ ~unmet
      /\ err' <=> err \/ unmet
      /\ valid' \in BOOLEAN /\ err' \in BOOLEAN
  BY <1>1, Zenon
<1>3. /\ DOMAIN arguments' = ArgumentFields
      /\ arguments'.files = arguments.files
  <2>1. \A c, d, e :
          LET a == [arguments EXCEPT !.counts["path"] = c, !.database = d,
                                     !.emit = e]
          IN DOMAIN a = ArgumentFields /\ a.files = arguments.files
    BY DEF MainTypeOK, ArgumentFields
  <2>2. QED
    BY <1>1, <2>1
<1>4. err => ~valid
  BY DEF ErrorsEnd, ParseEnd
<1>5. stage' = IF ~valid \/ unmet THEN "exit"
               ELSE IF factsOnly THEN "loaded" ELSE "manifests"
  BY <1>1
<1> HIDE DEF unmet
<1>6. QED
  BY <1>2, <1>3, <1>4, <1>5


LEMMA FileNaming ==
  /\ DOMAIN Files = 1 .. 4
  /\ FileNames \subseteq Outputs /\ "stdout" \in Outputs
  /\ \A n \in DOMAIN Files : Files[n] \in FileNames /\ Files[n] # "stdout"
  /\ \A n, m \in DOMAIN Files : Files[n] = Files[m] => n = m
  /\ \A f \in FileNames : \E n \in DOMAIN Files : f = Files[n]
BY DEF Files, FileNames, Outputs

(* The next output to write is the first of those still to come.           *)
LEMMA NextOutput ==
  ASSUME Pending # {}
  PROVE  /\ First(Pending) \in Pending
         /\ \A n \in Pending : First(Pending) <= n
<1>1. Pending \in SUBSET Nat
  BY FileNaming DEF Pending
<1>2. \E i \in Pending : \A j \in Pending : i <= j
  BY <1>1, Scans!LeastMember, WrapperAssumption, RecordsAssumption,
     InventoryAssumption, SameTypes
<1>3. QED
  BY <1>2 DEF First

(* Once none of the files is to come, each has been written.               *)
LEMMA FilesWritten ==
  ASSUME MainInv, stage = "scanned", Pending = {}
  PROVE  \A o \in arguments.files : output[o] = "whole"
<1> SUFFICES ASSUME NEW o \in arguments.files PROVE output[o] = "whole"
  OBVIOUS
<1>1. o \in FileNames /\ o \in Outputs
  BY FileNaming DEF MainInv, MainTypeOK
<1>2. PICK n \in DOMAIN Files : o = Files[n]
  BY <1>1, FileNaming
<1>3. output[o] # "untouched"
  BY <1>2 DEF Pending, Asked
<1>4. QED
  BY <1>1, <1>3 DEF MainInv, OutputsInv

(* A stage at work keeps what main has; it goes on, or it fails.           *)
LEMMA WorkGoesOn ==
  ASSUME MainInv, FactsInv',
         UNCHANGED <<arguments, factsOnly, argv, parsed, valid, output,
                     outcome, status>>,
         \/ /\ err' = FALSE
            /\ \/ stage \in Loading /\ stage' \in Loading \cup {"loaded"}
               \/ stage \in Scanning /\ stage' \in Scanning \cup {"scanned"}
               \/ stage \in Judging /\ stage' \in Judging
         \/ /\ err' = TRUE /\ stage' = "exit"
            /\ stage \in Loading \cup Scanning \cup Judging
  PROVE  MainInv'
<1> USE DEF MainInv, Loading, Scanning, Judging
<1>1. MainTypeOK'
  BY DEF MainTypeOK, Stages
<1>2. ErrorsEnd'
  BY DEF ErrorsEnd, Showing
<1>3. OutputsInv' /\ ExitEarned'
  BY DEF OutputsInv, ExitEarned
<1>4. QED
  BY <1>1, <1>2, <1>3

LEMMA OutputWritten ==
  ASSUME MainTypeOK, NEW o \in Outputs, Whole(o) \/ Cut(o)
  PROVE  /\ output' \in [Outputs -> {"untouched", "partial", "whole"}]
         /\ Whole(o) => output'[o] = "whole"
         /\ \A p \in Outputs \ {o} : output'[p] = output[p]
BY DEF MainTypeOK, Whole, Cut

(* stdout is written last: the run then exits, with what it has found out. *)
LEMMA WorkIsDone ==
  ASSUME MainInv, FactsInv',
         stage \in {"loaded", "scanned"} \cup Judging, stage' = "exit",
         UNCHANGED <<arguments, factsOnly, argv, parsed, valid, parseFailures>>,
         \/ Whole("stdout") /\ err' \in BOOLEAN
         \/ Cut("stdout") /\ err' = TRUE,
         status' \in {Success, ExitFindings, ExitTrouble},
         ~err' =>
           /\ \A o \in Wanted \ {"stdout"} : output[o] = "whole"
           /\ IF ~Showing /\ parseFailures > 0 THEN status' = ExitTrouble
              ELSE status' \in {Success, ExitFindings}
  PROVE  MainInv'
<1> USE DEF MainInv
<1>1. MainTypeOK'
  BY OutputWritten, FileNaming DEF MainTypeOK, Stages
<1>2. ErrorsEnd' /\ OutputsInv'
  BY DEF ErrorsEnd, OutputsInv, Loading, Scanning, Judging
<1>3. ExitEarned'
  <2> SUFFICES ASSUME ~err', valid
               PROVE  /\ \A o \in Wanted' : output'[o] = "whole"
                      /\ (IF ~Showing /\ parseFailures > 0
                          THEN status = ExitTrouble
                          ELSE status \in {Success, ExitFindings})'
    BY DEF ExitEarned
  <2>1. Wanted' = Wanted /\ Wanted \subseteq Outputs
    BY FileNaming DEF Wanted, Showing, Judging, MainTypeOK
  <2>2. Whole("stdout")
    OBVIOUS
  <2>3. \A o \in Wanted : output'[o] = "whole"
    BY <2>1, <2>2, OutputWritten, FileNaming
  <2>4. QED
    BY <2>1, <2>3 DEF Showing
<1>4. QED
  BY <1>1, <1>2, <1>3

LEMMA MainStep ==
  ASSUME MainInv, [Next]_vars
  PROVE  MainInv'
<1> DEFINE Rest == MainTypeOK /\ ErrorsEnd /\ OutputsInv /\ ExitEarned
<1> USE DEF MainInv
<1>1. FactsInv'
  BY FactsStep
<1>2. CASE ParseArguments
  <2>1. /\ stage = "arguments" /\ stage' = stage
        /\ UNCHANGED <<output, outcome, status, parseFailures, factsOnly, argv>>
    BY <1>2 DEF ParseArguments, ParseOption, mainVars, modelVars
  <2>2. MainTypeOK'
    BY <1>2, <2>1, ArgumentsTyped DEF ParseArguments, MainTypeOK
  <2>3. ErrorsEnd'
    BY <1>2, <2>1, ArgumentsTyped
    DEF ParseArguments, ErrorsEnd, Scanning, Judging
  <2>4. OutputsInv' /\ ExitEarned'
    BY <2>1 DEF OutputsInv, ExitEarned, Loading, Scanning, Judging
  <2>5. QED
    BY <1>1, <2>2, <2>3, <2>4
<1>3. CASE EndArguments
  <2>1. /\ stage = "arguments"
        /\ UNCHANGED <<output, outcome, parseFailures, factsOnly, argv, parsed>>
        /\ status' \in {status, Success}
    BY <1>3 DEF EndArguments, ParseEnd, modelVars
  <2>2. /\ DOMAIN arguments' = ArgumentFields
        /\ arguments'.files = arguments.files
        /\ valid' \in BOOLEAN /\ err' \in BOOLEAN
        /\ \/ valid' /\ ~err' /\ stage' \in {"loaded", "manifests"}
           \/ ~valid' /\ stage' = "exit"
    BY <1>3, LineEnded DEF EndArguments
  <2>3. MainTypeOK'
    BY <2>1, <2>2 DEF MainTypeOK, Stages, Loading, Success
  <2>4. ErrorsEnd'
    BY <2>1, <2>2 DEF ErrorsEnd, Scanning, Judging
  <2>5. OutputsInv' /\ ExitEarned'
    BY <2>1, <2>2 DEF OutputsInv, ExitEarned, Loading, Scanning, Judging
  <2>6. QED
    BY <1>1, <2>3, <2>4, <2>5
<1>4. CASE LoadInventory
  <2>1. stage \in Loading => err = FALSE
    BY DEF ErrorsEnd, MainTypeOK, Loading
  <2>2. UNCHANGED <<arguments, factsOnly, argv, parsed, valid, output, outcome,
                    status>>
    BY <1>4 DEF LoadInventory, argumentVars, judgeVars, mainVars
  <2>3. QED
    BY <1>1, <1>4, <2>1, <2>2, LoadControl, WorkGoesOn DEF LoadInventory
<1>5. CASE ScanSources
  <2>1. stage \in Scanning /\ err = FALSE
    BY <1>5, ScanControl DEF ScanSources, ErrorsEnd, MainTypeOK, Scanning
  <2>2. UNCHANGED <<arguments, factsOnly, argv, parsed, valid, output, outcome,
                    status>>
    BY <1>5 DEF ScanSources, argumentVars, judgeVars, mainVars
  <2>3. QED
    BY <1>1, <1>5, <2>1, <2>2, ScanControl, WorkGoesOn DEF ScanSources
<1>6. CASE JudgeFacts
  <2>1. stage \in {"judge", "rules"} /\ err = FALSE
    BY <1>6, JudgeControl DEF JudgeFacts, ErrorsEnd, MainTypeOK
  <2>2. UNCHANGED <<arguments, factsOnly, argv, parsed, valid, output, outcome,
                    status>>
    BY <1>6, JudgeControl DEF JudgeFacts, argumentVars, mainVars
  <2>3. QED
    BY <1>1, <1>6, <2>1, <2>2, JudgeControl, WorkGoesOn
    DEF JudgeFacts, Judging
<1>7. CASE ShowInventory
  <2>1. /\ stage = "loaded" /\ stage' = "exit" /\ Showing
        /\ UNCHANGED <<arguments, factsOnly, argv, parsed, valid, parseFailures,
                       outcome>>
    BY <1>7 DEF ShowInventory, argumentVars, judgeVars, modelVars
  <2>2. \/ Whole("stdout") /\ status' = Success /\ err' = err
        \/ Cut("stdout") /\ err' = TRUE /\ status' = status
    BY <1>7 DEF ShowInventory
  <2>3. Wanted \subseteq {"stdout"}
    BY <2>1 DEF Wanted
  <2>4. status' \in {Success, ExitFindings, ExitTrouble} /\ err \in BOOLEAN
    BY <2>2 DEF MainTypeOK, Success
  <2>5. QED
    BY <1>1, <2>1, <2>2, <2>3, <2>4, WorkIsDone
<1>8. CASE StartSources
  <2>1. /\ stage = "loaded" /\ stage' = "scan" /\ ~Showing
        /\ UNCHANGED <<err, arguments, factsOnly, argv, parsed, valid,
                       parseFailures, output, outcome, status>>
    BY <1>8 DEF StartSources, argumentVars, judgeVars, modelVars, mainVars
  <2>2. MainTypeOK' /\ ErrorsEnd' /\ OutputsInv' /\ ExitEarned'
    BY <2>1
    DEF MainTypeOK, ErrorsEnd, OutputsInv, ExitEarned, Stages, Loading,
        Scanning, Judging, Showing
  <2>3. QED
    BY <1>1, <2>2
<1>9. CASE WriteOutput
  <2> DEFINE o == Files[First(Pending)]
  <2>1. /\ stage = "scanned" /\ ~factsOnly /\ o \in Outputs /\ o # "stdout"
        /\ UNCHANGED <<arguments, factsOnly, argv, parsed, valid,
                       parseFailures, outcome, status>>
    BY <1>9, NextOutput, FileNaming
    DEF WriteOutput, Scanned, Pending, argumentVars, judgeVars, modelVars
  <2>2. \/ Whole(o) /\ UNCHANGED <<stage, err>>
        \/ Cut(o) /\ Fails
    BY <1>9 DEF WriteOutput
  <2> HIDE DEF o
  <2>3. /\ output' \in [Outputs -> {"untouched", "partial", "whole"}]
        /\ Whole(o) => output'[o] = "whole"
        /\ \A p \in Outputs \ {o} : output'[p] = output[p]
    BY <2>1, <2>2, OutputWritten
  <2>4. MainTypeOK'
    BY <2>1, <2>2, <2>3 DEF MainTypeOK, Fails, Stages
  <2>5. ErrorsEnd'
    BY <2>1, <2>2
    DEF ErrorsEnd, Fails, Loading, Scanning, Judging, Showing
  <2>6. OutputsInv' /\ ExitEarned'
    BY <2>1, <2>2, <2>3, FileNaming
    DEF OutputsInv, ExitEarned, Fails, Loading, Scanning, Judging
  <2>7. QED
    BY <1>1, <2>4, <2>5, <2>6
<1>10. CASE EmitFacts
  <2>1. /\ stage = "scanned" /\ ~factsOnly /\ Pending = {} /\ stage' = "exit"
        /\ UNCHANGED <<arguments, factsOnly, argv, parsed, valid, parseFailures,
                       outcome>>
        /\ \/ Whole("stdout") /\ err' = err
           \/ Cut("stdout") /\ err' = TRUE
        /\ status' = StatusOf(FALSE)
    BY <1>10 DEF EmitFacts, Scanned, argumentVars, judgeVars, modelVars
  <2>2. \A o \in Wanted \ {"stdout"} : output[o] = "whole"
    BY <2>1, FilesWritten DEF Wanted, OutputsInv
  <2>3. /\ status' \in {Success, ExitFindings, ExitTrouble}
        /\ ~err' => IF parseFailures > 0 THEN status' = ExitTrouble
                    ELSE status' \in {Success, ExitFindings}
    BY <2>1 DEF StatusOf
  <2>4. ~Showing /\ err \in BOOLEAN /\ err' \in BOOLEAN
    BY <2>1 DEF MainTypeOK, Showing, ErrorsEnd
  <2>5. QED
    BY <1>1, <2>1, <2>2, <2>3, <2>4, WorkIsDone
<1>11. CASE WriteFactsOnly
  <2>1. /\ stage = "scanned" /\ factsOnly /\ stage' = "exit"
        /\ UNCHANGED <<arguments, factsOnly, argv, parsed, valid, parseFailures,
                       outcome>>
        /\ \/ Whole("stdout") /\ err' \in {err, TRUE}
           \/ Cut("stdout") /\ err' = TRUE
        /\ status' = StatusOf(FALSE)
    BY <1>11 DEF WriteFactsOnly, argumentVars, judgeVars, modelVars
  <2>2. Wanted \ {"stdout"} = {}
    BY <2>1 DEF Wanted
  <2>3. /\ status' \in {Success, ExitFindings, ExitTrouble}
        /\ ~err' => IF parseFailures > 0 THEN status' = ExitTrouble
                    ELSE status' \in {Success, ExitFindings}
    BY <2>1 DEF StatusOf
  <2>4. ~Showing /\ err \in BOOLEAN /\ err' \in BOOLEAN
    BY <2>1 DEF MainTypeOK, Showing, ErrorsEnd
  <2>5. QED
    BY <1>1, <2>1, <2>2, <2>3, <2>4, WorkIsDone
<1>12. CASE StartJudgement
  <2>1. /\ stage = "scanned" /\ ~factsOnly /\ Pending = {} /\ stage' = "judge"
        /\ UNCHANGED <<err, arguments, factsOnly, argv, parsed, valid,
                       parseFailures, output, outcome, status>>
    BY <1>12 DEF StartJudgement, Scanned, argumentVars, judgeVars, modelVars,
                 mainVars
  <2>2. \A o \in arguments.files : output[o] = "whole"
    BY <2>1, FilesWritten
  <2>3. MainTypeOK' /\ ErrorsEnd' /\ OutputsInv' /\ ExitEarned'
    BY <2>1, <2>2
    DEF MainTypeOK, ErrorsEnd, OutputsInv, ExitEarned, Stages, Loading,
        Scanning, Judging, Showing
  <2>4. QED
    BY <1>1, <2>3
<1>13. CASE WriteAudit
  <2> DEFINE counted == \E n \in DOMAIN findings : Counts(findings[n].kind)
  <2>1. /\ stage = "report" /\ stage' = "exit"
        /\ UNCHANGED <<arguments, factsOnly, argv, parsed, valid, parseFailures>>
        /\ \/ Whole("stdout") /\ err' = err
           \/ Cut("stdout") /\ err' = TRUE
        /\ status' = StatusOf(counted)
    BY <1>13 DEF WriteAudit, argumentVars, judgeVars, modelVars
  <2>2. \A o \in Wanted \ {"stdout"} : output[o] = "whole"
    BY <2>1 DEF Wanted, OutputsInv, Judging
  <2> HIDE DEF counted
  <2>3. /\ status' \in {Success, ExitFindings, ExitTrouble}
        /\ ~err' => IF parseFailures > 0 THEN status' = ExitTrouble
                    ELSE status' \in {Success, ExitFindings}
    BY <2>1 DEF StatusOf
  <2>4. ~Showing
    BY <2>1 DEF ErrorsEnd, Judging
  <2>5. stage \in Judging /\ err \in BOOLEAN
    BY <2>1 DEF Judging, MainTypeOK
  <2>6. QED
    BY <1>1, <2>1, <2>2, <2>3, <2>4, <2>5, WorkIsDone
<1>14. CASE Exit
  <2>1. /\ stage = "exit" /\ stage' = "ended"
        /\ UNCHANGED <<err, arguments, factsOnly, argv, parsed, valid,
                       parseFailures, output, outcome>>
        /\ status' \in {ExitTrouble, status}
    BY <1>14 DEF Exit, argumentVars, judgeVars, modelVars
  <2>2. MainTypeOK' /\ ErrorsEnd' /\ OutputsInv' /\ ExitEarned'
    BY <2>1
    DEF MainTypeOK, ErrorsEnd, OutputsInv, ExitEarned, Stages, Loading,
        Scanning, Judging
  <2>3. QED
    BY <1>1, <2>2
<1>15. CASE UNCHANGED vars
  <2>1. UNCHANGED <<stage, err, arguments, factsOnly, argv, parsed, valid,
                    parseFailures, output, outcome, status>>
    BY <1>15 DEF vars, argumentVars, judgeVars, modelVars, mainVars
  <2>2. MainTypeOK' /\ ErrorsEnd' /\ OutputsInv' /\ ExitEarned'
    BY <2>1
    DEF MainTypeOK, ErrorsEnd, OutputsInv, ExitEarned, Showing, Wanted
  <2>3. QED
    BY <1>1, <2>2
<1>16. QED
  BY <1>2, <1>3, <1>4, <1>5, <1>6, <1>7, <1>8, <1>9, <1>10, <1>11, <1>12,
     <1>13, <1>14, <1>15
  DEF Next, Main, Ended

LEMMA MainStart == Init => MainInv
<1> SUFFICES ASSUME Init PROVE MainInv
  OBVIOUS
<1> USE DEF Init, ArgumentsInit
<1>1. MainTypeOK
  <2>1. argv \in Seq(Option) /\ parsed \in 0 .. Len(argv)
    BY ArgumentsAssumption
  <2>2. DOMAIN arguments = ArgumentFields
    BY DEF ArgumentFields
  <2>3. output \in [Outputs -> {"untouched", "partial", "whole"}]
    OBVIOUS
  <2>4. QED
    BY <2>1, <2>2, <2>3 DEF MainTypeOK, Stages
<1>2. FactsInv
  BY DEF FactsInv, ObserverTypeOK
<1>3. ErrorsEnd /\ OutputsInv /\ ExitEarned
  BY FileNaming DEF ErrorsEnd, OutputsInv, ExitEarned, Scanning, Judging
<1>4. QED
  BY <1>1, <1>2, <1>3 DEF MainInv

(* Every state of every run satisfies MainInv: errors lead to the exit,    *)
(* the files are written before stdout, and an exit without an error has   *)
(* written all it was asked for.                                           *)
THEOREM MainInvariant == Spec => []MainInv
BY MainStart, MainStep, PTL DEF Spec

-----------------------------------------------------------------------------
(* The files are written in order, each only after the one before it is    *)
(* whole (p101_wrapper_write_optional_outputs).                            *)
THEOREM EarlierFirst == Spec => []EarlierOutputsWhole
<1>1. Init => EarlierOutputsWhole
  BY FileNaming DEF Init, EarlierOutputsWhole
<1>2. MainInv /\ EarlierOutputsWhole /\ [Next]_vars => EarlierOutputsWhole'
  <2> SUFFICES ASSUME MainInv, EarlierOutputsWhole, [Next]_vars
               PROVE  EarlierOutputsWhole'
    OBVIOUS
  <2>1. CASE WriteOutput
    <3> DEFINE k == First(Pending)
               o == Files[k]
    <3>1. /\ k \in DOMAIN Files /\ Asked(k) /\ output[o] = "untouched"
          /\ \A n \in Pending : k <= n
      BY <2>1, NextOutput DEF WriteOutput, Pending
    <3>2. /\ o \in Outputs /\ arguments' = arguments
          /\ Whole(o) \/ Cut(o)
      BY <2>1, <3>1, FileNaming DEF WriteOutput, judgeVars
    <3>3. \A p \in Outputs \ {o} : output'[p] = output[p]
      BY <3>2, OutputWritten DEF MainInv
    <3> SUFFICES ASSUME NEW n \in DOMAIN Files, NEW m \in DOMAIN Files,
                        n < m, Asked(n)', output'[Files[m]] # "untouched"
                 PROVE  output'[Files[n]] = "whole"
      BY DEF EarlierOutputsWhole
    <3>4. Asked(n) /\ Files[n] \in Outputs /\ Files[m] \in Outputs
      BY <3>2, FileNaming DEF Asked
    <3>5. CASE m # k
      <4>1. output[Files[n]] = "whole"
        BY <3>1, <3>3, <3>4, <3>5, FileNaming DEF EarlierOutputsWhole
      <4>2. QED
        BY <3>1, <3>3, <3>4, <4>1
    <3>6. CASE m = k
      <4>1. n \notin Pending
        BY <3>1, <3>6, FileNaming
      <4>2. output[Files[n]] # "untouched"
        BY <3>4, <4>1 DEF Pending
      <4>3. output[Files[n]] = "whole"
        BY <2>1, <3>4, <4>2 DEF WriteOutput, Scanned, MainInv, OutputsInv
      <4>4. QED
        BY <3>1, <3>3, <3>4, <4>3
    <3>7. QED
      BY <3>5, <3>6
  <2>2. CASE UNCHANGED <<arguments, output>>
    BY <2>2 DEF EarlierOutputsWhole, Asked
  <2>3. CASE /\ UNCHANGED arguments
             /\ Whole("stdout") \/ Cut("stdout")
    <3>1. \A n \in DOMAIN Files : output'[Files[n]] = output[Files[n]]
      BY <2>3, OutputWritten, FileNaming DEF MainInv
    <3>2. QED
      BY <2>3, <3>1 DEF EarlierOutputsWhole, Asked
  <2>4. CASE ParseArguments \/ EndArguments
    <3>1. stage = "arguments" /\ output' = output
      BY <2>4
      DEF ParseArguments, EndArguments, ParseOption, ParseEnd, mainVars
    <3>2. \A n \in DOMAIN Files : output'[Files[n]] = "untouched"
      BY <3>1, FileNaming DEF MainInv, OutputsInv
    <3>3. QED
      BY <3>2 DEF EarlierOutputsWhole
  <2>5. CASE LoadInventory \/ ScanSources \/ StartSources \/ StartJudgement
             \/ Exit \/ JudgeFacts \/ UNCHANGED vars
    BY <2>2, <2>5, JudgeControl
    DEF LoadInventory, ScanSources, StartSources, StartJudgement, Exit,
        JudgeFacts, vars, judgeVars, mainVars
  <2>6. CASE ShowInventory \/ EmitFacts \/ WriteFactsOnly \/ WriteAudit
    BY <2>3, <2>6
    DEF ShowInventory, EmitFacts, WriteFactsOnly, WriteAudit, judgeVars
  <2>7. QED
    BY <2>1, <2>4, <2>5, <2>6 DEF Next, Main, Ended
<1>3. QED
  BY <1>1, <1>2, MainInvariant, PTL DEF Spec


-----------------------------------------------------------------------------
(* What the command shows of itself to AuditTool.                          *)

Written == {o \in Outputs : output[o] = "whole"}
StatusSoFar ==
  IF stage # "ended" THEN "none"
  ELSE CASE status = Success      -> "clean"
         [] status = ExitFindings -> "findings"
         [] status = ExitTrouble  -> "trouble"

ShownStep == [Promise!ToolNext]_(Promise!toolVars)

LEMMA TroubleIsBoolean == Trouble \in BOOLEAN /\ Trouble' \in BOOLEAN
BY DEF Trouble

LEMMA ShownQuiet ==
  ASSUME UNCHANGED <<Wanted, Written, StatusSoFar>>, StatusSoFar = "none",
         Trouble => Trouble'
  PROVE  ShownStep
<1>1. CASE Trouble'
  BY <1>1 DEF ShownStep, Promise!ToolNext, Promise!MeetTrouble,
              Promise!Running, Written, StatusSoFar
<1>2. CASE ~Trouble'
  BY <1>2, TroubleIsBoolean DEF ShownStep, Promise!toolVars, Written, StatusSoFar
<1>3. QED
  BY <1>1, <1>2

LEMMA ShownWrite ==
  ASSUME NEW o \in Outputs, Written' = Written \cup {o},
         UNCHANGED <<Wanted, StatusSoFar>>, StatusSoFar = "none",
         Trouble <=> Trouble'
  PROVE  ShownStep
<1>1. Promise!Write(o)
  BY DEF Promise!Write, Promise!Running, Written, StatusSoFar
<1>2. QED
  BY <1>1 DEF ShownStep, Promise!ToolNext

LEMMA ShownAsk ==
  ASSUME Wanted = {}, Written = {}, Wanted' \in SUBSET Outputs,
         UNCHANGED <<Written, StatusSoFar>>, StatusSoFar = "none",
         Trouble <=> Trouble'
  PROVE  ShownStep
<1>1. Promise!Ask
  BY DEF Promise!Ask, Promise!Running, Written, StatusSoFar
<1>2. QED
  BY <1>1 DEF ShownStep, Promise!ToolNext

LEMMA ShownConclude ==
  ASSUME UNCHANGED <<Wanted, Written>>, StatusSoFar = "none",
         Trouble <=> Trouble',
         Trouble => StatusSoFar' = "trouble",
         ~Trouble => /\ StatusSoFar' \in {"clean", "findings"}
                     /\ Wanted \subseteq Written
  PROVE  ShownStep
<1> DEFINE ends == /\ StatusSoFar' \in IF Trouble THEN {"trouble"}
                                     ELSE {"clean", "findings"}
                   /\ ~Trouble => Wanted \subseteq Written
<1>1. Trouble' = Trouble
  BY TroubleIsBoolean
<1>2. ends
  OBVIOUS
<1>3. Promise!Conclude
  BY <1>1, <1>2 DEF Promise!Conclude, Promise!Running, Written, StatusSoFar
<1>4. QED
  BY <1>3 DEF ShownStep, Promise!ToolNext


(* A parse failure, once counted, is not forgotten while facts come in.    *)
LEMMA CountKept ==
  ASSUME FactsInv, Load \/ Sources!Scan, parseFailures > 0
  PROVE  parseFailures' > 0
<1>1. CASE Observe
  BY <1>1 DEF Observe, Counted, FactsInv
<1>2. CASE ~Observe
  <2>1. UNCHANGED parseFailures
    <3>1. CASE Load
      BY <1>2, <3>1
      DEF Load, ManifestFails, ReadRow, ManifestEnds, ManifestsEnd, StartRoot,
          ObserveRoot, RootScanFails, ScanFails, RootScanEnds, ReadRole,
          RolesEnd, ReadPublic, RootEnds, LoadEnds, modelVars
    <3>2. CASE Sources!Scan
      BY <1>2, <3>2, SameObserver
      DEF Sources!Scan, Sources!ObserveSource, Sources!SourceScanFails,
          ScanFails, Sources!SourceScanEnds, Sources!AssignMacroCallers,
          Sources!Deduplicate, Sources!modelVars
    <3>3. QED
      BY <3>1, <3>2
  <2>2. QED
    BY <2>1
<1>3. QED
  BY <1>1, <1>2

(* A stage at work shows at most that it met trouble.                      *)
LEMMA WorkShown ==
  ASSUME MainInv, UNCHANGED <<arguments, factsOnly, valid, output>>,
         stage \notin {"arguments", "exit", "ended"},
         stage' \notin {"arguments", "ended"},
         parseFailures > 0 => parseFailures' > 0
  PROVE  ShownStep
<1>1. valid /\ ~err
  BY DEF MainInv, ErrorsEnd
<1>2. UNCHANGED <<Wanted, Written, StatusSoFar>> /\ StatusSoFar = "none"
  BY <1>1 DEF Wanted, Written, StatusSoFar, Showing
<1>3. Trouble => Trouble'
  BY <1>1 DEF Trouble, Showing
<1>4. QED
  BY <1>2, <1>3, ShownQuiet

(* An output is written as a whole, or the write fails.                    *)
LEMMA OutputShown ==
  ASSUME MainInv, NEW o \in Outputs, output[o] = "untouched",
         \/ Whole(o) /\ err' = err
         \/ Whole(o) /\ Trouble
         \/ Cut(o) /\ err' = TRUE,
         err' \in {err, TRUE},
         UNCHANGED <<arguments, factsOnly, valid, parseFailures>>,
         stage \notin {"arguments", "exit", "ended"},
         stage' \notin {"arguments", "ended"}
  PROVE  ShownStep
<1>1. valid /\ ~err
  BY DEF MainInv, ErrorsEnd
<1>2. UNCHANGED <<Wanted, StatusSoFar>> /\ StatusSoFar = "none"
  BY <1>1 DEF Wanted, StatusSoFar, Showing
<1>3. Trouble <=> parseFailures > 0 /\ ~Showing
  BY <1>1 DEF Trouble
<1>4. Trouble' <=> err' \/ (parseFailures > 0 /\ ~Showing)
  BY <1>1 DEF Trouble, Showing
<1>5. CASE Whole(o) /\ (err' = err \/ Trouble)
  <2>1. /\ output'[o] = "whole"
        /\ \A p \in Outputs \ {o} : output'[p] = output[p]
    BY <1>5, OutputWritten DEF MainInv
  <2>2. Written' = Written \cup {o}
    BY <2>1 DEF Written
  <2>3. Trouble <=> Trouble'
    BY <1>1, <1>3, <1>4, <1>5
  <2>4. QED
    BY <1>2, <2>2, <2>3, ShownWrite
<1>6. CASE Cut(o) /\ err' = TRUE
  <2>1. Written' = Written
    BY <1>6 DEF Cut, Written, MainInv, MainTypeOK
  <2>2. QED
    BY <1>2, <1>4, <1>6, <2>1, ShownQuiet
<1>7. QED
  BY <1>5, <1>6

LEMMA LineShown ==
  ASSUME MainInv, MainInv', EndArguments
  PROVE  ShownStep
<1> USE DEF MainInv
<1>1. /\ stage = "arguments" /\ parseFailures = 0 /\ parseFailures' = 0
      /\ output' = output /\ (err => ~valid) /\ status = ExitTrouble
      /\ UNCHANGED factsOnly /\ (valid' => valid)
  <2>1. stage = "arguments" /\ UNCHANGED <<parseFailures, output, factsOnly>>
    BY DEF EndArguments, ParseEnd, modelVars
  <2>2. valid' => valid
    BY Zenon DEF EndArguments, ParseEnd
  <2>3. QED
    BY <2>1, <2>2 DEF ErrorsEnd
<1>2. /\ arguments'.files \in SUBSET FileNames
      /\ err => err'
      /\ \/ valid' /\ ~err' /\ stage' \in {"loaded", "manifests"}
         \/ ~valid' /\ stage' = "exit"
  BY LineEnded DEF EndArguments, MainTypeOK
<1>3. Written = {} /\ Written' = {} /\ Wanted = {}
  BY <1>1 DEF Written, Wanted, OutputsInv
<1>4. StatusSoFar = "none" /\ StatusSoFar' = "none"
  BY <1>1, <1>2 DEF StatusSoFar
<1>5. CASE valid'
  <2>1. ~Trouble /\ ~Trouble'
    BY <1>1, <1>2, <1>5 DEF Trouble
  <2>2. Wanted' \in SUBSET Outputs
    BY <1>2, FileNaming DEF Wanted
  <2>3. QED
    BY <1>3, <1>4, <2>1, <2>2, ShownAsk
<1>6. CASE ~valid'
  <2>1. Wanted' = {}
    BY <1>6 DEF Wanted
  <2>2. Trouble => Trouble'
    BY <1>1, <1>2 DEF Trouble
  <2>3. QED
    BY <1>3, <1>4, <2>1, <2>2, ShownQuiet
<1>7. QED
  BY <1>5, <1>6

LEMMA ExitShown ==
  ASSUME MainInv, Exit
  PROVE  ShownStep
<1> USE DEF MainInv
<1>1. /\ stage = "exit" /\ stage' = "ended"
      /\ status' = IF err THEN ExitTrouble ELSE status
      /\ UNCHANGED <<err, arguments, factsOnly, valid, parseFailures, output>>
  BY DEF Exit, modelVars, judgeVars, argumentVars
<1>2. UNCHANGED <<Wanted, Written>> /\ StatusSoFar = "none"
  BY <1>1 DEF Wanted, Written, StatusSoFar, Showing
<1>3. Trouble <=> Trouble'
  BY <1>1 DEF Trouble, Showing
<1>4. /\ status' = Success => StatusSoFar' = "clean"
      /\ status' = ExitFindings => StatusSoFar' = "findings"
      /\ status' = ExitTrouble => StatusSoFar' = "trouble"
  BY <1>1 DEF StatusSoFar, Success, ExitFindings, ExitTrouble
<1>5. ~valid => parseFailures = 0 /\ Wanted = {}
  BY DEF ErrorsEnd, Wanted
<1>6. CASE Trouble
  <2>1. status' = ExitTrouble
    BY <1>1, <1>5, <1>6 DEF Trouble, ExitEarned, FactsInv
  <2>2. QED
    BY <1>2, <1>3, <1>4, <1>6, <2>1, ShownConclude
<1>7. CASE ~Trouble
  <2>1. /\ ~err /\ status' = status
        /\ status \in {Success, ExitFindings}
    BY <1>1, <1>7 DEF Trouble, ExitEarned, MainTypeOK
  <2>2. Wanted \subseteq Written
    <3>1. CASE valid
      <4>1. Wanted \subseteq Outputs
        BY FileNaming DEF Wanted, MainTypeOK
      <4>2. QED
        BY <1>1, <2>1, <3>1, <4>1 DEF ExitEarned, Written
    <3>2. CASE ~valid
      BY <1>5, <3>2
    <3>3. QED
      BY <3>1, <3>2
  <2>3. QED
    BY <1>2, <1>3, <1>4, <1>7, <2>1, <2>2, ShownConclude
<1>8. QED
  BY <1>6, <1>7


(* The command implements AuditTool: what it is asked for is settled once, *)
(* trouble once met is never forgotten, and it ends in one status, which   *)
(* without trouble has everything asked for behind it.                     *)
THEOREM Refinement == Spec => KeepsPromise
<1>1. Init => Promise!ToolInit
  <2> SUFFICES ASSUME Init PROVE Promise!ToolInit
    OBVIOUS
  <2>1. Wanted = {} /\ Written = {} /\ StatusSoFar = "none"
    BY DEF Init, Wanted, Written, StatusSoFar
  <2>2. QED
    BY <2>1, TroubleIsBoolean DEF Promise!ToolInit, Written, StatusSoFar
<1>2. MainInv /\ MainInv' /\ [Next]_vars => ShownStep
  <2> SUFFICES ASSUME MainInv, MainInv', [Next]_vars PROVE ShownStep
    OBVIOUS
  <2>1. CASE ParseArguments
    <3>1. /\ stage = "arguments" /\ stage' = stage
          /\ UNCHANGED <<output, status>>
      BY <2>1 DEF ParseArguments, ParseOption, mainVars
    <3>2. UNCHANGED <<Wanted, Written, StatusSoFar>> /\ StatusSoFar = "none"
      BY <3>1 DEF Wanted, Written, StatusSoFar
    <3>3. Trouble => Trouble'
      <4>1. valid /\ ~err /\ parseFailures = 0
        BY <2>1, <3>1 DEF ParseArguments, ParseOption, MainInv, ErrorsEnd
      <4>2. QED
        BY <4>1 DEF Trouble
    <3>4. QED
      BY <3>2, <3>3, ShownQuiet
  <2>2. CASE EndArguments
    BY <2>2, LineShown
  <2>3. CASE LoadInventory
    <3>1. stage \in Loading => err = FALSE
      BY DEF MainInv, ErrorsEnd, MainTypeOK, Loading
    <3>2. /\ stage \notin {"arguments", "exit", "ended"}
          /\ stage' \notin {"arguments", "ended"}
      BY <2>3, <3>1, LoadControl DEF LoadInventory, Loading
    <3>3. UNCHANGED <<arguments, factsOnly, valid, output>>
      BY <2>3 DEF LoadInventory, argumentVars, judgeVars, mainVars
    <3>4. QED
      BY <2>3, <3>2, <3>3, CountKept, WorkShown DEF LoadInventory, MainInv
  <2>4. CASE ScanSources
    <3>1. /\ stage \notin {"arguments", "exit", "ended"}
          /\ stage' \notin {"arguments", "ended"}
      BY <2>4, ScanControl DEF ScanSources, Scanning
    <3>2. UNCHANGED <<arguments, factsOnly, valid, output>>
      BY <2>4 DEF ScanSources, argumentVars, judgeVars, mainVars
    <3>3. QED
      BY <2>4, <3>1, <3>2, CountKept, WorkShown DEF ScanSources, MainInv
  <2>5. CASE JudgeFacts
    <3>1. /\ stage \notin {"arguments", "exit", "ended"}
          /\ stage' \notin {"arguments", "ended"}
          /\ UNCHANGED <<arguments, parseFailures>>
      BY <2>5, JudgeControl DEF JudgeFacts, Judging
    <3>2. UNCHANGED <<factsOnly, valid, output>>
      BY <2>5 DEF JudgeFacts, argumentVars, mainVars
    <3>3. QED
      BY <3>1, <3>2, WorkShown
  <2>6. CASE StartSources \/ StartJudgement
    <3>1. /\ stage \notin {"arguments", "exit", "ended"}
          /\ stage' \notin {"arguments", "ended"}
          /\ UNCHANGED <<arguments, factsOnly, valid, output, parseFailures>>
      BY <2>6 DEF StartSources, StartJudgement, Scanned, argumentVars,
                  judgeVars, modelVars, mainVars
    <3>2. QED
      BY <3>1, WorkShown
  <2>7. CASE WriteOutput
    <3> DEFINE o == Files[First(Pending)]
    <3>1. /\ stage = "scanned" /\ o \in Outputs /\ output[o] = "untouched"
          /\ UNCHANGED <<arguments, factsOnly, valid, parseFailures>>
      BY <2>7, NextOutput, FileNaming
      DEF WriteOutput, Scanned, Pending, argumentVars, judgeVars, modelVars
    <3>2. \/ Whole(o) /\ stage' = stage /\ err' = err
          \/ Cut(o) /\ stage' = "exit" /\ err' = TRUE
      BY <2>7 DEF WriteOutput, Fails
    <3> HIDE DEF o
    <3>3. QED
      BY <3>1, <3>2, OutputShown
  <2>8. CASE ShowInventory \/ EmitFacts \/ WriteFactsOnly \/ WriteAudit
    <3>1. /\ stage \in {"loaded", "scanned", "report"} /\ stage' = "exit"
          /\ UNCHANGED <<arguments, factsOnly, valid, parseFailures>>
      BY <2>8 DEF ShowInventory, EmitFacts, WriteFactsOnly, WriteAudit,
                  Scanned, argumentVars, judgeVars, modelVars
    <3>2. "stdout" \in Outputs /\ output["stdout"] = "untouched"
      BY <3>1, FileNaming DEF MainInv, OutputsInv
    <3>3. \/ Whole("stdout") /\ err' = err
          \/ Whole("stdout") /\ err' = TRUE /\ Trouble
          \/ Cut("stdout") /\ err' = TRUE
      <4>1. CASE WriteFactsOnly
        <5>1. (\E i \in DOMAIN facts : facts[i].kind = "DIAGNOSTIC") => Trouble
          BY <4>1 DEF WriteFactsOnly, MainInv, FactsInv, Trouble, Showing
        <5>2. QED
          BY <4>1, <5>1 DEF WriteFactsOnly
      <4>2. CASE ShowInventory \/ EmitFacts \/ WriteAudit
        BY <4>2 DEF ShowInventory, EmitFacts, WriteAudit
      <4>3. QED
        BY <2>8, <4>1, <4>2
    <3>4. QED
      BY <3>1, <3>2, <3>3, OutputShown
  <2>9. CASE Exit
    BY <2>9, ExitShown
  <2>10. CASE UNCHANGED vars
    <3>1. UNCHANGED <<stage, err, arguments, factsOnly, valid, parseFailures,
                      output, status>>
      BY <2>10 DEF vars, argumentVars, judgeVars, modelVars, mainVars
    <3>2. UNCHANGED <<Wanted, Written, StatusSoFar, Trouble>>
      BY <3>1 DEF Wanted, Written, StatusSoFar, Trouble, Showing
    <3>3. QED
      BY <3>2 DEF ShownStep, Promise!toolVars, Written, StatusSoFar
  <2>11. QED
    BY <2>1, <2>2, <2>3, <2>4, <2>5, <2>6, <2>7, <2>8, <2>9, <2>10
    DEF Next, Main, Ended
<1>3. QED
  BY <1>1, <1>2, MainInvariant, PTL
  DEF Spec, KeepsPromise, Promise!ToolSpec, ShownStep

-----------------------------------------------------------------------------
(* The command line.                                                       *)

(* The nth of the rows that are not blank is one of them, and each has its *)
(* place: how many there are before it.                                    *)
LEMMA NthOfFilled ==
  ASSUME NEW S, NEW rows \in Seq(S)
  PROVE  /\ Cardinality(Filled(rows)) \in Nat
         /\ \A n \in 1 .. Cardinality(Filled(rows)) :
              \E k \in Filled(rows) : NthRow(rows, n) = rows[k]
         /\ \A k \in Filled(rows) : \E n \in 1 .. Cardinality(Filled(rows)) :
              NthRow(rows, n) = rows[k]
<1> DEFINE F == Filled(rows)
           N == Cardinality(F)
           before(k) == {j \in F : j < k}
           place == [k \in F |-> Cardinality(before(k))]
<1>1. /\ F \subseteq Nat /\ IsFiniteSet(F) /\ N \in Nat
  <2>1. IsFiniteSet(1 .. Len(rows)) /\ F \in SUBSET (1 .. Len(rows))
    BY FS_Interval DEF Filled
  <2>2. IsFiniteSet(F)
    BY <2>1, FS_Subset
  <2>3. QED
    BY <2>1, <2>2, FS_CardinalityType
<1> HIDE DEF F
<1>2. \A k \in F : /\ IsFiniteSet(before(k)) /\ Cardinality(before(k)) \in Nat
                   /\ Cardinality(before(k)) <= N - 1
  <2> SUFFICES ASSUME NEW k \in F
               PROVE  /\ IsFiniteSet(before(k)) /\ Cardinality(before(k)) \in Nat
                      /\ Cardinality(before(k)) <= N - 1
    OBVIOUS
  <2>1. IsFiniteSet(F \ {k}) /\ Cardinality(F \ {k}) = N - 1
    BY <1>1, FS_RemoveElement
  <2>2. before(k) \in SUBSET (F \ {k})
    BY <1>1
  <2> HIDE DEF before
  <2>3. IsFiniteSet(before(k)) /\ Cardinality(before(k)) <= Cardinality(F \ {k})
    BY <2>1, <2>2, FS_Subset
  <2>4. QED
    BY <2>1, <2>3, FS_CardinalityType
<1>3. ASSUME NEW j \in F, NEW k \in F, j < k
      PROVE  Cardinality(before(j)) < Cardinality(before(k))
  <2>1. j \notin before(j) /\ before(j) \cup {j} \in SUBSET before(k)
    <3>1. j \in Nat /\ k \in Nat
      BY <1>1
    <3>2. \A i \in F : i \in Nat /\ (i < j => i < k)
      BY <1>1, <1>3, <3>1
    <3>3. \A i \in before(j) : i \in before(k)
      BY <3>2
    <3>4. j \in before(k) /\ j \notin before(j)
      BY <1>3, <3>1
    <3>5. QED
      BY <3>3, <3>4
  <2> HIDE DEF before
  <2>2. Cardinality(before(j) \cup {j}) = Cardinality(before(j)) + 1
    BY <1>2, <2>1, FS_AddElement
  <2>3. Cardinality(before(j) \cup {j}) <= Cardinality(before(k))
    BY <1>2, <2>1, FS_Subset
  <2>4. QED
    BY <1>2, <2>2, <2>3
<1>4. place \in [F -> 0 .. N - 1]
  <2> HIDE DEF before, N
  <2>1. QED
    BY <1>1, <1>2
<1>5. \A j, k \in F : place[j] = place[k] => j = k
  <2> SUFFICES ASSUME NEW j \in F, NEW k \in F, place[j] = place[k], j # k
               PROVE  FALSE
    OBVIOUS
  <2>1. j < k \/ k < j
    BY <1>1
  <2> HIDE DEF before
  <2>2. QED
    BY <1>2, <1>3, <2>1
<1>6. \A n \in 0 .. N - 1 : \E k \in F : place[k] = n
  <2> HIDE DEF place, N
  <2>1. place \in Injection(F, 0 .. N - 1)
    BY <1>4, <1>5, Fun_IsInj
  <2>2. IsFiniteSet(0 .. N - 1) /\ Cardinality(0 .. N - 1) = N
    BY <1>1, FS_Interval
  <2>3. place \in Surjection(F, 0 .. N - 1)
    BY <1>1, <2>1, <2>2, FS_Injection DEF N
  <2>4. QED
    BY <2>3 DEF Surjection
<1>7. \A n : NthRow(rows, n) = rows[CHOOSE k \in F : Cardinality(before(k)) = n - 1]
  BY DEF NthRow, F
<1> HIDE DEF before
<1>8. ASSUME NEW n \in 1 .. N, NEW k \in F, place[k] = n - 1
      PROVE  NthRow(rows, n) = rows[k]
  <2>1. \A j \in F : place[j] = Cardinality(before(j))
    OBVIOUS
  <2>2. (CHOOSE j \in F : Cardinality(before(j)) = n - 1) = k
    BY <1>5, <1>8, <2>1
  <2>3. QED
    BY <1>7, <2>2
<1> HIDE DEF place
<1>9. \A n \in 1 .. N : \E k \in F : NthRow(rows, n) = rows[k]
  <2> SUFFICES ASSUME NEW n \in 1 .. N
               PROVE  \E k \in F : NthRow(rows, n) = rows[k]
    OBVIOUS
  <2>1. n - 1 \in 0 .. N - 1
    BY <1>1
  <2>2. PICK k \in F : place[k] = n - 1
    BY <1>6, <2>1
  <2>3. QED
    BY <1>8, <2>2
<1>10. \A k \in F : \E n \in 1 .. N : NthRow(rows, n) = rows[k]
  <2> SUFFICES ASSUME NEW k \in F
               PROVE  \E n \in 1 .. N : NthRow(rows, n) = rows[k]
    OBVIOUS
  <2>1. place[k] + 1 \in 1 .. N /\ (place[k] + 1) - 1 = place[k]
    BY <1>1, <1>4
  <2>2. QED
    BY <1>8, <2>1
<1>11. QED
  BY <1>1, <1>9, <1>10 DEF F

-----------------------------------------------------------------------------
(* What has been taken of the line stays, and each option adds its own.    *)
LineKept ==
  /\ \A s \in Switches : arguments[s] => arguments'[s]
  /\ arguments.files \subseteq arguments'.files
  /\ arguments.database => arguments'.database
  /\ \A t \in Tables : arguments.counts[t] > 0 => arguments'.counts[t] > 0
  /\ \A n \in DOMAIN arguments.allowedUsrs :
       /\ n \in DOMAIN arguments'.allowedUsrs
       /\ arguments'.allowedUsrs[n] = arguments.allowedUsrs[n]
  /\ \A n \in DOMAIN arguments.rules :
       /\ n \in DOMAIN arguments'.rules
       /\ arguments'.rules[n] = arguments.rules[n]
  /\ \A n \in DOMAIN roots : n \in DOMAIN roots' /\ roots'[n] = roots[n]

LEMMA InForceStays ==
  ASSUME LineKept, NEW o \in Option, InForce(o)
  PROVE  InForce(o)'
<1>1. o.is = "switch" => o.switch \in Switches
  BY DEF Option
<1>2. o.is \in {"path", "cflag"} => o.is \in Tables
  BY DEF Tables
<1>3. CASE o.is = "switch" /\ arguments[o.switch]
  BY <1>1, <1>3 DEF LineKept, InForce
<1>4. CASE o.is \in {"path", "cflag"} /\ arguments.counts[o.is] > 0
  BY <1>2, <1>4 DEF LineKept, InForce
<1>5. CASE \/ o.is = "neutral"
           \/ o.is = "output" /\ o.file \in arguments.files
           \/ o.is = "database" /\ arguments.database
  BY <1>5 DEF LineKept, InForce
<1>6. CASE \/ /\ o.is = "usr"
              /\ \E n \in DOMAIN arguments.allowedUsrs :
                   arguments.allowedUsrs[n] = o.usr
           \/ o.is = "root" /\ \E n \in DOMAIN roots : roots[n] = o.root
  BY <1>6 DEF LineKept, InForce
<1>7. CASE /\ o.is = "file"
           /\ \A k \in DOMAIN o.rows :
                \/ o.rows[k].is = "blank"
                \/ /\ o.rows[k].is = "rule"
                   /\ \E r \in DOMAIN arguments.rules :
                        arguments.rules[r] = o.rows[k].rule
  BY <1>7 DEF LineKept, InForce
<1>8. QED
  BY <1>3, <1>4, <1>5, <1>6, <1>7 DEF InForce

LEMMA ArgumentsParts ==
  ASSUME NEW a \in Arguments
  PROVE  /\ a.allowedUsrs \in Seq(Texts \ {""})
         /\ a.rules \in Seq(Judgement!Rule)
         /\ a.files \in SUBSET FileNames
         /\ a.counts \in [Tables -> Nat]
         /\ a.database \in BOOLEAN /\ a.emit \in BOOLEAN
BY DEF Arguments

(* One more in a table.                                                    *)
LEMMA CountGrows ==
  ASSUME NEW counts \in [Tables -> Nat], NEW t \in Tables
  PROVE  /\ [counts EXCEPT ![t] = @ + 1] \in [Tables -> Nat]
         /\ [counts EXCEPT ![t] = @ + 1][t] > 0
         /\ \A u \in Tables : counts[u] > 0 => [counts EXCEPT ![t] = @ + 1][u] > 0
OBVIOUS

LEMMA SwitchTaken ==
  ASSUME arguments \in Arguments, NEW o \in Option, TakeSwitch(o)
  PROVE  /\ arguments' \in Arguments /\ LineKept
         /\ UNCHANGED <<err, valid, roots>> /\ InForce(o)'
<1>1. CASE o.is = "neutral" /\ UNCHANGED <<err, valid, arguments, roots, uses>>
  BY <1>1 DEF LineKept, InForce
<1>2. CASE /\ o.is = "switch"
           /\ Becomes([arguments EXCEPT ![o.switch] = TRUE])
  <2>1. o.switch \in Switches
    BY <1>2 DEF Option
  <2>2. PICK s \in Switches : s = o.switch
    BY <2>1
  <2>3. /\ arguments' = [arguments EXCEPT ![s] = TRUE]
        /\ UNCHANGED <<err, valid, roots>>
    BY <1>2, <2>2 DEF Becomes
  <2>4. /\ arguments' \in Arguments
        /\ arguments'[s] = TRUE
        /\ \A t \in Switches : arguments[t] => arguments'[t]
        /\ UNCHANGED <<arguments.files, arguments.database, arguments.counts,
                       arguments.allowedUsrs, arguments.rules>>
    <3>1. CASE s = "strict"
      BY <2>3, <3>1 DEF Arguments, Switches
    <3>2. CASE s = "portability"
      BY <2>3, <3>2 DEF Arguments, Switches
    <3>3. CASE s = "show"
      BY <2>3, <3>3 DEF Arguments, Switches
    <3>4. CASE s = "emit"
      BY <2>3, <3>4 DEF Arguments, Switches
    <3>5. CASE s = "databaseOnly"
      BY <2>3, <3>5 DEF Arguments, Switches
    <3>6. QED
      BY <3>1, <3>2, <3>3, <3>4, <3>5 DEF Switches
  <2>5. LineKept
    BY <2>3, <2>4 DEF LineKept
  <2>6. InForce(o)'
    BY <1>2, <2>2, <2>4 DEF InForce
  <2>7. QED
    BY <2>3, <2>4, <2>5, <2>6
<1>3. CASE /\ o.is = "output"
           /\ Becomes([arguments EXCEPT !.files = @ \cup {o.file}])
  <2>1. o.file \in FileNames
    BY <1>3 DEF Option
  <2>2. PICK f \in FileNames : f = o.file
    BY <2>1
  <2>3. /\ arguments' = [arguments EXCEPT !.files = @ \cup {f}]
        /\ UNCHANGED <<err, valid, roots>>
    BY <1>3, <2>2 DEF Becomes
  <2>4. /\ arguments' \in Arguments
        /\ arguments'.files = arguments.files \cup {f}
        /\ \A t \in Switches : arguments'[t] = arguments[t]
        /\ UNCHANGED <<arguments.database, arguments.counts,
                       arguments.allowedUsrs, arguments.rules>>
    BY <2>3 DEF Arguments, Switches
  <2>5. LineKept
    BY <2>3, <2>4 DEF LineKept
  <2>6. InForce(o)'
    BY <1>3, <2>2, <2>4 DEF InForce
  <2>7. QED
    BY <2>3, <2>4, <2>5, <2>6
<1>4. CASE /\ o.is = "database"
           /\ Becomes([arguments EXCEPT !.database = TRUE])
  <2>1. /\ arguments' = [arguments EXCEPT !.database = TRUE]
        /\ UNCHANGED <<err, valid, roots>>
    BY <1>4 DEF Becomes
  <2>2. /\ arguments' \in Arguments
        /\ arguments'.database = TRUE
        /\ \A t \in Switches : arguments'[t] = arguments[t]
        /\ UNCHANGED <<arguments.files, arguments.counts,
                       arguments.allowedUsrs, arguments.rules>>
    BY <2>1 DEF Arguments, Switches
  <2>3. LineKept
    BY <2>1, <2>2 DEF LineKept
  <2>4. InForce(o)'
    BY <1>4, <2>2 DEF InForce
  <2>5. QED
    BY <2>1, <2>2, <2>3, <2>4
<1>5. QED
  BY <1>1, <1>2, <1>3, <1>4 DEF TakeSwitch

(* What comes last, and what was there.                                    *)
LEMMA Appended ==
  ASSUME NEW S, NEW list \in Seq(S), NEW e \in S
  PROVE  /\ Append(list, e) \in Seq(S)
         /\ Len(list) + 1 \in DOMAIN Append(list, e)
         /\ Append(list, e)[Len(list) + 1] = e
         /\ \A n \in DOMAIN list :
              n \in DOMAIN Append(list, e) /\ Append(list, e)[n] = list[n]
OBVIOUS

LEMMA Concatenated ==
  ASSUME NEW S, NEW list \in Seq(S), NEW more \in Seq(S)
  PROVE  /\ list \o more \in Seq(S)
         /\ \A n \in DOMAIN list :
              n \in DOMAIN (list \o more) /\ (list \o more)[n] = list[n]
         /\ \A k \in 1 .. Len(more) :
              /\ Len(list) + k \in DOMAIN (list \o more)
              /\ (list \o more)[Len(list) + k] = more[k]
OBVIOUS

LEMMA ValueTaken ==
  ASSUME arguments \in Arguments, roots \in Seq(Root), NEW o \in Option,
         TakeValue(o)
  PROVE  /\ arguments' \in Arguments /\ LineKept /\ UNCHANGED err
         /\ \/ valid' = valid /\ InForce(o)'
            \/ valid' = FALSE
<1>1. CASE /\ o.is \in {"path", "cflag"} /\ Becomes(OneMore(o.is))
  <2>1. PICK t \in Tables : t = o.is
    BY <1>1 DEF Tables
  <2>2. /\ arguments' = [arguments EXCEPT !.counts[t] = @ + 1]
        /\ UNCHANGED <<err, valid, roots>>
    BY <1>1, <2>1 DEF Becomes, OneMore
  <2>3. PICK counts \in [Tables -> Nat] :
          counts = [arguments.counts EXCEPT ![t] = @ + 1]
    <3>1. arguments.counts \in [Tables -> Nat]
      BY ArgumentsParts
    <3>2. QED
      BY <2>1, <3>1, CountGrows
  <2>4. /\ arguments' \in Arguments
        /\ arguments'.counts = counts
        /\ \A s \in Switches : arguments'[s] = arguments[s]
        /\ UNCHANGED <<arguments.files, arguments.database,
                       arguments.allowedUsrs, arguments.rules>>
    <3>1. arguments' = [arguments EXCEPT !.counts = counts]
      BY <2>2, <2>3
    <3>2. QED
      BY <3>1 DEF Arguments, Switches
  <2>5. /\ arguments'.counts[t] > 0
        /\ \A u \in Tables : arguments.counts[u] > 0 => arguments'.counts[u] > 0
    <3>1. arguments.counts \in [Tables -> Nat]
      BY ArgumentsParts
    <3>2. QED
      BY <2>1, <2>3, <2>4, <3>1, CountGrows
  <2>6. LineKept
    BY <2>2, <2>4, <2>5 DEF LineKept
  <2>7. InForce(o)'
    BY <1>1, <2>1, <2>5 DEF InForce
  <2>8. QED
    BY <2>2, <2>4, <2>6, <2>7
<1>2. CASE /\ o.is = "usr"
           /\ Becomes([arguments EXCEPT !.allowedUsrs = Append(@, o.usr)])
  <2>1. PICK S : S = Texts \ {""}
    OBVIOUS
  <2>2. PICK u : u = o.usr /\ u \in S
    BY <1>2, <2>1 DEF Option
  <2>3. /\ arguments' = [arguments EXCEPT !.allowedUsrs = Append(@, u)]
        /\ UNCHANGED <<err, valid, roots>>
    BY <1>2, <2>2 DEF Becomes
  <2>4. PICK usrs : usrs = arguments.allowedUsrs /\ usrs \in Seq(S)
    BY <2>1, ArgumentsParts
  <2>5. PICK more : more = Append(usrs, u)
    OBVIOUS
  <2>6. /\ more \in Seq(S)
        /\ Len(usrs) + 1 \in DOMAIN more /\ more[Len(usrs) + 1] = u
        /\ \A n \in DOMAIN usrs : n \in DOMAIN more /\ more[n] = usrs[n]
    BY <2>2, <2>4, <2>5, Appended
  <2>7. /\ arguments' \in Arguments
        /\ arguments'.allowedUsrs = more
        /\ \A s \in Switches : arguments'[s] = arguments[s]
        /\ UNCHANGED <<arguments.files, arguments.database, arguments.counts,
                       arguments.rules>>
    BY <2>1, <2>3, <2>4, <2>5, <2>6 DEF Arguments, Switches
  <2>8. LineKept
    BY <2>3, <2>4, <2>6, <2>7 DEF LineKept
  <2>9. InForce(o)'
    BY <1>2, <2>2, <2>6, <2>7 DEF InForce
  <2>10. QED
    BY <2>3, <2>7, <2>8, <2>9
<1>3. CASE /\ o.is = "root" /\ roots' = Append(roots, o.root)
           /\ UNCHANGED <<err, valid, arguments, uses>>
  <2>1. o.root \in Root
    BY <1>3 DEF Option
  <2>2. PICK new \in Root : new = o.root
    BY <2>1
  <2>3. /\ Len(roots) + 1 \in DOMAIN roots' /\ roots'[Len(roots) + 1] = new
        /\ \A n \in DOMAIN roots : n \in DOMAIN roots' /\ roots'[n] = roots[n]
    BY <1>3, <2>2, Appended
  <2>4. LineKept
    BY <1>3, <2>3 DEF LineKept
  <2>5. InForce(o)'
    BY <1>3, <2>2, <2>3 DEF InForce
  <2>6. QED
    BY <1>3, <2>4, <2>5
<1>4. CASE Refuse
  BY <1>4 DEF Refuse, LineKept
<1>5. QED
  BY <1>1, <1>2, <1>3, <1>4 DEF TakeValue

(* An allow file that was read to its end has every rule in the table.     *)
LEMMA FileTaken ==
  ASSUME arguments \in Arguments, NEW o \in Option, TakeAllowFile(o)
  PROVE  /\ arguments' \in Arguments /\ LineKept
         /\ \/ valid' = valid /\ InForce(o)' /\ UNCHANGED err
            \/ valid' = FALSE /\ err' \in {err, TRUE}
<1>1. CASE Refuse
  BY <1>1 DEF Refuse, LineKept
<1>2. CASE ~Refuse
  <2>1. o.is = "file" /\ o.rows \in Seq(RuleRow)
    BY <1>2 DEF TakeAllowFile, Option
  <2>2. PICK rows \in Seq(RuleRow) : rows = o.rows
    BY <2>1
  <2>3. PICK n \in 0 .. Cardinality(Filled(rows)) :
          /\ \A k \in 1 .. n : NthRow(rows, k).is = "rule"
          /\ arguments' =
               [OneMore("file") EXCEPT
                  !.rules = @ \o [k \in 1 .. n |-> NthRow(rows, k).rule]]
          /\ \/ n = Cardinality(Filled(rows)) /\ UNCHANGED <<err, valid>>
             \/ valid' = FALSE /\ err' = TRUE
    BY <1>2, <2>2 DEF TakeAllowFile
  <2>4. roots' = roots
    BY <1>2 DEF TakeAllowFile
  <2> DEFINE new == [k \in 1 .. n |-> NthRow(rows, k).rule]
  <2>5. n \in Nat /\ \A k \in 1 .. n : k \in 1 .. Cardinality(Filled(rows))
    BY <2>3, NthOfFilled
  <2>6. \A k \in 1 .. n : NthRow(rows, k).rule \in Judgement!Rule
    <3> SUFFICES ASSUME NEW k \in 1 .. n
                 PROVE  NthRow(rows, k).rule \in Judgement!Rule
      OBVIOUS
    <3>1. PICK j \in Filled(rows) : NthRow(rows, k) = rows[j]
      BY <2>5, NthOfFilled
    <3>2. rows[j] \in RuleRow /\ rows[j].is = "rule"
      BY <2>3, <3>1 DEF Filled
    <3>3. QED
      BY <3>1, <3>2 DEF RuleRow
  <2>7. new \in Seq(Judgement!Rule) /\ Len(new) = n
    BY <2>5, <2>6
  <2>8. PICK old \in Seq(Judgement!Rule) : old = arguments.rules
    BY ArgumentsParts
  <2>9. PICK added \in Seq(Judgement!Rule) : added = new
    BY <2>7
  <2>10. PICK all \in Seq(Judgement!Rule) : all = old \o added
    BY Concatenated
  <2>11. /\ \A r \in DOMAIN old : r \in DOMAIN all /\ all[r] = old[r]
         /\ \A k \in 1 .. n :
              Len(old) + k \in DOMAIN all /\ all[Len(old) + k] = added[k]
    <3> HIDE DEF new
    <3>1. QED
      BY <2>7, <2>9, <2>10, Concatenated
  <2>12. PICK counts \in [Tables -> Nat] :
           counts = [arguments.counts EXCEPT !["file"] = @ + 1]
    <3>1. arguments.counts \in [Tables -> Nat] /\ "file" \in Tables
      BY ArgumentsParts DEF Tables
    <3>2. QED
      BY <3>1, CountGrows
  <2>13. /\ arguments' \in Arguments
         /\ arguments'.rules = all
         /\ arguments'.counts = counts
         /\ \A s \in Switches : arguments'[s] = arguments[s]
         /\ UNCHANGED <<arguments.files, arguments.database,
                        arguments.allowedUsrs>>
    <3>1. arguments.rules \o added = all
      BY <2>8, <2>10
    <3>2. arguments' = [[arguments EXCEPT !.counts["file"] = @ + 1]
                          EXCEPT !.rules = @ \o added]
      BY <2>3, <2>9 DEF OneMore
    <3> HIDE DEF new
    <3>3. arguments' = [[arguments EXCEPT !.counts = counts] EXCEPT !.rules = all]
      BY <2>12, <3>1, <3>2 DEF Arguments
    <3>4. QED
      BY <3>3 DEF Arguments, Switches
  <2>14. \A u \in Tables : arguments.counts[u] > 0 => arguments'.counts[u] > 0
    <3> HIDE DEF new
    <3>1. arguments.counts \in [Tables -> Nat] /\ "file" \in Tables
      BY ArgumentsParts DEF Tables
    <3>2. QED
      BY <2>12, <2>13, <3>1, CountGrows
  <2>15. LineKept
    <3> HIDE DEF new
    <3>1. QED
      BY <2>4, <2>8, <2>11, <2>13, <2>14 DEF LineKept
  <2>16. ASSUME n = Cardinality(Filled(rows))
         PROVE  InForce(o)'
    <3> SUFFICES ASSUME NEW j \in DOMAIN rows, rows[j].is # "blank"
                 PROVE  /\ rows[j].is = "rule"
                        /\ \E r \in DOMAIN all : all[r] = rows[j].rule
      BY <2>1, <2>2, <2>13 DEF InForce
    <3>1. PICK k \in 1 .. n : NthRow(rows, k) = rows[j]
      BY <2>16, NthOfFilled DEF Filled
    <3>2. rows[j].is = "rule" /\ added[k] = rows[j].rule
      BY <2>3, <2>9, <3>1
    <3>3. QED
      BY <2>11, <3>2
  <2>17. QED
    BY <2>3, <2>13, <2>15, <2>16
<1>3. QED
  BY <1>1, <1>2

-----------------------------------------------------------------------------
(* The strengthening for StatusIsEarned.                                   *)

(* What has been looked at of a valid line is in force; after the parse    *)
(* that is all of it.                                                      *)
LineInv ==
  /\ arguments \in Arguments
  /\ valid => \A k \in 1 .. parsed : InForce(argv[k])
  /\ stage # "arguments" /\ valid =>
       parsed = Len(argv) /\ (factsOnly => arguments.emit)

LEMMA LineTaken ==
  ASSUME MainInv, LineInv, ParseOption
  PROVE  LineInv'
<1>1. /\ stage = "arguments" /\ stage' = stage /\ argv' = argv
      /\ parsed' = parsed + 1 /\ parsed \in Nat /\ valid = TRUE
      /\ argv \in Seq(Option) /\ parsed \in 0 .. Len(argv)
      /\ roots \in Seq(Root) /\ arguments \in Arguments
  BY DEF ParseOption, MainInv, MainTypeOK, FactsInv, LineInv
<1>2. PICK o \in Option :
        /\ o = argv[parsed + 1]
        /\ TakeSwitch(o) \/ TakeValue(o) \/ TakeAllowFile(o) \/ TakeNone(o)
  BY OptionTaken DEF ParseOption, MainInv
<1>3. /\ arguments' \in Arguments
      /\ \/ valid' = valid /\ LineKept /\ InForce(o)'
         \/ valid' = FALSE
  <2>1. CASE TakeSwitch(o)
    BY <1>1, <2>1, SwitchTaken
  <2>2. CASE TakeValue(o)
    BY <1>1, <2>2, ValueTaken
  <2>3. CASE TakeAllowFile(o)
    BY <1>1, <2>3, FileTaken
  <2>4. CASE TakeNone(o)
    BY <1>1, <2>4 DEF TakeNone, Refuse, RefuseWithError
  <2>5. QED
    BY <1>2, <2>1, <2>2, <2>3, <2>4
<1>4. ASSUME valid', NEW k \in 1 .. parsed'
      PROVE  InForce(argv[k])'
  <2>1. CASE k = parsed + 1
    BY <1>1, <1>2, <1>3, <1>4, <2>1
  <2>2. CASE k # parsed + 1
    <3>1. k \in 1 .. parsed /\ argv[k] \in Option
      BY <1>1, <2>2
    <3>2. InForce(argv[k])
      BY <1>1, <3>1 DEF LineInv
    <3>3. PICK p \in Option : p = argv[k]
      BY <3>1
    <3>4. InForce(p)'
      BY <1>3, <1>4, <3>2, <3>3, InForceStays
    <3>5. QED
      BY <1>1, <3>3, <3>4
  <2>3. QED
    BY <2>1, <2>2
<1>5. QED
  BY <1>1, <1>3, <1>4 DEF LineInv

LEMMA PathGiven ==
  ASSUME NEW counts \in [Tables -> Nat], valid \in BOOLEAN
  PROVE  LET new == [counts EXCEPT !["path"] = IF valid /\ @ = 0 THEN 1 ELSE @]
         IN /\ new \in [Tables -> Nat]
            /\ \A t \in Tables : counts[t] > 0 => new[t] > 0
<1>1. PICK v : v = IF valid /\ counts["path"] = 0 THEN 1 ELSE counts["path"]
  OBVIOUS
<1>2. v \in Nat /\ (counts["path"] > 0 => v > 0)
  <2>1. counts["path"] \in Nat
    BY DEF Tables
  <2>2. CASE valid /\ counts["path"] = 0
    BY <1>1, <2>1, <2>2
  <2>3. CASE ~(valid /\ counts["path"] = 0)
    BY <1>1, <2>1, <2>3
  <2>4. QED
    BY <2>2, <2>3
<1>3. [counts EXCEPT !["path"] = IF valid /\ @ = 0 THEN 1 ELSE @]
        = [counts EXCEPT !["path"] = v]
  BY <1>1
<1>4. /\ [counts EXCEPT !["path"] = v] \in [Tables -> Nat]
      /\ \A t \in Tables :
           counts[t] > 0 => [counts EXCEPT !["path"] = v][t] > 0
  BY <1>2
<1>5. QED
  BY <1>3, <1>4, Zenon

LEMMA LineEnds ==
  ASSUME MainInv, LineInv, ParseEnd
  PROVE  LineInv'
<1>1. PICK found \in BOOLEAN :
        LET database == arguments.database \/ (valid /\ found)
            unmet == valid /\ arguments.databaseOnly /\ ~database
        IN /\ arguments' =
                [arguments EXCEPT
                   !.counts["path"] = IF valid /\ @ = 0 THEN 1 ELSE @,
                   !.database = database,
                   !.emit = @ \/ factsOnly]
           /\ valid' = (valid /\ ~unmet)
  BY DEF ParseEnd
<1>2. /\ valid \in BOOLEAN /\ factsOnly \in BOOLEAN /\ arguments \in Arguments
      /\ argv \in Seq(Option) /\ argv' = argv /\ parsed' = parsed
      /\ (valid => parsed = Len(argv)) /\ roots' = roots
      /\ factsOnly' = factsOnly
  BY DEF ParseEnd, MainInv, MainTypeOK, LineInv, inventoryVars
<1>3. valid' => valid
  BY <1>1
<1>4. PICK counts \in [Tables -> Nat] :
        /\ counts = [arguments.counts EXCEPT
                       !["path"] = IF valid /\ @ = 0 THEN 1 ELSE @]
        /\ \A t \in Tables : arguments.counts[t] > 0 => counts[t] > 0
  <2>1. arguments.counts \in [Tables -> Nat] /\ "path" \in Tables
    BY <1>2, ArgumentsParts DEF Tables
  <2>2. QED
    BY <1>2, <2>1, PathGiven
<1>5. PICK database \in BOOLEAN, emit \in BOOLEAN :
        /\ arguments.database => database
        /\ arguments.emit => emit
        /\ factsOnly => emit
        /\ database = (arguments.database \/ (valid /\ found))
        /\ emit = (arguments.emit \/ factsOnly)
  BY <1>2
<1>6. arguments' = [arguments EXCEPT !.counts = counts, !.database = database,
                                     !.emit = emit]
  BY <1>1, <1>4, <1>5
<1>7. /\ arguments' \in Arguments
      /\ arguments'.counts = counts /\ arguments'.database = database
      /\ arguments'.emit = emit
      /\ \A s \in Switches \ {"emit"} : arguments'[s] = arguments[s]
      /\ UNCHANGED <<arguments.files, arguments.allowedUsrs, arguments.rules>>
  BY <1>2, <1>6 DEF Arguments, Switches
<1>8. LineKept
  BY <1>2, <1>4, <1>5, <1>7 DEF LineKept, Switches
<1>9. ASSUME valid', NEW k \in 1 .. parsed'
      PROVE  InForce(argv[k])'
  <2>1. k \in 1 .. parsed /\ argv[k] \in Option
    BY <1>2, <1>3, <1>9
  <2>2. InForce(argv[k])
    BY <1>3, <1>9, <2>1 DEF LineInv
  <2>3. PICK p \in Option : p = argv[k]
    BY <2>1
  <2>4. InForce(p)'
    BY <1>8, <2>2, <2>3, InForceStays
  <2>5. QED
    BY <1>2, <2>3, <2>4
<1>10. QED
  BY <1>2, <1>3, <1>5, <1>7, <1>9 DEF LineInv

(* Nothing else touches the line.                                          *)
LEMMA LineQuiet ==
  ASSUME LineInv, UNCHANGED <<arguments, roots, argv, parsed, valid, factsOnly>>,
         stage' # "arguments" => stage # "arguments"
  PROVE  LineInv'
<1>1. \A o : InForce(o) => InForce(o)'
  BY DEF InForce
<1>2. QED
  BY <1>1 DEF LineInv

(* Loading leaves the command line, its roots and the findings alone.      *)
LEMMA LoadKeeps ==
  ASSUME Load
  PROVE  UNCHANGED <<roots, findings>>
BY DEF Load, ManifestFails, ReadRow, ManifestEnds, ManifestsEnd, StartRoot,
       ObserveRoot, Observe, RootScanFails, ScanFails, RootScanEnds, ReadRole,
       RolesEnd, ReadPublic, RootEnds, LoadEnds, modelVars, inventoryVars

LEMMA LineStep ==
  ASSUME MainInv, LineInv, [Next]_vars
  PROVE  LineInv'
<1>1. CASE ParseArguments
  BY <1>1, LineTaken DEF ParseArguments
<1>2. CASE EndArguments
  BY <1>2, LineEnds DEF EndArguments
<1>3. CASE LoadInventory
  <2>1. stage # "arguments"
    BY <1>3, LoadControl DEF LoadInventory, MainInv, ErrorsEnd, Loading
  <2>2. QED
    BY <1>3, <2>1, LoadKeeps, LineQuiet DEF LoadInventory, argumentVars, judgeVars
<1>4. CASE ScanSources
  BY <1>4, ScanControl, LineQuiet
  DEF ScanSources, argumentVars, judgeVars, inventoryVars, Scanning
<1>5. CASE JudgeFacts
  BY <1>5, JudgeControl, LineQuiet
  DEF JudgeFacts, argumentVars, inventoryVars
<1>6. CASE \/ ShowInventory \/ StartSources \/ WriteOutput \/ EmitFacts
           \/ WriteFactsOnly \/ StartJudgement \/ WriteAudit \/ Exit
           \/ UNCHANGED vars
  BY <1>6, LineQuiet
  DEF ShowInventory, StartSources, WriteOutput, Scanned, EmitFacts,
      WriteFactsOnly, StartJudgement, WriteAudit, Exit, vars, argumentVars,
      judgeVars, inventoryVars
<1>7. QED
  BY <1>1, <1>2, <1>3, <1>4, <1>5, <1>6 DEF Next, Main, Ended

-----------------------------------------------------------------------------
(* The diagnostics of what was scanned.                                    *)

Diagnosed(list, n) == \E k \in 1 .. n : list[k].fact.kind = "DIAGNOSTIC"

InRoot == {"rootscan", "roles", "publics"}
Passed == {"roles", "publics", "macros", "deduplicate", "scanned"} \cup Judging
Sourced == {"loaded", "scanned"} \cup Scanning \cup Judging

(* A diagnostic that was delivered counts; a scan that has been left       *)
(* without an error has delivered everything.                              *)
DeliveredInv ==
  /\ Diagnosed(records, delivered) => parseFailures > 0
  /\ stage \in Passed => delivered = Len(records)

(* So a header root that is done and had one counts too, and the sources   *)
(* are scanned when every root is done.                                    *)
RootsInv ==
  /\ root \in 0 .. Len(roots)
  /\ \A r \in 1 .. root :
       Diagnosed(roots[r].records, Len(roots[r].records)) => parseFailures > 0
  /\ stage \in {"arguments", "manifests"} => root = 0
  /\ stage \in InRoot => root < Len(roots) /\ records = roots[root + 1].records
  /\ stage \in Sourced => factsOnly \/ root = Len(roots)

LEMMA DeliveredQuiet ==
  ASSUME DeliveredInv, UNCHANGED <<records, delivered, parseFailures>>,
         stage' \in Passed => stage \in Passed \/ delivered = Len(records)
  PROVE  DeliveredInv'
BY DEF DeliveredInv, Diagnosed, Passed

LEMMA DeliveredStart ==
  ASSUME delivered' = 0, stage' \in {"scan", "rootscan"}
  PROVE  DeliveredInv'
BY DEF DeliveredInv, Diagnosed, Passed, Judging

LEMMA DeliveredObserved ==
  ASSUME FactsInv, DeliveredInv, Observe, stage' \in {"scan", "rootscan", "exit"}
  PROVE  DeliveredInv'
<1>1. /\ delivered \in Nat /\ delivered' = delivered + 1 /\ records' = records
      /\ parseFailures' = Counted(records[delivered + 1]) /\ parseFailures \in Nat
  BY DEF Observe, FactsInv, ObserverTypeOK
<1>2. ASSUME NEW k \in 1 .. delivered', records[k].fact.kind = "DIAGNOSTIC"
      PROVE  parseFailures' > 0
  <2>1. CASE k = delivered + 1
    BY <1>1, <1>2, <2>1 DEF Counted
  <2>2. CASE k # delivered + 1
    <3>1. k \in 1 .. delivered
      BY <1>1, <1>2, <2>2
    <3>2. parseFailures > 0
      BY <1>2, <3>1 DEF DeliveredInv, Diagnosed
    <3>3. QED
      BY <1>1, <3>2 DEF Counted
  <2>3. QED
    BY <2>1, <2>2
<1>3. QED
  BY <1>1, <1>2 DEF DeliveredInv, Diagnosed, Passed, Judging

LEMMA DeliveredStep ==
  ASSUME MainInv, DeliveredInv, [Next]_vars
  PROVE  DeliveredInv'
<1> USE DEF Passed
<1>1. CASE LoadInventory
  <2>1. CASE StartRoot
    BY <2>1, DeliveredStart DEF StartRoot, StartScan
  <2>2. CASE ObserveRoot
    <3>1. Onward /\ stage = "rootscan"
      BY <2>2, ObserverControl DEF ObserveRoot
    <3>2. QED
      BY <2>2, <3>1, DeliveredObserved DEF ObserveRoot, Onward, Fails, MainInv
  <2>3. CASE ReadRow \/ ReadRole \/ ReadPublic
    <3>1. Onward /\ UNCHANGED <<records, delivered, parseFailures>>
      BY <2>3, ObserverControl
      DEF ReadRow, ReadRole, ReadPublic, Onward, observerVars
    <3>2. QED
      BY <3>1, DeliveredQuiet DEF Onward, Fails, Judging
  <2>4. CASE RootScanEnds
    BY <2>4, DeliveredQuiet DEF RootScanEnds, ScanEnded, modelVars, observerVars
  <2>5. CASE \/ ManifestFails \/ ManifestEnds \/ ManifestsEnd \/ RootScanFails
             \/ RolesEnd \/ RootEnds \/ LoadEnds
    BY <2>5, DeliveredQuiet
    DEF ManifestFails, ManifestEnds, ManifestsEnd, RootScanFails, ScanFails,
        Fails, RolesEnd, RootEnds, LoadEnds, modelVars, observerVars, Reading,
        Judging
  <2>6. QED
    BY <1>1, <2>1, <2>2, <2>3, <2>4, <2>5 DEF LoadInventory, Load
<1>2. CASE ScanSources
  <2>1. CASE Sources!ObserveSource
    <3>1. Onward /\ Observe /\ stage = "scan"
      BY <2>1, SameObserver, ObserverControl DEF Sources!ObserveSource
    <3>2. QED
      BY <3>1, DeliveredObserved DEF Onward, Fails, MainInv
  <2>2. CASE \/ Sources!SourceScanFails \/ Sources!SourceScanEnds
             \/ Sources!AssignMacroCallers \/ Sources!Deduplicate
    BY <2>2, SameObserver, DeliveredQuiet
    DEF Sources!SourceScanFails, ScanFails, Fails, Sources!SourceScanEnds,
        ScanEnded, Sources!AssignMacroCallers, Sources!Deduplicate,
        Sources!modelVars, Sources!observerVars, Judging
  <2>3. QED
    BY <1>2, <2>1, <2>2 DEF ScanSources, Sources!Scan
<1>3. CASE StartSources
  BY <1>3, DeliveredStart DEF StartSources, StartScan
<1>4. CASE JudgeFacts
  <2>1. /\ stage \in {"judge", "rules"} /\ stage' \in Judging \cup {"exit"}
        /\ UNCHANGED <<records, delivered, parseFailures>>
    BY <1>4, JudgeControl DEF JudgeFacts, observerVars
  <2>2. QED
    BY <2>1, DeliveredQuiet DEF Judging
<1>5. CASE ParseArguments \/ EndArguments
  BY <1>5, DeliveredQuiet
  DEF ParseArguments, ParseOption, EndArguments, ParseEnd, modelVars,
      observerVars, Judging
<1>6. CASE \/ ShowInventory \/ WriteOutput \/ EmitFacts \/ WriteFactsOnly
           \/ StartJudgement \/ WriteAudit \/ Exit \/ UNCHANGED vars
  BY <1>6, DeliveredQuiet
  DEF ShowInventory, WriteOutput, Scanned, EmitFacts, WriteFactsOnly, Fails,
      StartJudgement, WriteAudit, Exit, vars, modelVars, observerVars, Judging
<1>7. QED
  BY <1>1, <1>2, <1>3, <1>4, <1>5, <1>6 DEF Next, Main, Ended

LEMMA RootsQuiet ==
  ASSUME RootsInv, UNCHANGED <<root, roots, factsOnly>>,
         parseFailures > 0 => parseFailures' > 0,
         stage' \in {"arguments", "manifests"} =>
           stage \in {"arguments", "manifests"},
         stage' \in InRoot => stage \in InRoot /\ records' = records,
         stage' \in Sourced => stage \in Sourced \/ factsOnly \/ root = Len(roots)
  PROVE  RootsInv'
<1>1. \A list, n : Diagnosed(list, n)' <=> Diagnosed(list, n)
  BY DEF Diagnosed
<1>2. QED
  BY DEF RootsInv, Sourced, Diagnosed

LEMMA RootsStep ==
  ASSUME MainInv, RootsInv, DeliveredInv, [Next]_vars
  PROVE  RootsInv'
<1> USE DEF InRoot, Passed, Sourced, Scanning, Judging
<1>1. CASE LoadInventory
  <2>1. parseFailures > 0 => parseFailures' > 0
    BY <1>1, CountKept DEF LoadInventory, MainInv
  <2>2. UNCHANGED <<roots, factsOnly>>
    BY <1>1, LoadKeeps DEF LoadInventory, argumentVars
  <2>3. CASE StartRoot
    <3>1. /\ stage' = "rootscan" /\ root' = root /\ root < Len(roots)
          /\ records' = roots[root + 1].records
      BY <2>3 DEF StartRoot, StartScan
    <3>2. QED
      BY <2>1, <2>2, <3>1 DEF RootsInv, Diagnosed
  <2>4. CASE ObserveRoot
    <3>1. /\ Onward /\ stage = "rootscan" /\ records' = records
          /\ root' = root
      BY <2>4, ObserverControl DEF ObserveRoot, Observe, inventoryVars
    <3>2. QED
      BY <2>1, <2>2, <3>1, RootsQuiet DEF Onward, Fails
  <2>5. CASE ReadRow \/ ReadRole \/ ReadPublic
    <3>1. /\ Onward /\ UNCHANGED <<root, records>>
      BY <2>5, ObserverControl
      DEF ReadRow, ReadRole, ReadPublic, Onward, observerVars
    <3>2. QED
      BY <2>1, <2>2, <3>1, RootsQuiet DEF Onward, Fails
  <2>6. CASE RootEnds
    <3>1. /\ stage = "publics" /\ stage' = "roots" /\ root' = root + 1
          /\ parseFailures' = parseFailures
      BY <2>6 DEF RootEnds
    <3>2. /\ root < Len(roots) /\ records = roots[root + 1].records
          /\ root \in 0 .. Len(roots) /\ Len(roots) \in Nat
      BY <3>1 DEF RootsInv, MainInv, FactsInv
    <3>3. Diagnosed(records, Len(records)) => parseFailures > 0
      BY <3>1 DEF DeliveredInv
    <3>4. ASSUME NEW r \in 1 .. root',
                 Diagnosed(roots[r].records, Len(roots[r].records))
          PROVE  parseFailures > 0
      <4>1. r \in 1 .. root \/ r = root + 1
        BY <3>1, <3>2
      <4>2. QED
        BY <3>2, <3>3, <3>4, <4>1 DEF RootsInv
    <3>5. QED
      BY <2>2, <3>1, <3>2, <3>4 DEF RootsInv, Diagnosed
  <2>7. CASE \/ ManifestFails \/ ManifestEnds \/ ManifestsEnd \/ RootScanFails
             \/ RootScanEnds \/ RolesEnd \/ LoadEnds
    BY <2>1, <2>2, <2>7, RootsQuiet
    DEF ManifestFails, ManifestEnds, ManifestsEnd, RootScanFails, ScanFails,
        Fails, RootScanEnds, RolesEnd, LoadEnds, observerVars, inventoryVars,
        Reading
  <2>8. QED
    BY <1>1, <2>3, <2>4, <2>5, <2>6, <2>7 DEF LoadInventory, Load
<1>2. CASE ScanSources
  <2>1. parseFailures > 0 => parseFailures' > 0
    BY <1>2, CountKept DEF ScanSources, MainInv
  <2>2. UNCHANGED <<root, roots, factsOnly>>
    BY <1>2 DEF ScanSources, argumentVars, inventoryVars
  <2>3. stage \in Scanning /\ stage' \in Scanning \cup {"scanned", "exit"}
    BY <1>2, ScanControl DEF ScanSources
  <2>4. QED
    BY <2>1, <2>2, <2>3, RootsQuiet
<1>3. CASE JudgeFacts
  <2>1. /\ stage \in {"judge", "rules"} /\ stage' \in Judging \cup {"exit"}
        /\ UNCHANGED <<root, roots, factsOnly, parseFailures>>
    BY <1>3, JudgeControl DEF JudgeFacts, inventoryVars, argumentVars
  <2>2. QED
    BY <2>1, RootsQuiet
<1>4. CASE ParseArguments
  <2>1. /\ stage = "arguments" /\ stage' = stage /\ root' = root
    BY <1>4 DEF ParseArguments, ParseOption
  <2>2. roots' \in Seq(Root)
    BY <1>4, ArgumentsFacts DEF ParseArguments, MainInv, FactsInv
  <2>3. QED
    BY <2>1, <2>2 DEF RootsInv
<1>5. CASE EndArguments
  <2>1. /\ stage = "arguments" /\ UNCHANGED <<root, roots, factsOnly, parseFailures>>
        /\ stage' \in {"exit", "manifests", "loaded"}
        /\ stage' = "loaded" => factsOnly
    <3>1. PICK unmet :
            stage' = IF ~valid \/ unmet THEN "exit"
                     ELSE IF factsOnly THEN "loaded" ELSE "manifests"
      BY <1>5 DEF EndArguments, ParseEnd
    <3>2. QED
      BY <1>5, <3>1 DEF EndArguments, ParseEnd, modelVars, inventoryVars
  <2>2. QED
    BY <2>1, RootsQuiet
<1>6. CASE \/ ShowInventory \/ StartSources \/ WriteOutput \/ EmitFacts
           \/ WriteFactsOnly \/ StartJudgement \/ WriteAudit \/ Exit
           \/ UNCHANGED vars
  BY <1>6, RootsQuiet
  DEF ShowInventory, StartSources, WriteOutput, Scanned, EmitFacts, Fails,
      WriteFactsOnly, StartJudgement, WriteAudit, Exit, vars, argumentVars,
      modelVars, inventoryVars, observerVars
<1>7. QED
  BY <1>1, <1>2, <1>3, <1>4, <1>5, <1>6 DEF Next, Main, Ended

-----------------------------------------------------------------------------
(* What was judged.                                                        *)

Early == {"arguments", "loaded", "scanned"} \cup Loading \cup Scanning

IsReported(f) == \E n \in DOMAIN findings : Judgement!Reported(f, n)

(* Every crossing so far has been reported; the loop over the facts is     *)
(* left at their end.                                                      *)
JudgedInv ==
  /\ next \in 1 .. Len(facts) + 1
  /\ \E S : findings \in Seq(S)
  /\ stage \in Early => next = 1 /\ findings = <<>>
  /\ stage \in Judging =>
       \A i \in 1 .. next - 1 : Judgement!Crosses(i) => IsReported(facts[i])
  /\ stage \in {"rules", "report"} => next = Len(facts) + 1

LEMMA SameCrossings ==
  ASSUME UNCHANGED <<facts, inventory, arguments>>
  PROVE  \A i : Judgement!Crosses(i)' <=> Judgement!Crosses(i)
BY DEF Judgement!Crosses, Judgement!IsOperation, Judgement!Exempt,
   Judgement!CallsWrapper, Judgement!IsLocal, Judgement!IsErrnoLowering,
   Judgement!PermittedBy, Judgement!SurroundedMacro, Judgement!Allowed,
   Judgement!AllowedWithoutRule, Judgement!IsTheWrap, Judgement!AllowedUsrs,
   Judgement!CoveringRule, Judgement!RuleCovers, Judgement!IsImplementation,
   Judgement!WrapperOf, Judgement!FindWrapper, Judgement!CalleeIdentity,
   Judgement!SemanticCaller, Judgement!Enclosing

(* A finding is added, or is there already, or there is no room for it.    *)
LEMMA FindingAdded ==
  ASSUME NEW kind, NEW f, NEW w, NEW u, Judgement!AddFinding(kind, f, w, u),
         \E S : findings \in Seq(S)
  PROVE  /\ \E S : findings' \in Seq(S)
         /\ \/ /\ next' = next + 1 /\ stage' = stage
               /\ IsReported(f)'
               /\ \A g : IsReported(g) => IsReported(g)'
            \/ stage' = "exit" /\ next' = next
<1> DEFINE new == [kind |-> kind, path |-> f.path, line |-> f.line,
                   column |-> f.column, name |-> f.name,
                   replacement |-> w, identity |-> u]
<1>1. \/ /\ \E n \in DOMAIN findings : Judgement!SamePlace(findings[n], f)
         /\ next' = next + 1 /\ UNCHANGED <<stage, findings>>
      \/ /\ findings' = Append(findings, new)
         /\ next' = next + 1 /\ stage' = stage
      \/ stage' = "exit" /\ UNCHANGED <<findings, next>>
  BY DEF Judgement!AddFinding, Judgement!Advance
<1>2. CASE /\ \E n \in DOMAIN findings : Judgement!SamePlace(findings[n], f)
           /\ next' = next + 1 /\ UNCHANGED <<stage, findings>>
  BY <1>2 DEF IsReported, Judgement!Reported, Judgement!SamePlace
<1>3. CASE /\ findings' = Append(findings, new)
           /\ next' = next + 1 /\ stage' = stage
  <2>1. /\ new.path = f.path /\ new.line = f.line
        /\ new.column = f.column /\ new.name = f.name
    OBVIOUS
  <2>2. PICK S : findings \in Seq(S)
    OBVIOUS
  <2> HIDE DEF new
  <2>3. PICK T : T = S \cup {new}
    OBVIOUS
  <2>4. findings \in Seq(T) /\ new \in T
    BY <2>2, <2>3
  <2>5. /\ findings' \in Seq(T)
        /\ \E n \in DOMAIN findings' : findings'[n] = new
        /\ \A n \in DOMAIN findings :
             n \in DOMAIN findings' /\ findings'[n] = findings[n]
    BY <1>3, <2>4
  <2>6. IsReported(f)'
    BY <2>1, <2>5 DEF IsReported, Judgement!Reported
  <2>7. \A g : IsReported(g) => IsReported(g)'
    BY <2>5 DEF IsReported, Judgement!Reported
  <2>8. QED
    BY <1>3, <2>5, <2>6, <2>7
<1>4. QED
  BY <1>1, <1>2, <1>3

(* Before the judgement nothing has been found.                            *)
LEMMA JudgedEarly ==
  ASSUME FactsInv', next' = 1, findings' = <<>>,
         stage' \in Early \cup {"judge", "exit"}
  PROVE  JudgedInv'
<1>1. Len(facts') \in Nat
  BY DEF FactsInv
<1>2. findings' \in Seq({})
  OBVIOUS
<1>3. QED
  BY <1>1, <1>2 DEF JudgedInv, Judging, Early, Loading, Scanning

LEMMA JudgedQuiet ==
  ASSUME JudgedInv, UNCHANGED <<next, facts, inventory, arguments, findings>>,
         stage' \in Early => stage \in Early,
         stage' \in Judging => stage \in Judging,
         stage' \in {"rules", "report"} =>
           stage \in {"rules", "report"} \/ next = Len(facts) + 1
  PROVE  JudgedInv'
<1>1. \A i : IsReported(facts[i])' <=> IsReported(facts[i])
  BY DEF IsReported, Judgement!Reported
<1>2. QED
  BY <1>1, SameCrossings DEF JudgedInv

(* One turn of the loop.                                                   *)
LEMMA JudgedTurn ==
  ASSUME JudgedInv, FactsInv, UNCHANGED <<facts, inventory, arguments>>,
         stage = "judge", next <= Len(facts), next' = next + 1, stage' = stage,
         \E S : findings' \in Seq(S),
         NEW f, f = facts[next], Judgement!Crosses(next) => IsReported(f)',
         \A g : IsReported(g) => IsReported(g)'
  PROVE  JudgedInv'
<1>1. next \in Nat \ {0} /\ Len(facts) \in Nat
  BY DEF JudgedInv, FactsInv
<1>2. next' \in 1 .. Len(facts') + 1
  BY <1>1
<1>3. ASSUME NEW i \in 1 .. next' - 1, Judgement!Crosses(i)'
      PROVE  IsReported(facts[i])'
  <2>1. Judgement!Crosses(i)
    BY <1>3, SameCrossings
  <2>2. i \in 1 .. next - 1 \/ i = next
    BY <1>1
  <2>3. CASE i \in 1 .. next - 1
    <3>1. PICK g : g = facts[i]
      OBVIOUS
    <3>2. IsReported(g)
      BY <2>1, <2>3, <3>1 DEF JudgedInv, Judging
    <3>3. IsReported(g)'
      BY <3>2
    <3>4. QED
      BY <3>1, <3>3 DEF IsReported, Judgement!Reported
  <2>4. CASE i = next
    <3>1. IsReported(f)'
      BY <2>1, <2>4
    <3>2. QED
      BY <2>4, <3>1 DEF IsReported, Judgement!Reported
  <2>5. QED
    BY <2>2, <2>3, <2>4
<1>4. QED
  BY <1>2, <1>3 DEF JudgedInv, Early, Loading, Scanning

LEMMA JudgedFact ==
  ASSUME MainInv, JudgedInv, JudgeFacts
  PROVE  JudgedInv'
<1>1. next \in Nat \ {0} /\ Len(facts) \in Nat
  BY DEF JudgedInv, MainInv, FactsInv
<1>2. CASE \/ Judgement!JudgePassBy \/ Judgement!JudgeAllowed
           \/ Judgement!JudgeImplementation
  <2>1. /\ stage = "judge" /\ next <= Len(facts) /\ next' = next + 1
        /\ UNCHANGED <<stage, facts, inventory, arguments, findings>>
        /\ ~Judgement!Crosses(next)
    BY <1>2
    DEF Judgement!JudgePassBy, Judgement!JudgeAllowed,
        Judgement!JudgeImplementation, Judgement!Judging, Judgement!Advance,
        Judgement!PassBy, Judgement!Crosses, Judgement!Current,
        Judgement!modelVars
  <2>2. \A g : IsReported(g) => IsReported(g)'
    BY <2>1 DEF IsReported, Judgement!Reported
  <2>3. PICK f : f = facts[next]
    OBVIOUS
  <2>4. \E S : findings' \in Seq(S)
    BY <2>1 DEF JudgedInv
  <2>5. QED
    BY <2>1, <2>2, <2>3, <2>4, JudgedTurn DEF MainInv
<1>3. CASE Judgement!JudgeInclude \/ Judgement!JudgeCrossing
  <2>1. PICK f : f = facts[next]
    OBVIOUS
  <2>2. /\ stage = "judge" /\ next <= Len(facts)
        /\ UNCHANGED <<facts, inventory, arguments>>
        /\ \E k, w, u : Judgement!AddFinding(k, f, w, u)
    BY <1>3, <2>1
    DEF Judgement!JudgeInclude, Judgement!JudgeCrossing, Judgement!Judging,
        Judgement!Current
  <2>3. PICK k, w, u : Judgement!AddFinding(k, f, w, u)
    BY <2>2
  <2>4. /\ \E S : findings' \in Seq(S)
        /\ \/ /\ next' = next + 1 /\ stage' = stage
              /\ IsReported(f)'
              /\ \A g : IsReported(g) => IsReported(g)'
           \/ stage' = "exit" /\ next' = next
    BY <2>3, FindingAdded DEF JudgedInv
  <2>5. CASE /\ next' = next + 1 /\ stage' = stage
             /\ IsReported(f)'
             /\ \A g : IsReported(g) => IsReported(g)'
    BY <2>1, <2>2, <2>4, <2>5, JudgedTurn DEF MainInv
  <2>6. CASE stage' = "exit" /\ next' = next
    BY <2>2, <2>4, <2>6 DEF JudgedInv, Judging, Early, Loading, Scanning
  <2>7. QED
    BY <2>4, <2>5, <2>6
<1>4. CASE Judgement!JudgeEnd \/ Judgement!CheckRules
  <2>1. /\ UNCHANGED <<next, facts, inventory, arguments, findings>>
        /\ \/ stage = "judge" /\ stage' = "rules" /\ next > Len(facts)
           \/ stage = "rules" /\ stage' \in {"report", "exit"}
    BY <1>4
    DEF Judgement!JudgeEnd, Judgement!CheckRules, Judgement!modelVars,
        Judgement!judgeVars
  <2>2. next > Len(facts) => next = Len(facts) + 1
    BY <1>1 DEF JudgedInv
  <2>3. QED
    BY <2>1, <2>2, JudgedQuiet DEF Judging, Early, Loading, Scanning
<1>5. QED
  BY <1>2, <1>3, <1>4 DEF JudgeFacts, Judgement!Judge

LEMMA JudgedStep ==
  ASSUME MainInv, MainInv', JudgedInv, [Next]_vars
  PROVE  JudgedInv'
<1> USE DEF Early, Loading, Scanning, Judging
<1>1. CASE LoadInventory
  <2>0. stage \in Loading => err = FALSE
    BY DEF MainInv, ErrorsEnd, MainTypeOK
  <2>1. stage \in Loading /\ stage' \in Loading \cup {"loaded", "exit"}
    BY <1>1, <2>0, LoadControl DEF LoadInventory
  <2>2. UNCHANGED <<findings, next>>
    BY <1>1, LoadKeeps DEF LoadInventory, judgeVars
  <2>3. QED
    BY <2>1, <2>2, JudgedEarly DEF JudgedInv, MainInv
<1>2. CASE ScanSources
  <2>1. stage \in Scanning /\ stage' \in Scanning \cup {"scanned", "exit"}
    BY <1>2, ScanControl DEF ScanSources
  <2>2. UNCHANGED <<findings, next>>
    BY <1>2, SameObserver
    DEF ScanSources, judgeVars, Sources!Scan, Sources!ObserveSource, Observe,
        Sources!SourceScanFails, ScanFails, Sources!SourceScanEnds,
        Sources!AssignMacroCallers, Sources!Deduplicate, Sources!modelVars
  <2>3. QED
    BY <2>1, <2>2, JudgedEarly DEF JudgedInv, MainInv
<1>3. CASE JudgeFacts
  BY <1>3, JudgedFact
<1>4. CASE ParseArguments \/ EndArguments
  <2>1. /\ stage = "arguments" /\ UNCHANGED <<findings, next>>
        /\ stage' \in {"arguments", "exit", "loaded", "manifests"}
    BY <1>4, LineEnded
    DEF ParseArguments, ParseOption, EndArguments, ParseEnd, modelVars, MainInv
  <2>2. QED
    BY <2>1, JudgedEarly DEF JudgedInv, MainInv
<1>5. CASE StartSources \/ StartJudgement
  <2>1. /\ stage \in {"loaded", "scanned"} /\ stage' \in {"scan", "judge"}
        /\ UNCHANGED <<findings, next>>
    BY <1>5 DEF StartSources, StartJudgement, Scanned, modelVars, judgeVars
  <2>2. QED
    BY <2>1, JudgedEarly DEF JudgedInv, MainInv
<1>6. CASE \/ ShowInventory \/ WriteOutput \/ EmitFacts \/ WriteFactsOnly
           \/ WriteAudit \/ Exit \/ UNCHANGED vars
  BY <1>6, JudgedQuiet
  DEF ShowInventory, WriteOutput, Scanned, EmitFacts, Fails, WriteFactsOnly,
      WriteAudit, Exit, vars, argumentVars, modelVars, judgeVars
<1>7. QED
  BY <1>1, <1>2, <1>3, <1>4, <1>5, <1>6 DEF Next, Main, Ended

-----------------------------------------------------------------------------
(* The end of a run.                                                       *)

Found == \E n \in DOMAIN findings : Counts(findings[n].kind)

(* What a run that is over can rely on.                                    *)
EndInv ==
  stage \in {"exit", "ended"} =>
    /\ valid /\ ~err /\ ~Showing =>
         /\ delivered = Len(records) /\ (factsOnly \/ root = Len(roots))
         /\ parseFailures > 0 => status = ExitTrouble
    /\ AuditMode /\ ~err =>
         /\ next = Len(facts) + 1
         /\ \A i \in DOMAIN facts : Judgement!Crosses(i) => IsReported(facts[i])
         /\ outcome = ReportOutcome
         /\ status = IF parseFailures > 0 THEN ExitTrouble
                     ELSE IF Found THEN ExitFindings ELSE Success
    /\ AuditMode /\ err => output["stdout"] # "whole"
    /\ stage = "ended" /\ err => status = ExitTrouble

EarnedInv ==
  /\ MainInv /\ LineInv /\ DeliveredInv /\ RootsInv /\ JudgedInv /\ EndInv

LEMMA EndFailed ==
  ASSUME err' = TRUE, stage' = "exit", output'["stdout"] # "whole"
  PROVE  EndInv'
BY DEF EndInv

LEMMA EndLater ==
  ASSUME stage' \notin {"exit", "ended"}
  PROVE  EndInv'
BY DEF EndInv

(* The same state, but for the status that Exit settles.                   *)
LEMMA EndExit ==
  ASSUME EndInv, Exit \/ UNCHANGED vars
  PROVE  EndInv'
<1>1. UNCHANGED <<err, facts, parseFailures, inventory, findings, records,
                  delivered, root, roots, valid, factsOnly, arguments, next,
                  output, outcome>>
  BY DEF Exit, vars, modelVars, observerVars, inventoryVars, argumentVars,
         judgeVars, mainVars
<1>2. \/ stage = "exit" /\ stage' = "ended"
         /\ status' = IF err THEN ExitTrouble ELSE status
      \/ UNCHANGED <<stage, status>>
  BY DEF Exit, vars, mainVars
<1>3. /\ Showing' = Showing /\ AuditMode' = AuditMode
      /\ ReportOutcome' = ReportOutcome /\ Found' = Found
      /\ \A i : IsReported(facts[i])' = IsReported(facts[i])
  BY <1>1 DEF Showing, AuditMode, ReportOutcome, Found, Counts, IsReported,
              Judgement!Reported
<1>4. \A i : Judgement!Crosses(i)' <=> Judgement!Crosses(i)
  BY <1>1, SameCrossings
<1>5. QED
  BY <1>1, <1>2, <1>3, <1>4 DEF EndInv

(* The facts are emitted, by either tool.                                  *)
LEMMA EndEmitted ==
  ASSUME EarnedInv, EmitFacts \/ WriteFactsOnly
  PROVE  EndInv'
<1>1. /\ stage = "scanned" /\ stage' = "exit"
      /\ status' = StatusOf(FALSE)
      /\ UNCHANGED <<records, delivered, root, roots, parseFailures, valid,
                     arguments, factsOnly>>
      /\ arguments.emit \/ factsOnly
  BY DEF EmitFacts, WriteFactsOnly, Scanned, modelVars, observerVars,
         inventoryVars, argumentVars, judgeVars
<1>2. valid /\ arguments.emit
  BY <1>1 DEF EarnedInv, LineInv, MainInv, ErrorsEnd
<1>3. delivered = Len(records) /\ (factsOnly \/ root = Len(roots))
  BY <1>1 DEF EarnedInv, DeliveredInv, RootsInv, Passed, Sourced
<1>4. parseFailures > 0 => status' = ExitTrouble
  BY <1>1 DEF StatusOf
<1>5. QED
  BY <1>1, <1>2, <1>3, <1>4 DEF EndInv, AuditMode

(* The audit is written.                                                   *)
LEMMA EndAudited ==
  ASSUME EarnedInv, WriteAudit
  PROVE  EndInv'
<1>1. /\ stage = "report" /\ stage' = "exit"
      /\ UNCHANGED <<facts, parseFailures, inventory, findings, records,
                     delivered, root, roots, valid, factsOnly, arguments, next>>
      /\ status' = StatusOf(Found)
      /\ \/ outcome' = ReportOutcome /\ err' = err
         \/ err' = TRUE /\ Cut("stdout")
  BY DEF WriteAudit, modelVars, observerVars, inventoryVars, argumentVars,
         judgeVars, Found
<1>2. /\ delivered = Len(records) /\ (factsOnly \/ root = Len(roots))
      /\ next = Len(facts) + 1
      /\ \A i \in 1 .. next - 1 : Judgement!Crosses(i) => IsReported(facts[i])
  BY <1>1 DEF EarnedInv, DeliveredInv, RootsInv, JudgedInv, Passed, Sourced,
              Judging
<1>3. facts \in Seq(Fact) /\ output["stdout"] = "untouched"
  BY <1>1 DEF EarnedInv, MainInv, FactsInv, OutputsInv
<1>4. CASE err' = TRUE /\ Cut("stdout")
  <2>1. output'["stdout"] # "whole"
    BY <1>3, <1>4, FileNaming DEF Cut, EarnedInv, MainInv, MainTypeOK
  <2>2. QED
    BY <1>1, <1>4, <2>1, EndFailed
<1>5. CASE outcome' = ReportOutcome /\ err' = err
  <2>1. /\ ReportOutcome' = ReportOutcome /\ Found' = Found
        /\ \A i : IsReported(facts[i])' = IsReported(facts[i])
    BY <1>1 DEF ReportOutcome, Found, Counts, IsReported, Judgement!Reported
  <2>2. \A i : Judgement!Crosses(i)' <=> Judgement!Crosses(i)
    BY <1>1, SameCrossings
  <2>3. \A i \in DOMAIN facts :
          Judgement!Crosses(i) => IsReported(facts[i])
    BY <1>2, <1>3
  <2>4. ~err
    BY <1>1 DEF EarnedInv, MainInv, ErrorsEnd
  <2>5. status' = IF parseFailures > 0 THEN ExitTrouble
                  ELSE IF Found THEN ExitFindings ELSE Success
    BY <1>1, <1>5, <2>4 DEF StatusOf
  <2>6. QED
    BY <1>1, <1>2, <1>5, <2>1, <2>2, <2>3, <2>4, <2>5 DEF EndInv
<1>6. QED
  BY <1>1, <1>4, <1>5

LEMMA EndStep ==
  ASSUME EarnedInv, [Next]_vars
  PROVE  EndInv'
<1> USE DEF EarnedInv
<1>1. CASE ParseArguments
  BY <1>1, EndLater DEF ParseArguments, ParseOption
<1>2. CASE EndArguments
  <2>1. \/ valid' /\ ~err' /\ stage' \in {"loaded", "manifests"}
        \/ ~valid' /\ stage' = "exit"
    BY <1>2, LineEnded DEF EndArguments, MainInv
  <2>2. QED
    BY <2>1 DEF EndInv, AuditMode
<1>3. CASE LoadInventory \/ ScanSources \/ JudgeFacts
  <2>1. stage \in Loading => err = FALSE
    BY DEF MainInv, ErrorsEnd, MainTypeOK, Loading
  <2>2. /\ stage \in Loading \cup Scanning \cup {"judge", "rules"}
        /\ \/ stage' \notin {"exit", "ended"}
           \/ stage' = "exit" /\ err' = TRUE
    BY <1>3, <2>1, LoadControl, ScanControl, JudgeControl
    DEF LoadInventory, ScanSources, JudgeFacts, Loading, Scanning, Judging
  <2>3. output' = output /\ output["stdout"] = "untouched"
    BY <1>3, <2>2 DEF LoadInventory, ScanSources, JudgeFacts, mainVars, MainInv,
                      OutputsInv, Loading, Scanning
  <2>4. QED
    BY <2>2, <2>3, EndFailed, EndLater
<1>4. CASE ShowInventory
  <2>1. /\ Showing /\ stage' = "exit" /\ UNCHANGED <<arguments, factsOnly>>
    BY <1>4 DEF ShowInventory, argumentVars, judgeVars
  <2>2. QED
    BY <2>1 DEF EndInv, Showing, AuditMode
<1>5. CASE StartSources \/ StartJudgement
  BY <1>5, EndLater DEF StartSources, StartJudgement
<1>6. CASE WriteOutput
  <2>1. PICK o \in FileNames :
          \/ stage' = stage /\ stage = "scanned"
          \/ Cut(o) /\ Fails /\ stage = "scanned"
    BY <1>6, NextOutput, FileNaming DEF WriteOutput, Scanned, Pending
  <2>2. CASE stage' = stage /\ stage = "scanned"
    BY <2>2, EndLater
  <2>3. CASE Cut(o) /\ Fails /\ stage = "scanned"
    <3>1. o # "stdout" /\ o \in Outputs
      BY FileNaming
    <3>2. output'["stdout"] = output["stdout"]
      BY <2>3, <3>1, OutputWritten, FileNaming DEF MainInv
    <3>3. QED
      BY <2>3, <3>2, EndFailed DEF Fails, MainInv, OutputsInv
  <2>4. QED
    BY <2>1, <2>2, <2>3
<1>7. CASE EmitFacts \/ WriteFactsOnly
  BY <1>7, EndEmitted
<1>8. CASE WriteAudit
  BY <1>8, EndAudited
<1>9. CASE Exit \/ UNCHANGED vars
  BY <1>9, EndExit
<1>10. QED
  BY <1>1, <1>2, <1>3, <1>4, <1>5, <1>6, <1>7, <1>8, <1>9
  DEF Next, Main, Ended

LEMMA Earned == EarnedInv => StatusIsEarned
<1> SUFFICES ASSUME EarnedInv PROVE StatusIsEarned
  OBVIOUS
<1> USE DEF EarnedInv
<1>1. ASSUME stage = "ended", output["stdout"] = "whole", AuditMode
      PROVE  /\ outcome = "clean"    <=> status = Success
             /\ outcome = "findings" <=> status = ExitFindings
             /\ outcome = "trouble"  <=> status = ExitTrouble
  <2>1. /\ outcome = ReportOutcome
        /\ status = IF parseFailures > 0 THEN ExitTrouble
                    ELSE IF Found THEN ExitFindings ELSE Success
    BY <1>1 DEF EndInv
  <2>2. ReportOutcome = IF parseFailures > 0 THEN "trouble"
                        ELSE IF Found THEN "findings" ELSE "clean"
    BY DEF ReportOutcome, Found
  <2>3. QED
    BY <2>1, <2>2 DEF Success, ExitFindings, ExitTrouble
<1>2. ASSUME stage = "ended", status = Success, valid
      PROVE  ~err
  BY <1>2 DEF EndInv, Success, ExitTrouble
<1>3. ASSUME stage = "ended", status = Success, valid
      PROVE  LineInForce
  <2>1. parsed = Len(argv) /\ argv \in Seq(Option)
    BY <1>3 DEF LineInv, MainInv, MainTypeOK
  <2>2. QED
    BY <1>3, <2>1 DEF LineInv, LineInForce
<1>4. ASSUME stage = "ended", status = Success, valid, ~Showing
      PROVE  /\ delivered = Len(records)
             /\ ~ \E n \in DOMAIN records : records[n].fact.kind = "DIAGNOSTIC"
             /\ factsOnly \/
                  ~ \E r \in DOMAIN roots :
                      \E f \in Seen(roots[r]) : f.kind = "DIAGNOSTIC"
  <2>1. /\ delivered = Len(records) /\ (factsOnly \/ root = Len(roots))
        /\ ~(parseFailures > 0)
    BY <1>2, <1>4 DEF EndInv, Success, ExitTrouble
  <2>2. records \in Seq(Record) /\ roots \in Seq(Root)
    BY DEF MainInv, FactsInv, ObserverTypeOK
  <2>3. ~ \E n \in DOMAIN records : records[n].fact.kind = "DIAGNOSTIC"
    BY <2>1, <2>2 DEF DeliveredInv, Diagnosed
  <2>4. ASSUME ~factsOnly, NEW r \in DOMAIN roots, NEW f \in Seen(roots[r]),
               f.kind = "DIAGNOSTIC"
        PROVE  FALSE
    <3>1. r \in 1 .. root /\ roots[r].records \in Seq(Record)
      <4>1. r \in 1 .. root
        BY <2>1, <2>2, <2>4
      <4>2. roots[r] \in Root
        BY <2>2, <2>4
      <4>3. QED
        BY <4>1, <4>2 DEF Root
    <3>2. PICK n \in DOMAIN roots[r].records : f = roots[r].records[n].fact
      BY <2>4 DEF Seen
    <3>3. Diagnosed(roots[r].records, Len(roots[r].records))
      BY <2>4, <3>1, <3>2 DEF Diagnosed
    <3>4. QED
      BY <2>1, <3>1, <3>3 DEF RootsInv
  <2>5. QED
    BY <2>1, <2>3, <2>4
<1>5. ASSUME stage = "ended", status = Success, valid, AuditMode
      PROVE  /\ next = Len(facts) + 1
             /\ \A i \in DOMAIN facts : Judgement!Crosses(i) =>
                  \E n \in DOMAIN findings :
                    /\ ~Counts(findings[n].kind)
                    /\ Judgement!Reported(facts[i], n)
  <2>1. /\ next = Len(facts) + 1
        /\ \A i \in DOMAIN facts : Judgement!Crosses(i) => IsReported(facts[i])
        /\ status = IF parseFailures > 0 THEN ExitTrouble
                    ELSE IF Found THEN ExitFindings ELSE Success
    BY <1>2, <1>5 DEF EndInv
  <2>2. ~Found
    BY <1>5, <2>1 DEF Success, ExitFindings, ExitTrouble
  <2>3. QED
    BY <2>1, <2>2 DEF Found, IsReported
<1>6. QED
  BY <1>1, <1>3, <1>4, <1>5 DEF StatusIsEarned

(* Status 0 is earned, and the report says what the status says: every     *)
(* option of the line is in force, everything was delivered without a      *)
(* diagnostic, and every crossing call has been judged and reported as a   *)
(* note that does not count.                                               *)
THEOREM StatusEarned == Spec => []StatusIsEarned
<1>1. Init => EarnedInv
  <2> SUFFICES ASSUME Init PROVE EarnedInv
    OBVIOUS
  <2>1. MainInv
    BY MainStart
  <2>2. LineInv
    <3>1. /\ [t \in Tables |-> 0] \in [Tables -> Nat]
          /\ <<>> \in Seq(Texts \ {""}) /\ <<>> \in Seq(Judgement!Rule)
      OBVIOUS
    <3>2. arguments \in Arguments
      BY <3>1 DEF Init, ArgumentsInit, Arguments
    <3>3. QED
      BY <3>2 DEF Init, ArgumentsInit, LineInv
  <2>3. DeliveredInv /\ RootsInv /\ EndInv
    BY DEF Init, ArgumentsInit, DeliveredInv, RootsInv, EndInv, Diagnosed,
           InRoot, Passed, Sourced, Scanning, Judging
  <2>4. JudgedInv
    <3>1. findings \in Seq({}) /\ next = 1 /\ Len(facts) = 0
      BY DEF Init, ArgumentsInit
    <3>2. QED
      BY <3>1 DEF Init, JudgedInv, Judging
  <2>5. QED
    BY <2>1, <2>2, <2>3, <2>4 DEF EarnedInv
<1>2. MainInv' /\ EarnedInv /\ [Next]_vars => EarnedInv'
  BY LineStep, DeliveredStep, RootsStep, JudgedStep, EndStep DEF EarnedInv
<1>3. QED
  BY <1>1, <1>2, MainInvariant, Earned, PTL DEF Spec

=============================================================================
